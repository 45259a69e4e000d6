\* Up to three lines per stream, the result among them.
SPECIFICATION FairSpec
CONSTANT MaxLines = 3
\* The run is served once.
CHECK_DEADLOCK FALSE
INVARIANT TypeOK
PROPERTIES KeepsPromise OutcomeComes TasksEnd
