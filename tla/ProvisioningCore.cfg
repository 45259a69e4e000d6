\* Two sessions on two hosts, one of which has its port 443 taken.
SPECIFICATION FairSpec
CONSTANTS
  Sessions = {p1, p2}
  Hosts = {h1, h2}
  Busy = {h2}
\* Sessions are served once and rows are deleted in the end.
CHECK_DEADLOCK FALSE
INVARIANTS TypeOK RegisteredHostAccepts
PROPERTY SessionEnds
