\* Contents of every kind, up to four faults, under fairness.
SPECIFICATION FairSpec
CONSTANTS
  Configs = {g1, g2, bad, clash}
  Invalid = {bad}
  Clashing = {clash}
  FirstConfig = g1
  Burst = 5
  MaxFaults = 4
INVARIANTS TypeOK StaleHasCause
PROPERTY NoticedIsLoaded
