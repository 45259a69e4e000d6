\* Two overlapping jobs, one admin, two clients of two bytes each.
SPECIFICATION Spec
CONSTANTS
  Subs = {s1, s2}
  Jobs = {j1, j2}
  Admins = {a1}
  MaxBytes = 2
  MaxFaults = 1
\* The bytes to carry and the rows run out.
CHECK_DEADLOCK FALSE
SYMMETRY MCSymmetry
INVARIANTS TypeOK UsedWithinLog LogWithinCarried LossHasCause TotalMatchesLog
PROPERTY KeepsBooks
