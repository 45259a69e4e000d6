\* An admin at work on the subscription, another on its user and the node, and the
\* billing job, one session cut short; no symmetry, which liveness does not allow.
SPECIFICATION FairSpec
CONSTANTS
  ApiPort = api
  Subs = {s1}
  Nodes = {n1}
  Users = {u1}
  Owner <- MCOwner
  Settings = {x1}
  Lapses = {"over_limit"}
  Api = {a1, a2}
  Serves <- MCServes
  Worker = {w1}
  MaxFaults = 1
\* With every row inserted and deleted again no request is left to serve.
CHECK_DEADLOCK FALSE
INVARIANTS TypeOK DivergenceHasCause
PROPERTIES RebuildRepairs MarksAreDue LapsedIsMarked
