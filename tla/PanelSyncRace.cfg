\* Two sessions rebuild side by side and none is cut short.
SPECIFICATION Spec
CONSTANTS
  ApiPort = api
  Subs = {s1}
  Nodes = {n1}
  Users = {u1}
  Owner <- MCOwner
  Settings = {x1}
  Lapses = {"over_limit"}
  Api = {a1, a2}
  Serves <- MCServesAll
  Worker = {}
  MaxFaults = 0
CHECK_DEADLOCK FALSE
INVARIANT InSyncWhenIdle
