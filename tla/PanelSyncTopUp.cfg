\* An admin tops up a lapsed subscription; the billing job keeps running.
SPECIFICATION FairSpec
CONSTANTS
  ApiPort = api
  Subs = {s1}
  Nodes = {}
  Users = {u1}
  Owner <- MCOwner
  Settings = {x1}
  Lapses = {"over_limit"}
  Api = {a1}
  Serves <- MCServesAll
  Worker = {w1}
  MaxFaults = 0
CHECK_DEADLOCK FALSE
PROPERTY ReEvaluated
