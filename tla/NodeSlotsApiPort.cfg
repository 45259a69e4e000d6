\* The defaults from the 84th port of the range on: the API's port follows.
SPECIFICATION Spec
CONSTANTS
  ApiPort = 10085
  Nodes = {n1, n2}
  PortStart = 10084
  PortEnd = 10086
  Suffixes = {t1, t2}
  ShortIds = {i1, i2}
  Clients = {u1}
  Sessions = {c1}
CHECK_DEADLOCK FALSE
INVARIANT ListenPortsDistinct
