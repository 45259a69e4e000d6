\* Two admin sessions, three registrations over two ports, one client.
\* The API has a port outside the range: what the relay serves presupposes that
\* it could bind (NodeSlotsApiPort shows when it cannot).
SPECIFICATION Spec
CONSTANTS
  ApiPort = 9
  Nodes = {n1, n2, n3}
  PortStart = 1
  PortEnd = 2
  Suffixes = {t1, t2}
  ShortIds = {i1, i2, i3}
  Clients = {u1}
  Sessions = {c1, c2}
\* Keys and short ids are used up in the end and no request is left to serve.
CHECK_DEADLOCK FALSE
SYMMETRY MCSymmetry
INVARIANTS TypeOK SlotsDistinct NeverWrongExit CurrentRelayServesLive
