\* Three accounts over the configured address and another one, two requests.
SPECIFICATION Spec
CONSTANTS
  Ids = {u1, u2, u3}
  Emails = {root, mail}
  AdminEmail = root
  Requests = {q1, q2}
  Unborn = Unborn
  Gone = Gone
\* A panel that is down and has no id left for the seed stays down.
CHECK_DEADLOCK FALSE
SYMMETRY Symmetry
INVARIANTS TypeOK EmailsDistinct
PROPERTIES LastAdminFalls UntouchedStays
