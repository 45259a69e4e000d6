----------------------------- MODULE MCPanelSync -----------------------------
(* Instances of PanelSync for TLC.                                          *)
EXTENDS PanelSync

\* Every subscription belongs to the one user, so that deleting it cascades.
MCOwner == [s \in Subs |-> CHOOSE u \in Users : TRUE]

\* Any session may run any handler.
MCServesAll == [p \in Api |-> {"nodes", "subscriptions", "users"}]

\* One session's requests are about subscriptions, the others' are not.
MCServes ==
  LET one == CHOOSE p \in Api : TRUE
  IN [p \in Api |-> IF p = one THEN {"subscriptions"} ELSE {"nodes", "users"}]
=============================================================================
