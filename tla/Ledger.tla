-------------------------------- MODULE Ledger --------------------------------
(***************************************************************************)
(* What the collector promises about bytes ("we never double-count"): each  *)
(* byte that a client carries is pending, and later either booked in        *)
(* traffic_log or dropped; nothing is booked that was not pending, and no   *)
(* drop goes unmarked.  Neither jobs nor counters appear here.              *)
(***************************************************************************)
EXTENDS Naturals

CONSTANT Subs

VARIABLES
  carried,  \* all bytes a client carried
  pending,  \* those of them that are neither booked nor dropped
  logged,   \* those ever booked in traffic_log
  lost      \* subscriptions some bytes of which were dropped

vars == <<carried, pending, logged, lost>>

Books == [Subs -> Nat]

Init ==
  /\ carried = [s \in Subs |-> 0]
  /\ pending = [s \in Subs |-> 0]
  /\ logged = [s \in Subs |-> 0]
  /\ lost = {}

Carry(s) ==
  /\ carried' = [carried EXCEPT ![s] = @ + 1]
  /\ pending' = [pending EXCEPT ![s] = @ + 1]
  /\ UNCHANGED <<logged, lost>>

\* One commit books pending bytes of any number of subscriptions.
Book ==
  /\ pending' \in Books /\ logged' \in Books
  /\ \A s \in Subs : logged[s] <= logged'[s] /\ pending'[s] + logged'[s] = pending[s] + logged[s]
  /\ UNCHANGED <<carried, lost>>

Drop ==
  /\ pending' \in Books
  /\ \A s \in Subs : pending'[s] <= pending[s]
  /\ lost' = lost \cup {s \in Subs : pending'[s] < pending[s]}
  /\ UNCHANGED <<carried, logged>>

Next == (\E s \in Subs : Carry(s)) \/ Book \/ Drop

Spec == Init /\ [][Next]_vars
=============================================================================
