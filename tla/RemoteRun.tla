------------------------------- MODULE RemoteRun -------------------------------
(***************************************************************************)
(* What provision_node promises to the two handlers that consume it: the    *)
(* lines of each stream in their order, and one outcome.  A result means    *)
(* that the script has exited with code 0 and that every line it wrote has  *)
(* been shown, so that the last stdout line is the script's own.            *)
(***************************************************************************)
EXTENDS Naturals

CONSTANT MaxLines  \* lines of one stream, a bound

Tags == {"out", "err"}

VARIABLES
  written,  \* lines the script has written to each stream
  fate,     \* how its run ended, as the SSH channel tells it
  shown,    \* lines of each stream that have been shown
  outcome   \* what the consumer was given in the end, "left" if it left

vars == <<written, fate, shown, outcome>>

Fates    == {"running", "exited", "died", "lost"}
Outcomes == {"none", "result", "error", "left"}

Init ==
  /\ written = [t \in Tags |-> 0]
  /\ fate = "running"
  /\ shown = [t \in Tags |-> 0]
  /\ outcome = "none"

Write(t) ==
  /\ fate = "running" /\ written[t] < MaxLines
  /\ written' = [written EXCEPT ![t] = @ + 1]
  /\ UNCHANGED <<fate, shown, outcome>>

\* Exit code 0 is reached behind the printf of the result only: set -e.
Exit ==
  /\ fate = "running" /\ written["out"] < MaxLines
  /\ written' = [written EXCEPT !["out"] = @ + 1]
  /\ fate' = "exited"
  /\ UNCHANGED <<shown, outcome>>

\* Another exit code, or the connection ends before any code has come.
Fail(how) ==
  /\ fate = "running" /\ how \in {"died", "lost"}
  /\ fate' = how
  /\ UNCHANGED <<written, shown, outcome>>

Show(t) ==
  /\ outcome = "none" /\ shown[t] < written[t]
  /\ shown' = [shown EXCEPT ![t] = @ + 1]
  /\ UNCHANGED <<written, fate, outcome>>

Finish ==
  /\ outcome = "none" /\ fate # "running"
  /\ fate # "lost" => shown = written
  /\ outcome' = IF fate = "exited" THEN "result" ELSE "error"
  /\ UNCHANGED <<written, fate, shown>>

\* The consumer goes, and the connection with it.
Leave ==
  /\ outcome = "none"
  /\ outcome' = "left"
  /\ fate' = IF fate = "running" THEN "lost" ELSE fate
  /\ UNCHANGED <<written, shown>>

Next ==
  \/ \E t \in Tags : Write(t) \/ Show(t)
  \/ Exit \/ (\E how \in {"died", "lost"} : Fail(how))
  \/ Finish \/ Leave

Spec == Init /\ [][Next]_vars
=============================================================================
