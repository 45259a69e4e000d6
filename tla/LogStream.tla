------------------------------- MODULE LogStream -------------------------------
(***************************************************************************)
(* How provision_node reads a running script.  Two tasks drain stdout and   *)
(* stderr into one unbounded queue and put an end marker in their finally;  *)
(* the generator takes items from the queue, yields the lines and counts    *)
(* the markers; after the second one it waits for the exit code and looks   *)
(* at the last stdout line.  The consumer may leave at any await.           *)
(*                                                                         *)
(* A line is its number in its stream, and the last stdout line of a script *)
(* that exits with code 0 is the result.  The SSH channel keeps the order   *)
(* of each stream and hands over the exit code behind all of the data; a    *)
(* lost connection loses what is on its way.  This is the detail behind     *)
(* ReadResult and ReadError of Provisioning, for one session.               *)
(***************************************************************************)
EXTENDS Naturals, Sequences

CONSTANT MaxLines  \* lines of one stream, a bound

ASSUME StreamAssumption == MaxLines \in Nat

Tags == {"out", "err"}

VARIABLES
  written,  \* lines the script has written to each stream
  fate,     \* how its run ended, as the SSH channel tells it
  drained,  \* lines each task has put on the queue
  open,     \* the tasks that still read
  queue,    \* asyncio.Queue of _merge_streams
  closed,   \* end markers the generator has met
  shown,    \* lines of each stream it has yielded
  last,     \* last_stdout_line, 0 for None
  gen       \* where the generator stands

vars == <<written, fate, drained, open, queue, closed, shown, last, gen>>

Line(t, n) == [tag |-> t, n |-> n]
EndMark == [tag |-> "end", n |-> 0]

Init ==
  /\ written = [t \in Tags |-> 0]
  /\ fate = "running"
  /\ drained = [t \in Tags |-> 0]
  /\ open = Tags
  /\ queue = <<>>
  /\ closed = 0
  /\ shown = [t \in Tags |-> 0]
  /\ last = 0
  /\ gen = "merging"

-----------------------------------------------------------------------------
(* The script and the channel.                                              *)

Write(t) ==
  /\ fate = "running" /\ written[t] < MaxLines
  /\ written' = [written EXCEPT ![t] = @ + 1]
  /\ UNCHANGED <<fate, drained, open, queue, closed, shown, last, gen>>

\* The result is printed last, and under set -e code 0 says it was printed.
Exit ==
  /\ fate = "running" /\ written["out"] < MaxLines
  /\ written' = [written EXCEPT !["out"] = @ + 1]
  /\ fate' = "exited"
  /\ UNCHANGED <<drained, open, queue, closed, shown, last, gen>>

Fail(how) ==
  /\ fate = "running"
  /\ fate' = how
  /\ UNCHANGED <<written, drained, open, queue, closed, shown, last, gen>>

-----------------------------------------------------------------------------
(* The draining tasks.  A put on an unbounded queue does not wait.          *)

\* Mutant: a task that does not see the end of its stream.
DrainLineAhead(t) ==
  /\ t \in open /\ drained[t] <= written[t]
  /\ drained' = [drained EXCEPT ![t] = @ + 1]
  /\ queue' = Append(queue, Line(t, drained[t] + 1))
  /\ UNCHANGED <<written, fate, open, closed, shown, last, gen>>

DrainLine(t) ==
  /\ t \in open /\ drained[t] < written[t]
  /\ drained' = [drained EXCEPT ![t] = @ + 1]
  /\ queue' = Append(queue, Line(t, drained[t] + 1))
  /\ UNCHANGED <<written, fate, open, closed, shown, last, gen>>

\* At the end of its stream, or when the lost connection raises in its loop.
AtEnd(t) == t \in open /\ fate # "running" /\ (fate = "lost" \/ drained[t] = written[t])

\* Mutant: the end marker is put behind the loop, not in a finally.
DrainEndsPlain(t) ==
  /\ AtEnd(t)
  /\ open' = open \ {t}
  /\ queue' = IF fate = "lost" THEN queue ELSE Append(queue, EndMark)
  /\ UNCHANGED <<written, fate, drained, closed, shown, last, gen>>

\* Mutant: a task whose consumer has gone keeps waiting for its stream.
DrainEndsRead(t) ==
  /\ AtEnd(t) /\ gen # "left"
  /\ open' = open \ {t}
  /\ queue' = Append(queue, EndMark)
  /\ UNCHANGED <<written, fate, drained, closed, shown, last, gen>>

DrainEnds(t) ==
  /\ AtEnd(t)
  /\ open' = open \ {t}
  /\ queue' = Append(queue, EndMark)
  /\ UNCHANGED <<written, fate, drained, closed, shown, last, gen>>

-----------------------------------------------------------------------------
(* The generator.                                                           *)

\* Mutant: every line is kept as the last one, stderr's too.
YieldAnyLast ==
  /\ gen = "merging" /\ queue # <<>> /\ Head(queue) # EndMark
  /\ shown' = [shown EXCEPT ![Head(queue).tag] = @ + 1]
  /\ last' = Head(queue).n
  /\ queue' = Tail(queue)
  /\ UNCHANGED <<written, fate, drained, open, closed, gen>>

YieldLine ==
  /\ gen = "merging" /\ queue # <<>> /\ Head(queue) # EndMark
  /\ shown' = [shown EXCEPT ![Head(queue).tag] = @ + 1]
  /\ last' = IF Head(queue).tag = "out" THEN Head(queue).n ELSE last
  /\ queue' = Tail(queue)
  /\ UNCHANGED <<written, fate, drained, open, closed, gen>>

\* Mutant: the first end marker ends the loop.
MeetMarkOnce ==
  /\ gen = "merging" /\ queue # <<>> /\ Head(queue) = EndMark
  /\ closed' = closed + 1
  /\ gen' = "waiting"
  /\ queue' = Tail(queue)
  /\ UNCHANGED <<written, fate, drained, open, shown, last>>

MeetMark ==
  /\ gen = "merging" /\ queue # <<>> /\ Head(queue) = EndMark
  /\ closed' = closed + 1
  /\ gen' = IF closed + 1 < 2 THEN "merging" ELSE "waiting"
  /\ queue' = Tail(queue)
  /\ UNCHANGED <<written, fate, drained, open, shown, last>>

\* process.wait, the exit code, None for a lost connection, then the last line.
GivesResult == fate = "exited" /\ last # 0 /\ last = written["out"]

Judge ==
  /\ gen = "waiting" /\ fate # "running"
  /\ gen' = IF GivesResult THEN "result" ELSE "error"
  /\ UNCHANGED <<written, fate, drained, open, queue, closed, shown, last>>

\* The browser goes away: the generator is closed and the connection with it;
\* nobody cancels the tasks.
Leave ==
  /\ gen \in {"merging", "waiting"}
  /\ gen' = "left"
  /\ fate' = IF fate = "running" THEN "lost" ELSE fate
  /\ UNCHANGED <<written, drained, open, queue, closed, shown, last>>

Drain(t) == DrainLine(t) \/ DrainEnds(t)
Generate == YieldLine \/ MeetMark \/ Judge

Next ==
  \/ \E t \in Tags : Write(t) \/ Drain(t)
  \/ Exit \/ (\E how \in {"died", "lost"} : Fail(how))
  \/ Generate \/ Leave

Spec == Init /\ [][Next]_vars

\* The event loop runs each task that can run, and a consumer that stays takes
\* what it is offered.  Nothing is asked of the script.
Fairness == WF_vars(Generate) /\ \A t \in Tags : WF_vars(Drain(t))

FairSpec == Spec /\ Fairness
-----------------------------------------------------------------------------

Items == [tag : Tags, n : 1..MaxLines] \cup {EndMark}

\* The queue holds lines and end markers; the counters stay within the lines
\* there are.
TypeOK ==
  /\ written \in [Tags -> 0..MaxLines]
  /\ fate \in {"running", "exited", "died", "lost"}
  /\ drained \in [Tags -> 0..MaxLines]
  /\ open \subseteq Tags
  /\ queue \in Seq(Items)
  /\ closed \in 0..2
  /\ shown \in [Tags -> 0..MaxLines]
  /\ last \in 0..MaxLines
  /\ gen \in {"merging", "waiting", "result", "error", "left"}

Outcome == IF gen \in {"merging", "waiting"} THEN "none" ELSE gen

Promise == INSTANCE RemoteRun WITH outcome <- Outcome

\* Two tasks, one queue and a count of markers keep the promise of RemoteRun:
\* lines in order, and a result exactly when the script has exited with code 0
\* and all it wrote has been shown.
KeepsPromise == Promise!Spec

\* Once the run is over the consumer that stays is given an outcome, however
\* the two tasks ended: the loop meets both markers.
OutcomeComes == (fate # "running") ~> (gen \notin {"merging", "waiting"})

\* When the consumer leaves, both tasks come to their end although nobody
\* cancels them and nobody reads the queue.
TasksEnd == (gen = "left") ~> (open = {})
=============================================================================
