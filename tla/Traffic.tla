------------------------------- MODULE Traffic -------------------------------
(***************************************************************************)
(* Traffic accounting.  XRay counts the bytes of each client; the          *)
(* collector job fetches and zeroes all counters in one call, loads the    *)
(* rows of the clients it heard of, adds the deltas to                     *)
(* traffic_used_bytes, appends a traffic_log row for each and commits.     *)
(* The addition is done in Python, so the UPDATE writes an absolute value. *)
(* Meanwhile a second firing of the cron, an admin who resets or deletes a *)
(* subscription, and restarts of XRay (every rewrite of its configuration  *)
(* causes one, and empties its counters) go their own way.                 *)
(***************************************************************************)
EXTENDS Naturals, FiniteSetsExt

CONSTANTS
  Subs,
  Jobs,      \* firings of collect_traffic_task that can overlap
  Admins,    \* requests to edit_subscription_submit with reset_traffic
  MaxBytes,  \* bytes each client carries at most
  MaxFaults  \* restarts of XRay, failed queries, jobs cut short

ASSUME TrafficAssumption == MaxBytes \in Nat /\ MaxFaults \in Nat

\* A worker runs a bounded number of jobs at a time.
ASSUME JobsAssumption == IsFiniteSet(Jobs)

VARIABLES
  counter,   \* XRay's counter of each client
  rows,      \* the subscriptions that exist
  used,      \* traffic_used_bytes
  job,       \* where each job stands
  delta,     \* what its query returned
  loaded,    \* the rows it loaded
  seen,      \* traffic_used_bytes as loaded
  resetting, \* what each admin request is about to reset: at most one row
  base,      \* traffic_used_bytes as that request loaded it
  faults,
  carried,   \* history: all bytes a client carried
  logged,    \* history: all bytes ever booked in traffic_log
  since,     \* history: the part of them booked since the last reset
  lost,      \* history: subscriptions some bytes of which vanished
  raced      \* history: subscriptions written from an outdated value

db      == <<rows, used>>
history == <<carried, logged, since, lost, raced>>
vars == <<counter, db, job, delta, loaded, seen, resetting, base, faults, history>>

Zero == [s \in Subs |-> 0]

Init ==
  /\ counter = Zero /\ rows = Subs /\ used = Zero
  /\ job = [j \in Jobs |-> "idle"]
  /\ delta = [j \in Jobs |-> Zero]
  /\ loaded = [j \in Jobs |-> {}]
  /\ seen = [j \in Jobs |-> Zero]
  /\ resetting = [a \in Admins |-> {}]
  /\ base = [a \in Admins |-> 0]
  /\ faults = 0
  /\ carried = Zero /\ logged = Zero /\ since = Zero
  /\ lost = {} /\ raced = {}

-----------------------------------------------------------------------------
(* XRay.                                                                    *)

Carry(s) ==
  /\ carried[s] < MaxBytes
  /\ counter' = [counter EXCEPT ![s] = @ + 1]
  /\ carried' = [carried EXCEPT ![s] = @ + 1]
  /\ UNCHANGED <<db, job, delta, loaded, seen, resetting, base, faults,
                 logged, since, lost, raced>>

\* Mutant: off by one, a client with a single byte is skipped.
CountedAboveOne(f) == {s \in Subs : f[s] > 1}

Counted(f) == {s \in Subs : f[s] > 0}

\* The counters live in XRay's memory.
RestartXray ==
  /\ faults < MaxFaults /\ faults' = faults + 1
  /\ lost' = lost \cup Counted(counter)
  /\ counter' = Zero
  /\ UNCHANGED <<db, job, delta, loaded, seen, resetting, base, carried, logged, since, raced>>

-----------------------------------------------------------------------------
(* collect_traffic.                                                         *)

EndJob(j) ==
  /\ job' = [job EXCEPT ![j] = "idle"]
  /\ delta' = [delta EXCEPT ![j] = Zero]
  /\ loaded' = [loaded EXCEPT ![j] = {}]
  /\ seen' = [seen EXCEPT ![j] = Zero]

\* Mutant: statsquery without --reset.
QueryKeeps(j) ==
  /\ job[j] = "idle"
  /\ Counted(counter) # {}
  /\ delta' = [delta EXCEPT ![j] = counter]
  /\ job' = [job EXCEPT ![j] = "queried"]
  /\ UNCHANGED <<counter, db, loaded, seen, resetting, base, faults, history>>

\* statsquery --reset.  Without a counter the job returns at once.
Query(j) ==
  /\ job[j] = "idle"
  /\ Counted(counter) # {}
  /\ delta' = [delta EXCEPT ![j] = counter]
  /\ counter' = Zero
  /\ job' = [job EXCEPT ![j] = "queried"]
  /\ UNCHANGED <<db, loaded, seen, resetting, base, faults, history>>

\* XRay has zeroed the counters, but the command fails or its answer is cut.
QueryFails(j) ==
  /\ job[j] = "idle"
  /\ faults < MaxFaults /\ faults' = faults + 1
  /\ lost' = lost \cup Counted(counter)
  /\ counter' = Zero
  /\ UNCHANGED <<db, job, delta, loaded, seen, resetting, base, carried, logged, since, raced>>

\* Bytes of a client whose row is gone are dropped.
LoadRows(j) ==
  /\ job[j] = "queried"
  /\ loaded' = [loaded EXCEPT ![j] = Counted(delta[j]) \cap rows]
  /\ seen' = [seen EXCEPT ![j] = used]
  /\ lost' = lost \cup (Counted(delta[j]) \ rows)
  /\ delta' = [delta EXCEPT ![j] = [s \in Subs |-> IF s \in rows THEN @[s] ELSE 0]]
  /\ job' = [job EXCEPT ![j] = "loaded"]
  /\ UNCHANGED <<counter, db, resetting, base, faults, carried, logged, since, raced>>

\* Mutants: subtracted; one direction added twice; assigned instead of added.
NewUsedMinus(j, s)  == seen[j][s] - delta[j][s]
NewUsedTwice(j, s)  == seen[j][s] + 2 * delta[j][s]
NewUsedAssign(j, s) == delta[j][s]

\* traffic_used_bytes as the job writes it.
NewUsed(j, s) == seen[j][s] + delta[j][s]

CommitJob(j) ==
  /\ job[j] = "loaded"
  /\ loaded[j] \subseteq rows
  /\ used' = [s \in Subs |-> IF s \in loaded[j] THEN NewUsed(j, s) ELSE used[s]]
  /\ logged' = [s \in Subs |-> IF s \in loaded[j] THEN logged[s] + delta[j][s] ELSE logged[s]]
  /\ since' = [s \in Subs |-> IF s \in loaded[j] THEN since[s] + delta[j][s] ELSE since[s]]
  /\ raced' = raced \cup {s \in loaded[j] : seen[j][s] # used[s]}
  /\ EndJob(j)
  /\ UNCHANGED <<counter, rows, resetting, base, faults, carried, lost>>

\* One row has been deleted since: its UPDATE matches nothing, the flush
\* raises and the deltas of all the others go with it.
CommitFails(j) ==
  /\ job[j] = "loaded"
  /\ ~(loaded[j] \subseteq rows)
  /\ lost' = lost \cup Counted(delta[j])
  /\ EndJob(j)
  /\ UNCHANGED <<counter, db, resetting, base, faults, carried, logged, since, raced>>

\* Worker stopped, job timeout, database unreachable.
AbortJob(j) ==
  /\ job[j] # "idle"
  /\ faults < MaxFaults /\ faults' = faults + 1
  /\ lost' = lost \cup Counted(delta[j])
  /\ EndJob(j)
  /\ UNCHANGED <<counter, db, resetting, base, carried, logged, since, raced>>

-----------------------------------------------------------------------------
(* Admins.                                                                  *)

LoadReset(a, s) ==
  /\ resetting[a] = {} /\ s \in rows
  /\ resetting' = [resetting EXCEPT ![a] = {s}]
  /\ base' = [base EXCEPT ![a] = used[s]]
  /\ UNCHANGED <<counter, db, job, delta, loaded, seen, faults, history>>

EndReset(a) ==
  /\ resetting' = [resetting EXCEPT ![a] = {}]
  /\ base' = [base EXCEPT ![a] = 0]

\* Assigning 0 to a column loaded as 0 is no change and writes nothing.
CommitReset(a, s) ==
  /\ s \in resetting[a] /\ s \in rows
  /\ since' = [since EXCEPT ![s] = 0]
  /\ IF base[a] = 0
       THEN used' = used /\ raced' = (IF used[s] = 0 THEN raced ELSE raced \cup {s})
       ELSE used' = [used EXCEPT ![s] = 0] /\ raced' = raced \ {s}
  /\ EndReset(a)
  /\ UNCHANGED <<counter, rows, job, delta, loaded, seen, faults, carried, logged, lost>>

ResetFails(a, s) ==
  /\ s \in resetting[a] /\ s \notin rows
  /\ EndReset(a)
  /\ UNCHANGED <<counter, db, job, delta, loaded, seen, faults, history>>

Delete(s) ==
  /\ s \in rows
  /\ rows' = rows \ {s}
  /\ UNCHANGED <<counter, used, job, delta, loaded, seen, resetting, base, faults, history>>

Next ==
  \/ \E s \in Subs : Carry(s) \/ Delete(s)
  \/ RestartXray
  \/ \E j \in Jobs : Query(j) \/ QueryFails(j) \/ LoadRows(j) \/ CommitJob(j)
                     \/ CommitFails(j) \/ AbortJob(j)
  \/ \E a \in Admins, s \in Subs : LoadReset(a, s) \/ CommitReset(a, s) \/ ResetFails(a, s)

Spec == Init /\ [][Next]_vars
-----------------------------------------------------------------------------

PerSub == [Subs -> Nat]

\* Byte counts are naturals, jobs and requests hold rows of the table.
TypeOK ==
  /\ counter \in PerSub /\ used \in PerSub
  /\ rows \subseteq Subs
  /\ job \in [Jobs -> {"idle", "queried", "loaded"}]
  /\ delta \in [Jobs -> PerSub] /\ seen \in [Jobs -> PerSub]
  /\ loaded \in [Jobs -> SUBSET Subs]
  /\ resetting \in [Admins -> SUBSET Subs]
  /\ base \in [Admins -> Nat]
  /\ faults \in 0..MaxFaults
  /\ carried \in PerSub /\ logged \in PerSub /\ since \in PerSub
  /\ lost \subseteq Subs /\ raced \subseteq Subs

InFlight(s) == SumFunction([j \in Jobs |-> delta[j][s]])

\* Docstring of the collector: overlapping firings never double-count.  The
\* running total never exceeds what was logged, whoever writes it when.
UsedWithinLog == \A s \in Subs : used[s] <= logged[s]

\* No byte is ever logged, in flight and counted twice.
LogWithinCarried == \A s \in Subs : counter[s] + InFlight(s) + logged[s] <= carried[s]

\* A byte disappears from the books only through a restart of XRay, a failed
\* query, a job cut short, or a job that meets a deleted row.
LossHasCause ==
  \A s \in Subs \ lost : counter[s] + InFlight(s) + logged[s] = carried[s]

\* The running total departs from the log only where a job or a reset wrote
\* from a value that had changed since it was loaded; a reset that writes
\* heals it.
TotalMatchesLog == \A s \in rows \ raced : used[s] = since[s]

Ledger == INSTANCE Ledger WITH pending <- [s \in Subs |-> counter[s] + InFlight(s)]

\* Jobs that overlap, fail and die, a counter that is fetched and zeroed, and
\* rows that come late keep the books: each byte is logged at most once, in one
\* commit with all the others of its job, or dropped with a mark.
KeepsBooks == Ledger!Spec
=============================================================================
