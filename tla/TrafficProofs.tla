---------------------------- MODULE TrafficProofs ----------------------------
(***************************************************************************)
(* Proofs about Traffic for any number of subscriptions, jobs and admins.  *)
(* For UsedWithinLog the invariant must also bound what every job under    *)
(* way has seen: a job writes what it saw plus what it logs.  The bytes in *)
(* flight are a sum over all jobs, so LogWithinCarried and LossHasCause    *)
(* need what a sum does when one summand changes; with it, each step is a  *)
(* step of Ledger, and each of those leaves the books balanced.            *)
(***************************************************************************)
EXTENDS Traffic, FiniteSetTheorems, WellFoundedInduction, TLAPS

\* No job holds a total that exceeds the log.
SeenWithinLog == \A j \in Jobs : \A s \in Subs : seen[j][s] <= logged[s]

IInv == TypeOK /\ UsedWithinLog /\ SeenWithinLog

\* The books are empty and nobody is at work.
LEMMA InitHolds == Init => IInv
BY TrafficAssumption DEF Init, IInv, TypeOK, PerSub, Zero, UsedWithinLog, SeenWithinLog

\* Each variable keeps its type.
LEMMA TypeStep == IInv /\ [Next]_vars => TypeOK'
<1> SUFFICES ASSUME IInv, [Next]_vars PROVE TypeOK'
  OBVIOUS
<1> USE TrafficAssumption DEF IInv, TypeOK, PerSub
<1>1. ASSUME NEW s \in Subs, Carry(s) PROVE TypeOK'
  BY <1>1 DEF Carry, db
<1>2. CASE RestartXray
  BY <1>2 DEF RestartXray, db, Zero, Counted
<1>3. ASSUME NEW j \in Jobs, Query(j) PROVE TypeOK'
  BY <1>3 DEF Query, db, history, Zero
<1>4. ASSUME NEW j \in Jobs, QueryFails(j) PROVE TypeOK'
  BY <1>4 DEF QueryFails, db, Zero, Counted
<1>5. ASSUME NEW j \in Jobs, LoadRows(j) PROVE TypeOK'
  BY <1>5 DEF LoadRows, db, Counted
<1>6. ASSUME NEW j \in Jobs, CommitJob(j) PROVE TypeOK'
  <2>1. used' \in PerSub /\ logged' \in PerSub /\ since' \in PerSub
    BY <1>6 DEF CommitJob, NewUsed
  <2>2. raced' \subseteq Subs
    BY <1>6 DEF CommitJob
  <2> QED BY <1>6, <2>1, <2>2 DEF CommitJob, EndJob, Zero
<1>7. ASSUME NEW j \in Jobs, CommitFails(j) PROVE TypeOK'
  BY <1>7 DEF CommitFails, EndJob, db, Zero, Counted
<1>8. ASSUME NEW j \in Jobs, AbortJob(j) PROVE TypeOK'
  BY <1>8 DEF AbortJob, EndJob, db, Zero, Counted
<1>9. ASSUME NEW a \in Admins, NEW s \in Subs, LoadReset(a, s) PROVE TypeOK'
  BY <1>9 DEF LoadReset, db, history
<1>10. ASSUME NEW a \in Admins, NEW s \in Subs, CommitReset(a, s) PROVE TypeOK'
  BY <1>10 DEF CommitReset, EndReset
<1>11. ASSUME NEW a \in Admins, NEW s \in Subs, ResetFails(a, s) PROVE TypeOK'
  BY <1>11 DEF ResetFails, EndReset, db, history
<1>12. ASSUME NEW s \in Subs, Delete(s) PROVE TypeOK'
  BY <1>12 DEF Delete, history
<1>13. CASE UNCHANGED vars
  BY <1>13 DEF vars, db, history
<1> QED BY <1>1, <1>2, <1>3, <1>4, <1>5, <1>6, <1>7, <1>8, <1>9, <1>10, <1>11, <1>12, <1>13
        DEF Next

\* The totals, committed and held, stay within the log.
LEMMA BoundStep == IInv /\ [Next]_vars => UsedWithinLog' /\ SeenWithinLog'
<1> SUFFICES ASSUME IInv, [Next]_vars PROVE UsedWithinLog' /\ SeenWithinLog'
  OBVIOUS
<1> DEFINE Goal == UsedWithinLog' /\ SeenWithinLog'
<1> USE DEF IInv, UsedWithinLog, SeenWithinLog
<1>1. CASE UNCHANGED <<used, logged, seen>>
  BY <1>1
<1>2. ASSUME NEW j \in Jobs, EndJob(j), UNCHANGED <<used, logged>> PROVE Goal
  BY <1>2 DEF EndJob, TypeOK, PerSub, Zero
<1>3. ASSUME NEW j \in Jobs, LoadRows(j) PROVE Goal
  BY <1>3 DEF LoadRows, db, TypeOK, PerSub
<1>4. ASSUME NEW j \in Jobs, CommitJob(j) PROVE Goal
  <2>1. \A s \in Subs : logged[s] <= logged'[s]
    BY <1>4 DEF CommitJob, TypeOK, PerSub
  <2>2. \A s \in Subs : used'[s] <= logged'[s]
    BY <1>4 DEF CommitJob, NewUsed, TypeOK, PerSub
  <2>3. \A k \in Jobs : \A s \in Subs : seen'[k][s] \in Nat /\ seen'[k][s] <= seen[k][s]
    BY <1>4 DEF CommitJob, EndJob, TypeOK, PerSub, Zero
  <2>4. logged' \in PerSub
    BY <1>4 DEF CommitJob, TypeOK, PerSub
  <2> QED BY <2>1, <2>2, <2>3, <2>4 DEF TypeOK, PerSub
<1>5. ASSUME NEW a \in Admins, NEW s \in Subs, CommitReset(a, s) PROVE Goal
  BY <1>5 DEF CommitReset, TypeOK, PerSub
<1>6. (\E s \in Subs : Carry(s) \/ Delete(s)) \/ RestartXray
        \/ (\E j \in Jobs : Query(j) \/ QueryFails(j))
        \/ (\E a \in Admins, s \in Subs : LoadReset(a, s) \/ ResetFails(a, s))
        \/ UNCHANGED vars
      => UNCHANGED <<used, logged, seen>>
  BY DEF Carry, Delete, RestartXray, Query, QueryFails, LoadReset, ResetFails, vars, db, history
<1>7. ASSUME NEW j \in Jobs, CommitFails(j) \/ AbortJob(j) PROVE Goal
  BY <1>7, <1>2 DEF CommitFails, AbortJob, db
<1> QED BY <1>1, <1>3, <1>4, <1>5, <1>6, <1>7, Zenon DEF Next

-----------------------------------------------------------------------------

\* The inductive invariant holds in every reachable state.
THEOREM Inductive == Spec => []IInv
<1>1. IInv /\ [Next]_vars => IInv'
  BY TypeStep, BoundStep DEF IInv
<1> QED BY InitHolds, <1>1, PTL DEF Spec

\* Byte counts stay naturals, for any number of subscriptions and jobs.
THEOREM TypeCorrect == Spec => []TypeOK
<1>1. IInv => TypeOK
  BY DEF IInv
<1> QED BY <1>1, Inductive, PTL

\* Overlapping firings of the collector never double-count: no running total
\* ever exceeds the sum of its log rows.
THEOREM NeverDoubleCounts == Spec => []UsedWithinLog
<1>1. IInv => UsedWithinLog
  BY DEF IInv
<1> QED BY <1>1, Inductive, PTL

\* A commit from a current value moves total and log alike, one from an outdated
\* value is remembered in raced.
LEMMA TotalStep == TypeOK /\ TotalMatchesLog /\ [Next]_vars => TotalMatchesLog'
<1> SUFFICES ASSUME TypeOK, TotalMatchesLog, [Next]_vars PROVE TotalMatchesLog'
  OBVIOUS
<1> USE DEF TotalMatchesLog
<1>1. CASE UNCHANGED <<used, since, raced>> /\ rows' \subseteq rows
  BY <1>1
<1>2. ASSUME NEW j \in Jobs, CommitJob(j) PROVE TotalMatchesLog'
  <2>1. rows' = rows
    BY <1>2 DEF CommitJob
  <2>2. ASSUME NEW s \in rows \ raced' PROVE used'[s] = since'[s]
    <3>1. s \in Subs /\ s \notin raced /\ (s \in loaded[j] => seen[j][s] = used[s])
      BY <1>2, <2>2 DEF CommitJob, TypeOK
    <3>2. used[s] = since[s]
      BY <2>2, <3>1
    <3> QED BY <1>2, <3>1, <3>2 DEF CommitJob, NewUsed
  <2> QED BY <2>1, <2>2
<1>3. ASSUME NEW a \in Admins, NEW s \in Subs, CommitReset(a, s) PROVE TotalMatchesLog'
  <2>1. rows' = rows /\ rows \subseteq Subs
    BY <1>3 DEF CommitReset, TypeOK
  <2>2. since' = [since EXCEPT ![s] = 0] /\ since \in PerSub /\ used \in PerSub
    BY <1>3 DEF CommitReset, TypeOK
  <2>3. CASE base[a] = 0
    <3>1. used' = used /\ raced' = (IF used[s] = 0 THEN raced ELSE raced \cup {s})
      BY <1>3, <2>3 DEF CommitReset
    <3> QED BY <2>1, <2>2, <3>1 DEF PerSub
  <2>4. CASE base[a] # 0
    <3>1. used' = [used EXCEPT ![s] = 0] /\ raced' = raced \ {s}
      BY <1>3, <2>4 DEF CommitReset
    <3> QED BY <2>1, <2>2, <3>1 DEF PerSub
  <2> QED BY <2>3, <2>4
<1>4. (\E s \in Subs : Carry(s) \/ Delete(s)) \/ RestartXray
        \/ (\E j \in Jobs : Query(j) \/ QueryFails(j) \/ LoadRows(j) \/ CommitFails(j) \/ AbortJob(j))
        \/ (\E a \in Admins, s \in Subs : LoadReset(a, s) \/ ResetFails(a, s))
        \/ UNCHANGED vars
      => UNCHANGED <<used, since, raced>> /\ rows' \subseteq rows
  BY DEF Carry, Delete, RestartXray, Query, QueryFails, LoadRows, CommitFails, AbortJob, LoadReset,
         ResetFails, vars, db, history
<1> QED BY <1>1, <1>2, <1>3, <1>4, Zenon DEF Next

\* The running total departs from the log only through a write from an outdated
\* value, however many jobs and admins there are, and a reset that writes heals it.
THEOREM TotalsExplained == Spec => []TotalMatchesLog
<1>1. Init => TotalMatchesLog
  BY DEF Init, TotalMatchesLog, Zero
<1>2. TypeOK /\ TotalMatchesLog /\ [Next]_vars => TotalMatchesLog'
  BY TotalStep
<1> QED BY <1>1, <1>2, TypeCorrect, PTL DEF Spec

-----------------------------------------------------------------------------
(* Without overlap.  A client that no two sessions have in hand at once is  *)
(* never in raced, so that its total is exact.                              *)

\* At most one job or reset has loaded the row of s and not yet ended.
Unshared(s) ==
  /\ \A j, k \in Jobs : s \in loaded[j] /\ s \in loaded[k] => j = k
  /\ \A a, b \in Admins : s \in resetting[a] /\ s \in resetting[b] => a = b
  /\ \A j \in Jobs, a \in Admins : ~(s \in loaded[j] /\ s \in resetting[a])

\* What that session has loaded is still the row's total.
UpToDate(s) ==
  /\ s \notin raced
  /\ \A j \in Jobs : s \in loaded[j] => seen[j][s] = used[s]
  /\ \A a \in Admins : s \in resetting[a] => base[a] = used[s]

\* Only the session that holds a row writes it, and it lets go of it with that.
LEMMA UpToDateStep ==
  ASSUME NEW s \in Subs, TypeOK, Unshared(s), UpToDate(s), [Next]_vars
  PROVE  UpToDate(s)'
<1> USE DEF UpToDate
<1>1. CASE UNCHANGED <<raced, used, loaded, seen, resetting, base>>
  BY <1>1
<1>2. ASSUME NEW j \in Jobs, EndJob(j), UNCHANGED <<raced, used, resetting, base>>
      PROVE  UpToDate(s)'
  BY <1>2 DEF EndJob, TypeOK
<1>3. ASSUME NEW j \in Jobs, LoadRows(j) PROVE UpToDate(s)'
  BY <1>3 DEF LoadRows, db, TypeOK
<1>4. ASSUME NEW j \in Jobs, CommitJob(j) PROVE UpToDate(s)'
  <2>1. s \notin raced' /\ UNCHANGED <<resetting, base>>
    BY <1>4 DEF CommitJob
  <2>2. s \notin loaded[j] => used'[s] = used[s]
    BY <1>4 DEF CommitJob
  <2>3. /\ s \notin loaded'[j]
        /\ \A k \in Jobs : k # j => loaded'[k] = loaded[k] /\ seen'[k] = seen[k]
    BY <1>4 DEF CommitJob, EndJob, TypeOK
  <2> QED BY <2>1, <2>2, <2>3 DEF Unshared
<1>5. ASSUME NEW a \in Admins, NEW t \in Subs, LoadReset(a, t) PROVE UpToDate(s)'
  BY <1>5 DEF LoadReset, db, history, TypeOK
<1>6. ASSUME NEW a \in Admins, NEW t \in Subs, CommitReset(a, t) PROVE UpToDate(s)'
  <2>1. /\ s \notin raced' /\ UNCHANGED <<loaded, seen>>
        /\ s # t => used'[s] = used[s]
    BY <1>6 DEF CommitReset, TypeOK, PerSub
  <2>2. /\ resetting'[a] = {}
        /\ \A b \in Admins : b # a => resetting'[b] = resetting[b] /\ base'[b] = base[b]
    BY <1>6 DEF CommitReset, EndReset, TypeOK
  <2>3. t \in resetting[a]
    BY <1>6 DEF CommitReset
  <2> QED BY <2>1, <2>2, <2>3 DEF Unshared
<1>7. ASSUME NEW a \in Admins, NEW t \in Subs, ResetFails(a, t) PROVE UpToDate(s)'
  BY <1>7 DEF ResetFails, EndReset, db, history, TypeOK
<1>8. ASSUME NEW j \in Jobs, CommitFails(j) \/ AbortJob(j) PROVE UpToDate(s)'
  BY <1>8, <1>2 DEF CommitFails, AbortJob, db
<1>9. (\E t \in Subs : Carry(t) \/ Delete(t)) \/ RestartXray
        \/ (\E j \in Jobs : Query(j) \/ QueryFails(j)) \/ UNCHANGED vars
      => UNCHANGED <<raced, used, loaded, seen, resetting, base>>
  BY DEF Carry, Delete, RestartXray, Query, QueryFails, vars, db, history
<1> QED BY <1>1, <1>3, <1>4, <1>5, <1>6, <1>7, <1>8, <1>9, Zenon DEF Next

\* While no two sessions have a client's row in hand at once, its total is what
\* was logged since its last reset: wrong totals come from overlap alone, not
\* from failures, restarts or deletions.
THEOREM TotalExactAlone ==
  ASSUME NEW s \in Subs
  PROVE  Spec /\ []Unshared(s) => [](s \in rows => used[s] = since[s])
<1>1. Init => UpToDate(s)
  BY DEF Init, UpToDate
<1>2. TypeOK /\ Unshared(s) /\ UpToDate(s) /\ [Next]_vars => UpToDate(s)'
  BY UpToDateStep
<1>3. UpToDate(s) /\ TotalMatchesLog => (s \in rows => used[s] = since[s])
  BY DEF UpToDate, TotalMatchesLog
<1> QED BY <1>1, <1>2, <1>3, TypeCorrect, TotalsExplained, PTL DEF Spec

-----------------------------------------------------------------------------
(* Sums over jobs.  Induction is over the sets of jobs, by their inclusion: *)
(* were there sets outside G, one of them would be minimal.                 *)

\* The job that a sum over S takes next.
First(S) == CHOOSE j \in S : TRUE

\* The equation of such a sum, for all subsets of S.
SumsUp(f, S, h) ==
  h = [T \in SUBSET S |-> IF T = {} THEN 0 ELSE f[First(T)] + h[T \ {First(T)}]]

\* Induction over the sets of jobs.
LEMMA SubsetInduction ==
  ASSUME NEW G,
         \A S \in SUBSET Jobs : (\A T \in SUBSET S : T # S => T \in G) => S \in G
  PROVE  SUBSET Jobs \subseteq G
<1> SUFFICES ASSUME (SUBSET Jobs) \ G # {} PROVE FALSE
  OBVIOUS
<1> DEFINE R == StrictSubsetOrdering(Jobs)
           Bad == (SUBSET Jobs) \ G
<1>1. IsWellFoundedOn(R, SUBSET Jobs)
  <2>1. IsWellFoundedOn(R, FiniteSubsetsOf(Jobs))
    BY FS_StrictSubsetOrderingWellFounded
  <2>2. FiniteSubsetsOf(Jobs) = SUBSET Jobs
    BY JobsAssumption, FS_FiniteSubsetsOfFinite
  <2> QED BY <2>1, <2>2
<1>2. PICK S \in Bad : \A T \in Bad : ~ (<<T, S>> \in R)
  <2>1. Bad \subseteq SUBSET Jobs /\ Bad # {}
    OBVIOUS
  <2> HIDE DEF R, Bad
  <2> QED BY <1>1, <2>1, WFMin
<1>3. ASSUME NEW T \in SUBSET S, T # S PROVE T \in G
  BY <1>2, <1>3 DEF StrictSubsetOrdering
<1> QED BY <1>2, <1>3

\* Two functions with the same equation are one.
LEMMA SumsUpOnce ==
  ASSUME NEW f, NEW S \in SUBSET Jobs, NEW g, NEW h, SumsUp(f, S, g), SumsUp(f, S, h)
  PROVE  g = h
<1> DEFINE G == {T \in SUBSET Jobs : T \subseteq S => g[T] = h[T]}
<1>1. ASSUME NEW T \in SUBSET Jobs, \A U \in SUBSET T : U # T => U \in G
      PROVE  T \in G
  <2> SUFFICES ASSUME T \subseteq S, T # {} PROVE g[T] = h[T]
    BY DEF SumsUp
  <2>1. First(T) \in T
    BY DEF First
  <2>2. T \ {First(T)} \in G
    BY <1>1, <2>1
  <2> QED BY <2>2 DEF SumsUp
<1>2. SUBSET Jobs \subseteq G
  <2> HIDE DEF G
  <2> QED BY <1>1, SubsetInduction
<1> QED BY <1>2 DEF SumsUp

\* The library's sum is the one of the equation.
LEMMA SumIs ==
  ASSUME NEW f, NEW S
  PROVE  SumFunctionOnSet(f, S) = (CHOOSE h : SumsUp(f, S, h))[S]
BY DEF SumFunctionOnSet, FoldFunctionOnSet, MapThenFoldSet, SumsUp, First

\* The equation has a solution, so that the sum obeys it.
LEMMA SumRecursion ==
  ASSUME NEW f \in [Jobs -> Nat], NEW S \in SUBSET Jobs
  PROVE  /\ SumFunctionOnSet(f, S) \in Nat
         /\ SumFunctionOnSet(f, S) =
              IF S = {} THEN 0 ELSE f[First(S)] + SumFunctionOnSet(f, S \ {First(S)})
<1> DEFINE Sum(T) == SumFunctionOnSet(f, T)
           Good(T) == /\ Sum(T) \in Nat
                      /\ Sum(T) = IF T = {} THEN 0 ELSE f[First(T)] + Sum(T \ {First(T)})
           G == {T \in SUBSET Jobs : Good(T)}
<1>1. ASSUME NEW T \in SUBSET Jobs, \A U \in SUBSET T : U # T => U \in G
      PROVE  T \in G
  <2> DEFINE g == [U \in SUBSET T |-> IF U = {} THEN 0 ELSE f[First(U)] + Sum(U \ {First(U)})]
             h == CHOOSE k : SumsUp(f, T, k)
  <2>1. \A U \in SUBSET T : U # {} => First(U) \in U /\ U \ {First(U)} # T
    BY DEF First
  <2>2. \A U \in SUBSET T : U # T => g[U] = Sum(U)
    BY <1>1
  <2> HIDE DEF Sum
  <2>3. SumsUp(f, T, g)
    BY <2>1, <2>2 DEF SumsUp
  <2> HIDE DEF g
  <2>4. SumsUp(f, T, h)
    BY <2>3
  <2> HIDE DEF h
  <2>5. h = g
    BY <2>3, <2>4, SumsUpOnce
  <2>6. Sum(T) = g[T]
    BY <2>5, SumIs DEF Sum, h
  <2>7. T # {} => f[First(T)] \in Nat /\ Sum(T \ {First(T)}) \in Nat
    BY <1>1, <2>1
  <2> QED BY <2>6, <2>7 DEF g
<1>2. SUBSET Jobs \subseteq G
  <2> HIDE DEF G
  <2> QED BY <1>1, SubsetInduction
<1> QED BY <1>2

\* A sum in which one summand has changed.
LEMMA SumChange ==
  ASSUME NEW f \in [Jobs -> Nat], NEW g \in [Jobs -> Nat], NEW j \in Jobs,
         \A k \in Jobs : k # j => g[k] = f[k]
  PROVE  /\ SumFunction(f) \in Nat /\ SumFunction(g) \in Nat
         /\ SumFunction(g) + f[j] = SumFunction(f) + g[j]
<1> DEFINE F(S) == SumFunctionOnSet(f, S)
           H(S) == SumFunctionOnSet(g, S)
           G == {S \in SUBSET Jobs :
                   IF j \in S THEN H(S) + f[j] = F(S) + g[j] ELSE H(S) = F(S)}
<1>1. \A S \in SUBSET Jobs : F(S) \in Nat /\ H(S) \in Nat
  BY SumRecursion
<1>2. ASSUME NEW S \in SUBSET Jobs, \A T \in SUBSET S : T # S => T \in G
      PROVE  S \in G
  <2>1. CASE S = {}
    BY <2>1, SumRecursion
  <2>2. CASE S # {}
    <3> DEFINE k == First(S)
               T == S \ {k}
    <3>1. k \in S /\ T \in SUBSET S /\ T # S
      BY <2>2 DEF First
    <3>2. T \in G
      BY <1>2, <3>1
    <3>3. F(S) = f[k] + F(T) /\ H(S) = g[k] + H(T)
      BY <2>2, SumRecursion
    <3>4. k \in Jobs /\ f[k] \in Nat /\ g[k] \in Nat /\ f[j] \in Nat /\ g[j] \in Nat
      BY <3>1
    <3>5. F(T) \in Nat /\ H(T) \in Nat
      BY <1>1, <3>1
    <3>6. j \in T <=> j \in S /\ j # k
      OBVIOUS
    <3> HIDE DEF F, H, k, T
    <3> QED BY <3>1, <3>2, <3>3, <3>4, <3>5, <3>6
  <2> QED BY <2>1, <2>2
<1>3. SUBSET Jobs \subseteq G
  <2> HIDE DEF G
  <2> QED BY <1>2, SubsetInduction
<1>4. Jobs \in G
  BY <1>3
<1>5. SumFunction(f) = F(Jobs) /\ SumFunction(g) = H(Jobs)
  BY DEF SumFunction
<1> HIDE DEF F, H
<1> QED BY <1>1, <1>4, <1>5

\* A sum of zeros.
LEMMA SumZero == SumFunction([j \in Jobs |-> 0]) = 0
<1> DEFINE f == [j \in Jobs |-> 0]
           G == {S \in SUBSET Jobs : SumFunctionOnSet(f, S) = 0}
<1>1. ASSUME NEW S \in SUBSET Jobs, \A T \in SUBSET S : T # S => T \in G
      PROVE  S \in G
  <2>1. f \in [Jobs -> Nat]
    OBVIOUS
  <2>2. CASE S = {}
    BY <2>1, <2>2, SumRecursion
  <2>3. CASE S # {}
    <3> DEFINE k == First(S)
               T == S \ {k}
    <3>1. k \in S /\ T \in SUBSET S /\ T # S
      BY <2>3 DEF First
    <3>2. SumFunctionOnSet(f, T) = 0 /\ f[k] = 0
      BY <1>1, <3>1
    <3>3. SumFunctionOnSet(f, S) = f[k] + SumFunctionOnSet(f, T)
      BY <2>1, <2>3, SumRecursion
    <3> QED BY <3>2, <3>3
  <2> QED BY <2>2, <2>3
<1>2. SUBSET Jobs \subseteq G
  <2> HIDE DEF G
  <2> QED BY <1>1, SubsetInduction
<1>3. SumFunctionOnSet(f, Jobs) = 0
  BY <1>2
<1> QED BY <1>3 DEF SumFunction

-----------------------------------------------------------------------------
(* The books.  Traffic implements Ledger, and every step of Ledger keeps    *)
(* the balance of carried, pending and logged bytes.                        *)

Pending == [s \in Subs |-> counter[s] + InFlight(s)]

\* An idle job has nothing in hand; a job about to commit has loaded the rows
\* of exactly the clients it has bytes of.
Holdings ==
  \A j \in Jobs :
    /\ job[j] = "idle" => \A s \in Subs : delta[j][s] = 0
    /\ job[j] = "loaded" => \A s \in Subs : s \in loaded[j] <=> delta[j][s] > 0

\* Query fills the hands of an idle job, LoadRows sorts them, the end of a job
\* empties them.
LEMMA HoldingsStep == TypeOK /\ Holdings /\ [Next]_vars => Holdings'
<1> SUFFICES ASSUME TypeOK, Holdings, [Next]_vars PROVE Holdings'
  OBVIOUS
<1>1. CASE UNCHANGED <<job, delta, loaded>>
  BY <1>1 DEF Holdings
<1>2. ASSUME NEW j \in Jobs, EndJob(j) PROVE Holdings'
  BY <1>2 DEF EndJob, Holdings, TypeOK, PerSub, Zero
<1>3. ASSUME NEW j \in Jobs, Query(j) PROVE Holdings'
  BY <1>3 DEF Query, Holdings, TypeOK, PerSub
<1>4. ASSUME NEW j \in Jobs, LoadRows(j) PROVE Holdings'
  BY <1>4 DEF LoadRows, Counted, Holdings, TypeOK, PerSub
<1>5. (\E s \in Subs : Carry(s) \/ Delete(s)) \/ RestartXray
        \/ (\E j \in Jobs : QueryFails(j))
        \/ (\E a \in Admins, s \in Subs : LoadReset(a, s) \/ CommitReset(a, s) \/ ResetFails(a, s))
        \/ UNCHANGED vars
      => UNCHANGED <<job, delta, loaded>>
  BY DEF Carry, Delete, RestartXray, QueryFails, LoadReset, CommitReset, ResetFails, vars, history
<1>6. ASSUME NEW j \in Jobs, CommitJob(j) \/ CommitFails(j) \/ AbortJob(j) PROVE Holdings'
  BY <1>6, <1>2 DEF CommitJob, CommitFails, AbortJob
<1> QED BY <1>1, <1>3, <1>4, <1>5, <1>6, Zenon DEF Next

\* Bytes in flight when one job's have changed.
LEMMA InFlightChange ==
  ASSUME delta \in [Jobs -> PerSub], delta' \in [Jobs -> PerSub], NEW j \in Jobs,
         \A k \in Jobs : k # j => delta'[k] = delta[k], NEW s \in Subs
  PROVE  /\ InFlight(s) \in Nat /\ InFlight(s)' \in Nat
         /\ InFlight(s)' + delta[j][s] = InFlight(s) + delta'[j][s]
<1> DEFINE f == [k \in Jobs |-> delta[k][s]]
           g == [k \in Jobs |-> delta'[k][s]]
<1>1. f \in [Jobs -> Nat] /\ g \in [Jobs -> Nat] /\ \A k \in Jobs : k # j => g[k] = f[k]
  BY DEF PerSub
<1>2. f[j] = delta[j][s] /\ g[j] = delta'[j][s]
  OBVIOUS
<1>3. InFlight(s) = SumFunction(f) /\ InFlight(s)' = SumFunction(g)
  BY DEF InFlight
<1> HIDE DEF f, g
<1> QED BY <1>1, <1>2, <1>3, SumChange

\* Bytes in flight are a natural number.
LEMMA InFlightType == TypeOK => \A s \in Subs : InFlight(s) \in Nat
<1> SUFFICES ASSUME TypeOK, NEW s \in Subs PROVE InFlight(s) \in Nat
  OBVIOUS
<1>1. CASE Jobs = {}
  BY <1>1, SumZero DEF InFlight
<1>2. CASE Jobs # {}
  <2> DEFINE f == [k \in Jobs |-> delta[k][s]]
  <2>1. f \in [Jobs -> Nat]
    BY DEF TypeOK, PerSub
  <2>2. InFlight(s) = SumFunction(f)
    BY DEF InFlight
  <2> HIDE DEF f
  <2> QED BY <1>2, <2>1, <2>2, SumChange
<1> QED BY <1>1, <1>2

\* A step of the ledger, or none.
LedgerStep == Ledger!Next \/ UNCHANGED <<carried, Pending, logged, lost>>

\* Each action of the jobs books or drops what it takes out of flight, or moves
\* it from the counter into flight.
LEMMA BooksStep == TypeOK /\ TypeOK' /\ Holdings /\ [Next]_vars => LedgerStep
<1> SUFFICES ASSUME TypeOK, TypeOK', Holdings, [Next]_vars PROVE LedgerStep
  OBVIOUS
<1> USE DEF LedgerStep
<1>1. (TypeOK => \A s \in Subs : InFlight(s) \in Nat)'
  BY InFlightType, PTL
<1>2. /\ \A s \in Subs : counter[s] \in Nat /\ InFlight(s) \in Nat
      /\ \A s \in Subs : counter'[s] \in Nat /\ InFlight(s)' \in Nat
  BY <1>1, InFlightType DEF TypeOK, PerSub
<1>3. /\ Pending \in PerSub /\ Pending' \in PerSub
      /\ \A s \in Subs : Pending[s] = counter[s] + InFlight(s)
      /\ \A s \in Subs : Pending'[s] = counter'[s] + InFlight(s)'
  BY <1>2 DEF Pending, PerSub
<1>4. \A s \in Subs : delta' = delta => InFlight(s)' = InFlight(s)
  BY DEF InFlight
<1>5. ASSUME NEW s \in Subs, Carry(s) PROVE LedgerStep
  <2>1. /\ counter' = [counter EXCEPT ![s] = @ + 1] /\ delta' = delta
        /\ UNCHANGED <<logged, lost>> /\ carried' = [carried EXCEPT ![s] = @ + 1]
    BY <1>5 DEF Carry
  <2>2. Pending' = [Pending EXCEPT ![s] = @ + 1]
    <3>1. \A t \in Subs : Pending'[t] = IF t = s THEN Pending[t] + 1 ELSE Pending[t]
      BY <1>2, <1>3, <1>4, <2>1 DEF TypeOK, PerSub
    <3> QED BY <1>3, <3>1 DEF PerSub
  <2>3. Ledger!Carry(s)
    BY <2>1, <2>2 DEF Ledger!Carry, Pending
  <2> QED BY <2>3 DEF Ledger!Next
<1>6. ASSUME counter' = Zero, delta' = delta, lost' = lost \cup Counted(counter),
             UNCHANGED <<carried, logged>>
      PROVE  LedgerStep
  <2>1. \A s \in Subs : Pending'[s] <= Pending[s] /\ (Pending'[s] < Pending[s] <=> counter[s] > 0)
    BY <1>2, <1>3, <1>4, <1>6 DEF Zero
  <2>2. Ledger!Drop
    BY <1>3, <1>6, <2>1 DEF Ledger!Drop, Ledger!Books, Counted, Pending, PerSub
  <2> QED BY <2>2 DEF Ledger!Next
<1>7. ASSUME NEW j \in Jobs, \A k \in Jobs : k # j => delta'[k] = delta[k]
      PROVE  \A s \in Subs : InFlight(s)' + delta[j][s] = InFlight(s) + delta'[j][s]
  BY <1>7, InFlightChange DEF TypeOK
<1>8. \A j \in Jobs : \A s \in Subs : delta[j][s] \in Nat /\ delta'[j][s] \in Nat
  BY DEF TypeOK, PerSub
<1>9. ASSUME NEW j \in Jobs, Query(j) PROVE LedgerStep
  <2>1. /\ delta'[j] = counter /\ \A k \in Jobs : k # j => delta'[k] = delta[k]
        /\ \A s \in Subs : counter'[s] = 0 /\ delta[j][s] = 0
        /\ UNCHANGED <<carried, logged, lost>>
    BY <1>9 DEF Query, TypeOK, Holdings, Zero, history
  <2>2. \A s \in Subs : Pending'[s] = Pending[s]
    BY <1>2, <1>3, <1>7, <2>1
  <2> QED BY <1>3, <2>1, <2>2 DEF PerSub
<1>10. ASSUME NEW j \in Jobs, NEW d, counter' = counter, UNCHANGED <<carried, logged>>,
              \A k \in Jobs : k # j => delta'[k] = delta[k],
              lost' = lost \cup d, d \subseteq Subs,
              \A s \in Subs : delta'[j][s] <= delta[j][s] /\ (s \in d <=> delta'[j][s] < delta[j][s])
       PROVE  LedgerStep
  <2>1. \A s \in Subs : Pending'[s] <= Pending[s] /\ (Pending'[s] < Pending[s] <=> s \in d)
    <3> SUFFICES ASSUME NEW s \in Subs
                 PROVE  Pending'[s] <= Pending[s] /\ (Pending'[s] < Pending[s] <=> s \in d)
      OBVIOUS
    <3>1. InFlight(s)' + delta[j][s] = InFlight(s) + delta'[j][s]
      BY <1>7, <1>10
    <3> QED BY <1>2, <1>3, <1>8, <1>10, <3>1
  <2>2. Ledger!Drop
    BY <1>3, <1>10, <2>1 DEF Ledger!Drop, Ledger!Books, Pending, PerSub
  <2> QED BY <2>2 DEF Ledger!Next
<1>11. ASSUME NEW j \in Jobs, LoadRows(j) PROVE LedgerStep
  <2> DEFINE d == Counted(delta[j]) \ rows
  <2>1. /\ \A k \in Jobs : k # j => delta'[k] = delta[k]
        /\ \A s \in Subs : delta'[j][s] = IF s \in rows THEN delta[j][s] ELSE 0
        /\ counter' = counter /\ lost' = lost \cup d /\ UNCHANGED <<carried, logged>>
    BY <1>11 DEF LoadRows, TypeOK, PerSub
  <2>2. d \subseteq Subs
    BY DEF Counted
  <2>3. \A s \in Subs : delta'[j][s] <= delta[j][s] /\ (s \in d <=> delta'[j][s] < delta[j][s])
    BY <1>8, <2>1 DEF Counted
  <2> QED BY <1>10, <2>1, <2>2, <2>3
<1>12. ASSUME NEW j \in Jobs, CommitFails(j) \/ AbortJob(j) PROVE LedgerStep
  <2> DEFINE d == Counted(delta[j])
  <2>1. /\ \A k \in Jobs : k # j => delta'[k] = delta[k]
        /\ \A s \in Subs : delta'[j][s] = 0
        /\ counter' = counter /\ lost' = lost \cup d /\ UNCHANGED <<carried, logged>>
    BY <1>12 DEF CommitFails, AbortJob, EndJob, Zero, TypeOK, PerSub
  <2>2. d \subseteq Subs
    BY DEF Counted
  <2>3. \A s \in Subs : delta'[j][s] <= delta[j][s] /\ (s \in d <=> delta'[j][s] < delta[j][s])
    BY <1>8, <2>1 DEF Counted
  <2> HIDE DEF d
  <2> QED BY <1>10, <2>1, <2>2, <2>3
<1>13. ASSUME NEW j \in Jobs, CommitJob(j) PROVE LedgerStep
  <2>1. /\ \A k \in Jobs : k # j => delta'[k] = delta[k]
        /\ \A s \in Subs : delta'[j][s] = 0
        /\ UNCHANGED <<counter, carried, lost>>
    BY <1>13 DEF CommitJob, EndJob, Zero, TypeOK, PerSub
  <2>2. \A s \in Subs : logged[s] \in Nat /\ logged'[s] = logged[s] + delta[j][s]
    <3> SUFFICES ASSUME NEW s \in Subs
                 PROVE  logged[s] \in Nat /\ logged'[s] = logged[s] + delta[j][s]
      OBVIOUS
    <3>1. s \notin loaded[j] => delta[j][s] = 0
      BY <1>8, <1>13 DEF CommitJob, Holdings
    <3> QED BY <1>8, <1>13, <3>1 DEF CommitJob, TypeOK, PerSub
  <2>3. \A s \in Subs : logged[s] <= logged'[s] /\ Pending'[s] + logged'[s] = Pending[s] + logged[s]
    <3> SUFFICES ASSUME NEW s \in Subs
                 PROVE  logged[s] <= logged'[s] /\ Pending'[s] + logged'[s] = Pending[s] + logged[s]
      OBVIOUS
    <3>1. InFlight(s)' + delta[j][s] = InFlight(s) + delta'[j][s]
      BY <1>7, <2>1
    <3> QED BY <1>2, <1>3, <1>8, <2>1, <2>2, <3>1
  <2>4. logged' \in PerSub
    BY DEF TypeOK
  <2>5. Ledger!Book
    BY <1>3, <2>1, <2>3, <2>4 DEF Ledger!Book, Ledger!Books, Pending, PerSub
  <2> QED BY <2>5 DEF Ledger!Next
<1>14. ASSUME UNCHANGED <<counter, delta, carried, logged, lost>> PROVE LedgerStep
  BY <1>14 DEF Pending, InFlight
<1>15. RestartXray \/ (\E j \in Jobs : QueryFails(j)) => LedgerStep
  BY <1>6 DEF RestartXray, QueryFails
<1>16. (\E s \in Subs : Delete(s))
         \/ (\E a \in Admins, s \in Subs : LoadReset(a, s) \/ CommitReset(a, s) \/ ResetFails(a, s))
         \/ UNCHANGED vars
       => UNCHANGED <<counter, delta, carried, logged, lost>>
  BY DEF Delete, LoadReset, CommitReset, ResetFails, vars, history
<1> QED BY <1>5, <1>9, <1>11, <1>12, <1>13, <1>14, <1>15, <1>16, Zenon DEF Next

\* The collector, as it is, keeps the books of Ledger.
THEOREM Refines == Spec => KeepsBooks
<1>1. Init => Ledger!Init
  BY SumZero DEF Init, Ledger!Init, Zero, InFlight
<1>2. Init => Holdings
  BY DEF Init, Holdings, Zero
<1>3. TypeOK /\ TypeOK' /\ Holdings /\ [Next]_vars => [Ledger!Next]_(Ledger!vars)
  BY BooksStep DEF LedgerStep, Ledger!vars, Pending
<1> QED BY <1>1, <1>2, <1>3, HoldingsStep, TypeCorrect, PTL DEF Spec, KeepsBooks, Ledger!Spec

\* What every client carried is accounted for.
Balanced ==
  \A s \in Subs : /\ Pending[s] + logged[s] <= carried[s]
                  /\ s \notin lost => Pending[s] + logged[s] = carried[s]

\* Balanced says what the two invariants of Traffic say.
LEMMA BalancedIs == TypeOK => (Balanced <=> LogWithinCarried /\ LossHasCause)
BY DEF Balanced, Pending, LogWithinCarried, LossHasCause

\* Each step of the ledger leaves the books balanced.
LEMMA BalanceStep == TypeOK /\ TypeOK' /\ Balanced /\ LedgerStep => Balanced'
<1> SUFFICES ASSUME TypeOK, TypeOK', Balanced, LedgerStep PROVE Balanced'
  OBVIOUS
<1>1. Pending \in PerSub /\ Pending' \in PerSub
  <2>1. (TypeOK => \A s \in Subs : InFlight(s) \in Nat)'
    BY InFlightType, PTL
  <2> QED BY <2>1, InFlightType DEF TypeOK, PerSub, Pending
<1>2. /\ \A s \in Subs : logged[s] \in Nat /\ carried[s] \in Nat
      /\ \A s \in Subs : logged'[s] \in Nat /\ carried'[s] \in Nat
      /\ carried \in PerSub
  BY DEF TypeOK, PerSub
<1>3. CASE UNCHANGED <<carried, Pending, logged, lost>>
  BY <1>3 DEF Balanced
<1>4. ASSUME NEW t \in Subs, Ledger!Carry(t) PROVE Balanced'
  <2>1. /\ carried' = [carried EXCEPT ![t] = @ + 1] /\ Pending' = [Pending EXCEPT ![t] = @ + 1]
        /\ UNCHANGED <<logged, lost>>
    BY <1>4 DEF Ledger!Carry, Pending
  <2>2. ASSUME NEW s \in Subs
        PROVE  /\ Pending'[s] - Pending[s] = carried'[s] - carried[s]
               /\ Pending[s] \in Nat /\ Pending'[s] \in Nat
    BY <1>1, <1>2, <2>1 DEF PerSub
  <2> QED BY <1>2, <2>1, <2>2 DEF Balanced
<1>5. CASE Ledger!Book
  <2>1. /\ \A s \in Subs : Pending'[s] + logged'[s] = Pending[s] + logged[s]
        /\ UNCHANGED <<carried, lost>>
    BY <1>5 DEF Ledger!Book, Pending
  <2> QED BY <2>1 DEF Balanced
<1>6. CASE Ledger!Drop
  <2>1. /\ \A s \in Subs : Pending'[s] <= Pending[s]
        /\ lost' = lost \cup {s \in Subs : Pending'[s] < Pending[s]}
        /\ UNCHANGED <<carried, logged>>
    BY <1>6 DEF Ledger!Drop, Pending
  <2>2. \A s \in Subs : Pending[s] \in Nat /\ Pending'[s] \in Nat
    BY <1>1 DEF PerSub
  <2> QED BY <1>2, <2>1, <2>2 DEF Balanced
<1> QED BY <1>3, <1>4, <1>5, <1>6, Zenon DEF LedgerStep, Ledger!Next

\* In every reachable state the books are balanced.
LEMMA BooksBalance == Spec => []Balanced
<1>1. Init => Balanced
  BY SumZero DEF Init, Balanced, Pending, InFlight, Zero
<1>2. Init => Holdings
  BY DEF Init, Holdings, Zero
<1> QED BY <1>1, <1>2, HoldingsStep, BooksStep, BalanceStep, TypeCorrect, PTL DEF Spec

\* No byte is ever logged, in flight and counted twice.
THEOREM NothingTwice == Spec => []LogWithinCarried
BY BalancedIs, BooksBalance, TypeCorrect, PTL

\* A byte that no log row has is in flight, in the counter, or of a subscription
\* that was marked when a restart, a failed query or job, or a deletion took it.
THEOREM LossExplained == Spec => []LossHasCause
BY BalancedIs, BooksBalance, TypeCorrect, PTL
=============================================================================
