--------------------------- MODULE PanelSyncProofs ---------------------------
(***************************************************************************)
(* Proofs about PanelSync, for any tables and any number of sessions.      *)
(* DivergenceHasCause is not inductive: it says nothing of a session that  *)
(* is halfway through its rebuild.  Fresh supplies that: as long as no     *)
(* other session has committed beside it, what a session holds or has read *)
(* is what the tables say, so the file it writes is in sync.               *)
(***************************************************************************)
EXTENDS PanelSync, TLAPS

\* The identity map and the views of session p agree with the tables.
Fresh(p) ==
  /\ pc[p] = "loaded" => \A r \in InMap(p) : r \notin dirty[p] => held[p][r] = db[r]
  /\ pc[p] \in Rebuilding => \A r \in InMap(p) : held[p][r] = db[r]
  /\ pc[p] \in {"nodes_read", "subs_read"} => nview[p] = NodesOf(db)
  /\ pc[p] = "subs_read" => cview[p] = ClientsOf(db)

\* A session writes rows it holds, and once; one that deletes a user keeps none.
WritesHeld(p) ==
  /\ pc[p] # "loaded" => dirty[p] = {}
  /\ \A r \in dirty[p] : held[p][r] # "none"
  /\ dirty[p] \cap Users # {} => \A r \in Rows : held[p][r] \in {"none", "gone"}

\* The lapses session p is about to write are still due, or the collector took
\* them away.
Due(p) ==
  \A s \in dirty[p] \cap Subs : held[p][s] \in Lapses =>
    (due[s] # "ok" \/ <<p, s>> \in relieved) /\ s \notin numbers[p]

IInv ==
  /\ TypeOK
  /\ \A p \in Procs : WritesHeld(p)
  /\ \A p \in Procs \ overlapped : Fresh(p) /\ Due(p)
  /\ DivergenceHasCause

-----------------------------------------------------------------------------
(* Every handler begins with Load, and what it loads is fresh.              *)

LoadsFresh(h, d, nums) ==
  /\ h \in [Rows -> Values \cup {"none"}]
  /\ d \in SUBSET Rows
  /\ nums \in SUBSET Subs
  /\ \A r \in d : h[r] # "none"
  /\ d \cap Users # {} => \A r \in Rows : h[r] \in {"none", "gone"}
  /\ \A r \in Rows \ d : h[r] \notin {"none", "gone"} => h[r] = db[r]
  /\ \A s \in d \cap Subs : h[s] \in Lapses => due[s] # "ok" /\ s \notin nums

Handler(p) == AdminNodes(p) \/ AdminSubs(p) \/ AdminUsers(p) \/ EnforceLimits(p)

\* Whatever a handler does before its commit is a Load of fresh rows.
LEMMA HandlerLoads ==
  ASSUME TypeOK, NEW p \in Procs, Handler(p)
  PROVE  \E h, d, nums : Load(p, h, d, nums) /\ LoadsFresh(h, d, nums)
<1> USE SyncAssumption DEF Rows, Values, Absent, TypeOK, LoadsFresh
<1> DEFINE Goal == \E h, d, nums : Load(p, h, d, nums) /\ LoadsFresh(h, d, nums)
<1>1. CASE AdminNodes(p)
  <2>1. PICK n \in Nodes : DeleteNode(p, n) \/ \E x \in Settings : CreateNode(p, n, x) \/ UpdateNode(p, n, x)
    BY <1>1 DEF AdminNodes
  <2>2. CASE DeleteNode(p, n)
    <3>1. Load(p, Row(n, "gone"), {n}, {})
      BY <2>2 DEF DeleteNode
    <3>2. LoadsFresh(Row(n, "gone"), {n}, {})
      BY DEF Row, Nothing
    <3> QED BY <3>1, <3>2
  <2>3. ASSUME NEW x \in Settings, CreateNode(p, n, x)
        PROVE  Goal
    <3>1. Load(p, Row(n, x), {n}, {})
      BY <2>3 DEF CreateNode
    <3>2. LoadsFresh(Row(n, x), {n}, {})
      BY DEF Row, Nothing
    <3> QED BY <3>1, <3>2
  <2>4. ASSUME NEW x \in Settings, UpdateNode(p, n, x)
        PROVE  Goal
    <3>1. Load(p, Row(n, x), {n} \ {m \in {n} : db[m] = x}, {})
      BY <2>4 DEF UpdateNode
    <3>2. LoadsFresh(Row(n, x), {n} \ {m \in {n} : db[m] = x}, {})
      BY DEF Row, Nothing
    <3> QED BY <3>1, <3>2
  <2> QED BY <2>1, <2>2, <2>3, <2>4
<1>2. CASE AdminSubs(p)
  <2>1. PICK s \in Subs :
          \/ CreateSubscription(p, s)
          \/ DeleteSubscription(p, s)
          \/ \E status \in {"active", "disabled", "unassigned"}, nums \in BOOLEAN :
               EditSubscription(p, s, status, nums)
    BY <1>2 DEF AdminSubs
  <2>2. CASE CreateSubscription(p, s)
    <3>1. Load(p, Row(s, "active"), {s}, {})
      BY <2>2 DEF CreateSubscription
    <3>2. LoadsFresh(Row(s, "active"), {s}, {})
      BY DEF Row, Nothing
    <3> QED BY <3>1, <3>2
  <2>3. CASE DeleteSubscription(p, s)
    <3>1. Load(p, Row(s, "gone"), {s}, {})
      BY <2>3 DEF DeleteSubscription
    <3>2. LoadsFresh(Row(s, "gone"), {s}, {})
      BY DEF Row, Nothing
    <3> QED BY <3>1, <3>2
  <2>4. ASSUME NEW status \in {"active", "disabled", "unassigned"}, NEW nums \in BOOLEAN,
               EditSubscription(p, s, status, nums)
        PROVE  Goal
    <3> DEFINE x == IF status \in {"active", "disabled"} THEN status ELSE db[s]
    <3>1. Load(p, Row(s, x), {t \in {s} : db[t] # x}, {t \in {s} : nums})
      BY <2>4 DEF EditSubscription
    <3>2. x \in Values /\ x # "none" /\ (x \in Lapses => db[s] = x)
      BY <2>4 DEF EditSubscription
    <3>3. LoadsFresh(Row(s, x), {t \in {s} : db[t] # x}, {t \in {s} : nums})
      <4> HIDE DEF x
      <4> QED BY <3>2 DEF Row, Nothing
    <3> QED BY <3>1, <3>3
  <2> QED BY <2>1, <2>2, <2>3, <2>4
<1>3. CASE AdminUsers(p)
  <2>1. PICK u \in Users : Load(p, Row(u, "gone"), {u}, {})
    BY <1>3 DEF AdminUsers, DeleteUser
  <2>2. LoadsFresh(Row(u, "gone"), {u}, {})
    BY DEF Row, Nothing
  <2> QED BY <2>1, <2>2
<1>4. CASE EnforceLimits(p)
  <2> DEFINE rows == {s \in Subs : Lapsed(s)}
             h == [r \in Rows |-> IF r \in rows THEN due[r] ELSE "none"]
  <2>1. Load(p, h, rows, {})
    BY <1>4 DEF EnforceLimits
  <2>2. \A s \in rows : due[s] \in Lapses
    BY DEF Lapsed, Dues
  <2>3. LoadsFresh(h, rows, {})
    BY <2>2
  <2> QED BY <2>1, <2>3
<1> QED BY <1>1, <1>2, <1>3, <1>4 DEF Handler

-----------------------------------------------------------------------------
(* Helpers.                                                                 *)

\* The rebuild's two selects return nodes and subscriptions.
LEMMA ViewsTyped ==
  ASSUME NEW t
  PROVE  NodesOf(t) \in SUBSET NodeRows /\ ClientsOf(t) \in SUBSET Subs
BY DEF NodesOf, ClientsOf, NodeRows

\* What build_panel_xray_config returns for such rows is a configuration.
LEMMA FilesTyped ==
  ASSUME NEW n \in SUBSET NodeRows, NEW c \in SUBSET Subs
  PROVE  BuildConfig(n, c) \in FilesBuilt
BY DEF FilesBuilt

\* A session whose identity map agrees with the tables sees the tables.
LEMMA SeenIsCommitted ==
  ASSUME TypeOK, NEW p \in Procs, \A r \in InMap(p) : held[p][r] = db[r]
  PROVE  Seen(p) = db
<1>1. db = [r \in Rows |-> db[r]]
  BY DEF TypeOK
<1>2. \A r \in Rows : (IF r \in InMap(p) /\ db[r] \notin Absent THEN held[p][r] ELSE db[r]) = db[r]
  OBVIOUS
<1> QED BY <1>1, <1>2, Zenon DEF Seen

\* The steps of the system, handlers reduced to the Load they begin with.
LEMMA Steps ==
  ASSUME TypeOK, [Next]_vars
  PROVE  \/ \E p \in Procs : \E h, d, nums : Load(p, h, d, nums) /\ LoadsFresh(h, d, nums)
         \/ \E p \in Procs : Commit(p) \/ CommitFails(p) \/ Refresh(p) \/ RefreshFails(p)
                             \/ ReadNodes(p) \/ ReadSubs(p) \/ Replace(p) \/ Abort(p)
         \/ \E s \in Subs : StaleTotal(s) \/ \E l \in Lapses : Lapse(s, l)
         \/ UNCHANGED vars
<1>1. ASSUME NEW p \in Procs, Handler(p)
      PROVE  \E h, d, nums : Load(p, h, d, nums) /\ LoadsFresh(h, d, nums)
  BY <1>1, HandlerLoads
<1>2. Api \subseteq Procs /\ Worker \subseteq Procs
  BY DEF Procs
<1> QED BY <1>1, <1>2, Zenon DEF Next, Advance, Handler

-----------------------------------------------------------------------------
(* Type correctness, together with WritesHeld, on which it depends.         *)

\* Empty tables, idle sessions and the installer's configuration are well typed.
LEMMA TypeInit == Init => TypeOK /\ (\A p \in Procs : WritesHeld(p))
<1> SUFFICES ASSUME Init PROVE TypeOK /\ (\A p \in Procs : WritesHeld(p))
  OBVIOUS
<1>1. file \in FilesBuilt
  BY FilesTyped DEF Init
<1>2. TypeOK
  <2>1. db \in [Rows -> Values]
    BY DEF Init, Values, Absent
  <2>2. due \in [Subs -> Dues] /\ pc \in [Procs -> Stages]
    BY DEF Init, Dues, Stages
  <2>3. held \in [Procs -> [Rows -> Values \cup {"none"}]]
    BY DEF Init, Nothing
  <2>4. /\ dirty \in [Procs -> SUBSET Rows] /\ numbers \in [Procs -> SUBSET Subs]
        /\ nview \in [Procs -> SUBSET NodeRows] /\ cview \in [Procs -> SUBSET Subs]
    BY DEF Init
  <2>5. faults \in 0..MaxFaults
    BY SyncAssumption DEF Init
  <2>6. overlapped \subseteq Procs /\ relieved \subseteq Procs \X Subs /\ missed \in BOOLEAN
    BY DEF Init
  <2> QED BY <1>1, <2>1, <2>2, <2>3, <2>4, <2>5, <2>6 DEF TypeOK
<1>3. \A p \in Procs : WritesHeld(p)
  BY DEF Init, WritesHeld
<1> QED BY <1>2, <1>3

\* A session that ends, however it ends, leaves well-typed variables behind.
LEMMA TypeEnd ==
  ASSUME TypeOK, \A q \in Procs : WritesHeld(q), NEW p \in Procs, EndSession(p),
         UNCHANGED <<db, due>>, file' \in FilesBuilt, faults' \in 0..MaxFaults,
         missed' \in BOOLEAN
  PROVE  TypeOK' /\ (\A q \in Procs : WritesHeld(q)')
<1>1. TypeOK'
  BY DEF TypeOK, EndSession, Stages, Nothing
<1>2. \A q \in Procs : WritesHeld(q)'
  BY DEF TypeOK, WritesHeld, EndSession, Nothing
<1> QED BY <1>1, <1>2

\* No step of the system breaks the types or makes a session write unheld rows.
LEMMA TypeStep ==
  ASSUME TypeOK, \A p \in Procs : WritesHeld(p), [Next]_vars
  PROVE  TypeOK' /\ (\A p \in Procs : WritesHeld(p)')
<1> DEFINE Goal == TypeOK' /\ (\A p \in Procs : WritesHeld(p)')
<1>1. ASSUME NEW p \in Procs, NEW h, NEW d, NEW nums, Load(p, h, d, nums), LoadsFresh(h, d, nums)
      PROVE  Goal
  <2>1. TypeOK'
    BY <1>1 DEF Load, LoadsFresh, TypeOK, Stages
  <2>2. \A q \in Procs : WritesHeld(q)'
    BY <1>1 DEF Load, LoadsFresh, TypeOK, WritesHeld
  <2> QED BY <2>1, <2>2
<1>2. ASSUME NEW p \in Procs, Commit(p)
      PROVE  Goal
  <2>1. db' \in [Rows -> Values]
    BY <1>2 DEF Commit, TypeOK, WritesHeld, Values, Absent
  <2>2. due' \in [Subs -> Dues]
    BY <1>2 DEF Commit, TypeOK
  <2>3. TypeOK'
    BY <1>2, <2>1, <2>2 DEF Commit, AfterCommit, TypeOK, Stages
  <2>4. \A q \in Procs : WritesHeld(q)'
    BY <1>2 DEF Commit, TypeOK, WritesHeld
  <2> QED BY <2>3, <2>4
<1>3. ASSUME NEW p \in Procs, CommitFails(p)
      PROVE  Goal
  BY <1>3, TypeEnd DEF CommitFails, TypeOK
<1>4. ASSUME NEW p \in Procs, Refresh(p)
      PROVE  Goal
  <2>1. \A q \in Procs : WritesHeld(q)'
    BY <1>4 DEF Refresh, TypeOK, WritesHeld
  <2>2. TypeOK'
    BY <1>4 DEF Refresh, TypeOK, Stages
  <2> QED BY <2>1, <2>2
<1>5. ASSUME NEW p \in Procs, RefreshFails(p)
      PROVE  Goal
  BY <1>5, TypeEnd DEF RefreshFails, TypeOK
<1>6. ASSUME NEW p \in Procs, ReadNodes(p)
      PROVE  Goal
  BY <1>6, ViewsTyped DEF ReadNodes, TypeOK, Stages, WritesHeld
<1>7. ASSUME NEW p \in Procs, ReadSubs(p)
      PROVE  Goal
  <2>1. TypeOK'
    BY <1>7, ViewsTyped DEF ReadSubs, TypeOK, Stages, Nothing
  <2>2. dirty[p] = {} /\ dirty' = dirty
    BY <1>7 DEF ReadSubs, WritesHeld
  <2>3. \A q \in Procs : WritesHeld(q)'
    BY <1>7, <2>2 DEF ReadSubs, TypeOK, WritesHeld
  <2> QED BY <2>1, <2>3
<1>8. ASSUME NEW p \in Procs, Replace(p)
      PROVE  Goal
  <2>1. file' \in FilesBuilt
    BY <1>8, FilesTyped DEF Replace, TypeOK
  <2>2. missed' \in BOOLEAN
    BY <1>8 DEF Replace
  <2> QED BY <1>8, <2>1, <2>2, TypeEnd DEF Replace, TypeOK
<1>9. ASSUME NEW p \in Procs, Abort(p)
      PROVE  Goal
  <2>1. faults' \in 0..MaxFaults
    BY <1>9, SyncAssumption DEF Abort, TypeOK
  <2>2. missed' \in BOOLEAN
    BY <1>9 DEF Abort, TypeOK
  <2> QED BY <1>9, <2>1, <2>2, TypeEnd DEF Abort, TypeOK
<1>10. ASSUME NEW s \in Subs, NEW l \in Lapses, Lapse(s, l)
       PROVE  Goal
  BY <1>10 DEF Lapse, session, TypeOK, Dues, WritesHeld
<1>11. ASSUME NEW s \in Subs, StaleTotal(s)
       PROVE  Goal
  BY <1>11 DEF StaleTotal, session, TypeOK, Dues, WritesHeld
<1>12. CASE UNCHANGED vars
  BY <1>12 DEF vars, session, TypeOK, WritesHeld
<1> QED BY <1>1, <1>2, <1>3, <1>4, <1>5, <1>6, <1>7, <1>8, <1>9, <1>10, <1>11, <1>12, Steps, Zenon

-----------------------------------------------------------------------------
(* Freshness and the divergence invariant.                                  *)

\* The installer's configuration is the one of empty tables.
LEMMA FreshInit == Init => (\A p \in Procs : Fresh(p)) /\ DivergenceHasCause
<1> SUFFICES ASSUME Init PROVE (\A p \in Procs : Fresh(p)) /\ DivergenceHasCause
  OBVIOUS
<1>1. \A p \in Procs : Fresh(p)
  BY DEF Init, Fresh, Rebuilding
<1>2. \A r \in Rows : db[r] \in {"exists", "unborn"}
  BY DEF Init
<1>3. NodesOf(db) = {}
  BY <1>2, SyncAssumption DEF NodesOf, Rows
<1>4. ClientsOf(db) = {}
  BY <1>2 DEF ClientsOf, Rows
<1>5. InSync
  BY <1>3, <1>4 DEF Init, InSync
<1> QED BY <1>1, <1>5 DEF DivergenceHasCause

\* A session that ends stays fresh trivially; the others are not disturbed.
LEMMA FreshEnd ==
  ASSUME IInv, NEW p \in Procs, EndSession(p), db' = db
  PROVE  \A q \in Procs \ overlapped' : Fresh(q)'
<1> SUFFICES ASSUME NEW q \in Procs \ overlapped' PROVE Fresh(q)'
  OBVIOUS
<1>1. CASE q = p
  BY <1>1 DEF EndSession, Fresh, Rebuilding, IInv, TypeOK
<1>2. CASE q # p
  BY <1>2 DEF EndSession, Fresh, Rebuilding, InMap, NodesOf, ClientsOf, IInv, TypeOK
<1> QED BY <1>1, <1>2

\* What p commits leaves only p's own identity map in doubt, and that agrees:
\* the rows it wrote are the rows it holds.
LEMMA FreshCommit ==
  ASSUME IInv, NEW p \in Procs, Commit(p)
  PROVE  \A q \in Procs \ overlapped' : Fresh(q)'
<1> SUFFICES ASSUME NEW q \in Procs \ overlapped' PROVE Fresh(q)'
  OBVIOUS
<1>1. CASE q = p
  <2>1. Fresh(p) /\ pc[p] = "loaded"
    BY <1>1 DEF Commit, IInv
  <2>2. pc'[p] \in {"refresh", "committed"}
    BY DEF Commit, AfterCommit, IInv, TypeOK
  <2>3. \A r \in InMap(p)' : held'[p][r] = db'[r]
    <3> SUFFICES ASSUME NEW r \in InMap(p)' PROVE held'[p][r] = db'[r]
      OBVIOUS
    <3>1. held' = held /\ r \in InMap(p) /\ r \in Rows
      BY DEF Commit, InMap
    <3>2. ~Cascaded(p, r)
      BY <3>1, SyncAssumption DEF Cascaded, IInv, WritesHeld, InMap
    <3>3. CASE r \in dirty[p]
      BY <3>1, <3>3 DEF Commit
    <3>4. CASE r \notin dirty[p]
      BY <2>1, <3>1, <3>2, <3>4 DEF Commit, Fresh
    <3> QED BY <3>3, <3>4
  <2> QED BY <1>1, <2>2, <2>3 DEF Fresh
<1>2. CASE q # p
  <2>1. pc'[q] = "idle"
    BY <1>2 DEF Commit, IInv, TypeOK
  <2> QED BY <2>1 DEF Fresh, Rebuilding
<1> QED BY <1>1, <1>2

\* No step outdates what a session holds, other sessions' commits excepted.
LEMMA FreshStep ==
  ASSUME IInv, [Next]_vars
  PROVE  \A p \in Procs \ overlapped' : Fresh(p)'
<1> DEFINE Goal == \A q \in Procs \ overlapped' : Fresh(q)'
<1> TypeOK /\ \A p \in Procs \ overlapped : Fresh(p)
  BY DEF IInv
<1>1. ASSUME NEW p \in Procs, NEW h, NEW d, NEW nums, Load(p, h, d, nums), LoadsFresh(h, d, nums)
      PROVE  Goal
  <2> SUFFICES ASSUME NEW q \in Procs \ overlapped' PROVE Fresh(q)'
    OBVIOUS
  <2>1. CASE q = p
    BY <1>1, <2>1 DEF Load, LoadsFresh, Fresh, Rebuilding, InMap, TypeOK
  <2>2. CASE q # p
    BY <1>1, <2>2 DEF Load, Fresh, Rebuilding, InMap, NodesOf, ClientsOf, TypeOK
  <2> QED BY <2>1, <2>2
<1>2. ASSUME NEW p \in Procs, Commit(p) PROVE Goal
  BY <1>2, FreshCommit
<1>3. ASSUME NEW p \in Procs, CommitFails(p) \/ RefreshFails(p) \/ Replace(p) \/ Abort(p)
      PROVE  Goal
  BY <1>3, FreshEnd DEF CommitFails, RefreshFails, Replace, Abort
<1>4. ASSUME NEW p \in Procs, Refresh(p) PROVE Goal
  <2> SUFFICES ASSUME NEW q \in Procs \ overlapped' PROVE Fresh(q)'
    OBVIOUS
  <2>1. CASE q = p
    BY <1>4, <2>1 DEF Refresh, Fresh, InMap, TypeOK
  <2>2. CASE q # p
    BY <1>4, <2>2 DEF Refresh, Fresh, InMap, NodesOf, ClientsOf, TypeOK
  <2> QED BY <2>1, <2>2
<1>5. ASSUME NEW p \in Procs, ReadNodes(p) PROVE Goal
  <2> SUFFICES ASSUME NEW q \in Procs \ overlapped' PROVE Fresh(q)'
    OBVIOUS
  <2>1. CASE q = p
    <3>1. Seen(p) = db
      BY <1>5, <2>1, SeenIsCommitted DEF ReadNodes, Fresh, Rebuilding
    <3>2. nview'[p] = NodesOf(db)
      BY <1>5, <3>1 DEF ReadNodes, TypeOK
    <3>3. pc'[p] = "nodes_read" /\ pc[p] \in Rebuilding
      BY <1>5 DEF ReadNodes, TypeOK, Rebuilding
    <3>4. NodesOf(db)' = NodesOf(db) /\ InMap(p)' = InMap(p) /\ UNCHANGED <<db, held>>
      BY <1>5 DEF ReadNodes, NodesOf, InMap
    <3> QED BY <1>5, <2>1, <3>2, <3>3, <3>4 DEF ReadNodes, Fresh
  <2>2. CASE q # p
    BY <1>5, <2>2 DEF ReadNodes, Fresh, InMap, NodesOf, ClientsOf, TypeOK
  <2> QED BY <2>1, <2>2
<1>6. ASSUME NEW p \in Procs, ReadSubs(p) PROVE Goal
  <2> SUFFICES ASSUME NEW q \in Procs \ overlapped' PROVE Fresh(q)'
    OBVIOUS
  <2>1. CASE q = p
    <3>1. Seen(p) = db
      BY <1>6, <2>1, SeenIsCommitted DEF ReadSubs, Fresh, Rebuilding
    <3>2. cview'[p] = ClientsOf(db)
      BY <1>6, <3>1 DEF ReadSubs, TypeOK
    <3>3. pc'[p] = "subs_read" /\ pc[p] = "nodes_read"
      BY <1>6 DEF ReadSubs, TypeOK
    <3>4. NodesOf(db)' = NodesOf(db) /\ ClientsOf(db)' = ClientsOf(db) /\ UNCHANGED nview
      BY <1>6 DEF ReadSubs, NodesOf, ClientsOf
    <3>5. InMap(p)' = {}
      BY <1>6 DEF ReadSubs, TypeOK, InMap, Nothing
    <3> QED BY <1>6, <2>1, <3>2, <3>3, <3>4, <3>5 DEF ReadSubs, Fresh, Rebuilding
  <2>2. CASE q # p
    BY <1>6, <2>2 DEF ReadSubs, Fresh, InMap, NodesOf, ClientsOf, TypeOK
  <2> QED BY <2>1, <2>2
<1>7. ASSUME NEW s \in Subs, StaleTotal(s) \/ \E l \in Lapses : Lapse(s, l) PROVE Goal
  BY <1>7 DEF Lapse, StaleTotal, session, Fresh, InMap, NodesOf, ClientsOf
<1>8. CASE UNCHANGED vars
  BY <1>8 DEF vars, session, Fresh, InMap, NodesOf, ClientsOf
<1> QED BY <1>1, <1>2, <1>3, <1>4, <1>5, <1>6, <1>7, <1>8, Steps, Zenon

\* The file a session writes after running alone says what the tables say.
LEMMA CleanReplace ==
  ASSUME IInv, NEW p \in Procs, Replace(p), p \notin overlapped
  PROVE  InSync'
<1>1. nview[p] = NodesOf(db) /\ cview[p] = ClientsOf(db)
  BY DEF IInv, Fresh, Replace
<1>2. file' = BuildConfig(NodesOf(db), ClientsOf(db)) /\ db' = db
  BY <1>1 DEF Replace
<1> QED BY <1>2 DEF InSync, NodesOf, ClientsOf

\* Each step leaves the file in sync, or a rebuild under way, or a cause noted.
LEMMA DivergenceStep ==
  ASSUME IInv, [Next]_vars
  PROVE  DivergenceHasCause'
<1> TypeOK /\ DivergenceHasCause
  BY DEF IInv
<1>1. ASSUME NEW p \in Procs, NEW h, NEW d, NEW nums, Load(p, h, d, nums)
      PROVE  DivergenceHasCause'
  BY <1>1 DEF Load, DivergenceHasCause, InSync, NodesOf, ClientsOf, Rebuilding, TypeOK
<1>2. ASSUME NEW p \in Procs, Commit(p) \/ Refresh(p) \/ ReadNodes(p) \/ ReadSubs(p)
      PROVE  DivergenceHasCause'
  <2>1. pc'[p] \in Rebuilding
    BY <1>2 DEF Commit, AfterCommit, Refresh, ReadNodes, ReadSubs, Rebuilding, TypeOK
  <2> QED BY <2>1 DEF DivergenceHasCause
<1>3. ASSUME NEW p \in Procs, CommitFails(p)
      PROVE  DivergenceHasCause'
  BY <1>3 DEF CommitFails, EndSession, DivergenceHasCause, InSync, NodesOf, ClientsOf,
              Rebuilding, TypeOK
<1>4. ASSUME NEW p \in Procs, RefreshFails(p)
      PROVE  DivergenceHasCause'
  BY <1>4 DEF RefreshFails, DivergenceHasCause
<1>5. ASSUME NEW p \in Procs, Replace(p)
      PROVE  DivergenceHasCause'
  <2>1. CASE p \in overlapped
    BY <1>5, <2>1 DEF Replace, DivergenceHasCause
  <2>2. CASE p \notin overlapped
    BY <1>5, <2>2, CleanReplace DEF DivergenceHasCause
  <2> QED BY <2>1, <2>2
<1>6. ASSUME NEW p \in Procs, Abort(p)
      PROVE  DivergenceHasCause'
  <2>1. CASE pc[p] \in Rebuilding
    BY <1>6, <2>1 DEF Abort, DivergenceHasCause
  <2>2. CASE pc[p] \notin Rebuilding
    BY <1>6, <2>2 DEF Abort, EndSession, DivergenceHasCause, InSync, NodesOf, ClientsOf, TypeOK
  <2> QED BY <2>1, <2>2
<1>7. ASSUME NEW s \in Subs, StaleTotal(s) \/ \E l \in Lapses : Lapse(s, l)
      PROVE  DivergenceHasCause'
  BY <1>7 DEF Lapse, StaleTotal, DivergenceHasCause, InSync, NodesOf, ClientsOf
<1>8. CASE UNCHANGED vars
  BY <1>8 DEF vars, DivergenceHasCause, InSync, NodesOf, ClientsOf
<1> QED BY <1>1, <1>2, <1>3, <1>4, <1>5, <1>6, <1>7, <1>8, Steps, Zenon

\* The numbers of a row in a session's hands are changed by a commit of another
\* session, by the clock and the traffic, which let rows lapse, and by the
\* collector's outdated totals, which are noted.
LEMMA DueStep ==
  ASSUME IInv, [Next]_vars
  PROVE  \A p \in Procs \ overlapped' : Due(p)'
<1> DEFINE Goal == \A q \in Procs \ overlapped' : Due(q)'
<1> TypeOK /\ (\A p \in Procs : WritesHeld(p)) /\ \A p \in Procs \ overlapped : Due(p)
  BY DEF IInv
<1>1. ASSUME NEW p \in Procs, NEW h, NEW d, NEW nums, Load(p, h, d, nums), LoadsFresh(h, d, nums)
      PROVE  Goal
  <2> SUFFICES ASSUME NEW q \in Procs \ overlapped' PROVE Due(q)'
    OBVIOUS
  <2>1. CASE q = p
    BY <1>1, <2>1 DEF Load, LoadsFresh, Due, TypeOK
  <2>2. CASE q # p
    BY <1>1, <2>2 DEF Load, Due, TypeOK
  <2> QED BY <2>1, <2>2
<1>2. ASSUME NEW p \in Procs, Commit(p) PROVE Goal
  <2> SUFFICES ASSUME NEW q \in Procs \ overlapped' PROVE Due(q)'
    OBVIOUS
  <2>1. CASE q = p
    BY <1>2, <2>1 DEF Commit, Due, TypeOK
  <2>2. CASE q # p
    <3>1. pc[q] = "idle" /\ dirty'[q] = dirty[q]
      BY <1>2, <2>2 DEF Commit, TypeOK
    <3> QED BY <3>1 DEF WritesHeld, Due
  <2> QED BY <2>1, <2>2
<1>3. ASSUME NEW p \in Procs, EndSession(p), UNCHANGED due PROVE Goal
  <2> SUFFICES ASSUME NEW q \in Procs \ overlapped' PROVE Due(q)'
    OBVIOUS
  <2>1. CASE q = p
    BY <1>3, <2>1 DEF EndSession, Due, TypeOK
  <2>2. CASE q # p
    BY <1>3, <2>2 DEF EndSession, Due, TypeOK
  <2> QED BY <2>1, <2>2
<1>4. ASSUME NEW p \in Procs, Refresh(p) \/ ReadNodes(p) \/ ReadSubs(p) PROVE Goal
  <2> SUFFICES ASSUME NEW q \in Procs \ overlapped' PROVE Due(q)'
    OBVIOUS
  <2>1. CASE q = p
    <3>1. dirty'[p] = {}
      BY <1>4 DEF Refresh, ReadNodes, ReadSubs, WritesHeld
    <3> QED BY <2>1, <3>1 DEF Due
  <2>2. CASE q # p
    BY <1>4, <2>2 DEF Refresh, ReadNodes, ReadSubs, Due, TypeOK
  <2> QED BY <2>1, <2>2
<1>5. ASSUME NEW p \in Procs, CommitFails(p) \/ RefreshFails(p) \/ Replace(p) \/ Abort(p)
      PROVE  EndSession(p) /\ UNCHANGED due
  BY <1>5 DEF CommitFails, RefreshFails, Replace, Abort
<1>6. ASSUME NEW s \in Subs, NEW l \in Lapses, Lapse(s, l) PROVE Goal
  BY <1>6, SyncAssumption DEF Lapse, session, Due, TypeOK
<1>7. ASSUME NEW s \in Subs, StaleTotal(s) PROVE Goal
  <2> SUFFICES ASSUME NEW q \in Procs \ overlapped', NEW t \in dirty[q] \cap Subs,
                      held[q][t] \in Lapses
               PROVE  (due'[t] # "ok" \/ <<q, t>> \in relieved') /\ t \notin numbers[q]
    BY <1>7 DEF StaleTotal, session, Due
  <2>1. (due[t] # "ok" \/ <<q, t>> \in relieved) /\ t \notin numbers[q]
    BY <1>7 DEF StaleTotal, Due
  <2>2. CASE t = s
    BY <1>7, <2>1, <2>2 DEF StaleTotal
  <2>3. CASE t # s
    BY <1>7, <2>1, <2>3 DEF StaleTotal, TypeOK
  <2> QED BY <2>2, <2>3
<1>8. CASE UNCHANGED vars
  BY <1>8 DEF vars, session, Due
<1> QED BY <1>1, <1>2, <1>3, <1>4, <1>5, <1>6, <1>7, <1>8, Steps, Zenon

-----------------------------------------------------------------------------

\* IInv holds initially and every step keeps it.
THEOREM Inductive == Spec => []IInv
<1>1. Init => IInv
  <2>1. Init => \A p \in Procs : Due(p)
    BY DEF Init, Due
  <2> QED BY <2>1, TypeInit, FreshInit DEF IInv
<1>2. IInv /\ [Next]_vars => IInv'
  <2> SUFFICES ASSUME IInv, [Next]_vars PROVE IInv'
    OBVIOUS
  <2>1. TypeOK' /\ \A p \in Procs : WritesHeld(p)'
    BY TypeStep DEF IInv
  <2>2. \A p \in Procs \ overlapped' : Fresh(p)'
    BY FreshStep
  <2>3. \A p \in Procs \ overlapped' : Due(p)'
    BY DueStep
  <2>4. DivergenceHasCause'
    BY DivergenceStep
  <2> QED BY <2>1, <2>2, <2>3, <2>4 DEF IInv
<1> QED BY <1>1, <1>2, PTL DEF Spec

\* Every variable keeps its shape, for any tables and any number of sessions.
THEOREM TypeCorrect == Spec => []TypeOK
<1>1. IInv => TypeOK
  BY DEF IInv
<1> QED BY <1>1, Inductive, PTL

\* With nobody rebuilding, the relay's file differs from the tables only after
\* an overlapped or an interrupted rebuild, for any number of sessions.
THEOREM DivergenceExplained == Spec => []DivergenceHasCause
<1>1. IInv => DivergenceHasCause
  BY DEF IInv
<1> QED BY <1>1, Inductive, PTL

\* A rebuild no other session's commit overlapped leaves the file in sync,
\* whatever it said before.
THEOREM RebuildsRepair == Spec => RebuildRepairs
<1>1. IInv /\ [Next]_vars =>
        [\A p \in Procs : Replace(p) /\ p \notin overlapped => InSync']_vars
  BY CleanReplace
<1> QED BY <1>1, Inductive, PTL DEF Spec, RebuildRepairs

\* The billing job's mark is due, unless another session committed meanwhile or
\* the collector's outdated total took the lapse away.
THEOREM MarksWereDue == Spec => MarksAreDue
<1>1. IInv /\ [Next]_vars =>
        [\A p \in Procs \ overlapped, s \in Subs :
           /\ Commit(p) /\ db[s] # db'[s] /\ db'[s] \in Lapses
           /\ due'[s] = "ok"
           => <<p, s>> \in relieved]_vars
  <2> SUFFICES ASSUME IInv, NEW p \in Procs \ overlapped, NEW s \in Subs,
                      Commit(p), db'[s] \in Lapses, db[s] # db'[s], due'[s] = "ok"
               PROVE  <<p, s>> \in relieved
    OBVIOUS
  <2>1. s \in Rows /\ "gone" \notin Lapses
    BY SyncAssumption DEF Rows
  <2>2. db'[s] = IF s \in dirty[p] THEN held[p][s] ELSE IF Cascaded(p, s) THEN "gone" ELSE db[s]
    BY <2>1 DEF Commit
  <2>3. s \in dirty[p] /\ held[p][s] \in Lapses
    BY <2>1, <2>2
  <2>4. (due[s] # "ok" \/ <<p, s>> \in relieved) /\ s \notin numbers[p]
    BY <2>3 DEF IInv, Due
  <2>5. due'[s] = due[s]
    BY <2>4 DEF Commit
  <2> QED BY <2>4, <2>5
<1> QED BY <1>1, Inductive, PTL DEF Spec, MarksAreDue

-----------------------------------------------------------------------------
(* What of the docs' claim holds: rebuilding after the commit keeps file    *)
(* and tables in sync while sessions do not commit beside each other.       *)

\* No session under way has seen another's commit, and none was cut short.
Undisturbed == overlapped = {} /\ faults = 0

\* Then no rebuild is missed.  Even a refresh cannot fail: the rows that the
\* session holds are those it has just committed.
LEMMA NothingMissed ==
  ASSUME IInv, ~missed, Undisturbed, Undisturbed', [Next]_vars
  PROVE  ~missed'
<1>1. ASSUME NEW p \in Procs, RefreshFails(p) PROVE FALSE
  <2>1. PICK r \in InMap(p) : db[r] = "gone"
    BY <1>1 DEF RefreshFails
  <2>2. held[p][r] = db[r]
    BY <1>1 DEF RefreshFails, IInv, Undisturbed, Fresh, Rebuilding
  <2> QED BY <2>1, <2>2 DEF InMap
<1>2. ASSUME NEW p \in Procs, Replace(p) PROVE ~missed'
  BY <1>2 DEF Replace, Undisturbed
<1>3. ASSUME NEW p \in Procs, Abort(p) PROVE FALSE
  BY <1>3 DEF Abort, Undisturbed
<1>4. ASSUME NEW p \in Procs, Commit(p) \/ CommitFails(p) \/ Refresh(p) \/ ReadNodes(p) \/ ReadSubs(p)
      PROVE  ~missed'
  BY <1>4 DEF Commit, CommitFails, Refresh, ReadNodes, ReadSubs
<1>5. ASSUME NEW p \in Procs, NEW h, NEW d, NEW nums, Load(p, h, d, nums) PROVE ~missed'
  BY <1>5 DEF Load
<1>6. (\E s \in Subs : StaleTotal(s) \/ \E l \in Lapses : Lapse(s, l)) \/ UNCHANGED vars => ~missed'
  BY DEF Lapse, StaleTotal, vars
<1> QED BY <1>1, <1>2, <1>3, <1>4, <1>5, <1>6, Steps, Zenon DEF IInv

\* As long as no session commits beside another and none is cut short, an idle
\* panel's file matches its tables, however many sessions there have been.
THEOREM SerialInSync == Spec /\ []Undisturbed => []InSyncWhenIdle
<1>1. Init => ~missed
  BY DEF Init
<1>2. IInv /\ ~missed => InSyncWhenIdle
  BY DEF IInv, DivergenceHasCause, InSyncWhenIdle, Rebuilding
<1> QED BY <1>1, <1>2, NothingMissed, Inductive, PTL DEF Spec
=============================================================================
