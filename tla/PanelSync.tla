------------------------------ MODULE PanelSync ------------------------------
(***************************************************************************)
(* The panel keeps one derived copy of its tables: the relay's             *)
(* configuration file.  Every admin handler that changes a subscription or *)
(* a node, and the billing job, runs the same session: load rows, change   *)
(* them, commit, then rebuild_and_apply, which selects the nodes, selects  *)
(* the subscriptions and replaces the file.  Each of those is an await, so *)
(* the sessions of the web process and of the worker interleave between    *)
(* them (READ COMMITTED transactions, sessions with expire_on_commit off,  *)
(* db.py), and any of them can be cut short.                               *)
(*                                                                         *)
(* A row of a table is a name in Rows; db gives its committed value.  A    *)
(* node's value stands for its editable columns, a subscription's is its   *)
(* status; the numbers that decide whether a subscription has lapsed       *)
(* (limit, used, expires_at against the clock) are abstracted to due.      *)
(***************************************************************************)
EXTENDS RelayConfig, Naturals

CONSTANTS
  Subs, Nodes, Users,  \* the rows that can ever exist, each inserted at most once
  Owner,               \* subscriptions.user_id
  Settings,            \* values of a node's editable columns
  Lapses,              \* the statuses of the billing job: "expired", "over_limit"
  Api, Worker,         \* sessions: web requests, billing job runs
  Serves,              \* bound: the handlers that run on a session, all in the code
  MaxFaults            \* sessions cut short

Rows  == Subs \cup Nodes \cup Users
Procs == Api \cup Worker

ASSUME SyncAssumption ==
  /\ Subs \cap Nodes = {} /\ Subs \cap Users = {} /\ Nodes \cap Users = {}
  /\ Api \cap Worker = {}
  /\ Serves \in [Api -> SUBSET {"nodes", "subscriptions", "users"}]
  /\ Owner \in [Subs -> Users]
  /\ Lapses \subseteq {"expired", "over_limit"}
  /\ Settings \cap {"none", "unborn", "gone", "exists", "active", "disabled",
                    "expired", "over_limit"} = {}
  /\ MaxFaults \in Nat

VARIABLES
  db,        \* the committed tables
  due,       \* what the numbers of a subscription say: "ok" or a lapse
  file,      \* the relay's configuration file
  pc,        \* where each session stands
  held,      \* its identity map: the rows it has loaded or is about to write
  dirty,     \* the rows its commit writes
  numbers,   \* the subscriptions whose numbers its commit writes
  nview,     \* the nodes it has read for the rebuild
  cview,     \* the active subscriptions it has read for the rebuild
  faults,
  overlapped,  \* history: sessions during which another session committed
  relieved,    \* history: <<p, s>> where the collector took away the lapse of s
               \* that session p is about to write
  missed       \* history: a rebuild was cut short or overlapped since a clean one

session == <<held, dirty, numbers, nview, cview>>
vars == <<db, due, file, pc, session, faults, overlapped, relieved, missed>>

Dues    == {"ok"} \cup Lapses
Absent  == {"unborn", "gone"}
Values  == Absent \cup {"exists", "active", "disabled"} \cup Lapses \cup Settings
Stages  == {"idle", "loaded", "refresh", "committed", "nodes_read", "subs_read"}
Rebuilding == {"refresh", "committed", "nodes_read", "subs_read"}

NodeRow(n, x) == [id |-> n, in_tag |-> InTag(n), out_tag |-> OutTag(n), port |-> n,
                  short_id |-> n, exit |-> x, status |-> "active"]

NodeRows == {NodeRow(n, x) : n \in Nodes, x \in Settings}

\* The rows of tables t as rebuild_and_apply hands them to build_panel_xray_config.
NodesOf(t)   == {NodeRow(n, t[n]) : n \in {m \in Nodes : t[m] \in Settings}}
ClientsOf(t) == {s \in Subs : t[s] = "active"}

Nothing == [r \in Rows |-> "none"]

Init ==
  /\ db = [r \in Rows |-> IF r \in Users THEN "exists" ELSE "unborn"]
  /\ due = [s \in Subs |-> "ok"]
  /\ file = BuildConfig({}, {})
  /\ pc = [p \in Procs |-> "idle"]
  /\ held = [p \in Procs |-> Nothing]
  /\ dirty = [p \in Procs |-> {}]
  /\ numbers = [p \in Procs |-> {}]
  /\ nview = [p \in Procs |-> {}]
  /\ cview = [p \in Procs |-> {}]
  /\ faults = 0
  /\ overlapped = {}
  /\ relieved = {}
  /\ missed = FALSE

-----------------------------------------------------------------------------
(* Handlers up to their commit.  Between the load and the assignments there *)
(* is no await, so both are one step; SQLAlchemy writes a column only when  *)
(* its value changed.                                                      *)

Load(p, h, d, nums) ==
  /\ pc[p] = "idle"
  /\ pc' = [pc EXCEPT ![p] = "loaded"]
  /\ held' = [held EXCEPT ![p] = h]
  /\ dirty' = [dirty EXCEPT ![p] = d]
  /\ numbers' = [numbers EXCEPT ![p] = nums]
  /\ UNCHANGED <<db, due, file, nview, cview, faults, overlapped, relieved, missed>>

\* A row is inserted by one session: its key and tokens are drawn for it.
Unclaimed(r) == db[r] = "unborn" /\ \A q \in Procs : held[q][r] = "none"

Row(r, x) == [Nothing EXCEPT ![r] = x]

CreateNode(p, n, x) == Unclaimed(n) /\ Load(p, Row(n, x), {n}, {})

UpdateNode(p, n, x) ==
  db[n] \in Settings /\ Load(p, Row(n, x), {n} \ {m \in {n} : db[m] = x}, {})

DeleteNode(p, n) == db[n] \in Settings /\ Load(p, Row(n, "gone"), {n}, {})

CreateSubscription(p, s) ==
  Unclaimed(s) /\ db[Owner[s]] = "exists" /\ Load(p, Row(s, "active"), {s}, {})

\* Mutant: the guard on the status that the form sends is missing.
EditAnyStatus(p, s, status, nums) ==
  db[s] \notin Absent /\ Load(p, Row(s, status), {t \in {s} : db[t] # status}, {t \in {s} : nums})

\* The form may send any status, but only active and disabled are assigned.
EditSubscription(p, s, status, nums) ==
  /\ db[s] \notin Absent
  /\ LET x == IF status \in {"active", "disabled"} THEN status ELSE db[s]
     IN Load(p, Row(s, x), {t \in {s} : db[t] # x}, {t \in {s} : nums})

DeleteSubscription(p, s) == db[s] \notin Absent /\ Load(p, Row(s, "gone"), {s}, {})

DeleteUser(p, u) == db[u] = "exists" /\ Load(p, Row(u, "gone"), {u}, {})

Lapsed(s) == db[s] = "active" /\ due[s] # "ok"

\* Mutant: only expires_at is looked at.
EnforceDatesOnly(p) ==
  LET rows == {s \in Subs : Lapsed(s) /\ due[s] = "expired"}
  IN /\ rows # {}
     /\ Load(p, [r \in Rows |-> IF r \in rows THEN due[r] ELSE "none"], rows, {})

\* Mutant: every active row is loaded, and the second branch is a plain else.
EnforceElse(p) ==
  LET rows == {s \in Subs : db[s] = "active"}
  IN /\ rows # {}
     /\ Load(p, [r \in Rows |-> IF r \notin rows THEN "none"
                               ELSE IF due[r] = "expired" THEN "expired" ELSE "over_limit"],
             rows, {})

\* The billing job loads the active rows that have lapsed and marks each.
EnforceLimits(p) ==
  LET rows == {s \in Subs : Lapsed(s)}
  IN /\ rows # {}
     /\ Load(p, [r \in Rows |-> IF r \in rows THEN due[r] ELSE "none"], rows, {})

-----------------------------------------------------------------------------
(* Commit and rebuild.                                                      *)

EndSession(p) ==
  /\ pc' = [pc EXCEPT ![p] = "idle"]
  /\ held' = [held EXCEPT ![p] = Nothing]
  /\ dirty' = [dirty EXCEPT ![p] = {}]
  /\ numbers' = [numbers EXCEPT ![p] = {}]
  /\ nview' = [nview EXCEPT ![p] = {}]
  /\ cview' = [cview EXCEPT ![p] = {}]
  /\ overlapped' = overlapped \ {p}
  /\ relieved' = relieved \ ({p} \X Subs)

\* An UPDATE that matches no row, or an INSERT whose user is gone, fails the
\* flush; a DELETE that matches no row does not.
Conflict(p) ==
  \/ \E r \in dirty[p] \cup numbers[p] : held[p][r] # "gone" /\ db[r] = "gone"
  \/ \E s \in dirty[p] \cap Subs : db[s] = "unborn" /\ db[Owner[s]] = "gone"

\* ON DELETE CASCADE from users to subscriptions.
Cascaded(p, r) == r \in Subs /\ db[r] # "unborn" /\ Owner[r] \in dirty[p]

NewSub(p) == \E s \in dirty[p] \cap Subs : db[s] = "unborn"
LiveNode(p) == \E n \in Nodes : held[p][n] \in Settings

\* Mutant: a handler that forgets to call rebuild_and_apply.
AfterCommitNoRebuild(p) == {"idle"}

\* create_subscription_for always refreshes the row it inserted, the JSON node
\* handlers refresh theirs, the form handlers do not.
AfterCommit(p) == {x \in {"refresh", "committed"} :
                     IF x = "refresh" THEN NewSub(p) \/ LiveNode(p) ELSE ~NewSub(p)}

Commit(p) ==
  /\ pc[p] = "loaded"
  /\ ~Conflict(p)
  /\ db' = [r \in Rows |-> IF r \in dirty[p] THEN held[p][r]
                           ELSE IF Cascaded(p, r) THEN "gone" ELSE db[r]]
  /\ \E nums \in [numbers[p] -> Dues] :
       due' = [s \in Subs |-> IF s \in numbers[p] THEN nums[s] ELSE due[s]]
  /\ \E next \in AfterCommit(p) : pc' = [pc EXCEPT ![p] = next]
  /\ dirty' = [dirty EXCEPT ![p] = {}]
  /\ numbers' = [numbers EXCEPT ![p] = {}]
  /\ overlapped' = overlapped \cup {q \in Procs \ {p} : pc[q] # "idle"}
  /\ relieved' = relieved \ ({p} \X Subs)
  /\ UNCHANGED <<file, held, nview, cview, faults, missed>>

CommitFails(p) ==
  /\ pc[p] = "loaded"
  /\ Conflict(p)
  /\ EndSession(p)
  /\ UNCHANGED <<db, due, file, faults, missed>>

InMap(p) == {r \in Rows : held[p][r] \notin {"none", "gone"}}

\* refresh re-reads the row.  The form handler drops the new subscription, so
\* the weak identity map forgets it; every other handler keeps its row.
Refresh(p) ==
  /\ pc[p] = "refresh"
  /\ \A r \in InMap(p) : db[r] # "gone"
  /\ \E kept \in {InMap(p), InMap(p) \cap Nodes} :
       held' = [held EXCEPT ![p] = [r \in Rows |-> IF r \in kept THEN db[r] ELSE "none"]]
  /\ pc' = [pc EXCEPT ![p] = "committed"]
  /\ UNCHANGED <<db, due, file, dirty, numbers, nview, cview, faults, overlapped, relieved, missed>>

RefreshFails(p) ==
  /\ pc[p] = "refresh"
  /\ \E r \in InMap(p) : db[r] = "gone"
  /\ EndSession(p)
  /\ missed' = TRUE
  /\ UNCHANGED <<db, due, file, faults>>

\* Mutant: the rebuild uses the rows its session happens to hold.
SeenHeldOnly(p) == [r \in Rows |-> IF r \in InMap(p) THEN held[p][r] ELSE "gone"]

\* A select returns the rows that are committed now, but a row already in the
\* identity map keeps the attributes it was loaded with.
Seen(p) == [r \in Rows |-> IF r \in InMap(p) /\ db[r] \notin Absent
                           THEN held[p][r] ELSE db[r]]

ReadNodes(p) ==
  /\ pc[p] = "committed"
  /\ nview' = [nview EXCEPT ![p] = NodesOf(Seen(p))]
  /\ pc' = [pc EXCEPT ![p] = "nodes_read"]
  /\ UNCHANGED <<db, due, file, held, dirty, numbers, cview, faults, overlapped, relieved, missed>>

\* The last use of the identity map.
ReadSubs(p) ==
  /\ pc[p] = "nodes_read"
  /\ cview' = [cview EXCEPT ![p] = ClientsOf(Seen(p))]
  /\ held' = [held EXCEPT ![p] = Nothing]
  /\ pc' = [pc EXCEPT ![p] = "subs_read"]
  /\ UNCHANGED <<db, due, file, dirty, numbers, nview, faults, overlapped, relieved, missed>>

\* Building the configuration and os.replace: no await in between.
Replace(p) ==
  /\ pc[p] = "subs_read"
  /\ file' = BuildConfig(nview[p], cview[p])
  /\ missed' = (p \in overlapped)
  /\ EndSession(p)
  /\ UNCHANGED <<db, due, faults>>

\* Process killed, database or disk error: nothing resumes the session.
Abort(p) ==
  /\ pc[p] # "idle"
  /\ faults < MaxFaults
  /\ faults' = faults + 1
  /\ missed' = (missed \/ pc[p] \in Rebuilding)
  /\ EndSession(p)
  /\ UNCHANGED <<db, due, file>>

\* The clock passes expires_at, or collected traffic reaches the limit.  A
\* passed date takes precedence.
Lapse(s, l) ==
  /\ db[s] \notin Absent
  /\ due[s] = "ok" \/ (due[s] = "over_limit" /\ l = "expired")
  /\ due' = [due EXCEPT ![s] = l]
  /\ UNCHANGED <<db, file, pc, session, faults, overlapped, relieved, missed>>

\* The collector writes a total that it computed from an outdated one: where
\* firings overlap the bytes used may fall, and below the limit again.
StaleTotal(s) ==
  /\ db[s] \notin Absent
  /\ due[s] = "over_limit"
  /\ due' = [due EXCEPT ![s] = "ok"]
  /\ relieved' = relieved \cup {<<p, s>> : p \in {q \in Procs : s \in dirty[q] /\ held[q][s] \in Lapses}}
  /\ UNCHANGED <<db, file, pc, session, faults, overlapped, missed>>

-----------------------------------------------------------------------------

AdminNodes(p) ==
  \E n \in Nodes :
    \/ DeleteNode(p, n)
    \/ \E x \in Settings : CreateNode(p, n, x) \/ UpdateNode(p, n, x)

AdminSubs(p) ==
  \E s \in Subs :
    \/ CreateSubscription(p, s)
    \/ DeleteSubscription(p, s)
    \/ \E status \in {"active", "disabled", "unassigned"}, nums \in BOOLEAN :
         EditSubscription(p, s, status, nums)

AdminUsers(p) == \E u \in Users : DeleteUser(p, u)

Advance(p) == Commit(p) \/ CommitFails(p) \/ Refresh(p) \/ RefreshFails(p)
              \/ ReadNodes(p) \/ ReadSubs(p) \/ Replace(p)

Next ==
  \/ \E p \in Api : \/ "nodes" \in Serves[p] /\ AdminNodes(p)
                    \/ "subscriptions" \in Serves[p] /\ AdminSubs(p)
                    \/ "users" \in Serves[p] /\ AdminUsers(p)
  \/ \E p \in Worker : EnforceLimits(p)
  \/ \E p \in Procs : Advance(p) \/ Abort(p)
  \/ \E s \in Subs : StaleTotal(s) \/ \E l \in Lapses : Lapse(s, l)

Spec == Init /\ [][Next]_vars

\* The cron fires the billing job again and again, and a session that is not
\* cut short runs to its end.
Fairness ==
  /\ \A p \in Worker : WF_vars(EnforceLimits(p))
  /\ \A p \in Procs : WF_vars(Advance(p))

FairSpec == Spec /\ Fairness
-----------------------------------------------------------------------------

FilesBuilt == {BuildConfig(n, c) : n \in SUBSET NodeRows, c \in SUBSET Subs}

\* Every variable keeps the shape its column or session attribute has.
TypeOK ==
  /\ db \in [Rows -> Values]
  /\ due \in [Subs -> Dues]
  /\ file \in FilesBuilt
  /\ pc \in [Procs -> Stages]
  /\ held \in [Procs -> [Rows -> Values \cup {"none"}]]
  /\ dirty \in [Procs -> SUBSET Rows]
  /\ numbers \in [Procs -> SUBSET Subs]
  /\ nview \in [Procs -> SUBSET NodeRows]
  /\ cview \in [Procs -> SUBSET Subs]
  /\ faults \in 0..MaxFaults
  /\ overlapped \subseteq Procs
  /\ relieved \subseteq Procs \X Subs
  /\ missed \in BOOLEAN

\* The file is what the committed tables say it should be.
InSync == file = BuildConfig(NodesOf(db), ClientsOf(db))

\* Once nobody is rebuilding, the relay's file matches the tables unless the
\* last rebuild to finish ran beside another session's commit, or one was cut
\* short: rebuild_and_apply loses an update in no other way.
DivergenceHasCause ==
  (\A p \in Procs : pc[p] \notin Rebuilding) /\ ~missed => InSync

\* A rebuild during which no other session committed brings the file in line
\* with the tables whatever the file said before: rewriting the whole file
\* repairs earlier divergence.
RebuildRepairs ==
  [][\A p \in Procs : Replace(p) /\ p \notin overlapped => InSync']_vars

\* Docs (development.md): rebuilding after the commit keeps tables and relay in
\* sync.  So with nobody at work the file matches the tables.
InSyncWhenIdle == (\A p \in Procs : pc[p] = "idle") => InSync

\* The billing job never marks a subscription whose numbers show no lapse,
\* unless between its select and its commit another session committed (a
\* top-up) or the collector wrote an outdated total over the one at the limit.
MarksAreDue ==
  [][\A p \in Procs \ overlapped, s \in Subs :
       /\ Commit(p) /\ db[s] # db'[s] /\ db'[s] \in Lapses
       /\ due'[s] = "ok"
       => <<p, s>> \in relieved]_vars

\* The billing job marks a subscription that has lapsed, whatever the admins
\* do meanwhile, unless the lapse goes away first.
LapsedIsMarked == \A s \in Subs : Lapsed(s) ~> ~Lapsed(s)

\* Docs (operations.md): after a top-up the billing job re-evaluates expired
\* and over_limit, so the mark does not outlive the lapse.
ReEvaluated ==
  \A s \in Subs : (db[s] \in Lapses /\ due[s] = "ok")
                  ~> ~(db[s] \in Lapses /\ due[s] = "ok")
=============================================================================
