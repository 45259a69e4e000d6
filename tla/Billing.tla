-------------------------------- MODULE Billing --------------------------------
(***************************************************************************)
(* The numbers behind a subscription's status: its limit, its bytes used    *)
(* and its end, the plans it is made and extended from, the edit page that  *)
(* shows them rounded and takes them back, and the billing job that reads   *)
(* them.  PanelSync abstracts all of this to due.                           *)
(*                                                                         *)
(* One subscription; sessions commit as in PanelSync and their rebuilds are *)
(* left to it.  Time and bytes are integers: the clock ticks below a        *)
(* minute, the page rounds ends to Minute ticks and limits to one of the    *)
(* Parts of a Gigabyte (0.01 GB, which is no whole number of bytes).        *)
(***************************************************************************)
EXTENDS Integers

CONSTANTS
  Plans, NoPlan,
  Terms,       \* what a plan may offer
  Limits,      \* limits that an admin may type
  Dates,       \* dates that an admin may type
  Boxes,       \* the boxes that an admin may tick together
  Never, NoDate,
  Gigabyte, Parts, Minute, Day,
  Admins,
  MaxTime, Horizon, MaxUsed,  \* bounds on the clock, on dates and on bytes
  Unborn, Gone

Statuses == {"active", "disabled", "expired", "over_limit"}
Ends == Int \cup {Never}

Row == [plan : Plans \cup {NoPlan}, limit : Int, used : Nat, expires : Ends, status : Statuses]

ASSUME BillingAssumption ==
  /\ NoPlan \notin Plans /\ Never \notin Int /\ NoDate \notin Int
  /\ Terms \subseteq [traffic : Int, days : Int]
  /\ Unborn # Gone /\ {Unborn, Gone} \cap (Row \cup Terms) = {}
  /\ Limits \subseteq Int /\ Dates \subseteq Int /\ Boxes \subseteq SUBSET {"never", "extend", "reset"}
  /\ Gigabyte \in Nat /\ Parts \in Nat \ {0} /\ Gigabyte >= Parts
  /\ Minute \in Nat \ {0} /\ Day \in Nat
  /\ MaxTime \in Nat /\ Horizon \in Int /\ MaxUsed \in Nat

VARIABLES
  now,
  plan,  \* the committed rows of plans
  sub,   \* the committed row of the subscription
  req,   \* where each admin's page or request stands
  job    \* where the billing job stands

vars == <<now, plan, sub, req, job>>

Idle == [at |-> "idle"]

HasRow == sub \notin {Unborn, Gone}
Known(pl) == plan[pl] \in Terms

\* Mutant: used bytes are looked at first.
LapseOfUsedFirst(row, t) ==
  IF row.limit > 0 /\ row.used >= row.limit THEN "over_limit"
  ELSE IF row.expires # Never /\ row.expires < t THEN "expired"
  ELSE "ok"

\* The condition of the select and of the two branches behind it.
LapseOf(row, t) ==
  IF row.expires # Never /\ row.expires < t THEN "expired"
  ELSE IF row.limit > 0 /\ row.used >= row.limit THEN "over_limit"
  ELSE "ok"

Init ==
  /\ now = 0
  /\ plan = [pl \in Plans |-> Unborn]
  /\ sub = Unborn
  /\ req = [p \in Admins |-> Idle]
  /\ job = Idle

-----------------------------------------------------------------------------
(* Plans.  Their handlers read nothing that could be outdated.              *)

CreatePlan(pl, terms) ==
  /\ plan[pl] = Unborn
  /\ plan' = [plan EXCEPT ![pl] = terms]
  /\ UNCHANGED <<now, sub, req, job>>

\* subscriptions.plan_id is set to NULL.
DeletePlan(pl) ==
  /\ Known(pl)
  /\ plan' = [plan EXCEPT ![pl] = Gone]
  /\ sub' = IF HasRow /\ sub.plan = pl THEN [sub EXCEPT !.plan = NoPlan] ELSE sub
  /\ UNCHANGED <<now, req, job>>

-----------------------------------------------------------------------------
(* Admins.                                                                  *)

Moves(p, r) ==
  /\ req' = [req EXCEPT ![p] = r]
  /\ UNCHANGED <<now, plan>>

\* create_subscription_for; a duration of 0 days means no end.
NewRow(pl) ==
  [plan |-> pl, limit |-> plan[pl].traffic, used |-> 0, status |-> "active",
   expires |-> IF plan[pl].days = 0 THEN Never ELSE now + plan[pl].days * Day]

StartCreate(p, pl) ==
  /\ req[p] = Idle /\ sub = Unborn /\ Known(pl)
  /\ Moves(p, [at |-> "creating", row |-> NewRow(pl)])
  /\ UNCHANGED <<sub, job>>

\* The plan may have been deleted since: the foreign key fails the INSERT.
Insert(p) ==
  /\ req[p].at = "creating" /\ sub = Unborn /\ Known(req[p].row.plan)
  /\ sub' = req[p].row
  /\ Moves(p, Idle)
  /\ UNCHANGED job

DeleteSub ==
  /\ HasRow
  /\ sub' = Gone
  /\ UNCHANGED <<now, plan, req, job>>

\* '%.2f' of the limit in gigabytes: the nearest number of parts, the even one
\* of two that are as near.
Hundredths(n) ==
  LET twice == 2 * n * Parts + Gigabyte
      k == twice \div (2 * Gigabyte)
  IN IF twice % (2 * Gigabyte) = 0 THEN k - (k % 2) ELSE k

\* The bytes that int() makes of what the page shows, cut off towards zero.
ShownLimit(n) ==
  LET bytes == Hundredths(n) * Gigabyte
  IN IF bytes >= 0 THEN bytes \div Parts ELSE -((-bytes) \div Parts)

\* Mutant: the page shows another zone's time than the form is read in.
ShownDateLocal(e) == IF e = Never THEN NoDate ELSE e - (e % Minute) - Minute

ShownDate(e) == IF e = Never THEN NoDate ELSE e - (e % Minute)

ShowPage(p) ==
  /\ req[p] = Idle /\ HasRow
  /\ Moves(p, [at |-> "page", limit |-> sub.limit, expires |-> sub.expires,
               kept |-> {"limit", "expires"}, added |-> 0])
  /\ UNCHANGED <<sub, job>>

\* What may be sent: what the page showed where its admin left it, a date that
\* was typed or cleared.  The lapses are in a disabled option, which browsers do
\* not send, and the handler would ignore.  A browser may refuse some of these,
\* by the step of the limit's field; the handler takes them.
Forms(page) ==
  [plan : Plans, status : {"active", "disabled"},
   limit : Limits \cup {ShownLimit(page.limit)},
   date : Dates \cup {NoDate, ShownDate(page.expires)},
   boxes : Boxes]

\* The days of the plan, where the form asks for them and is heard.
Added(f) ==
  IF "extend" \in f.boxes /\ Known(f.plan) /\ plan[f.plan].days > 0
  THEN plan[f.plan].days * Day ELSE 0

Later(e, ticks) == (IF e = Never THEN now ELSE e) + ticks

\* Mutant: the date, which the form always carries, goes before the extension.
EndOfDateFirst(e, f) ==
  IF "never" \in f.boxes THEN Never
  ELSE IF f.date # NoDate THEN f.date
  ELSE IF Added(f) > 0 THEN Later(e, Added(f))
  ELSE e

\* Mutant: an empty date is taken for one.
EndOfAnyDate(e, f) ==
  IF "never" \in f.boxes THEN Never
  ELSE IF Added(f) > 0 THEN Later(e, Added(f))
  ELSE f.date

\* A box for no end, a box for the plan's duration, a date, in this order.
EndOf(e, f) ==
  IF "never" \in f.boxes THEN Never
  ELSE IF Added(f) > 0 THEN Later(e, Added(f))
  ELSE IF f.date # NoDate THEN f.date
  ELSE e

\* The assignments of edit_subscription_submit.
Edited(row, f) ==
  [plan |-> IF Known(f.plan) THEN f.plan ELSE NoPlan,
   limit |-> f.limit,
   used |-> IF "reset" \in f.boxes THEN 0 ELSE row.used,
   expires |-> EndOf(row.expires, f),
   status |-> f.status]

\* History: the columns that the admin leaves as the page showed them and that
\* nobody has changed since.
Kept(page, f) ==
  {c \in page.kept :
     IF c = "limit" THEN f.limit = ShownLimit(page.limit)
     ELSE /\ ("never" \in f.boxes) = (page.expires = Never)
          /\ f.date = ShownDate(page.expires)
          /\ "never" \notin f.boxes => Added(f) = 0}

\* The handler loads the row, then the plan, and assigns; a plan deleted in
\* between is the same as one deleted before.  Its UPDATE will write the
\* columns that differ from what was loaded.
Post(p, f) ==
  /\ req[p].at = "page" /\ HasRow
  /\ Later(sub.expires, Added(f)) <= Horizon
  /\ LET new == Edited(sub, f)
     IN Moves(p, [at |-> "editing", set |-> [c \in {d \in DOMAIN new : new[d] # sub[d]} |-> new[c]],
                  kept |-> Kept(req[p], f),
                  added |-> IF "expires" \in req[p].kept /\ "never" \notin f.boxes THEN Added(f) ELSE 0])
  /\ UNCHANGED <<sub, job>>

\* History: what others changed is no longer as the page showed it.
Overtaken(r) ==
  IF r.at \notin {"page", "editing"} THEN r
  ELSE [r EXCEPT !.kept = {c \in r.kept : sub'[c] = sub[c]},
                 !.added = IF sub'.expires = sub.expires THEN r.added ELSE 0]

\* An UPDATE fails on a row that is gone and on a plan that is.
Commit(p) ==
  LET r == req[p]
  IN /\ r.at = "editing" /\ HasRow
     /\ "plan" \in DOMAIN r.set => r.set.plan = NoPlan \/ Known(r.set.plan)
     /\ sub' = [c \in DOMAIN sub |-> IF c \in DOMAIN r.set THEN r.set[c] ELSE sub[c]]
     /\ req' = [q \in Admins |-> IF q = p THEN Idle ELSE Overtaken(req[q])]
     /\ job' = IF job.at = "marking" THEN [job EXCEPT !.overtaken = TRUE] ELSE job
     /\ UNCHANGED <<now, plan>>

\* The page is closed; the request fails, is refused or is cut off.
End(p) ==
  /\ req[p] # Idle
  /\ Moves(p, Idle)
  /\ UNCHANGED <<sub, job>>

-----------------------------------------------------------------------------
(* The billing job, the clock and the collector.                            *)

\* Mutant: the select does not ask for active rows.
JobSelectAll(t) ==
  /\ job = Idle
  /\ HasRow /\ LapseOf(sub, t) # "ok"
  /\ job' = [at |-> "marking", mark |-> LapseOf(sub, t), overtaken |-> FALSE, lowered |-> FALSE]
  /\ UNCHANGED <<now, plan, sub, req>>

\* The clock is read once, some time t before the select; the same t decides
\* how each row is marked.
JobSelect(t) ==
  /\ job = Idle
  /\ HasRow /\ sub.status = "active" /\ LapseOf(sub, t) # "ok"
  /\ job' = [at |-> "marking", mark |-> LapseOf(sub, t), overtaken |-> FALSE, lowered |-> FALSE]
  /\ UNCHANGED <<now, plan, sub, req>>

JobCommit ==
  /\ job.at = "marking" /\ HasRow
  /\ sub' = [sub EXCEPT !.status = job.mark]
  /\ job' = Idle
  /\ UNCHANGED <<now, plan, req>>

\* The row has gone, or the job is cut off.
JobEnd ==
  /\ job # Idle
  /\ job' = Idle
  /\ UNCHANGED <<now, plan, sub, req>>

Tick ==
  /\ now < MaxTime
  /\ now' = now + 1
  /\ UNCHANGED <<plan, sub, req, job>>

\* The collector adds what came to a total that it loaded before and writes the
\* sum (Traffic has its load and its commit apart): where firings overlap, or an
\* admin resets in between, that total is an old one of the row's, so that the
\* bytes used may also fall, though not to none.
Collect ==
  /\ HasRow
  /\ \E total \in 1..MaxUsed :
       /\ sub' = [sub EXCEPT !.used = total]
       /\ job' = IF job.at = "marking" /\ total < sub.used THEN [job EXCEPT !.lowered = TRUE] ELSE job
  /\ UNCHANGED <<now, plan, req>>

Handle(p) ==
  \/ \E pl \in Plans : StartCreate(p, pl)
  \/ Insert(p) \/ ShowPage(p)
  \/ \E f \in (IF req[p].at = "page" THEN Forms(req[p]) ELSE {}) : Post(p, f)
  \/ Commit(p) \/ End(p)

Next ==
  \/ \E pl \in Plans : DeletePlan(pl) \/ \E terms \in Terms : CreatePlan(pl, terms)
  \/ \E p \in Admins : Handle(p)
  \/ DeleteSub
  \/ (\E t \in 0..now : JobSelect(t)) \/ JobCommit \/ JobEnd
  \/ Tick \/ Collect

Spec == Init /\ [][Next]_vars
-----------------------------------------------------------------------------

Columns == [plan |-> Plans \cup {NoPlan}, limit |-> Int, used |-> Nat, expires |-> Ends, status |-> Statuses]

Pages ==
  [at : {"page"}, limit : Int, expires : Ends, kept : SUBSET {"limit", "expires"}, added : {0}]

Editing(r) ==
  /\ r = [at |-> "editing", set |-> r.set, kept |-> r.kept, added |-> r.added]
  /\ DOMAIN r.set \subseteq DOMAIN Columns
  /\ \A c \in DOMAIN r.set : r.set[c] \in Columns[c]
  /\ r.kept \subseteq {"limit", "expires"}
  /\ r.added \in Int

Jobs ==
  {Idle} \cup [at : {"marking"}, mark : {"expired", "over_limit"},
               overtaken : BOOLEAN, lowered : BOOLEAN]

\* Rows, pages, requests and the job have their shape.
TypeOK ==
  /\ now \in 0..MaxTime
  /\ plan \in [Plans -> Terms \cup {Unborn, Gone}]
  /\ sub \in Row \cup {Unborn, Gone}
  /\ DOMAIN req = Admins
  /\ \A p \in Admins : req[p] \in {Idle} \cup [at : {"creating"}, row : Row] \cup Pages \/ Editing(req[p])
  /\ job \in Jobs

\* What an admin left as the page showed it stays as it was, unless it changed
\* behind the page: an end to less than a minute, a limit to half of 0.01 GB
\* and a byte.  A limit above half of 0.01 GB stays a limit; one below is shown
\* as 0.00 and saved as none.
UntouchedTermsStay ==
  [][\A p \in Admins : Commit(p) =>
       /\ "expires" \in req[p].kept /\ sub'.expires # sub.expires =>
            /\ Never \notin {sub.expires, sub'.expires}
            /\ sub'.expires \in (sub.expires - Minute) + 1 .. sub.expires
       /\ "limit" \in req[p].kept =>
            /\ 2 * Parts * (sub'.limit - sub.limit) \in -(Gigabyte + 2 * Parts) .. Gigabyte + 2 * Parts
            /\ 2 * Parts * sub.limit > Gigabyte => sub'.limit > 0]_vars

\* An extension adds the plan's days to the end that the page showed, or to a
\* moment since then where it showed none, unless the end has changed behind
\* the page; nothing else in the form takes it away.
ExtensionReaches ==
  [][\A p \in Admins : Commit(p) /\ req[p].added > 0 =>
       /\ sub'.expires # Never
       /\ IF sub.expires # Never THEN sub'.expires = sub.expires + req[p].added
          ELSE sub'.expires <= now + req[p].added]_vars

\* Unless an admin's commit came between its select and its commit, the billing
\* job marks an active row, and for the reason its numbers give when it is
\* marked; only the limit may not be reached any more, where the collector has
\* written a lower total in between.
MarksSayWhy ==
  [][JobCommit /\ ~job.overtaken =>
       /\ sub.status = "active"
       /\ sub'.status = "expired" => sub.expires # Never /\ sub.expires < now
       /\ sub'.status = "over_limit" => sub.limit > 0 /\ (sub.used >= sub.limit \/ job.lowered)]_vars

\* The steps that PanelSync has for due are all there are: without an admin's
\* commit an end that has passed stays so, and over_limit goes only where the
\* collector writes a lower total (PanelSync's Lapse and StaleTotal).
LapsesAsAssumed ==
  [][HasRow /\ HasRow' /\ req' = req =>
       LET before == LapseOf(sub, now)
           after == LapseOf(sub', now')
       IN \/ after = before \/ before = "ok" \/ after = "expired"
          \/ before = "over_limit" /\ after = "ok" /\ sub'.used < sub.used]_vars
=============================================================================
