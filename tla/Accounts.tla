------------------------------- MODULE Accounts -------------------------------
(***************************************************************************)
(* The table users, the requests that change it, and the seed that runs at  *)
(* every start of the panel.  A request is a few awaits: the account behind *)
(* its token is selected, then the row it is about, then its changes are    *)
(* committed; what it selected may have changed by then.                    *)
(*                                                                         *)
(* A token carries an account's id and outlives changes of the account; the *)
(* row is read at each request, so a token is left to whoever has a row.    *)
(* Passwords, expiry of tokens and what else hangs on an account            *)
(* (PanelSync) are left out.                                                *)
(***************************************************************************)
CONSTANTS
  Ids,         \* values of the sequence users.id, each drawn once
  Emails, AdminEmail,
  Requests,    \* request slots
  Unborn, Gone \* no row yet, no row any more

ASSUME AccountsAssumption ==
  /\ AdminEmail \in Emails
  /\ Unborn # Gone

VARIABLES
  user,      \* the committed table
  up,        \* whether the panel runs
  req,       \* where each request stands and what it has read
  disturbed  \* history: requests during which another one committed

vars == <<user, up, req, disturbed>>

Columns == {"email", "role", "active"}

Account == [email : Emails, role : {"user", "admin"}, active : BOOLEAN]

ASSUME NoAccount == Unborn \notin Account /\ Gone \notin Account

Idle == [at |-> "idle"]

Stages ==
  {Idle}
  \cup [at : {"checked"}, email : Emails]
  \cup [at : {"signed_in"}, admin : Ids, row : Account]
  \cup [at : {"page"}, admin : Ids, target : Ids, shown : Account, kept : SUBSET Columns]
  \cup [at : {"posted"}, admin : Ids, row : Account, target : Ids, shown : Account, kept : SUBSET Columns]
  \cup [at : {"editing"}, admin : Ids, row : Account, target : Ids, form : Account, kept : SUBSET Columns]
  \cup [at : {"deleting"}, admin : Ids, target : Ids]

HasRow(i) == user[i] \notin {Unborn, Gone}

Taken(e) == \E i \in Ids : HasRow(i) /\ user[i].email = e

TakenFrom(u, e) == \E i \in Ids \ {u} : HasRow(i) /\ user[i].email = e

\* get_current_admin and require_admin: a row, active, of role admin.
ActiveAdmins == {i \in Ids : HasRow(i) /\ user[i].active /\ user[i].role = "admin"}

Init ==
  /\ user = [i \in Ids |-> Unborn]
  /\ up = FALSE
  /\ req = [p \in Requests |-> Idle]
  /\ disturbed = {}

-----------------------------------------------------------------------------
(* Start and stop.                                                          *)

\* The seed looks for the configured address and inserts an admin if there is
\* none; nothing is served before.
Start ==
  /\ ~up /\ up' = TRUE
  /\ IF Taken(AdminEmail) THEN UNCHANGED user
     ELSE \E i \in Ids :
            /\ user[i] = Unborn
            /\ user' = [user EXCEPT ![i] = [email |-> AdminEmail, role |-> "admin", active |-> TRUE]]
  /\ UNCHANGED <<req, disturbed>>

\* Requests are cut off; a page stays in its browser.
Stop ==
  /\ up /\ up' = FALSE
  /\ req' = [p \in Requests |-> IF req[p].at = "page" THEN req[p] ELSE Idle]
  /\ disturbed' = {}
  /\ UNCHANGED user

-----------------------------------------------------------------------------
(* Requests.                                                                *)

Reads(p, r) ==
  /\ up
  /\ req' = [req EXCEPT ![p] = r]
  /\ disturbed' = IF r.at = "posted" THEN disturbed \ {p} ELSE disturbed
  /\ UNCHANGED <<user, up>>

\* The request ends without a commit: refused, nothing to do, failed, cancelled.
End(p) ==
  /\ req[p] # Idle
  /\ req' = [req EXCEPT ![p] = Idle]
  /\ disturbed' = disturbed \ {p}
  /\ UNCHANGED <<user, up>>

SignIn(p, a) ==
  /\ req[p] = Idle /\ a \in ActiveAdmins
  /\ Reads(p, [at |-> "signed_in", admin |-> a, row |-> user[a]])

\* register needs no token, the handlers that create a user an admin's.
CheckEmail(p, e) ==
  /\ req[p].at \in {"idle", "signed_in"} /\ ~Taken(e)
  /\ Reads(p, [at |-> "checked", email |-> e])

\* db.get: the admin's own row is in the identity map and is not read again.
Got(p, u) == IF u = req[p].admin THEN req[p].row ELSE user[u]

\* The page of u, with the history of it: the columns that are still in the
\* table as the page shows them.
Page(p, u) ==
  [at |-> "page", admin |-> req[p].admin, target |-> u, shown |-> Got(p, u),
   kept |-> {c \in Columns : HasRow(u) /\ user[u][c] = Got(p, u)[c]}]

\* Mutant: the page of an account that is not there.
ShowPageAny(p, u) ==
  /\ req[p].at = "signed_in"
  /\ Reads(p, Page(p, u))

\* edit_user_page shows the row; the form is posted whenever its admin likes,
\* in a request of its own that signs in again.
ShowPage(p, u) ==
  /\ req[p].at = "signed_in"
  /\ Got(p, u) \notin {Unborn, Gone}
  /\ Reads(p, Page(p, u))

PostPage(p) ==
  /\ req[p].at = "page" /\ req[p].admin \in ActiveAdmins
  /\ Reads(p, [at |-> "posted", admin |-> req[p].admin, row |-> user[req[p].admin],
               target |-> req[p].target, shown |-> req[p].shown, kept |-> req[p].kept])

\* The form holds what the page showed where its admin changed nothing.
LoadEdit(p, form) ==
  /\ req[p].at = "posted"
  /\ Got(p, req[p].target) \notin {Unborn, Gone}
  /\ Reads(p, [at |-> "editing", admin |-> req[p].admin, row |-> Got(p, req[p].target),
               target |-> req[p].target, form |-> form,
               kept |-> {c \in req[p].kept : form[c] = req[p].shown[c]}])

\* Mutant: admins may delete themselves.
LoadDeleteAny(p, u) ==
  /\ req[p].at = "signed_in"
  /\ HasRow(u)
  /\ Reads(p, [at |-> "deleting", admin |-> req[p].admin, target |-> u])

LoadDelete(p, u) ==
  /\ req[p].at = "signed_in" /\ u # req[p].admin
  /\ HasRow(u)
  /\ Reads(p, [at |-> "deleting", admin |-> req[p].admin, target |-> u])

\* History: what a commit changes behind a page is no longer as the page shows
\* it, until the posted form's request has selected the row; an admin's own row
\* is selected with its token.
Overtaken(r, i, row) ==
  IF /\ r.at = "page" \/ (r.at = "posted" /\ r.target # r.admin)
     /\ r.target = i /\ HasRow(i) /\ row # Gone
  THEN [r EXCEPT !.kept = {c \in r.kept : row[c] = user[i][c]}]
  ELSE r

Commit(p, i, row) ==
  /\ user' = [user EXCEPT ![i] = row]
  /\ req' = [q \in Requests |-> IF q = p THEN Idle ELSE Overtaken(req[q], i, row)]
  /\ disturbed' = (disturbed \cup {q \in Requests : req[q] # Idle}) \ {p}
  /\ UNCHANGED up

\* Mutant: the check made earlier is relied on, the column is not unique.
InsertUnchecked(p) ==
  /\ req[p].at = "checked"
  /\ \E i \in Ids :
       user[i] = Unborn /\ Commit(p, i, [email |-> req[p].email, role |-> "user", active |-> TRUE])

\* A second row with the address fails at the UNIQUE column, and End follows.
Insert(p) ==
  /\ req[p].at = "checked" /\ ~Taken(req[p].email)
  /\ \E i \in Ids :
       user[i] = Unborn /\ Commit(p, i, [email |-> req[p].email, role |-> "user", active |-> TRUE])

Commits(p, fails, row) ==
  LET u == req[p].target
  IN /\ req[p].at = "editing"
     /\ req[p].form # req[p].row
     /\ HasRow(u) /\ ~fails
     /\ Commit(p, u, row)

\* Mutant: the UPDATE writes every column of the form.
EditAll(p) ==
  Commits(p, TakenFrom(req[p].target, req[p].form.email), req[p].form)

\* The form is assigned to every column; the UPDATE writes those that differ
\* from what was loaded.  It fails on a row that is gone and on an address
\* that another account has.
Edit(p) ==
  LET r == req[p]
      Written(c) == r.form[c] # r.row[c]
  IN Commits(p, Written("email") /\ TakenFrom(r.target, r.form.email),
             [c \in DOMAIN r.form |-> IF Written(c) THEN r.form[c] ELSE user[r.target][c]])

\* A DELETE that matches no row does not fail.
Delete(p) ==
  /\ req[p].at = "deleting"
  /\ LET u == req[p].target IN Commit(p, u, IF HasRow(u) THEN Gone ELSE user[u])

Handle(p) ==
  \/ \E i \in Ids : SignIn(p, i) \/ ShowPage(p, i) \/ LoadDelete(p, i)
  \/ \E form \in Account : LoadEdit(p, form)
  \/ \E e \in Emails : CheckEmail(p, e)
  \/ PostPage(p)
  \/ Insert(p) \/ Edit(p) \/ Delete(p)
  \/ End(p)

Next == Start \/ Stop \/ \E p \in Requests : Handle(p)

Spec == Init /\ [][Next]_vars
-----------------------------------------------------------------------------

\* Rows, requests and what they have read have their shape.
TypeOK ==
  /\ user \in [Ids -> Account \cup {Unborn, Gone}]
  /\ up \in BOOLEAN
  /\ req \in [Requests -> Stages]
  /\ disturbed \subseteq Requests

\* However registrations, created users, edits of addresses and the seed fall
\* between each other's check and commit, one address has one account.
EmailsDistinct ==
  \A i, j \in Ids : HasRow(i) /\ HasRow(j) /\ user[i].email = user[j].email => i = j

\* The panel loses its last active admin only when that admin edits itself, or
\* when another request commits behind the deciding one's back: two admins that
\* delete each other, one that is demoted between its sign-in and its edit.
LastAdminFalls ==
  [][ActiveAdmins # {} /\ ActiveAdmins' = {} =>
       \E p \in Requests :
         \/ Edit(p) /\ req[p].target = req[p].admin
         \/ (Edit(p) \/ Delete(p)) /\ p \in disturbed]_vars

\* A column that its admin left as the page showed it stays as it is in the
\* table when the edit is committed, whoever has committed what in between: an
\* edit undoes another's change of such a column only where that change came
\* after the page and before the posted form's request selected the row.  A
\* change that came later is kept.
UntouchedStays ==
  [][\A p \in Requests : Edit(p) =>
       \A c \in req[p].kept : user'[req[p].target][c] = user[req[p].target][c]]_vars
=============================================================================
