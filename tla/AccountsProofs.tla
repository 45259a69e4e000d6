---------------------------- MODULE AccountsProofs ----------------------------
(***************************************************************************)
(* The properties of Accounts for any number of accounts, addresses and      *)
(* requests.  EmailsDistinct is inductive with the types.  LastAdminFalls    *)
(* rests on what a request may rely on: while no other request has           *)
(* committed, the admin it has signed in is still an active admin; and a     *)
(* deletion is never about that admin.  UntouchedStays rests on what a page  *)
(* still says of the table, from one commit to the next.                     *)
(***************************************************************************)
EXTENDS Accounts, TLAPS

Signed == {"signed_in", "posted", "editing", "deleting"}

\* An undisturbed request's admin still is one, and deletes somebody else.
Authority ==
  \A p \in Requests :
    /\ req[p].at \in Signed /\ p \notin disturbed => req[p].admin \in ActiveAdmins
    /\ req[p].at = "deleting" => req[p].target # req[p].admin

\* What request r relies on in table t: the columns that it keeps are there as
\* its page shows them, then in the row it selected, then in its form.
Relies(r, t) ==
  /\ r.at = "signed_in" => t[r.admin] # Unborn
  /\ r.at \in {"page", "posted", "deleting"} => t[r.target] # Unborn
  /\ (r.at = "page" \/ (r.at = "posted" /\ r.target # r.admin)) /\ t[r.target] # Gone =>
       \A c \in r.kept : t[r.target][c] = r.shown[c]
  /\ r.at = "posted" /\ r.target = r.admin => \A c \in r.kept : r.row[c] = r.shown[c]
  /\ r.at = "editing" => \A c \in r.kept : r.form[c] = r.row[c]

Reliance == \A p \in Requests : Relies(req[p], user)

IInv == TypeOK /\ EmailsDistinct /\ Authority /\ Reliance

\* The table is empty and nothing is asked.
LEMMA InitHolds == Init => IInv
<1> SUFFICES ASSUME Init PROVE IInv
  OBVIOUS
<1>1. TypeOK
  BY DEF Init, TypeOK, Stages
<1>2. EmailsDistinct
  BY DEF Init, EmailsDistinct, HasRow
<1>3. Authority
  BY DEF Init, Authority, Idle, Signed
<1>4. Reliance
  BY DEF Init, Reliance, Relies, Idle
<1> QED BY <1>1, <1>2, <1>3, <1>4 DEF IInv

\* What a request's stage says about its fields.
LEMMA StageFields ==
  ASSUME TypeOK, NEW p \in Requests
  PROVE  /\ req[p].at \in Signed \cup {"page"} => req[p].admin \in Ids
         /\ req[p].at = "checked" => req[p].email \in Emails
         /\ req[p].at \in {"signed_in", "posted", "editing"} => req[p].row \in Account
         /\ req[p].at \in {"page", "posted"} => req[p].shown \in Account
         /\ req[p].at \in {"page", "posted", "editing"} => req[p].kept \in SUBSET Columns
         /\ req[p].at \in {"page", "posted", "editing", "deleting"} => req[p].target \in Ids
         /\ req[p].at = "editing" => req[p].form \in Account
BY DEF TypeOK, Stages, Idle, Signed

\* A request that reads leaves the table alone.
LEMMA ReadStep ==
  ASSUME IInv, NEW p \in Requests, NEW r \in Stages, Reads(p, r),
         r.at \in Signed =>
           (IF r.at = "posted" THEN {} ELSE disturbed) \cap {p} # {} \/ r.admin \in ActiveAdmins,
         r.at = "deleting" => r.target # r.admin,
         Relies(r, user)
  PROVE  IInv'
<1>1. TypeOK'
  BY DEF IInv, TypeOK, Reads
<1>2. EmailsDistinct'
  BY DEF IInv, EmailsDistinct, HasRow, Reads
<1>3. Authority'
  <2>1. ActiveAdmins' = ActiveAdmins
    BY DEF ActiveAdmins, HasRow, Reads
  <2>2. \A q \in Requests : q # p => req'[q] = req[q] /\ (q \in disturbed <=> q \in disturbed')
    BY DEF IInv, TypeOK, Reads
  <2>3. req'[p] = r /\ disturbed' = IF r.at = "posted" THEN disturbed \ {p} ELSE disturbed
    BY DEF IInv, TypeOK, Reads
  <2> QED BY <2>1, <2>2, <2>3 DEF IInv, Authority
<1>4. Reliance'
  <2>1. user' = user /\ \A q \in Requests : req'[q] = IF q = p THEN r ELSE req[q]
    BY DEF IInv, TypeOK, Reads
  <2> QED BY <2>1 DEF IInv, Reliance
<1> QED BY <1>1, <1>2, <1>3, <1>4 DEF IInv

\* A row put in the place of i's leaves addresses distinct if its own is free
\* among the others.
LEMMA DistinctKept ==
  ASSUME TypeOK, EmailsDistinct, NEW i \in Ids, NEW row \in Account \cup {Unborn, Gone},
         user' = [user EXCEPT ![i] = row],
         row \in Account => \A j \in Ids \ {i} : HasRow(j) => user[j].email # row.email
  PROVE  EmailsDistinct'
<1>1. \A j \in Ids : user'[j] = IF j = i THEN row ELSE user[j]
  BY DEF TypeOK
<1> QED BY <1>1, NoAccount DEF EmailsDistinct, HasRow

\* A commit to row i takes from a request what it can no longer rely on, and
\* nothing else.
LEMMA OvertakenRelies ==
  ASSUME NEW r \in Stages, user \in [Ids -> Account \cup {Unborn, Gone}],
         NEW i \in Ids, NEW row \in Account \cup {Gone}, user' = [user EXCEPT ![i] = row],
         user[i] = Gone => row = Gone,
         Relies(r, user)
  PROVE  /\ Overtaken(r, i, row) \in Stages
         /\ Overtaken(r, i, row).at = r.at
         /\ r.at # "page" /\ r.at # "posted" => Overtaken(r, i, row) = r
         /\ r.at = "posted" => Overtaken(r, i, row).admin = r.admin
         /\ Relies(Overtaken(r, i, row), user')
<1> DEFINE o == Overtaken(r, i, row)
           kept == {c \in r.kept : row[c] = user[i][c]}
           Behind == r.at = "page" \/ (r.at = "posted" /\ r.target # r.admin)
<1>0. \A j \in Ids : user'[j] = IF j = i THEN row ELSE user[j]
  OBVIOUS
<1>1. row # Unborn
  BY NoAccount, AccountsAssumption
<1>2. CASE Behind /\ r.target = i /\ HasRow(i) /\ row # Gone
  <2>1. o = [r EXCEPT !.kept = kept]
    BY <1>2 DEF Overtaken
  <2>2. r.kept \in SUBSET Columns /\ kept \in SUBSET Columns
    BY <1>2 DEF Stages, Idle
  <2> HIDE DEF kept
  <2>3. o \in Stages
    BY <1>2, <2>1, <2>2 DEF Stages, Idle
  <2>4. /\ o.at = r.at /\ o.kept = kept /\ o.target = r.target
        /\ o.admin = r.admin /\ o.shown = r.shown
    BY <1>2, <2>1 DEF Stages, Idle
  <2> HIDE DEF o
  <2>5. \A c \in kept : c \in r.kept /\ row[c] = user[i][c]
    BY DEF kept
  <2>6. \A c \in kept : row[c] = r.shown[c]
    BY <1>2, <2>5 DEF Relies, HasRow
  <2>7. user'[i] = row
    BY <1>0
  <2>8. Relies(o, user')
    BY <1>1, <1>2, <2>4, <2>6, <2>7 DEF Relies
  <2> QED BY <1>2, <2>3, <2>4, <2>8 DEF o
<1>3. CASE ~(Behind /\ r.target = i /\ HasRow(i) /\ row # Gone)
  <2>1. o = r
    BY <1>3 DEF Overtaken
  <2>2. /\ r.at = "signed_in" => r.admin \in Ids
        /\ r.at \in {"page", "posted", "deleting"} => r.target \in Ids
    BY DEF Stages, Idle
  <2>3. Behind /\ r.target = i => row = Gone
    BY <1>3 DEF Relies, HasRow
  <2>4. Relies(r, user')
    BY <1>0, <1>1, <2>2, <2>3 DEF Relies
  <2> QED BY <2>1, <2>4
<1> QED BY <1>2, <1>3

\* A commit by p that keeps the rows of all requests' admins, but those of the
\* requests it disturbs.
LEMMA CommitStep ==
  ASSUME IInv, NEW p \in Requests, NEW i \in Ids, NEW row \in Account \cup {Gone},
         Commit(p, i, row), user[i] = Gone => row = Gone,
         row \in Account => \A j \in Ids \ {i} : HasRow(j) => user[j].email # row.email
  PROVE  IInv'
<1>1. /\ user' = [user EXCEPT ![i] = row] /\ up' = up
      /\ req' = [q \in Requests |-> IF q = p THEN Idle ELSE Overtaken(req[q], i, row)]
      /\ disturbed' = (disturbed \cup {q \in Requests : req[q] # Idle}) \ {p}
  BY DEF Commit
<1>2. Idle \in Stages /\ Idle.at = "idle" /\ Relies(Idle, user')
  BY DEF Stages, Idle, Relies
<1>3. ASSUME NEW q \in Requests, q # p
      PROVE  /\ req'[q] \in Stages /\ req'[q].at = req[q].at
             /\ req[q].at # "page" /\ req[q].at # "posted" => req'[q] = req[q]
             /\ req[q].at = "posted" => req'[q].admin = req[q].admin
             /\ Relies(req'[q], user')
  <2> DEFINE r == req[q]
  <2>1. req'[q] = Overtaken(r, i, row)
    BY <1>1, <1>3
  <2>2. r \in Stages /\ Relies(r, user) /\ user \in [Ids -> Account \cup {Unborn, Gone}]
    BY DEF IInv, TypeOK, Reliance
  <2>3. user' = [user EXCEPT ![i] = row]
    BY <1>1
  <2>4. r = req[q]
    OBVIOUS
  <2> HIDE DEF r
  <2>5. /\ Overtaken(r, i, row) \in Stages
        /\ Overtaken(r, i, row).at = r.at
        /\ r.at # "page" /\ r.at # "posted" => Overtaken(r, i, row) = r
        /\ r.at = "posted" => Overtaken(r, i, row).admin = r.admin
        /\ Relies(Overtaken(r, i, row), user')
    BY <2>2, <2>3, OvertakenRelies
  <2> QED BY <2>1, <2>4, <2>5
<1>4. req'[p] = Idle
  BY <1>1
<1>5. TypeOK'
  <2>1. \A q \in Requests : req'[q] \in Stages
    BY <1>2, <1>3, <1>4
  <2>2. req' \in [Requests -> Stages]
    BY <1>1, <2>1
  <2> QED BY <1>1, <2>2 DEF IInv, TypeOK
<1>6. EmailsDistinct'
  BY <1>1, DistinctKept DEF IInv
<1>7. Authority'
  <2>1. ASSUME NEW q \in Requests, q # p PROVE req[q] = Idle \/ q \in disturbed'
    BY <1>1, <2>1
  <2>2. \A q \in Requests : q # p /\ req'[q].at = "deleting" => req'[q] = req[q]
    BY <1>3
  <2> QED BY <1>2, <1>3, <1>4, <2>1, <2>2 DEF IInv, Authority, Signed
<1>8. Reliance'
  BY <1>2, <1>3, <1>4 DEF Reliance
<1> QED BY <1>5, <1>6, <1>7, <1>8 DEF IInv

\* Start and stop of the panel.
LEMMA PanelStep == ASSUME IInv, Start \/ Stop PROVE IInv'
<1>1. CASE Start /\ Taken(AdminEmail)
  BY <1>1 DEF Start, IInv, TypeOK, EmailsDistinct, Authority, Reliance, HasRow, ActiveAdmins
<1>2. CASE Start /\ ~Taken(AdminEmail)
  <2> DEFINE row == [email |-> AdminEmail, role |-> "admin", active |-> TRUE]
  <2>1. PICK i \in Ids : user[i] = Unborn /\ user' = [user EXCEPT ![i] = row]
    BY <1>2 DEF Start
  <2>2. row \in Account /\ row.email = AdminEmail
    BY AccountsAssumption DEF Account
  <2> HIDE DEF row
  <2>3. up' = TRUE /\ UNCHANGED <<req, disturbed>>
    BY <1>2 DEF Start
  <2>4. TypeOK'
    BY <2>1, <2>2, <2>3 DEF IInv, TypeOK
  <2>5. EmailsDistinct'
    BY <1>2, <2>1, <2>2, DistinctKept DEF IInv, Taken
  <2>6. \A j \in ActiveAdmins : j \in ActiveAdmins'
    BY <2>1 DEF ActiveAdmins, HasRow, IInv, TypeOK
  <2>7. Authority'
    BY <2>3, <2>6 DEF IInv, Authority
  <2>8. Reliance'
    <3>1. ASSUME NEW p \in Requests PROVE Relies(req[p], user')
      <4>1. Overtaken(req[p], i, row) = req[p]
        BY <2>1 DEF Overtaken, HasRow
      <4>2. /\ req[p] \in Stages /\ Relies(req[p], user)
            /\ user \in [Ids -> Account \cup {Unborn, Gone}] /\ user[i] # Gone
        BY <2>1, AccountsAssumption DEF IInv, TypeOK, Reliance
      <4> QED BY <2>1, <2>2, <4>1, <4>2, OvertakenRelies
    <3> QED BY <2>3, <3>1 DEF Reliance
  <2> QED BY <2>4, <2>5, <2>7, <2>8 DEF IInv
<1>3. CASE Stop
  <2>1. /\ up' = FALSE /\ user' = user /\ disturbed' = {}
        /\ \A p \in Requests : req'[p] \in {req[p], Idle} /\ (req'[p] = Idle \/ req'[p].at = "page")
        /\ req' \in [Requests -> Stages]
    BY <1>3 DEF Stop, IInv, TypeOK, Stages
  <2>2. Idle.at = "idle"
    BY DEF Idle
  <2>3. TypeOK'
    BY <2>1 DEF IInv, TypeOK
  <2>4. EmailsDistinct'
    BY <2>1 DEF IInv, EmailsDistinct, HasRow
  <2>5. Authority'
    BY <2>1, <2>2 DEF Authority, Signed
  <2>6. Reliance'
    BY <2>1, <2>2 DEF IInv, Reliance, Relies
  <2> QED BY <2>3, <2>4, <2>5, <2>6 DEF IInv
<1> QED BY <1>1, <1>2, <1>3 DEF Start

\* A request selects something.
LEMMA HandleReads ==
  ASSUME IInv, NEW p \in Requests,
         \/ \E i \in Ids : SignIn(p, i) \/ ShowPage(p, i) \/ LoadDelete(p, i)
         \/ \E form \in Account : LoadEdit(p, form)
         \/ \E e \in Emails : CheckEmail(p, e)
         \/ PostPage(p)
  PROVE  IInv'
<1>0. /\ req[p] \in Stages /\ Authority /\ TypeOK /\ user \in [Ids -> Account \cup {Unborn, Gone}]
      /\ Relies(req[p], user)
  BY DEF IInv, TypeOK, Reliance
<1>1. ASSUME NEW i \in Ids, SignIn(p, i) PROVE IInv'
  <2> DEFINE r == [at |-> "signed_in", admin |-> i, row |-> user[i]]
  <2>1. user[i] \in Account /\ i \in ActiveAdmins /\ Reads(p, r)
    BY <1>0, <1>1 DEF SignIn, ActiveAdmins, HasRow
  <2>2. r \in Stages
    BY <2>1 DEF Stages
  <2>3. Relies(r, user)
    BY <1>1, NoAccount DEF Relies, SignIn, ActiveAdmins, HasRow
  <2> QED BY <2>1, <2>2, <2>3, ReadStep
<1>2. ASSUME NEW e \in Emails, CheckEmail(p, e) PROVE IInv'
  <2> DEFINE r == [at |-> "checked", email |-> e]
  <2>1. r \in Stages /\ Reads(p, r) /\ r.at \notin Signed /\ r.at # "deleting"
    BY <1>2 DEF CheckEmail, Stages, Signed
  <2>2. Relies(r, user)
    BY DEF Relies
  <2> HIDE DEF r
  <2> QED BY <2>1, <2>2, ReadStep
<1>3. ASSUME NEW i \in Ids, ShowPage(p, i) PROVE IInv'
  <2> DEFINE r == Page(p, i)
             kept == {c \in Columns : HasRow(i) /\ user[i][c] = Got(p, i)[c]}
  <2>1. req[p].admin \in Ids /\ Got(p, i) \in Account /\ req[p].at = "signed_in"
    BY <1>0, <1>3, StageFields DEF ShowPage, Got, Signed
  <2>2. r = [at |-> "page", admin |-> req[p].admin, target |-> i, shown |-> Got(p, i), kept |-> kept]
    BY DEF Page
  <2>3. r.at = "page" /\ r.target = i /\ r.shown = Got(p, i) /\ r.kept = kept
    BY <2>2
  <2>4. r \in Stages
    BY <2>1, <2>2 DEF Stages
  <2>5. user[i] # Unborn
    BY <1>0, <1>3, <2>1 DEF ShowPage, Got, Relies
  <2>6. Relies(r, user)
    <3> HIDE DEF r
    <3> QED BY <2>3, <2>5 DEF Relies
  <2>7. Reads(p, r)
    BY <1>3 DEF ShowPage
  <2> HIDE DEF r
  <2> QED BY <2>3, <2>4, <2>6, <2>7, ReadStep DEF Signed
<1>4. CASE PostPage(p)
  <2> DEFINE a == req[p].admin
             r == [at |-> "posted", admin |-> a, row |-> user[a],
                   target |-> req[p].target, shown |-> req[p].shown, kept |-> req[p].kept]
  <2>1. /\ a \in Ids /\ a \in ActiveAdmins /\ user[a] \in Account /\ req[p].at = "page"
        /\ req[p].target \in Ids /\ req[p].shown \in Account /\ req[p].kept \in SUBSET Columns
    BY <1>0, <1>4, StageFields DEF PostPage, ActiveAdmins, HasRow
  <2>2. /\ r \in Stages /\ Reads(p, r) /\ r.at = "posted" /\ r.admin = a /\ r.row = user[a]
        /\ r.target = req[p].target /\ r.shown = req[p].shown /\ r.kept = req[p].kept
    BY <1>4, <2>1 DEF PostPage, Stages
  <2>3. user[a] # Gone
    BY <2>1, NoAccount
  <2> HIDE DEF r
  <2>4. Relies(r, user)
    BY <1>0, <2>1, <2>2, <2>3 DEF Relies
  <2> QED BY <2>1, <2>2, <2>4, ReadStep
<1>5. ASSUME NEW form \in Account, LoadEdit(p, form) PROVE IInv'
  <2> DEFINE row == Got(p, req[p].target)
             kept == {c \in req[p].kept : form[c] = req[p].shown[c]}
             r == [at |-> "editing", admin |-> req[p].admin, row |-> row,
                   target |-> req[p].target, form |-> form, kept |-> kept]
  <2>1. /\ req[p].admin \in Ids /\ req[p].target \in Ids /\ req[p].kept \in SUBSET Columns
        /\ row \in Account /\ req[p].at = "posted"
    BY <1>0, <1>5, StageFields DEF LoadEdit, Got, Signed
  <2>2. /\ r \in Stages /\ Reads(p, r) /\ r.at = "editing" /\ r.admin = req[p].admin
        /\ r.row = row /\ r.form = form /\ r.kept = kept
    BY <1>5, <2>1 DEF LoadEdit, Stages
  <2>3. p \in disturbed \/ r.admin \in ActiveAdmins
    BY <1>0, <2>1, <2>2 DEF Authority, Signed
  <2>4. ASSUME NEW c \in kept PROVE form[c] = row[c]
    <3>1. c \in req[p].kept /\ form[c] = req[p].shown[c]
      OBVIOUS
    <3>2. row[c] = req[p].shown[c]
      BY <1>0, <2>1, <3>1, NoAccount DEF Relies, Got
    <3> QED BY <3>1, <3>2
  <2> HIDE DEF r, kept, row
  <2>5. Relies(r, user)
    BY <2>2, <2>4 DEF Relies
  <2> QED BY <2>2, <2>3, <2>5, ReadStep
<1>6. ASSUME NEW i \in Ids, LoadDelete(p, i) PROVE IInv'
  <2> DEFINE r == [at |-> "deleting", admin |-> req[p].admin, target |-> i]
  <2>1. req[p].admin \in Ids /\ req[p].at = "signed_in" /\ i # req[p].admin
    BY <1>0, <1>6, StageFields DEF LoadDelete, Signed
  <2>2. /\ r \in Stages /\ Reads(p, r) /\ r.at = "deleting" /\ r.admin = req[p].admin
        /\ r.target # r.admin
    BY <1>6, <2>1 DEF LoadDelete, Stages
  <2>3. p \in disturbed \/ r.admin \in ActiveAdmins
    BY <1>0, <2>1, <2>2 DEF Authority, Signed
  <2>4. Relies(r, user)
    BY <1>6 DEF Relies, LoadDelete, HasRow
  <2> HIDE DEF r
  <2> QED BY <2>2, <2>3, <2>4, ReadStep
<1> QED BY <1>1, <1>2, <1>3, <1>4, <1>5, <1>6

\* A request commits.
LEMMA HandleCommits ==
  ASSUME IInv, NEW p \in Requests, Insert(p) \/ Edit(p) \/ Delete(p)
  PROVE  IInv'
<1>0. TypeOK /\ user \in [Ids -> Account \cup {Unborn, Gone}]
  BY DEF IInv, TypeOK
<1>1. CASE Insert(p)
  <2> DEFINE row == [email |-> req[p].email, role |-> "user", active |-> TRUE]
  <2>1. req[p].email \in Emails /\ ~Taken(req[p].email)
    BY <1>0, <1>1, StageFields DEF Insert
  <2>2. row \in Account /\ row.email = req[p].email
    BY <2>1 DEF Account
  <2>3. PICK i \in Ids : user[i] = Unborn /\ Commit(p, i, row)
    BY <1>1 DEF Insert
  <2> HIDE DEF row
  <2>4. user[i] # Gone
    BY <2>3, AccountsAssumption
  <2> QED BY <2>1, <2>2, <2>3, <2>4, CommitStep DEF Taken
<1>2. CASE Edit(p)
  <2> DEFINE u == req[p].target
             form == req[p].form
             Written(c) == form[c] # req[p].row[c]
             row == [c \in DOMAIN form |-> IF Written(c) THEN form[c] ELSE user[u][c]]
  <2>1. /\ u \in Ids /\ form \in Account /\ user[u] \in Account /\ HasRow(u)
        /\ Written("email") => ~TakenFrom(u, form.email)
        /\ Commit(p, u, row)
    BY <1>0, <1>2, StageFields DEF Edit, Commits, HasRow, Signed
  <2>2. row \in Account /\ row.email = IF Written("email") THEN form.email ELSE user[u].email
    BY <2>1 DEF Account
  <2> HIDE DEF row
  <2>3. \A j \in Ids \ {u} : HasRow(j) => user[j].email # row.email
    <3>1. CASE Written("email")
      BY <2>1, <2>2, <3>1 DEF TakenFrom
    <3>2. CASE ~Written("email")
      BY <2>1, <2>2, <3>2 DEF IInv, EmailsDistinct
    <3> QED BY <3>1, <3>2
  <2> QED BY <2>1, <2>2, <2>3, CommitStep DEF HasRow
<1>3. CASE Delete(p)
  <2> DEFINE u == req[p].target
             row == IF HasRow(u) THEN Gone ELSE user[u]
  <2>1. u \in Ids /\ Commit(p, u, row)
    BY <1>0, <1>3, StageFields DEF Delete
  <2>2. row = Gone
    BY <1>0, <1>3, <2>1 DEF HasRow, Delete, IInv, Reliance, Relies
  <2> HIDE DEF row
  <2> QED BY <2>1, <2>2, NoAccount, CommitStep
<1> QED BY <1>1, <1>2, <1>3

\* A request ends without a commit.
LEMMA EndStep == ASSUME IInv, NEW p \in Requests, End(p) PROVE IInv'
<1>1. /\ Idle \in Stages /\ Idle.at = "idle"
      /\ user' = user /\ up' = up /\ req' = [req EXCEPT ![p] = Idle] /\ disturbed' = disturbed \ {p}
  BY DEF End, Stages, Idle
<1>2. TypeOK'
  BY <1>1 DEF IInv, TypeOK
<1>3. EmailsDistinct' /\ ActiveAdmins' = ActiveAdmins
  BY <1>1 DEF IInv, EmailsDistinct, HasRow, ActiveAdmins
<1>4. req'[p] = Idle /\ \A q \in Requests : q # p => req'[q] = req[q] /\ (q \in disturbed <=> q \in disturbed')
  BY <1>1 DEF IInv, TypeOK
<1>5. Authority'
  BY <1>1, <1>3, <1>4 DEF IInv, Authority, Signed
<1>6. Reliance'
  BY <1>1, <1>4 DEF IInv, Reliance, Relies
<1> QED BY <1>2, <1>3, <1>5, <1>6 DEF IInv

\* Every step of the panel keeps the invariant.
LEMMA Step == IInv /\ [Next]_vars => IInv'
<1> SUFFICES ASSUME IInv, [Next]_vars PROVE IInv'
  OBVIOUS
<1>1. CASE UNCHANGED vars
  BY <1>1 DEF vars, IInv, TypeOK, EmailsDistinct, Authority, Reliance, HasRow, ActiveAdmins
<1>2. ASSUME NEW p \in Requests, Handle(p) PROVE IInv'
  BY <1>2, HandleReads, HandleCommits, EndStep DEF Handle
<1> QED BY <1>1, <1>2, PanelStep DEF Next

\* Types, distinct addresses, the authority of undisturbed requests and what
\* pages and requests rely on hold in every reachable state.
THEOREM Inductive == Spec => []IInv
BY InitHolds, Step, PTL DEF Spec

\* Rows, requests and what they read keep their shape, however many there are.
THEOREM TypeCorrect == Spec => []TypeOK
<1>1. IInv => TypeOK
  BY DEF IInv
<1> QED BY <1>1, Inductive, PTL

\* One address has one account, however many requests check, insert and rename
\* side by side, and whatever the seed does.
THEOREM AddressesDistinct == Spec => []EmailsDistinct
<1>1. IInv => EmailsDistinct
  BY DEF IInv
<1> QED BY <1>1, Inductive, PTL

\* LastAdminFalls holds of every step: an undisturbed request's admin is an
\* active admin before it, and stays one unless the request edits just that row.
THEOREM LastAdminHolds == Spec => LastAdminFalls
<1> DEFINE Falls == ActiveAdmins # {} /\ ActiveAdmins' = {}
           Excused(p) == \/ Edit(p) /\ req[p].target = req[p].admin
                         \/ (Edit(p) \/ Delete(p)) /\ p \in disturbed
<1>1. ASSUME IInv, [Next]_vars, Falls PROVE \E p \in Requests : Excused(p)
  <2>0. TypeOK /\ Authority /\ user \in [Ids -> Account \cup {Unborn, Gone}] /\ user' # user
    BY <1>1 DEF IInv, TypeOK, ActiveAdmins, HasRow
  <2>1. ASSUME NEW i \in Ids, NEW row, user' = [user EXCEPT ![i] = row], user[i] = Unborn PROVE FALSE
    <3>1. PICK a \in Ids : a \in ActiveAdmins
      BY <1>1 DEF ActiveAdmins
    <3>2. a \in ActiveAdmins'
      BY <2>0, <2>1, <3>1 DEF ActiveAdmins, HasRow
    <3> QED BY <1>1, <3>2
  <2>2. ~Start /\ ~Stop
    BY <2>0, <2>1 DEF Start, Stop
  <2>3. PICK p \in Requests : Handle(p)
    BY <1>1, <2>0, <2>2 DEF Next, vars
  <2>4. Insert(p) \/ Edit(p) \/ Delete(p)
    BY <2>0, <2>3
    DEF Handle, SignIn, ShowPage, LoadDelete, LoadEdit, CheckEmail, PostPage, Reads, End
  <2>5. ~Insert(p)
    BY <2>1 DEF Insert, Commit
  <2>6. ASSUME p \notin disturbed, req[p].target # req[p].admin PROVE FALSE
    <3>1. req[p].admin \in ActiveAdmins /\ req[p].target \in Ids
      BY <2>0, <2>4, <2>5, <2>6, StageFields DEF Authority, Signed, Edit, Commits, Delete
    <3>2. PICK row : user' = [user EXCEPT ![req[p].target] = row]
      BY <2>4, <2>5 DEF Edit, Commits, Delete, Commit
    <3>3. req[p].admin \in ActiveAdmins'
      BY <2>0, <2>6, <3>1, <3>2 DEF ActiveAdmins, HasRow
    <3> QED BY <1>1, <3>3
  <2>7. Delete(p) => req[p].target # req[p].admin
    BY <2>0 DEF Authority, Delete
  <2> QED BY <2>4, <2>5, <2>6, <2>7
<1>2. IInv /\ [Next]_vars => [Falls => \E p \in Requests : Excused(p)]_vars
  BY <1>1
<1> QED BY <1>2, Inductive, PTL DEF Spec, LastAdminFalls

\* UntouchedStays holds of every edit: a column that the request keeps is in its
\* form as in the row it selected, so that the UPDATE leaves it out.
THEOREM UntouchedHolds == Spec => UntouchedStays
<1> DEFINE Stay(p) == \A c \in req[p].kept : user'[req[p].target][c] = user[req[p].target][c]
<1>1. ASSUME IInv, NEW p \in Requests, Edit(p) PROVE Stay(p)
  <2> DEFINE u == req[p].target
             form == req[p].form
             row == [c \in DOMAIN form |-> IF form[c] # req[p].row[c] THEN form[c] ELSE user[u][c]]
  <2>1. /\ u \in Ids /\ user' = [user EXCEPT ![u] = row] /\ req[p].at = "editing"
        /\ form \in Account /\ req[p].kept \in SUBSET Columns
    BY <1>1, StageFields DEF Edit, Commits, Commit, IInv
  <2>2. user \in [Ids -> Account \cup {Unborn, Gone}]
    BY <1>1 DEF IInv, TypeOK
  <2>3. user'[u] = row
    <3> HIDE DEF u, row
    <3> QED BY <2>1, <2>2
  <2>4. \A c \in req[p].kept : c \in DOMAIN form /\ form[c] = req[p].row[c]
    BY <1>1, <2>1 DEF IInv, Reliance, Relies, Account, Columns
  <2> HIDE DEF u, form
  <2> QED BY <2>3, <2>4 DEF u
<1>2. IInv /\ [Next]_vars => [\A p \in Requests : Edit(p) => Stay(p)]_vars
  BY <1>1
<1> QED BY <1>2, Inductive, PTL DEF Spec, UntouchedStays

-----------------------------------------------------------------------------
(* The panel keeps an admin.                                                *)

\* The two ways to lose the last one that LastAdminFalls names.
SelfEdit(p) == Edit(p) /\ req[p].target = req[p].admin
Disturbed(p) == (Edit(p) \/ Delete(p)) /\ p \in disturbed

NoneOfThem == [][\A p \in Requests : ~SelfEdit(p) /\ ~Disturbed(p)]_vars

\* Before its first start the panel has no account and no request.
Fresh == ~up /\ (\A i \in Ids : user[i] = Unborn) /\ (\A p \in Requests : req[p] = Idle)

\* The first start seeds an admin, since no account can have its address.
LEMMA FirstStart == ASSUME IInv, Fresh, [Next]_vars PROVE ActiveAdmins' # {} \/ Fresh'
<1>1. CASE Start
  <2> DEFINE row == [email |-> AdminEmail, role |-> "admin", active |-> TRUE]
  <2>1. ~Taken(AdminEmail)
    BY DEF Fresh, Taken, HasRow
  <2>2. PICK i \in Ids : user' = [user EXCEPT ![i] = row]
    BY <1>1, <2>1 DEF Start
  <2>3. row \in Account /\ row.active /\ row.role = "admin"
    BY AccountsAssumption DEF Account
  <2> HIDE DEF row
  <2>4. i \in ActiveAdmins'
    BY <2>2, <2>3, NoAccount DEF ActiveAdmins, HasRow, IInv, TypeOK
  <2> QED BY <2>4
<1>2. ~Stop
  BY DEF Stop, Fresh
<1>3. ASSUME NEW p \in Requests, Handle(p) PROVE FALSE
  <2>1. ~up /\ req[p] = Idle /\ Idle.at = "idle"
    BY DEF Fresh, Idle
  <2> QED
    BY <1>3, <2>1
    DEF Handle, SignIn, ShowPage, LoadDelete, LoadEdit, CheckEmail, PostPage, Reads,
        Insert, Edit, Commits, Delete, End
<1>4. CASE UNCHANGED vars
  BY <1>4 DEF vars, Fresh
<1> QED BY <1>1, <1>2, <1>3, <1>4 DEF Next

\* A panel that has been started once has an active admin for ever, through all
\* restarts, renamings and deletions, as long as no admin edits its own account
\* and no request is overtaken by the commit of another.
THEOREM AdminRemains == Spec /\ NoneOfThem => [](up => ActiveAdmins # {})
<1> DEFINE Has == ActiveAdmins # {}
           Kept == Has /\ ~Has' => \E p \in Requests : SelfEdit(p) \/ Disturbed(p)
           Bars == \A p \in Requests : ~SelfEdit(p) /\ ~Disturbed(p)
<1>1. Init => Fresh
  BY DEF Init, Fresh
<1>2. Has /\ [Next]_vars /\ [Kept]_vars /\ [Bars]_vars => Has'
  BY DEF vars, ActiveAdmins, HasRow
<1>3. IInv /\ (Has \/ Fresh) /\ [Next]_vars /\ [Kept]_vars /\ [Bars]_vars => Has' \/ Fresh'
  BY <1>2, FirstStart
<1>4. Has \/ Fresh => (up => ActiveAdmins # {})
  BY DEF Fresh
<1>5. LastAdminFalls => [][Kept]_vars
  <2>1. (ActiveAdmins # {} /\ ActiveAdmins' = {} =>
           \E p \in Requests :
             \/ Edit(p) /\ req[p].target = req[p].admin
             \/ (Edit(p) \/ Delete(p)) /\ p \in disturbed) => Kept
    BY DEF SelfEdit, Disturbed
  <2> QED BY <2>1, PTL DEF LastAdminFalls
<1> HIDE DEF Has, Kept, Bars
<1>6. NoneOfThem <=> [][Bars]_vars
  BY DEF NoneOfThem, Bars
<1> QED BY <1>1, <1>3, <1>4, <1>5, <1>6, Inductive, LastAdminHolds, PTL DEF Spec
=============================================================================
