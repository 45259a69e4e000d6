----------------------------- MODULE BillingProofs -----------------------------
(***************************************************************************)
(* The properties of Billing for any plans, limits, dates, number of admins *)
(* and rounding.  What a page or a request still keeps, or adds, is about   *)
(* the row as it is now: a change of the row takes it away (Overtaken).     *)
(***************************************************************************)
EXTENDS Billing, TLAPS

Shape(r) == r \in {Idle} \cup [at : {"creating"}, row : Row] \cup Pages \/ Editing(r)

\* What the commit of r makes of column c of row s.
Value(r, s, c) == IF c \in DOMAIN r.set THEN r.set[c] ELSE s[c]

\* What page r holds of row s.
PageFresh(r, s) ==
  r.at = "page" =>
    /\ "limit" \in r.kept => r.limit = s.limit
    /\ "expires" \in r.kept => r.expires = s.expires

\* What request r will do to row s at time n or later.
EditFresh(r, s, n) ==
  r.at = "editing" =>
    /\ "limit" \in r.kept => Value(r, s, "limit") = ShownLimit(s.limit)
    /\ "expires" \in r.kept =>
         \/ Value(r, s, "expires") = s.expires
         \/ s.expires # Never /\ Value(r, s, "expires") = s.expires - (s.expires % Minute)
    /\ r.added > 0 =>
         /\ Value(r, s, "expires") # Never
         /\ IF s.expires # Never THEN Value(r, s, "expires") = s.expires + r.added
            ELSE Value(r, s, "expires") <= n + r.added

Fresh == HasRow => \A p \in Admins : PageFresh(req[p], sub) /\ EditFresh(req[p], sub, now)

\* Why the job marks row s at time n.
Due(j, s, n) ==
  j.at = "marking" /\ ~j.overtaken =>
    /\ s.status = "active"
    /\ j.mark = "expired" => s.expires # Never /\ s.expires < n
    /\ j.mark = "over_limit" => s.limit > 0 /\ (s.used >= s.limit \/ j.lowered)

Marked == HasRow => Due(job, sub, now)

\* Nothing is done about a subscription that was not made yet.
Early == sub = Unborn => job = Idle /\ \A p \in Admins : req[p].at \in {"idle", "creating"}

IInv == TypeOK /\ Fresh /\ Marked /\ Early

-----------------------------------------------------------------------------
(* Numbers.                                                                 *)

\* Division with remainder.
LEMMA Division ==
  ASSUME NEW a \in Int, NEW k \in Nat, k > 0
  PROVE  a \div k \in Int /\ a % k \in 0 .. k - 1 /\ (a \div k) * k = a - (a % k)
OBVIOUS

\* The page shows the limit to half of 0.01 GB.
LEMMA Shown ==
  ASSUME NEW n \in Int
  PROVE  /\ Hundredths(n) \in Int
         /\ 2 * (Hundredths(n) * Gigabyte) \in 2 * (n * Parts) - Gigabyte .. 2 * (n * Parts) + Gigabyte
<1> DEFINE twice == 2 * n * Parts + Gigabyte
           k == twice \div (2 * Gigabyte)
           m == twice % (2 * Gigabyte)
<1>1. Gigabyte \in Nat /\ Parts \in Nat /\ Gigabyte > 0
  BY BillingAssumption
<1>2. twice \in Int /\ 2 * Gigabyte \in Nat /\ 2 * Gigabyte > 0 /\ n * Parts \in Int
  BY <1>1
<1>3. twice = 2 * (n * Parts) + Gigabyte
  BY <1>1
<1>4. Hundredths(n) = IF m = 0 THEN k - (k % 2) ELSE k
  BY DEF Hundredths
<1> HIDE DEF twice
<1>5. k \in Int /\ m \in 0 .. 2 * Gigabyte - 1 /\ k * (2 * Gigabyte) = twice - m
  BY <1>2, Division
<1> HIDE DEF k, m
<1>6. /\ k * Gigabyte \in Int /\ 2 * (k * Gigabyte) = twice - m
      /\ (k - 1) * Gigabyte = k * Gigabyte - Gigabyte
  BY <1>1, <1>5
<1>7. Hundredths(n) \in {k, k - 1} /\ (m # 0 => Hundredths(n) = k)
  BY <1>4, <1>5
<1> DEFINE a == n * Parts
           b == k * Gigabyte
<1>8. a \in Int /\ b \in Int /\ twice = 2 * a + Gigabyte /\ 2 * b = twice - m
  BY <1>2, <1>3, <1>6
<1>9. Hundredths(n) * Gigabyte = b \/ (m = 0 /\ Hundredths(n) * Gigabyte = b - Gigabyte)
  BY <1>6, <1>7
<1> HIDE DEF a, b
<1>10. 2 * (Hundredths(n) * Gigabyte) \in 2 * a - Gigabyte .. 2 * a + Gigabyte
  BY <1>1, <1>5, <1>8, <1>9
<1> QED BY <1>5, <1>7, <1>10 DEF a

\* int() takes less than a byte off.
LEMMA CutOff ==
  ASSUME NEW n \in Int
  PROVE  /\ ShownLimit(n) \in Int
         /\ Parts * ShownLimit(n) \in
              (Hundredths(n) * Gigabyte - Parts) + 1 .. (Hundredths(n) * Gigabyte + Parts) - 1
         /\ Hundredths(n) > 0 => ShownLimit(n) > 0
<1> DEFINE bytes == Hundredths(n) * Gigabyte
<1>1. Hundredths(n) \in Int /\ Gigabyte \in Nat /\ Parts \in Nat /\ Parts > 0 /\ Gigabyte >= Parts
  BY Shown, BillingAssumption
<1>2. bytes \in Int
  BY <1>1
<1>3. Hundredths(n) > 0 => bytes >= Parts
  <2>1. ASSUME Hundredths(n) > 0 PROVE bytes >= Gigabyte
    BY <1>1, <2>1
  <2> QED BY <1>1, <1>2, <2>1
<1>4. ShownLimit(n) = IF bytes >= 0 THEN bytes \div Parts ELSE -((-bytes) \div Parts)
  BY DEF ShownLimit
<1> HIDE DEF bytes
<1>5. CASE bytes >= 0
  <2>1. /\ bytes \div Parts \in Int /\ bytes % Parts \in 0 .. Parts - 1
        /\ (bytes \div Parts) * Parts = bytes - (bytes % Parts)
    BY <1>1, <1>2, Division
  <2>2. ShownLimit(n) \in Int /\ Parts * ShownLimit(n) = bytes - (bytes % Parts)
    BY <1>1, <1>4, <1>5, <2>1
  <2>3. bytes >= Parts => Parts * ShownLimit(n) > 0
    BY <1>1, <1>2, <2>1, <2>2
  <2>4. Parts * ShownLimit(n) > 0 => ShownLimit(n) > 0
    BY <1>1, <2>2
  <2>5. Parts * ShownLimit(n) \in (bytes - Parts) + 1 .. (bytes + Parts) - 1
    BY <1>1, <1>2, <2>1, <2>2
  <2> QED BY <1>3, <2>2, <2>3, <2>4, <2>5 DEF bytes
<1>6. CASE ~(bytes >= 0)
  <2> DEFINE back == -bytes
  <2>1. back \in Int
    BY <1>2
  <2> HIDE DEF back
  <2>2. /\ back \div Parts \in Int /\ back % Parts \in 0 .. Parts - 1
        /\ (back \div Parts) * Parts = back - (back % Parts)
    BY <1>1, <2>1, Division
  <2>3. ShownLimit(n) = -(back \div Parts)
    BY <1>4, <1>6 DEF back
  <2>4. ShownLimit(n) \in Int /\ Parts * ShownLimit(n) = (back % Parts) - back
    BY <1>1, <2>1, <2>2, <2>3
  <2>5. back = -bytes
    BY DEF back
  <2>6. Parts * ShownLimit(n) \in (bytes - Parts) + 1 .. (bytes + Parts) - 1
    BY <1>1, <1>2, <2>2, <2>4, <2>5
  <2>7. ~(bytes >= Parts)
    BY <1>1, <1>2, <1>6
  <2> QED BY <1>3, <2>4, <2>6, <2>7 DEF bytes
<1> QED BY <1>5, <1>6

\* The page's limit is off by half of 0.01 GB and a byte at most, and is a limit
\* for every limit above that half.
LEMMA Rounding ==
  ASSUME NEW n \in Int
  PROVE  /\ ShownLimit(n) \in Int
         /\ 2 * Parts * (ShownLimit(n) - n) \in -(Gigabyte + 2 * Parts) .. Gigabyte + 2 * Parts
         /\ 2 * Parts * n > Gigabyte => ShownLimit(n) > 0
<1> DEFINE a == n * Parts
           b == Hundredths(n) * Gigabyte
           c == Parts * ShownLimit(n)
<1>1. Hundredths(n) \in Int /\ ShownLimit(n) \in Int /\ Gigabyte \in Nat /\ Parts \in Nat
  BY Shown, CutOff, BillingAssumption
<1>2. a \in Int /\ b \in Int /\ c \in Int
  BY <1>1
<1>3. 2 * b \in 2 * a - Gigabyte .. 2 * a + Gigabyte
  BY Shown
<1>4. c \in (b - Parts) + 1 .. (b + Parts) - 1
  BY CutOff
<1>5. 2 * Parts * (ShownLimit(n) - n) = 2 * c - 2 * a /\ 2 * Parts * n = 2 * a
  BY <1>1
<1>6. b > 0 => Hundredths(n) > 0
  BY <1>1
<1> HIDE DEF a, b, c
<1>7. 2 * c - 2 * a \in -(Gigabyte + 2 * Parts) .. Gigabyte + 2 * Parts
  BY <1>1, <1>2, <1>3, <1>4
<1>8. 2 * a > Gigabyte => b > 0
  BY <1>1, <1>2, <1>3
<1> QED BY <1>1, <1>5, <1>6, <1>7, <1>8, CutOff

\* The page's date is the minute that the end lies in.
LEMMA MinuteOf ==
  ASSUME NEW e \in Int
  PROVE  /\ e % Minute \in 0 .. Minute - 1
         /\ e - (e % Minute) \in Int
         /\ e - (e % Minute) \in (e - Minute) + 1 .. e
<1>1. e % Minute \in 0 .. Minute - 1
  BY BillingAssumption
<1> QED BY <1>1, BillingAssumption

\* Ends, limits and the days added are of their types.
LEMMA Ranges ==
  ASSUME TypeOK, HasRow, NEW page \in Pages, NEW f \in Forms(page)
  PROVE  /\ f.plan \in Plans /\ f.status \in {"active", "disabled"} /\ f.limit \in Int
         /\ f.date \in Int \cup {NoDate}
         /\ Added(f) \in Int
         /\ sub.expires # Never => Later(sub.expires, Added(f)) = sub.expires + Added(f)
         /\ sub.expires = Never => Later(sub.expires, Added(f)) = now + Added(f)
         /\ EndOf(sub.expires, f) \in Ends
<1>1. sub \in Row /\ now \in Nat /\ page.limit \in Int /\ page.expires \in Ends
  BY DEF TypeOK, HasRow, Pages
<1>2. /\ f.plan \in Plans /\ f.status \in {"active", "disabled"}
      /\ f.limit \in Limits \cup {ShownLimit(page.limit)}
      /\ f.date \in Dates \cup {NoDate, ShownDate(page.expires)}
  BY DEF Forms
<1>3. f.limit \in Int
  <2>1. ShownLimit(page.limit) \in Int
    BY <1>1, Rounding
  <2> QED BY <1>2, <2>1, BillingAssumption
<1>4. ShownDate(page.expires) \in Int \cup {NoDate}
  <2>1. CASE page.expires = Never
    BY <2>1 DEF ShownDate
  <2>2. CASE page.expires \in Int
    BY <2>2, MinuteOf, BillingAssumption DEF ShownDate
  <2> QED BY <1>1, <2>1, <2>2 DEF Ends
<1>5. f.date \in Int \cup {NoDate}
  BY <1>2, <1>4, BillingAssumption
<1>6. Added(f) \in Int
  BY <1>2, BillingAssumption DEF Added, Known
<1>7. sub.expires \in Int \cup {Never}
  BY <1>1 DEF Row, Ends
<1>8. Later(sub.expires, Added(f)) \in Int
  BY <1>1, <1>6, <1>7 DEF Later
<1>9. EndOf(sub.expires, f) \in Ends
  BY <1>5, <1>7, <1>8 DEF EndOf, Ends
<1> QED BY <1>2, <1>3, <1>5, <1>6, <1>9 DEF Later

-----------------------------------------------------------------------------
(* Shapes.                                                                  *)

\* What a stage says about the fields.
LEMMA ShapeFields ==
  ASSUME NEW r, Shape(r)
  PROVE  /\ r.at \in {"idle", "creating", "page", "editing"}
         /\ r.at = "creating" => r.row \in Row
         /\ r.at = "page" => r \in Pages
         /\ r.at = "editing" => Editing(r)
<1>1. CASE r = Idle
  BY <1>1 DEF Idle
<1>2. CASE r \in [at : {"creating"}, row : Row]
  BY <1>2
<1>3. CASE r \in Pages
  BY <1>3 DEF Pages
<1>4. CASE Editing(r)
  <2>1. r.at = "editing"
    BY <1>4 DEF Editing
  <2> QED BY <1>4, <2>1
<1> QED BY <1>1, <1>2, <1>3, <1>4 DEF Shape

\* What editing requests hold.
LEMMA EditingFields ==
  ASSUME NEW r, Editing(r)
  PROVE  /\ r.at = "editing"
         /\ r.kept \subseteq {"limit", "expires"} /\ r.added \in Int
         /\ "plan" \in DOMAIN r.set => r.set["plan"] \in Plans \cup {NoPlan}
         /\ "limit" \in DOMAIN r.set => r.set["limit"] \in Int
         /\ "used" \in DOMAIN r.set => r.set["used"] \in Nat
         /\ "expires" \in DOMAIN r.set => r.set["expires"] \in Ends
         /\ "status" \in DOMAIN r.set => r.set["status"] \in Statuses
<1>1. /\ Columns["plan"] = Plans \cup {NoPlan} /\ Columns["limit"] = Int
      /\ Columns["used"] = Nat /\ Columns["expires"] = Ends /\ Columns["status"] = Statuses
  BY DEF Columns
<1>2. r.at = "editing"
  BY DEF Editing
<1> QED BY <1>1, <1>2 DEF Editing

\* A request made up from a set of columns.
LEMMA MakesEditing ==
  ASSUME NEW set, NEW kept \in SUBSET {"limit", "expires"}, NEW added \in Int,
         DOMAIN set \subseteq {"plan", "limit", "used", "expires", "status"},
         "plan" \in DOMAIN set => set["plan"] \in Plans \cup {NoPlan},
         "limit" \in DOMAIN set => set["limit"] \in Int,
         "used" \in DOMAIN set => set["used"] \in Nat,
         "expires" \in DOMAIN set => set["expires"] \in Ends,
         "status" \in DOMAIN set => set["status"] \in Statuses
  PROVE  Editing([at |-> "editing", set |-> set, kept |-> kept, added |-> added])
<1>1. /\ Columns["plan"] = Plans \cup {NoPlan} /\ Columns["limit"] = Int
      /\ Columns["used"] = Nat /\ Columns["expires"] = Ends /\ Columns["status"] = Statuses
      /\ DOMAIN Columns = {"plan", "limit", "used", "expires", "status"}
  BY DEF Columns
<1>2. \A c \in DOMAIN set : set[c] \in Columns[c]
  BY <1>1
<1> QED BY <1>1, <1>2 DEF Editing

\* The values of a row with r's columns put over it.
LEMMA RowValues ==
  ASSUME NEW r, Editing(r), NEW s \in Row
  PROVE  LET t == [c \in DOMAIN s |-> IF c \in DOMAIN r.set THEN r.set[c] ELSE s[c]]
         IN /\ t \in Row
            /\ t.limit = Value(r, s, "limit") /\ t.expires = Value(r, s, "expires")
            /\ Value(r, s, "limit") \in Int /\ Value(r, s, "expires") \in Ends
<1> DEFINE t == [c \in DOMAIN s |-> IF c \in DOMAIN r.set THEN r.set[c] ELSE s[c]]
<1>1. DOMAIN s = {"plan", "limit", "used", "expires", "status"}
  BY DEF Row
<1>2. /\ s["plan"] \in Plans \cup {NoPlan} /\ s["limit"] \in Int /\ s["used"] \in Nat
      /\ s["expires"] \in Ends /\ s["status"] \in Statuses
  BY DEF Row
<1>3. /\ t["plan"] \in Plans \cup {NoPlan} /\ t["limit"] \in Int /\ t["used"] \in Nat
      /\ t["expires"] \in Ends /\ t["status"] \in Statuses
  BY <1>1, <1>2, EditingFields
<1>4. t \in Row
  <2>1. t = [plan |-> t["plan"], limit |-> t["limit"], used |-> t["used"],
             expires |-> t["expires"], status |-> t["status"]]
    BY <1>1
  <2> HIDE DEF t
  <2> QED BY <1>3, <2>1 DEF Row
<1>5. t["limit"] = Value(r, s, "limit") /\ t["expires"] = Value(r, s, "expires")
  BY <1>1 DEF Value
<1> QED BY <1>3, <1>4, <1>5

-----------------------------------------------------------------------------
(* Freshness.                                                               *)

\* Time, bytes, marks and the loss of the plan take nothing from a request.
LEMMA StaysFresh ==
  ASSUME NEW r, Shape(r), NEW s \in Row, NEW s2 \in Row, NEW n \in Int, NEW n2 \in Int,
         n <= n2, s2.limit = s.limit, s2.expires = s.expires,
         PageFresh(r, s), EditFresh(r, s, n)
  PROVE  PageFresh(r, s2) /\ EditFresh(r, s2, n2)
<1>1. PageFresh(r, s2)
  BY DEF PageFresh
<1>2. ASSUME r.at = "editing" PROVE EditFresh(r, s2, n2)
  <2>1. Value(r, s2, "limit") = Value(r, s, "limit") /\ Value(r, s2, "expires") = Value(r, s, "expires")
    BY DEF Value
  <2>2. Value(r, s, "expires") \in Ends /\ r.added \in Int
    BY <1>2, ShapeFields, RowValues, EditingFields
  <2>3. Value(r, s, "expires") # Never => Value(r, s, "expires") \in Int
    BY <2>2 DEF Ends
  <2> HIDE DEF Value
  <2> QED BY <1>2, <2>1, <2>2, <2>3 DEF EditFresh
<1> QED BY <1>1, <1>2 DEF EditFresh

Overtook(r, s, s2) ==
  IF r.at \notin {"page", "editing"} THEN r
  ELSE [r EXCEPT !.kept = {c \in r.kept : s2[c] = s[c]},
                 !.added = IF s2.expires = s.expires THEN r.added ELSE 0]

\* What is still kept behind another admin's commit is still fresh.
LEMMA OvertakenFresh ==
  ASSUME NEW r, Shape(r), NEW s \in Row, NEW s2 \in Row, NEW n \in Int,
         PageFresh(r, s), EditFresh(r, s, n)
  PROVE  /\ Shape(Overtook(r, s, s2))
         /\ PageFresh(Overtook(r, s, s2), s2)
         /\ EditFresh(Overtook(r, s, s2), s2, n)
<1> DEFINE o == Overtook(r, s, s2)
           kept == {c \in r.kept : s2[c] = s[c]}
           added == IF s2.expires = s.expires THEN r.added ELSE 0
<1>1. CASE r.at \notin {"page", "editing"}
  BY <1>1 DEF Overtook, PageFresh, EditFresh
<1>2. CASE r.at = "page"
  <2>1. r \in Pages
    BY <1>2, ShapeFields
  <2>2. o = [at |-> "page", limit |-> r.limit, expires |-> r.expires, kept |-> kept, added |-> added]
    BY <1>2, <2>1 DEF Overtook, Pages
  <2>3. added = 0 /\ kept \subseteq {"limit", "expires"} /\ r.limit \in Int /\ r.expires \in Ends
    BY <2>1 DEF Pages
  <2>4. o \in Pages
    BY <2>2, <2>3 DEF Pages
  <2>5. o.at = "page" /\ o.kept = kept /\ o.limit = r.limit /\ o.expires = r.expires
    BY <2>2
  <2> HIDE DEF o
  <2>6. PageFresh(o, s2)
    BY <1>2, <2>5 DEF PageFresh
  <2> QED BY <2>4, <2>5, <2>6 DEF o, Shape, EditFresh
<1>3. CASE r.at = "editing"
  <2>1. Editing(r) /\ r.kept \subseteq {"limit", "expires"} /\ r.added \in Int
    BY <1>3, ShapeFields, EditingFields
  <2>2. o = [at |-> "editing", set |-> r.set, kept |-> kept, added |-> added]
    BY <1>3, <2>1 DEF Overtook, Editing
  <2>3. o.at = "editing" /\ o.set = r.set /\ o.kept = kept /\ o.added = added
    BY <2>2
  <2>4. kept \in SUBSET {"limit", "expires"} /\ added \in Int
    BY <2>1
  <2>5. Editing(o)
    <3> HIDE DEF o, kept, added
    <3> QED BY <2>1, <2>2, <2>4 DEF Editing
  <2> HIDE DEF o
  <2>6. /\ "limit" \in kept => "limit" \in r.kept /\ s2.limit = s.limit
        /\ "expires" \in kept => "expires" \in r.kept /\ s2.expires = s.expires
        /\ added > 0 => r.added = added /\ s2.expires = s.expires
    BY <2>1
  <2>7. /\ s2.limit = s.limit => Value(o, s2, "limit") = Value(r, s, "limit")
        /\ s2.expires = s.expires => Value(o, s2, "expires") = Value(r, s, "expires")
    BY <2>3 DEF Value
  <2> HIDE DEF kept, added
  <2>8. EditFresh(o, s2, n)
    BY <1>3, <2>3, <2>6, <2>7 DEF EditFresh
  <2> QED BY <2>3, <2>5, <2>8 DEF o, Shape, PageFresh
<1> QED BY <1>1, <1>2, <1>3, ShapeFields

-----------------------------------------------------------------------------
(* Steps.                                                                   *)

\* No plan, no row, no request, no job.
LEMMA InitHolds == Init => IInv
<1> SUFFICES ASSUME Init PROVE IInv
  OBVIOUS
<1>1. Idle.at = "idle"
  BY DEF Idle
<1>2. TypeOK
  BY BillingAssumption DEF Init, TypeOK, Jobs
<1>3. ~HasRow
  BY DEF Init, HasRow
<1>4. Early
  BY <1>1 DEF Init, Early
<1> QED BY <1>2, <1>3, <1>4 DEF IInv, Fresh, Marked

\* What the invariant says of one request.
LEMMA OneRequest ==
  ASSUME IInv, NEW p \in Admins
  PROVE  /\ Shape(req[p])
         /\ HasRow => sub \in Row /\ PageFresh(req[p], sub) /\ EditFresh(req[p], sub, now)
         /\ now \in Nat
BY BillingAssumption DEF IInv, TypeOK, Shape, Fresh, HasRow

\* An admin's step that leaves the row alone.
LEMMA MoveStep ==
  ASSUME IInv, NEW p \in Admins, NEW r, Moves(p, r), UNCHANGED <<sub, job>>, Shape(r),
         HasRow => PageFresh(r, sub) /\ EditFresh(r, sub, now),
         sub = Unborn => r.at \in {"idle", "creating"}
  PROVE  IInv'
<1>1. /\ now' = now /\ plan' = plan /\ sub' = sub /\ job' = job
      /\ req' = [req EXCEPT ![p] = r]
  BY DEF Moves
<1>2. DOMAIN req' = Admins /\ \A q \in Admins : req'[q] = IF q = p THEN r ELSE req[q]
  BY <1>1 DEF IInv, TypeOK
<1>3. \A q \in Admins : Shape(req'[q])
  BY <1>2, OneRequest
<1>4. TypeOK'
  BY <1>1, <1>2, <1>3 DEF IInv, TypeOK, Shape
<1>5. Fresh'
  BY <1>1, <1>2 DEF IInv, Fresh, HasRow
<1>6. Marked'
  BY <1>1 DEF IInv, Marked, HasRow
<1>7. Early'
  BY <1>1, <1>2 DEF IInv, Early
<1> QED BY <1>4, <1>5, <1>6, <1>7 DEF IInv

\* A step of others that leaves the requests alone, and the limit and the end.
LEMMA OtherStep ==
  ASSUME IInv, req' = req, TypeOK',
         sub # Unborn => sub' # Unborn,
         HasRow' => HasRow /\ sub'.limit = sub.limit /\ sub'.expires = sub.expires,
         now <= now', Marked', Early'
  PROVE  IInv'
<1>1. ASSUME HasRow', NEW p \in Admins
      PROVE (PageFresh(req[p], sub) /\ EditFresh(req[p], sub, now))'
  <2>1. HasRow /\ sub \in Row /\ sub' \in Row /\ now \in Nat /\ now' \in Nat
    BY <1>1 DEF IInv, TypeOK, HasRow
  <2>2. Shape(req[p]) /\ PageFresh(req[p], sub) /\ EditFresh(req[p], sub, now)
    BY <2>1, OneRequest
  <2>3. PageFresh(req[p], sub') /\ EditFresh(req[p], sub', now')
    BY <1>1, <2>1, <2>2, StaysFresh
  <2> QED BY <2>3
<1>2. Fresh'
  BY <1>1 DEF Fresh
<1> QED BY <1>2 DEF IInv

\* What the types say where HasRow or the job's stage is known.
LEMMA OneJob ==
  ASSUME TypeOK
  PROVE  /\ job \in Jobs /\ now \in Nat /\ now \in 0 .. MaxTime
         /\ plan \in [Plans -> Terms \cup {Unborn, Gone}]
         /\ sub \in Row \cup {Unborn, Gone}
         /\ HasRow => sub \in Row
         /\ job.at = "marking" =>
              /\ job = [at |-> "marking", mark |-> job.mark,
                        overtaken |-> job.overtaken, lowered |-> job.lowered]
              /\ job.mark \in {"expired", "over_limit"}
              /\ job.overtaken \in BOOLEAN /\ job.lowered \in BOOLEAN
         /\ job # Idle => job.at = "marking"
         /\ Idle.at = "idle" /\ Idle \in Jobs
         /\ \A row \in Row : row \notin {Unborn, Gone}
BY BillingAssumption DEF TypeOK, HasRow, Jobs, Idle

\* Plans, deletion, the job, the clock and the collector.
LEMMA Others ==
  ASSUME IInv,
         \/ \E pl \in Plans : DeletePlan(pl) \/ \E terms \in Terms : CreatePlan(pl, terms)
         \/ DeleteSub \/ (\E t \in 0..now : JobSelect(t)) \/ JobCommit \/ JobEnd \/ Tick \/ Collect
  PROVE  IInv'
<1>0. /\ TypeOK /\ Marked /\ Early /\ DOMAIN req = Admins
      /\ \A p \in Admins : req[p] \in {Idle} \cup [at : {"creating"}, row : Row] \cup Pages \/ Editing(req[p])
  BY DEF IInv, TypeOK
<1>1. ASSUME NEW pl \in Plans, NEW terms \in Terms, CreatePlan(pl, terms) PROVE IInv'
  <2>1. now' = now /\ sub' = sub /\ req' = req /\ job' = job /\ plan' = [plan EXCEPT ![pl] = terms]
    BY <1>1 DEF CreatePlan
  <2>2. TypeOK'
    BY <1>0, <2>1 DEF TypeOK
  <2>3. Marked' /\ Early' /\ HasRow' = HasRow
    BY <1>0, <2>1 DEF Marked, Early, HasRow
  <2> QED BY <1>0, <2>1, <2>2, <2>3, OneJob, OtherStep
<1>2. ASSUME NEW pl \in Plans, DeletePlan(pl) PROVE IInv'
  <2>1. /\ now' = now /\ req' = req /\ job' = job /\ plan' = [plan EXCEPT ![pl] = Gone]
        /\ sub' = IF HasRow /\ sub.plan = pl THEN [sub EXCEPT !.plan = NoPlan] ELSE sub
    BY <1>2 DEF DeletePlan
  <2>2. CASE HasRow /\ sub.plan = pl
    <3>1. /\ sub' \in Row /\ sub'.limit = sub.limit /\ sub'.expires = sub.expires
          /\ sub'.used = sub.used /\ sub'.status = sub.status
      BY <1>0, <2>1, <2>2, OneJob DEF Row
    <3>2. TypeOK'
      BY <1>0, <2>1, <3>1 DEF TypeOK
    <3>3. Marked' /\ Early'
      BY <1>0, <2>1, <2>2, <3>1, OneJob DEF Marked, Due, Early
    <3>4. HasRow /\ sub # Unborn /\ sub' # Unborn
      BY <1>0, <2>2, <3>1, OneJob DEF HasRow
    <3> QED BY <1>0, <2>1, <3>1, <3>2, <3>3, <3>4, OneJob, OtherStep
  <2>3. CASE ~(HasRow /\ sub.plan = pl)
    <3>1. sub' = sub
      BY <2>1, <2>3
    <3>2. TypeOK'
      BY <1>0, <2>1, <3>1 DEF TypeOK
    <3>3. Marked' /\ Early' /\ HasRow' = HasRow
      BY <1>0, <2>1, <3>1 DEF Marked, Early, HasRow
    <3> QED BY <1>0, <2>1, <3>1, <3>2, <3>3, OneJob, OtherStep
  <2> QED BY <2>2, <2>3
<1>3. CASE DeleteSub
  <2>1. now' = now /\ req' = req /\ job' = job /\ plan' = plan /\ sub' = Gone /\ sub # Unborn
    BY <1>3 DEF DeleteSub, HasRow
  <2>2. TypeOK'
    BY <1>0, <2>1 DEF TypeOK
  <2>3. ~HasRow' /\ Marked' /\ Early' /\ sub' # Unborn
    BY <2>1, BillingAssumption DEF HasRow, Marked, Early
  <2> QED BY <1>0, <2>1, <2>2, <2>3, OneJob, OtherStep
<1>4. ASSUME NEW t \in 0..now, JobSelect(t) PROVE IInv'
  <2>1. /\ now' = now /\ req' = req /\ sub' = sub /\ plan' = plan
        /\ HasRow /\ sub.status = "active" /\ LapseOf(sub, t) # "ok"
        /\ job' = [at |-> "marking", mark |-> LapseOf(sub, t), overtaken |-> FALSE, lowered |-> FALSE]
    BY <1>4 DEF JobSelect
  <2>2. /\ LapseOf(sub, t) \in {"expired", "over_limit"}
        /\ LapseOf(sub, t) = "expired" => sub.expires # Never /\ sub.expires < t
        /\ LapseOf(sub, t) = "over_limit" => sub.limit > 0 /\ sub.used >= sub.limit
    BY <2>1 DEF LapseOf
  <2>3. job' \in Jobs
    BY <2>1, <2>2 DEF Jobs
  <2>4. TypeOK'
    BY <1>0, <2>1, <2>3 DEF TypeOK
  <2>5. sub.expires # Never => sub.expires \in Int
    BY <1>0, <2>1, OneJob DEF Row, Ends
  <2>6. Due(job', sub, now)
    <3>1. job'.mark = LapseOf(sub, t)
      BY <2>1
    <3>2. LapseOf(sub, t) = "expired" => sub.expires # Never /\ sub.expires < now
      BY <1>0, <1>4, <2>2, <2>5, OneJob
    <3> QED BY <2>1, <2>2, <3>1, <3>2 DEF Due
  <2>7. Marked' /\ Early' /\ HasRow' = HasRow /\ sub # Unborn
    BY <2>1, <2>6 DEF Marked, Early, HasRow
  <2> QED BY <1>0, <2>1, <2>4, <2>7, OneJob, OtherStep
<1>5. CASE JobCommit
  <2>1. /\ now' = now /\ req' = req /\ plan' = plan /\ job' = Idle
        /\ HasRow /\ job.at = "marking" /\ sub' = [sub EXCEPT !.status = job.mark]
    BY <1>5 DEF JobCommit
  <2>2. /\ sub' \in Row /\ sub'.limit = sub.limit /\ sub'.expires = sub.expires
    BY <1>0, <2>1, OneJob DEF Row, Statuses
  <2>3. TypeOK'
    BY <1>0, <2>1, <2>2, OneJob DEF TypeOK
  <2>4. Marked' /\ Early' /\ sub' # Unborn
    BY <1>0, <2>1, <2>2, OneJob DEF Marked, Due, Early
  <2> QED BY <1>0, <2>1, <2>2, <2>3, <2>4, OneJob, OtherStep
<1>6. CASE JobEnd
  <2>1. now' = now /\ req' = req /\ plan' = plan /\ job' = Idle /\ sub' = sub
    BY <1>6 DEF JobEnd
  <2>2. TypeOK'
    BY <1>0, <2>1, OneJob DEF TypeOK
  <2>3. Marked' /\ Early' /\ HasRow' = HasRow
    BY <1>0, <2>1, OneJob DEF Marked, Due, Early, HasRow
  <2> QED BY <1>0, <2>1, <2>2, <2>3, OneJob, OtherStep
<1>7. CASE Tick
  <2>1. now < MaxTime /\ now' = now + 1 /\ req' = req /\ plan' = plan /\ job' = job /\ sub' = sub
    BY <1>7 DEF Tick
  <2>2. now \in Nat /\ now' \in 0 .. MaxTime /\ now <= now'
    BY <1>0, <2>1, OneJob, BillingAssumption
  <2>3. TypeOK'
    BY <1>0, <2>1, <2>2 DEF TypeOK
  <2>4. HasRow => (sub.expires # Never => sub.expires \in Int)
    BY <1>0, OneJob DEF Row, Ends
  <2>5. Marked' /\ Early' /\ HasRow' = HasRow
    <3>1. HasRow' = HasRow /\ Early'
      BY <1>0, <2>1 DEF HasRow, Early
    <3>2. HasRow => Due(job, sub, now')
      BY <1>0, <2>1, <2>2, <2>4 DEF Marked, Due
    <3> QED BY <2>1, <3>1, <3>2 DEF Marked
  <2> QED BY <2>1, <2>2, <2>3, <2>5, OtherStep
<1>8. CASE Collect
  <2>1. PICK total \in 1..MaxUsed :
          /\ now' = now /\ req' = req /\ plan' = plan
          /\ HasRow /\ sub' = [sub EXCEPT !.used = total]
          /\ job' = IF job.at = "marking" /\ total < sub.used THEN [job EXCEPT !.lowered = TRUE] ELSE job
    BY <1>8 DEF Collect
  <2>2. total \in Nat
    BY BillingAssumption
  <2>3. /\ sub' \in Row /\ sub'.limit = sub.limit /\ sub'.expires = sub.expires
        /\ sub'.used = total /\ sub'.status = sub.status
        /\ sub.used \in Nat /\ sub.limit \in Int
    BY <1>0, <2>1, <2>2, OneJob DEF Row
  <2>4. /\ job' \in Jobs /\ (job'.at = "marking" <=> job.at = "marking")
        /\ job.at = "marking" =>
             /\ job'.mark = job.mark /\ job'.overtaken = job.overtaken
             /\ job.lowered \/ total < sub.used => job'.lowered
    <3>1. CASE job.at = "marking" /\ total < sub.used
      <4>1. job' = [at |-> "marking", mark |-> job.mark, overtaken |-> job.overtaken, lowered |-> TRUE]
        BY <1>0, <2>1, <3>1, OneJob
      <4> QED BY <1>0, <3>1, <4>1, OneJob DEF Jobs
    <3>2. CASE ~(job.at = "marking" /\ total < sub.used)
      BY <1>0, <2>1, <3>2, OneJob
    <3> QED BY <3>1, <3>2
  <2>5. TypeOK'
    BY <1>0, <2>1, <2>3, <2>4, OneJob DEF TypeOK
  <2>6. Due(job', sub', now)
    <3>1. Due(job, sub, now)
      BY <1>0, <2>1 DEF Marked
    <3>2. sub.used >= sub.limit => total < sub.used \/ total >= sub.limit
      BY <2>2, <2>3
    <3> QED BY <2>3, <2>4, <3>1, <3>2, Zenon DEF Due
  <2>7. Marked' /\ Early' /\ sub' # Unborn /\ HasRow /\ sub # Unborn
    BY <1>0, <2>1, <2>3, <2>6, OneJob DEF Marked, Early, HasRow
  <2> QED BY <1>0, <2>1, <2>3, <2>5, <2>7, OneJob, OtherStep
<1> QED BY <1>1, <1>2, <1>3, <1>4, <1>5, <1>6, <1>7, <1>8

\* A subscription comes with nobody waiting for it but its creators.
LEMMA InsertStep == ASSUME IInv, NEW p \in Admins, Insert(p) PROVE IInv'
<1>1. /\ req[p].at = "creating" /\ sub = Unborn /\ sub' = req[p].row /\ job' = job
      /\ now' = now /\ plan' = plan /\ req' = [req EXCEPT ![p] = Idle]
  BY DEF Insert, Moves
<1>2. TypeOK /\ Early /\ DOMAIN req = Admins /\ Idle.at = "idle"
  BY OneJob DEF IInv, TypeOK
<1>3. sub' \in Row
  BY <1>1, OneRequest, ShapeFields
<1>4. sub' \notin {Unborn, Gone}
  BY <1>2, <1>3, OneJob
<1>5. /\ DOMAIN req' = Admins /\ \A q \in Admins : req'[q] = IF q = p THEN Idle ELSE req[q]
      /\ job' = Idle
  BY <1>1, <1>2 DEF Early
<1>6. \A q \in Admins : Shape(req'[q]) /\ req'[q].at \in {"idle", "creating"}
  BY <1>1, <1>2, <1>5, OneRequest DEF Shape, Early
<1>7. TypeOK'
  BY <1>1, <1>2, <1>3, <1>5, <1>6 DEF TypeOK, Shape
<1>8. Fresh' /\ Marked' /\ Early'
  BY <1>2, <1>4, <1>5, <1>6 DEF Fresh, PageFresh, EditFresh, Marked, Due, Early
<1> QED BY <1>7, <1>8 DEF IInv

\* An admin's commit: what it writes, and whom it overtakes.
LEMMA CommitStep ==
  ASSUME IInv, NEW p \in Admins, Commit(p)
  PROVE  /\ IInv' /\ sub \in Row /\ Editing(req[p])
         /\ sub'.limit = Value(req[p], sub, "limit") /\ sub'.limit \in Int
         /\ sub'.expires = Value(req[p], sub, "expires") /\ sub'.expires \in Ends
<1> DEFINE r == req[p]
<1>1. /\ r.at = "editing" /\ HasRow /\ now' = now /\ plan' = plan
      /\ sub' = [c \in DOMAIN sub |-> IF c \in DOMAIN r.set THEN r.set[c] ELSE sub[c]]
      /\ req' = [q \in Admins |-> IF q = p THEN Idle ELSE Overtaken(req[q])]
      /\ job' = IF job.at = "marking" THEN [job EXCEPT !.overtaken = TRUE] ELSE job
  BY DEF Commit
<1>2. TypeOK /\ sub \in Row /\ now \in Nat /\ Idle.at = "idle"
  BY <1>1, OneJob DEF IInv
<1>3. Editing(r)
  BY <1>1, OneRequest, ShapeFields
<1>4. /\ sub' \in Row
      /\ sub'.limit = Value(r, sub, "limit") /\ sub'.limit \in Int
      /\ sub'.expires = Value(r, sub, "expires") /\ sub'.expires \in Ends
  <2> HIDE DEF r
  <2> QED BY <1>1, <1>2, <1>3, RowValues
<1>5. \A q \in Admins : req'[q] = IF q = p THEN Idle ELSE Overtook(req[q], sub, sub')
  BY <1>1 DEF Overtaken, Overtook
<1>6. ASSUME NEW q \in Admins
      PROVE Shape(req'[q]) /\ PageFresh(req'[q], sub') /\ EditFresh(req'[q], sub', now)
  <2>1. CASE q = p
    BY <1>2, <1>5, <2>1 DEF Shape, PageFresh, EditFresh
  <2>2. CASE q # p
    <3>1. req'[q] = Overtook(req[q], sub, sub')
      BY <1>5, <2>2
    <3>2. Shape(req[q]) /\ PageFresh(req[q], sub) /\ EditFresh(req[q], sub, now)
      BY <1>1, OneRequest
    <3> QED BY <1>2, <1>4, <3>1, <3>2, OvertakenFresh
  <2> QED BY <2>1, <2>2
<1>7. job' \in Jobs /\ (job'.at = "marking" => job'.overtaken)
  <2>1. CASE job.at = "marking"
    <3>1. job' = [at |-> "marking", mark |-> job.mark, overtaken |-> TRUE, lowered |-> job.lowered]
      BY <1>1, <1>2, <2>1, OneJob
    <3> QED BY <1>2, <2>1, <3>1, OneJob DEF Jobs
  <2>2. CASE job.at # "marking"
    BY <1>1, <1>2, <2>2, OneJob
  <2> QED BY <2>1, <2>2
<1>8. TypeOK'
  <2>1. DOMAIN req' = Admins
    BY <1>1
  <2> QED BY <1>1, <1>2, <1>4, <1>6, <1>7, <2>1 DEF TypeOK, Shape
<1>9. Fresh'
  BY <1>1, <1>6 DEF Fresh
<1>10. Marked'
  BY <1>7 DEF Marked, Due
<1>11. Early'
  BY <1>4, BillingAssumption DEF Early
<1> QED BY <1>2, <1>3, <1>4, <1>8, <1>9, <1>10, <1>11 DEF IInv

\* An admin begins a subscription, opens a page or ends.
LEMMA Starts ==
  ASSUME IInv, NEW p \in Admins,
         (\E pl \in Plans : StartCreate(p, pl)) \/ ShowPage(p) \/ End(p)
  PROVE  IInv'
<1>0. TypeOK /\ Idle.at = "idle" /\ now \in Nat
  BY OneJob DEF IInv
<1>1. ASSUME NEW pl \in Plans, StartCreate(p, pl) PROVE IInv'
  <2> DEFINE r == [at |-> "creating", row |-> NewRow(pl)]
  <2>1. Moves(p, r) /\ UNCHANGED <<sub, job>> /\ plan[pl] \in Terms
    BY <1>1 DEF StartCreate, Known
  <2>2. NewRow(pl) \in Row
    <3>1. plan[pl].traffic \in Int /\ plan[pl].days \in Int
      BY <2>1, BillingAssumption
    <3>2. now + plan[pl].days * Day \in Int
      BY <1>0, <3>1, BillingAssumption
    <3>3. NewRow(pl).expires \in Ends
      BY <3>2 DEF NewRow, Ends
    <3> QED BY <3>1, <3>3 DEF NewRow, Row, Statuses
  <2>3. Shape(r) /\ r.at = "creating"
    BY <2>2 DEF Shape
  <2> HIDE DEF r
  <2> QED BY <2>1, <2>3, MoveStep DEF PageFresh, EditFresh
<1>2. CASE ShowPage(p)
  <2> DEFINE r == [at |-> "page", limit |-> sub.limit, expires |-> sub.expires,
                   kept |-> {"limit", "expires"}, added |-> 0]
  <2>1. Moves(p, r) /\ UNCHANGED <<sub, job>> /\ HasRow /\ sub \in Row
    BY <1>0, <1>2, OneJob DEF ShowPage
  <2>2. r \in Pages
    BY <2>1 DEF Pages, Row
  <2>3. Shape(r) /\ r.at = "page" /\ r.limit = sub.limit /\ r.expires = sub.expires
    BY <2>2 DEF Shape
  <2>4. sub # Unborn
    BY <2>1 DEF HasRow
  <2> HIDE DEF r
  <2> QED BY <2>1, <2>3, <2>4, MoveStep DEF PageFresh, EditFresh
<1>3. CASE End(p)
  <2>1. Moves(p, Idle) /\ UNCHANGED <<sub, job>> /\ Shape(Idle)
    BY <1>3 DEF End, Shape
  <2> QED BY <1>0, <2>1, MoveStep DEF PageFresh, EditFresh
<1> QED BY <1>1, <1>2, <1>3

\* A posted form: what it keeps of the row and what it adds to its end.
LEMMA PostStep ==
  ASSUME IInv, NEW p \in Admins, NEW f \in Forms(req[p]), Post(p, f)
  PROVE  IInv'
<1> DEFINE new == Edited(sub, f)
           set == [c \in {d \in DOMAIN new : new[d] # sub[d]} |-> new[c]]
           kept == Kept(req[p], f)
           added == IF "expires" \in req[p].kept /\ "never" \notin f.boxes THEN Added(f) ELSE 0
           r == [at |-> "editing", set |-> set, kept |-> kept, added |-> added]
<1>1. /\ req[p].at = "page" /\ HasRow /\ Moves(p, r) /\ UNCHANGED <<sub, job>>
  BY DEF Post
<1>2. /\ TypeOK /\ sub \in Row /\ now \in Nat /\ req[p] \in Pages /\ PageFresh(req[p], sub)
  BY <1>1, OneJob, OneRequest, ShapeFields DEF IInv
<1>3. /\ f.plan \in Plans /\ f.status \in {"active", "disabled"} /\ f.limit \in Int
      /\ f.date \in Int \cup {NoDate} /\ Added(f) \in Int
      /\ sub.expires # Never => Later(sub.expires, Added(f)) = sub.expires + Added(f)
      /\ sub.expires = Never => Later(sub.expires, Added(f)) = now + Added(f)
      /\ EndOf(sub.expires, f) \in Ends
  BY <1>1, <1>2, Ranges
<1>4. /\ DOMAIN new = {"plan", "limit", "used", "expires", "status"}
      /\ new["plan"] \in Plans \cup {NoPlan} /\ new["limit"] = f.limit /\ new["used"] \in Nat
      /\ new["expires"] = EndOf(sub.expires, f) /\ new["status"] \in Statuses
  BY <1>2, <1>3 DEF Edited, Row, Statuses
<1> HIDE DEF new
<1>5. /\ DOMAIN set \subseteq {"plan", "limit", "used", "expires", "status"}
      /\ \A c \in DOMAIN set : set[c] = new[c]
      /\ \A c \in DOMAIN new : IF c \in DOMAIN set THEN set[c] = new[c] ELSE sub[c] = new[c]
  BY <1>4
<1>6. kept \in SUBSET {"limit", "expires"} /\ added \in Int
  BY <1>2, <1>3 DEF Kept, Pages
<1>7. Value(r, sub, "limit") = f.limit /\ Value(r, sub, "expires") = EndOf(sub.expires, f)
  BY <1>4, <1>5 DEF Value
<1>8. Shape(r)
  <2> HIDE DEF set, kept, added
  <2>1. Editing(r)
    <3>1. /\ DOMAIN set \subseteq {"plan", "limit", "used", "expires", "status"}
          /\ "plan" \in DOMAIN set => set["plan"] \in Plans \cup {NoPlan}
          /\ "limit" \in DOMAIN set => set["limit"] \in Int
          /\ "used" \in DOMAIN set => set["used"] \in Nat
          /\ "expires" \in DOMAIN set => set["expires"] \in Ends
          /\ "status" \in DOMAIN set => set["status"] \in Statuses
      BY <1>3, <1>4, <1>5
    <3> QED BY <1>6, <3>1, MakesEditing
  <2> QED BY <2>1 DEF Shape
<1>9. r.at = "editing" /\ r.kept = kept /\ r.added = added
  OBVIOUS
<1>10. "limit" \in kept => f.limit = ShownLimit(sub.limit)
  BY <1>1, <1>2 DEF Kept, PageFresh
<1>11. ASSUME "expires" \in kept
       PROVE  \/ EndOf(sub.expires, f) = sub.expires
              \/ sub.expires # Never /\ EndOf(sub.expires, f) = sub.expires - (sub.expires % Minute)
  <2>1. /\ req[p].expires = sub.expires
        /\ ("never" \in f.boxes) <=> (sub.expires = Never)
        /\ f.date = ShownDate(sub.expires)
        /\ "never" \notin f.boxes => Added(f) = 0
    BY <1>1, <1>2, <1>11 DEF Kept, PageFresh
  <2>2. CASE sub.expires = Never
    BY <2>1, <2>2 DEF EndOf
  <2>3. CASE sub.expires # Never
    <3>1. sub.expires \in Int
      BY <1>2, <2>3 DEF Row, Ends
    <3>2. f.date = sub.expires - (sub.expires % Minute) /\ f.date \in Int
      BY <2>1, <2>3, <3>1, MinuteOf DEF ShownDate
    <3>3. f.date # NoDate
      BY <3>2, BillingAssumption
    <3> QED BY <2>1, <2>3, <3>2, <3>3 DEF EndOf
  <2> QED BY <2>2, <2>3
<1>12. ASSUME added > 0
       PROVE  /\ EndOf(sub.expires, f) # Never
              /\ IF sub.expires # Never THEN EndOf(sub.expires, f) = sub.expires + added
                 ELSE EndOf(sub.expires, f) <= now + added
  <2>1. added = Added(f) /\ Added(f) > 0 /\ "never" \notin f.boxes
    BY <1>12
  <2>2. EndOf(sub.expires, f) = Later(sub.expires, Added(f))
    BY <2>1 DEF EndOf
  <2>3. sub.expires # Never => sub.expires \in Int
    BY <1>2 DEF Row, Ends
  <2>4. Later(sub.expires, Added(f)) \in Int
    BY <1>2, <1>3, <2>3
  <2> HIDE DEF added
  <2> QED BY <1>2, <1>3, <2>1, <2>2, <2>4, BillingAssumption
<1>13. EditFresh(r, sub, now)
  <2> HIDE DEF r, kept, added
  <2> QED BY <1>7, <1>9, <1>10, <1>11, <1>12 DEF EditFresh
<1>14. PageFresh(r, sub) /\ sub # Unborn
  BY <1>1 DEF PageFresh, HasRow
<1> HIDE DEF r
<1> QED BY <1>1, <1>8, <1>13, <1>14, MoveStep

\* Every step keeps the invariant.
LEMMA Step == IInv /\ [Next]_vars => IInv'
<1> SUFFICES ASSUME IInv, [Next]_vars PROVE IInv'
  OBVIOUS
<1>1. CASE UNCHANGED vars
  BY <1>1 DEF vars, IInv, TypeOK, Fresh, PageFresh, EditFresh, Value, Marked, Due, Early, HasRow, Editing
<1>2. ASSUME NEW p \in Admins, Handle(p) PROVE IInv'
  <2>1. ASSUME NEW f \in Forms(req[p]), Post(p, f) PROVE IInv'
    BY <2>1, PostStep
  <2> QED BY <1>2, <2>1, Starts, InsertStep, CommitStep DEF Handle
<1> QED BY <1>1, <1>2, Others DEF Next

\* Types, freshness of pages and requests, and the job's reasons hold in every
\* reachable state.
THEOREM Inductive == Spec => []IInv
BY InitHolds, Step, PTL DEF Spec

\* Rows, pages, requests and the job keep their shape, whatever is typed.
THEOREM TypeCorrect == Spec => []TypeOK
<1>1. IInv => TypeOK
  BY DEF IInv
<1> QED BY <1>1, Inductive, PTL

\* UntouchedTermsStay for every precision of the page: an untouched limit is
\* off by half of 0.01 GB and a byte, an untouched end by less than a minute.
THEOREM TermsStay == Spec => UntouchedTermsStay
<1> DEFINE Stay(p) ==
       /\ "expires" \in req[p].kept /\ sub'.expires # sub.expires =>
            /\ Never \notin {sub.expires, sub'.expires}
            /\ sub'.expires \in (sub.expires - Minute) + 1 .. sub.expires
       /\ "limit" \in req[p].kept =>
            /\ 2 * Parts * (sub'.limit - sub.limit) \in -(Gigabyte + 2 * Parts) .. Gigabyte + 2 * Parts
            /\ 2 * Parts * sub.limit > Gigabyte => sub'.limit > 0
<1>1. ASSUME IInv, NEW p \in Admins, Commit(p) PROVE Stay(p)
  <2>1. /\ sub \in Row /\ req[p].at = "editing" /\ EditFresh(req[p], sub, now)
        /\ sub'.limit = Value(req[p], sub, "limit") /\ sub'.expires = Value(req[p], sub, "expires")
    BY <1>1, CommitStep, OneRequest DEF Commit
  <2>2. sub.limit \in Int /\ (sub.expires # Never => sub.expires \in Int)
    BY <2>1 DEF Row, Ends
  <2>3. ASSUME "limit" \in req[p].kept
        PROVE  /\ 2 * Parts * (sub'.limit - sub.limit) \in -(Gigabyte + 2 * Parts) .. Gigabyte + 2 * Parts
               /\ 2 * Parts * sub.limit > Gigabyte => sub'.limit > 0
    <3>1. sub'.limit = ShownLimit(sub.limit)
      BY <2>1, <2>3 DEF EditFresh
    <3> QED BY <2>2, <3>1, Rounding
  <2>4. ASSUME "expires" \in req[p].kept, sub'.expires # sub.expires
        PROVE  /\ Never \notin {sub.expires, sub'.expires}
               /\ sub'.expires \in (sub.expires - Minute) + 1 .. sub.expires
    <3>1. sub.expires # Never /\ sub'.expires = sub.expires - (sub.expires % Minute)
      BY <2>1, <2>4 DEF EditFresh
    <3>2. sub'.expires \in Int /\ sub'.expires \in (sub.expires - Minute) + 1 .. sub.expires
      BY <2>2, <3>1, MinuteOf
    <3> QED BY <3>1, <3>2, BillingAssumption
  <2> QED BY <2>3, <2>4
<1>2. IInv /\ [Next]_vars => [\A p \in Admins : Commit(p) => Stay(p)]_vars
  BY <1>1
<1> QED BY <1>2, Inductive, PTL DEF Spec, UntouchedTermsStay

\* ExtensionReaches for every plan and any number of admins: while the end is
\* as the page showed it, an extension is added to it.
THEOREM ExtensionsReach == Spec => ExtensionReaches
<1> DEFINE Reaches(p) ==
       /\ sub'.expires # Never
       /\ IF sub.expires # Never THEN sub'.expires = sub.expires + req[p].added
          ELSE sub'.expires <= now + req[p].added
<1>1. ASSUME IInv, NEW p \in Admins, Commit(p), req[p].added > 0 PROVE Reaches(p)
  <2>1. /\ req[p].at = "editing" /\ EditFresh(req[p], sub, now)
        /\ sub'.expires = Value(req[p], sub, "expires")
    BY <1>1, CommitStep, OneRequest DEF Commit
  <2> QED BY <1>1, <2>1 DEF EditFresh
<1>2. IInv /\ [Next]_vars => [\A p \in Admins : Commit(p) /\ req[p].added > 0 => Reaches(p)]_vars
  BY <1>1
<1> QED BY <1>2, Inductive, PTL DEF Spec, ExtensionReaches

\* MarksSayWhy: what the job has selected it by still holds, since time only
\* passes and only an admin's commit changes the status, the limit and the end;
\* of the bytes it is known only that a lower total was seen if they have fallen.
THEOREM MarksHold == Spec => MarksSayWhy
<1> DEFINE Why ==
       /\ sub.status = "active"
       /\ sub'.status = "expired" => sub.expires # Never /\ sub.expires < now
       /\ sub'.status = "over_limit" => sub.limit > 0 /\ (sub.used >= sub.limit \/ job.lowered)
<1>1. ASSUME IInv, JobCommit, ~job.overtaken PROVE Why
  <2>1. HasRow /\ job.at = "marking" /\ sub' = [sub EXCEPT !.status = job.mark] /\ Due(job, sub, now)
    BY <1>1 DEF JobCommit, IInv, Marked
  <2>2. sub'.status = job.mark
    BY <1>1, <2>1, OneJob DEF IInv, Row
  <2> QED BY <1>1, <2>1, <2>2 DEF Due
<1>2. IInv /\ [Next]_vars => [JobCommit /\ ~job.overtaken => Why]_vars
  BY <1>1
<1> QED BY <1>2, Inductive, PTL DEF Spec, MarksSayWhy

\* LapsesAsAssumed: time takes no lapse away and bytes take away only over_limit,
\* in a step that lowers them; nobody else touches the numbers.
THEOREM LapsesHold == Spec => LapsesAsAssumed
<1> DEFINE before == LapseOf(sub, now)
           after == LapseOf(sub', now')
           Comes == \/ after = before \/ before = "ok" \/ after = "expired"
                    \/ before = "over_limit" /\ after = "ok" /\ sub'.used < sub.used
<1>1. ASSUME IInv, [Next]_vars, HasRow, HasRow', req' = req PROVE Comes
  <2>0. /\ TypeOK /\ sub \in Row /\ now \in Nat /\ DOMAIN req = Admins /\ Idle.at = "idle"
    BY <1>1, OneJob DEF IInv, TypeOK
  <2>1. /\ sub.limit \in Int /\ sub.used \in Nat /\ (sub.expires # Never => sub.expires \in Int)
    BY <2>0 DEF Row, Ends
  <2>2. ASSUME NEW p \in Admins, Handle(p) PROVE sub' = sub /\ now' = now
    <3>1. ~Commit(p)
      <4>1. Commit(p) => req'[p] = Idle /\ req[p].at = "editing"
        BY DEF Commit
      <4> QED BY <1>1, <2>0, <4>1
    <3>2. ~Insert(p)
      BY <1>1 DEF Insert, HasRow
    <3> QED BY <2>2, <3>1, <3>2 DEF Handle, StartCreate, ShowPage, Post, End, Moves
  <2>3. \/ sub' = sub /\ now' = now
        \/ sub' = sub /\ now' = now + 1
        \/ /\ now' = now /\ sub'.limit = sub.limit /\ sub'.expires = sub.expires
           /\ sub'.used \in Nat
    <3>1. CASE Collect
      <4>1. PICK total \in 1..MaxUsed : sub' = [sub EXCEPT !.used = total]
        BY <3>1 DEF Collect
      <4>2. total \in Nat /\ now' = now
        BY <3>1, BillingAssumption DEF Collect
      <4> QED BY <2>0, <4>1, <4>2 DEF Row
    <3>2. CASE JobCommit \/ \E pl \in Plans : DeletePlan(pl)
      BY <2>0, <2>1, <3>2 DEF JobCommit, DeletePlan, Row
    <3>3. ~DeleteSub
      BY <1>1, BillingAssumption DEF DeleteSub, HasRow
    <3> QED BY <1>1, <2>2, <3>1, <3>2, <3>3 DEF Next, vars, CreatePlan, JobSelect, JobEnd, Tick
  <2> QED BY <2>0, <2>1, <2>3 DEF LapseOf
<1>2. IInv /\ [Next]_vars => [HasRow /\ HasRow' /\ req' = req => Comes]_vars
  BY <1>1
<1> QED BY <1>2, Inductive, PTL DEF Spec, LapsesAsAssumed
=============================================================================
