---------------------------- MODULE LogStreamProofs ----------------------------
(***************************************************************************)
(* LogStream implements RemoteRun for streams of any length.  The invariant  *)
(* says that the queue holds exactly the lines that have been drained and    *)
(* not shown, each stream's in order, and as many end markers as tasks have  *)
(* ended and not been counted; and that nothing but a marker can be last     *)
(* once both tasks have ended.  So the second marker leaves an empty queue.  *)
(***************************************************************************)
EXTENDS LogStream, TLAPS

\* The queue holds, in order, the lines drained and not yet shown.
Backlog ==
  /\ \A t \in Tags : shown[t] <= drained[t] /\ drained[t] <= written[t]
  /\ \A i \in 1..Len(queue) :
       queue[i] # EndMark => shown[queue[i].tag] < queue[i].n /\ queue[i].n <= drained[queue[i].tag]
  /\ \A i, j \in 1..Len(queue) :
       i < j /\ queue[i] # EndMark /\ queue[i].tag = queue[j].tag => queue[i].n < queue[j].n
  /\ \A t \in Tags, n \in 1..MaxLines :
       shown[t] < n /\ n <= drained[t] => \E i \in 1..Len(queue) : queue[i] = Line(t, n)

NoMark(q)  == \A i \in 1..Len(q) : q[i] # EndMark
OneMark(q) == \E i \in 1..Len(q) : q[i] = EndMark /\ \A j \in 1..Len(q) : q[j] = EndMark => j = i
TwoMarks(q) ==
  \E i, j \in 1..Len(q) :
    i < j /\ q[i] = EndMark /\ q[j] = EndMark /\ \A k \in 1..Len(q) : q[k] = EndMark => k = i \/ k = j

\* Every task is still reading, or its marker is in the queue, or is counted.
Marks ==
  \/ open = Tags /\ closed = 0 /\ NoMark(queue)
  \/ (\E t \in Tags : open = {t}) /\ closed = 0 /\ OneMark(queue)
  \/ (\E t \in Tags : open = {t}) /\ closed = 1 /\ NoMark(queue)
  \/ open = {} /\ closed = 0 /\ TwoMarks(queue)
  \/ open = {} /\ closed = 1 /\ OneMark(queue)
  \/ open = {} /\ closed = 2 /\ NoMark(queue)

\* With both tasks at their end, a marker is last in the queue.
MarkIsLast == open = {} /\ queue # <<>> => queue[Len(queue)] = EndMark

\* A task that has ended left nothing, unless the connection was lost; the
\* generator waits behind the second marker and knows the last stdout line.
Ended ==
  /\ \A t \in Tags \ open : fate # "running" /\ (fate = "lost" \/ drained[t] = written[t])
  /\ fate = "exited" => written["out"] > 0
  /\ gen = "waiting" => closed = 2
  /\ gen = "merging" => closed < 2
  /\ last = shown["out"]

IInv == TypeOK /\ Backlog /\ Marks /\ MarkIsLast /\ Ended

-----------------------------------------------------------------------------
(* Sequences.                                                               *)

\* What Append and Tail do, entry by entry.
LEMMA AppendEntries ==
  ASSUME NEW S, NEW q \in Seq(S), NEW e \in S
  PROVE  /\ Append(q, e) \in Seq(S) /\ Len(Append(q, e)) = Len(q) + 1
         /\ \A i \in 1..Len(q) : Append(q, e)[i] = q[i]
         /\ Append(q, e)[Len(q) + 1] = e
OBVIOUS

\* What taking the head leaves of a queue.
LEMMA TailEntries ==
  ASSUME NEW S, NEW q \in Seq(S), q # <<>>
  PROVE  /\ Tail(q) \in Seq(S) /\ Len(Tail(q)) = Len(q) - 1 /\ Len(q) \in Nat \ {0}
         /\ \A i \in 1..Len(q) - 1 : Tail(q)[i] = q[i + 1]
         /\ Head(q) = q[1] /\ Head(q) \in S
OBVIOUS

\* A line added or taken leaves the markers as many as they were.
LEMMA LineKeepsMarks ==
  ASSUME NEW q \in Seq(Items), NEW r \in Seq(Items), NEW e \in Items, e # EndMark,
         r = Append(q, e) \/ (q # <<>> /\ Head(q) = e /\ r = Tail(q))
  PROVE  /\ NoMark(q) => NoMark(r)
         /\ OneMark(q) => OneMark(r)
         /\ TwoMarks(q) => TwoMarks(r)
<1>1. CASE r = Append(q, e)
  BY <1>1, AppendEntries DEF NoMark, OneMark, TwoMarks
<1>2. CASE q # <<>> /\ Head(q) = e /\ r = Tail(q)
  <2>1. /\ Len(r) = Len(q) - 1 /\ Len(q) \in Nat \ {0} /\ q[1] # EndMark
        /\ \A i \in 1..Len(q) - 1 : r[i] = q[i + 1]
    BY <1>2, TailEntries
  <2>2. NoMark(q) => NoMark(r)
    BY <2>1 DEF NoMark
  <2>3. ASSUME OneMark(q) PROVE OneMark(r)
    <3>1. PICK i \in 1..Len(q) : q[i] = EndMark /\ \A j \in 1..Len(q) : q[j] = EndMark => j = i
      BY <2>3 DEF OneMark
    <3>2. i - 1 \in 1..Len(r) /\ r[i - 1] = EndMark
      BY <2>1, <3>1
    <3>3. \A j \in 1..Len(r) : r[j] = EndMark => j = i - 1
      BY <2>1, <3>1
    <3> QED BY <3>2, <3>3 DEF OneMark
  <2>4. ASSUME TwoMarks(q) PROVE TwoMarks(r)
    <3> USE DEF TwoMarks
    <3>1. PICK i \in 1..Len(q), j \in 1..Len(q) :
            i < j /\ q[i] = EndMark /\ q[j] = EndMark
            /\ \A k \in 1..Len(q) : q[k] = EndMark => k = i \/ k = j
      BY <2>4 DEF TwoMarks
    <3> DEFINE a == i - 1
               b == j - 1
    <3>2. /\ a \in 1..Len(r) /\ b \in 1..Len(r) /\ a < b
          /\ r[a] = EndMark /\ r[b] = EndMark
      BY <2>1, <3>1
    <3>3. \A k \in 1..Len(r) : r[k] = EndMark => k = a \/ k = b
      BY <2>1, <3>1
    <3> HIDE DEF a, b
    <3> QED BY <3>2, <3>3
  <2> QED BY <2>2, <2>3, <2>4
<1> QED BY <1>1, <1>2

\* A marker put makes one more.
LEMMA MarkAdded ==
  ASSUME NEW q \in Seq(Items)
  PROVE  /\ NoMark(q) => OneMark(Append(q, EndMark))
         /\ OneMark(q) => TwoMarks(Append(q, EndMark))
<1> DEFINE r == Append(q, EndMark)
<1>0. EndMark \in Items
  BY DEF Items
<1>1. /\ Len(r) = Len(q) + 1 /\ r[Len(q) + 1] = EndMark /\ Len(q) \in Nat
      /\ \A i \in 1..Len(q) : r[i] = q[i]
  BY <1>0, AppendEntries
<1> HIDE DEF r
<1>2. ASSUME NoMark(q) PROVE OneMark(r)
  <2>1. \A j \in 1..Len(r) : r[j] = EndMark => j = Len(q) + 1
    BY <1>1, <1>2 DEF NoMark
  <2>2. Len(q) + 1 \in 1..Len(r)
    BY <1>1
  <2> QED BY <1>1, <2>1, <2>2 DEF OneMark
<1>3. ASSUME OneMark(q) PROVE TwoMarks(r)
  <2>1. PICK i \in 1..Len(q) : q[i] = EndMark /\ \A j \in 1..Len(q) : q[j] = EndMark => j = i
    BY <1>3 DEF OneMark
  <2>2. \A k \in 1..Len(r) : r[k] = EndMark => k = i \/ k = Len(q) + 1
    BY <1>1, <2>1
  <2>3. i \in 1..Len(r) /\ Len(q) + 1 \in 1..Len(r) /\ i < Len(q) + 1 /\ r[i] = EndMark
    BY <1>1, <2>1
  <2> QED BY <1>1, <2>2, <2>3 DEF TwoMarks
<1> QED BY <1>2, <1>3 DEF r

\* A marker taken from the head makes one less.
LEMMA MarkTaken ==
  ASSUME NEW q \in Seq(Items), q # <<>>, Head(q) = EndMark
  PROVE  /\ ~NoMark(q)
         /\ OneMark(q) => NoMark(Tail(q))
         /\ TwoMarks(q) => OneMark(Tail(q))
<1> DEFINE r == Tail(q)
<1>1. /\ Len(r) = Len(q) - 1 /\ Len(q) \in Nat \ {0} /\ q[1] = EndMark
      /\ \A i \in 1..Len(q) - 1 : r[i] = q[i + 1]
  BY TailEntries
<1> HIDE DEF r
<1>2. ~NoMark(q)
  BY <1>1 DEF NoMark
<1>3. ASSUME OneMark(q) PROVE NoMark(r)
  BY <1>1, <1>3 DEF OneMark, NoMark
<1>4. ASSUME TwoMarks(q) PROVE OneMark(r)
  <2>1. PICK i \in 1..Len(q), j \in 1..Len(q) :
          i < j /\ q[i] = EndMark /\ q[j] = EndMark
          /\ \A k \in 1..Len(q) : q[k] = EndMark => k = i \/ k = j
    BY <1>4 DEF TwoMarks
  <2>2. i = 1
    BY <1>1, <2>1
  <2>3. j - 1 \in 1..Len(r) /\ r[j - 1] = EndMark
    BY <1>1, <2>1, <2>2
  <2>4. \A k \in 1..Len(r) : r[k] = EndMark => k = j - 1
    BY <1>1, <2>1, <2>2
  <2> QED BY <2>3, <2>4 DEF OneMark
<1> QED BY <1>2, <1>3, <1>4 DEF r

-----------------------------------------------------------------------------
(* Steps.                                                                   *)

\* Nothing is written, drained or shown at the start.
LEMMA InitHolds == Init => IInv
<1> SUFFICES ASSUME Init PROVE IInv
  OBVIOUS
<1> USE StreamAssumption DEF Init
<1>1. TypeOK
  BY DEF TypeOK, Tags
<1>2. Backlog
  BY DEF Backlog
<1>3. Marks /\ MarkIsLast /\ Ended
  BY DEF Marks, NoMark, MarkIsLast, Ended, Tags
<1> QED BY <1>1, <1>2, <1>3 DEF IInv

\* The script writes, ends or is lost; tasks, queue and generator stay put.
LEMMA ScriptStep ==
  ASSUME IInv, (\E t \in Tags : Write(t)) \/ Exit \/ (\E how \in {"died", "lost"} : Fail(how))
  PROVE  IInv'
<1>0. UNCHANGED <<drained, open, queue, closed, shown, last, gen>> /\ fate = "running"
  BY DEF Write, Exit, Fail
<1>1. /\ written \in [Tags -> 0..MaxLines] /\ drained \in [Tags -> 0..MaxLines]
      /\ "out" \in Tags /\ MaxLines \in Nat
  BY StreamAssumption DEF IInv, TypeOK, Tags
<1>2. /\ written' \in [Tags -> 0..MaxLines]
      /\ \A t \in Tags : written[t] <= written'[t]
      /\ fate' \in {"running", "exited", "died", "lost"}
      /\ fate' = "exited" => written'["out"] > 0
  <2>1. CASE \E t \in Tags : Write(t)
    BY <1>1, <2>1 DEF Write
  <2>2. CASE Exit
    BY <1>1, <2>2 DEF Exit
  <2>3. CASE \E how \in {"died", "lost"} : Fail(how)
    BY <1>1, <2>3 DEF Fail
  <2> QED BY <2>1, <2>2, <2>3
<1>3. TypeOK'
  BY <1>0, <1>2 DEF IInv, TypeOK
<1>4. Backlog'
  BY <1>0, <1>1, <1>2 DEF IInv, Backlog
<1>5. Marks' /\ MarkIsLast'
  BY <1>0 DEF IInv, Marks, MarkIsLast
<1>6. Ended'
  BY <1>0, <1>2 DEF IInv, Ended
<1> QED BY <1>3, <1>4, <1>5, <1>6 DEF IInv

\* The queue's entries are lines of a stream or end markers.
LEMMA ItemTypes ==
  ASSUME NEW e \in Items
  PROVE  e.n \in Nat /\ (e # EndMark => e.tag \in Tags /\ e.n \in 1..MaxLines) /\ EndMark.tag \notin Tags
BY StreamAssumption DEF Items, EndMark, Tags

\* A task puts the next line of its stream on the queue.
LEMMA DrainLineStep ==
  ASSUME IInv, NEW t \in Tags, DrainLine(t)
  PROVE  IInv'
<1> DEFINE e == Line(t, drained[t] + 1)
<1>0. /\ written \in [Tags -> 0..MaxLines] /\ drained \in [Tags -> 0..MaxLines]
      /\ shown \in [Tags -> 0..MaxLines] /\ queue \in Seq(Items) /\ MaxLines \in Nat
      /\ UNCHANGED <<written, fate, open, closed, shown, last, gen>>
      /\ t \in open /\ drained[t] < written[t] /\ drained' = [drained EXCEPT ![t] = @ + 1]
      /\ Backlog
  BY StreamAssumption DEF DrainLine, IInv, TypeOK
<1>1. /\ drained' \in [Tags -> 0..MaxLines] /\ drained'[t] = drained[t] + 1
      /\ \A u \in Tags \ {t} : drained'[u] = drained[u]
      /\ \A u \in Tags : drained[u] <= drained'[u]
  BY <1>0
<1>2. e \in Items /\ e # EndMark /\ e.tag = t /\ e.n = drained[t] + 1
  BY <1>0 DEF Line, EndMark, Items, Tags
<1>3. queue' = Append(queue, e)
  BY DEF DrainLine
<1> HIDE DEF e
<1>4. /\ queue' \in Seq(Items) /\ Len(queue') = Len(queue) + 1 /\ Len(queue) \in Nat
      /\ \A i \in 1..Len(queue) : queue'[i] = queue[i] /\ queue[i] \in Items
      /\ queue'[Len(queue) + 1] = e
  BY <1>0, <1>2, <1>3, AppendEntries
<1>5. TypeOK'
  BY <1>0, <1>1, <1>4 DEF IInv, TypeOK
<1>6. \A u \in Tags : shown'[u] <= drained'[u] /\ drained'[u] <= written'[u]
  BY <1>0, <1>1 DEF Backlog
<1>7. ASSUME NEW i \in 1..Len(queue'), queue'[i] # EndMark
      PROVE  shown'[queue'[i].tag] < queue'[i].n /\ queue'[i].n <= drained'[queue'[i].tag]
  <2>1. CASE i = Len(queue) + 1
    BY <1>0, <1>1, <1>2, <1>4, <2>1 DEF Backlog
  <2>2. CASE i \in 1..Len(queue)
    <3>1. queue'[i] = queue[i] /\ queue[i].tag \in Tags /\ queue[i].n \in Nat
      BY <1>4, <1>7, <2>2, ItemTypes
    <3>2. shown[queue[i].tag] < queue[i].n /\ queue[i].n <= drained[queue[i].tag]
      BY <1>0, <1>7, <2>2, <3>1 DEF Backlog
    <3> QED BY <1>0, <1>1, <3>1, <3>2
  <2> QED BY <1>4, <2>1, <2>2
<1>8. ASSUME NEW i \in 1..Len(queue'), NEW j \in 1..Len(queue'),
             i < j, queue'[i] # EndMark, queue'[i].tag = queue'[j].tag
      PROVE  queue'[i].n < queue'[j].n
  <2>1. i \in 1..Len(queue) /\ queue'[i] = queue[i] /\ queue[i].tag \in Tags /\ queue[i].n \in Nat
    BY <1>4, <1>8, ItemTypes
  <2>2. CASE j = Len(queue) + 1
    BY <1>0, <1>2, <1>4, <1>8, <2>1, <2>2 DEF Backlog
  <2>3. CASE j \in 1..Len(queue)
    BY <1>0, <1>4, <1>8, <2>1, <2>3 DEF Backlog
  <2> QED BY <1>4, <2>2, <2>3
<1>9. ASSUME NEW u \in Tags, NEW n \in 1..MaxLines, shown'[u] < n, n <= drained'[u]
      PROVE  \E i \in 1..Len(queue') : queue'[i] = Line(u, n)
  <2>1. CASE n <= drained[u]
    <3>1. PICK i \in 1..Len(queue) : queue[i] = Line(u, n)
      BY <1>0, <1>9, <2>1 DEF Backlog
    <3> QED BY <1>4, <3>1
  <2>2. CASE ~(n <= drained[u])
    <3>1. u = t /\ n = drained[t] + 1
      BY <1>0, <1>1, <1>9, <2>2
    <3>2. Len(queue) + 1 \in 1..Len(queue')
      BY <1>4
    <3> QED BY <1>4, <3>1, <3>2 DEF e
  <2> QED BY <2>1, <2>2
<1>10. Backlog'
  BY <1>6, <1>7, <1>8, <1>9 DEF Backlog
<1>11. Marks'
  BY <1>0, <1>2, <1>3, <1>4, LineKeepsMarks DEF IInv, Marks
<1>12. MarkIsLast' /\ Ended'
  BY <1>0, <1>1 DEF IInv, MarkIsLast, Ended
<1> QED BY <1>5, <1>10, <1>11, <1>12 DEF IInv

\* A task ends and its marker goes behind everything it drained.
LEMMA DrainEndsStep ==
  ASSUME IInv, NEW t \in Tags, DrainEnds(t)
  PROVE  IInv'
<1>0. /\ written \in [Tags -> 0..MaxLines] /\ drained \in [Tags -> 0..MaxLines]
      /\ shown \in [Tags -> 0..MaxLines] /\ queue \in Seq(Items) /\ EndMark \in Items
      /\ UNCHANGED <<written, fate, drained, closed, shown, last, gen>>
      /\ t \in open /\ open \subseteq Tags /\ open' = open \ {t}
      /\ fate # "running" /\ (fate = "lost" \/ drained[t] = written[t])
      /\ queue' = Append(queue, EndMark) /\ Backlog /\ Marks
  BY DEF DrainEnds, AtEnd, IInv, TypeOK, Items
<1>1. /\ queue' \in Seq(Items) /\ Len(queue') = Len(queue) + 1 /\ Len(queue) \in Nat
      /\ \A i \in 1..Len(queue) : queue'[i] = queue[i] /\ queue[i] \in Items
      /\ queue'[Len(queue) + 1] = EndMark
  BY <1>0, AppendEntries
<1>2. TypeOK'
  BY <1>0, <1>1 DEF IInv, TypeOK
<1>3. ASSUME NEW i \in 1..Len(queue'), queue'[i] # EndMark
      PROVE  i \in 1..Len(queue) /\ queue'[i] = queue[i]
             /\ queue[i].tag \in Tags /\ queue[i].n \in Nat
  BY <1>1, <1>3, ItemTypes
<1>4. ASSUME NEW i \in 1..Len(queue'), NEW j \in 1..Len(queue'),
             i < j, queue'[i] # EndMark, queue'[i].tag = queue'[j].tag
      PROVE  queue'[i].n < queue'[j].n
  <2>1. queue'[j] # EndMark
    BY <1>0, <1>3, <1>4, ItemTypes
  <2> QED BY <1>0, <1>3, <1>4, <2>1 DEF Backlog
<1>5. Backlog'
  BY <1>0, <1>1, <1>3, <1>4 DEF Backlog
<1>6. Marks'
  <2>1. \/ open = Tags /\ (\E u \in Tags : open' = {u})
        \/ (\E u \in Tags : open = {u}) /\ open' = {}
    BY <1>0 DEF Tags
  <2>2. ASSUME NEW u, Tags = {u} PROVE FALSE
    <3>1. "out" = u /\ "err" = u
      BY <2>2 DEF Tags
    <3> QED BY <3>1
  <2>3. open # {}
    BY <1>0
  <2> QED BY <1>0, <2>1, <2>2, <2>3, MarkAdded DEF Marks
<1>7. MarkIsLast'
  BY <1>1 DEF MarkIsLast
<1>8. Ended'
  BY <1>0 DEF IInv, Ended
<1> QED BY <1>2, <1>5, <1>6, <1>7, <1>8 DEF IInv

\* What is left of the queue once its head is taken.
LEMMA TakeHead ==
  ASSUME IInv, queue # <<>>, queue' = Tail(queue)
  PROVE  /\ queue' \in Seq(Items) /\ Len(queue') = Len(queue) - 1 /\ Len(queue) \in Nat \ {0}
         /\ Head(queue) = queue[1] /\ Head(queue) \in Items
         /\ \A i \in 1..Len(queue') :
              i + 1 \in 2..Len(queue) /\ queue'[i] = queue[i + 1] /\ queue[i + 1] \in Items
<1>1. queue \in Seq(Items)
  BY DEF IInv, TypeOK
<1> QED BY <1>1, TailEntries

\* The next line of its stream is at the head, and is shown.
LEMMA YieldLineStep ==
  ASSUME IInv, YieldLine
  PROVE  IInv' /\ Head(queue).tag \in Tags /\ shown[Head(queue).tag] < written[Head(queue).tag]
<1> DEFINE e == Head(queue)
           t == e.tag
<1>0. /\ written \in [Tags -> 0..MaxLines] /\ drained \in [Tags -> 0..MaxLines]
      /\ shown \in [Tags -> 0..MaxLines] /\ MaxLines \in Nat /\ queue \in Seq(Items)
      /\ UNCHANGED <<written, fate, drained, open, closed, gen>>
      /\ queue # <<>> /\ queue' = Tail(queue) /\ e # EndMark
      /\ shown' = [shown EXCEPT ![t] = @ + 1]
      /\ last' = IF t = "out" THEN e.n ELSE last
      /\ Backlog
  BY StreamAssumption DEF YieldLine, IInv, TypeOK
<1>1. /\ queue' \in Seq(Items) /\ Len(queue') = Len(queue) - 1 /\ Len(queue) \in Nat \ {0}
      /\ e = queue[1] /\ e \in Items
      /\ \A i \in 1..Len(queue') :
           i + 1 \in 2..Len(queue) /\ queue'[i] = queue[i + 1] /\ queue[i + 1] \in Items
  BY <1>0, TakeHead
<1>2. t \in Tags /\ e.n \in 1..MaxLines
  BY <1>0, <1>1, ItemTypes
<1> HIDE DEF e, t
<1>3. e.n = shown[t] + 1 /\ shown[t] + 1 <= drained[t]
  <2>1. shown[t] < e.n /\ e.n <= drained[t] /\ 1 \in 1..Len(queue)
    BY <1>0, <1>1 DEF Backlog, t
  <2>2. PICK i \in 1..Len(queue) : queue[i] = Line(t, shown[t] + 1)
    <3>1. shown[t] + 1 \in 1..MaxLines /\ shown[t] < shown[t] + 1 /\ shown[t] + 1 <= drained[t]
      BY <1>0, <1>2, <2>1
    <3> QED BY <1>0, <1>2, <3>1 DEF Backlog
  <2>3. queue[i].tag = t /\ queue[i].n = shown[t] + 1
    BY <2>2 DEF Line
  <2>4. CASE i = 1
    BY <1>0, <1>1, <1>2, <2>1, <2>3, <2>4
  <2>5. CASE i # 1
    <3>1. e.n < queue[i].n
      BY <1>0, <1>1, <2>1, <2>3, <2>5 DEF Backlog, t
    <3> QED BY <1>0, <1>2, <2>1, <2>3, <3>1
  <2> QED BY <2>4, <2>5
<1>4. /\ shown' \in [Tags -> 0..MaxLines] /\ shown'[t] = shown[t] + 1
      /\ \A u \in Tags \ {t} : shown'[u] = shown[u]
  BY <1>0, <1>2, <1>3
<1>5. TypeOK'
  BY <1>0, <1>1, <1>2, <1>4 DEF IInv, TypeOK
<1>6. \A u \in Tags : shown'[u] <= drained'[u] /\ drained'[u] <= written'[u]
  BY <1>0, <1>3, <1>4 DEF Backlog
<1>7. ASSUME NEW i \in 1..Len(queue'), queue'[i] # EndMark
      PROVE  shown'[queue'[i].tag] < queue'[i].n /\ queue'[i].n <= drained'[queue'[i].tag]
  <2>1. /\ i + 1 \in 1..Len(queue) /\ 1 \in 1..Len(queue) /\ 1 < i + 1
        /\ queue'[i] = queue[i + 1] /\ queue[i + 1].tag \in Tags /\ queue[i + 1].n \in Nat
    BY <1>1, <1>7, ItemTypes
  <2>2. shown[queue[i + 1].tag] < queue[i + 1].n /\ queue[i + 1].n <= drained[queue[i + 1].tag]
    BY <1>0, <1>7, <2>1 DEF Backlog
  <2>3. CASE queue[i + 1].tag = t
    <3>1. e.n < queue[i + 1].n
      BY <1>0, <1>1, <2>1, <2>3 DEF Backlog, t
    <3> QED BY <1>0, <1>2, <1>3, <1>4, <2>1, <2>2, <2>3, <3>1
  <2>4. CASE queue[i + 1].tag # t
    BY <1>0, <1>4, <2>1, <2>2, <2>4
  <2> QED BY <2>3, <2>4
<1>8. ASSUME NEW i \in 1..Len(queue'), NEW j \in 1..Len(queue'),
             i < j, queue'[i] # EndMark, queue'[i].tag = queue'[j].tag
      PROVE  queue'[i].n < queue'[j].n
  <2>1. /\ i + 1 \in 1..Len(queue) /\ j + 1 \in 1..Len(queue) /\ i + 1 < j + 1
        /\ queue'[i] = queue[i + 1] /\ queue'[j] = queue[j + 1]
    BY <1>1, <1>8
  <2> QED BY <1>0, <1>8, <2>1 DEF Backlog
<1>9. ASSUME NEW u \in Tags, NEW n \in 1..MaxLines, shown'[u] < n, n <= drained'[u]
      PROVE  \E i \in 1..Len(queue') : queue'[i] = Line(u, n)
  <2>1. shown[u] < n /\ n <= drained[u] /\ (u = t => n # e.n)
    BY <1>0, <1>2, <1>3, <1>4, <1>9
  <2>2. PICK i \in 1..Len(queue) : queue[i] = Line(u, n)
    BY <1>0, <2>1 DEF Backlog
  <2>3. i # 1
    BY <1>1, <2>1, <2>2 DEF Line, t
  <2> DEFINE k == i - 1
  <2>4. k \in 1..Len(queue') /\ k + 1 = i
    BY <1>1, <2>3
  <2> HIDE DEF k
  <2> QED BY <1>1, <2>2, <2>4
<1>10. Backlog'
  BY <1>6, <1>7, <1>8, <1>9 DEF Backlog
<1>11. Marks'
  BY <1>0, <1>1, LineKeepsMarks DEF IInv, Marks, e
<1>12. MarkIsLast'
  <2> SUFFICES ASSUME open = {}, queue' # <<>> PROVE queue'[Len(queue')] = EndMark
    BY <1>0 DEF MarkIsLast
  <2>1. queue[Len(queue)] = EndMark
    BY <1>0 DEF IInv, MarkIsLast
  <2>2. Len(queue') # 0
    BY <1>1
  <2>3. Len(queue') \in 1..Len(queue') /\ Len(queue') + 1 = Len(queue)
    BY <1>1, <2>2
  <2> QED BY <1>1, <2>1, <2>3
<1>13. Ended'
  <2>1. last' = shown'["out"]
    BY <1>0, <1>3, <1>4 DEF IInv, Ended, Tags
  <2> QED BY <1>0, <2>1 DEF IInv, Ended
<1>14. shown[t] < written[t]
  BY <1>0, <1>2, <1>3 DEF Backlog
<1> QED BY <1>2, <1>5, <1>10, <1>11, <1>12, <1>13, <1>14 DEF IInv, e, t

\* A marker is counted; behind the second one the queue is empty.
LEMMA MeetMarkStep ==
  ASSUME IInv, MeetMark
  PROVE  IInv'
<1>0. /\ shown \in [Tags -> 0..MaxLines] /\ queue \in Seq(Items) /\ closed \in 0..2
      /\ UNCHANGED <<written, fate, drained, open, shown, last>>
      /\ queue # <<>> /\ queue' = Tail(queue) /\ Head(queue) = EndMark
      /\ gen = "merging" /\ closed < 2 /\ closed' = closed + 1
      /\ gen' = IF closed + 1 < 2 THEN "merging" ELSE "waiting"
      /\ Backlog /\ Marks
  BY DEF MeetMark, IInv, TypeOK, Ended
<1>1. /\ queue' \in Seq(Items) /\ Len(queue') = Len(queue) - 1 /\ Len(queue) \in Nat \ {0}
      /\ EndMark = queue[1]
      /\ \A i \in 1..Len(queue') :
           i + 1 \in 2..Len(queue) /\ queue'[i] = queue[i + 1] /\ queue[i + 1] \in Items
  BY <1>0, TakeHead
<1>2. TypeOK'
  BY <1>0, <1>1 DEF IInv, TypeOK
<1>3. ASSUME NEW u \in Tags, NEW n \in 1..MaxLines, shown[u] < n, n <= drained[u]
      PROVE  \E i \in 1..Len(queue') : queue'[i] = Line(u, n)
  <2>1. PICK i \in 1..Len(queue) : queue[i] = Line(u, n)
    BY <1>0, <1>3 DEF Backlog
  <2>2. i # 1
    BY <1>1, <2>1 DEF Line, EndMark, Tags
  <2> DEFINE k == i - 1
  <2>3. k \in 1..Len(queue') /\ k + 1 = i
    BY <1>1, <2>2
  <2> HIDE DEF k
  <2> QED BY <1>1, <2>1, <2>3
<1>4. ASSUME NEW i \in 1..Len(queue'), NEW j \in 1..Len(queue'),
             i < j, queue'[i] # EndMark, queue'[i].tag = queue'[j].tag
      PROVE  queue'[i].n < queue'[j].n
  <2>1. /\ i + 1 \in 1..Len(queue) /\ j + 1 \in 1..Len(queue) /\ i + 1 < j + 1
        /\ queue'[i] = queue[i + 1] /\ queue'[j] = queue[j + 1]
    BY <1>1, <1>4
  <2> QED BY <1>0, <1>4, <2>1 DEF Backlog
<1>5. Backlog'
  <2>1. \A i \in 1..Len(queue') : queue'[i] # EndMark =>
          shown'[queue'[i].tag] < queue'[i].n /\ queue'[i].n <= drained'[queue'[i].tag]
    BY <1>0, <1>1 DEF Backlog
  <2> QED BY <1>0, <1>3, <1>4, <2>1 DEF Backlog
<1>6. Marks'
  BY <1>0, MarkTaken DEF Marks
<1>7. MarkIsLast'
  <2> SUFFICES ASSUME open = {}, queue' # <<>> PROVE queue'[Len(queue')] = EndMark
    BY <1>0 DEF MarkIsLast
  <2>1. queue[Len(queue)] = EndMark
    BY <1>0 DEF IInv, MarkIsLast
  <2>2. Len(queue') # 0
    BY <1>1
  <2>3. Len(queue') \in 1..Len(queue') /\ Len(queue') + 1 = Len(queue)
    BY <1>1, <2>2
  <2> QED BY <1>1, <2>1, <2>3
<1>8. Ended'
  BY <1>0 DEF IInv, Ended
<1> QED BY <1>2, <1>5, <1>6, <1>7, <1>8 DEF IInv

\* Waiting for the exit code, everything drained has been shown.
LEMMA AllShown ==
  ASSUME IInv, gen = "waiting"
  PROVE  /\ open = {} /\ fate # "running"
         /\ fate # "lost" => shown = written
<1>1. open = {} /\ closed = 2 /\ NoMark(queue)
  BY DEF IInv, Ended, Marks
<1>2. queue = <<>>
  <2> SUFFICES ASSUME queue # <<>> PROVE FALSE
    OBVIOUS
  <2>1. Len(queue) \in 1..Len(queue) /\ queue[Len(queue)] = EndMark
    BY <1>1, TailEntries DEF IInv, TypeOK, MarkIsLast
  <2> QED BY <1>1, <2>1 DEF NoMark
<1>3. /\ shown \in [Tags -> 0..MaxLines] /\ drained \in [Tags -> 0..MaxLines]
      /\ written \in [Tags -> 0..MaxLines] /\ MaxLines \in Nat
  BY StreamAssumption DEF IInv, TypeOK
<1>4. \A t \in Tags : shown[t] = drained[t]
  <2> SUFFICES ASSUME NEW t \in Tags, shown[t] # drained[t] PROVE FALSE
    OBVIOUS
  <2>1. shown[t] < drained[t] /\ drained[t] \in 1..MaxLines /\ drained[t] <= drained[t]
    BY <1>3 DEF IInv, Backlog
  <2> QED BY <1>2, <2>1 DEF IInv, Backlog
<1>5. \A t \in Tags : fate # "running" /\ (fate # "lost" => shown[t] = written[t])
  BY <1>1, <1>4 DEF IInv, Ended
<1> QED BY <1>1, <1>3, <1>5 DEF Tags

\* The outcome is given, or the consumer leaves.
LEMMA EndStep ==
  ASSUME IInv, Judge \/ Leave
  PROVE  IInv'
<1>1. UNCHANGED <<written, drained, open, queue, closed, shown, last>>
  BY DEF Judge, Leave
<1>2. /\ gen' \in {"result", "error", "left"}
      /\ fate' = fate \/ (fate = "running" /\ fate' = "lost")
  BY DEF Judge, Leave
<1>3. TypeOK'
  BY <1>1, <1>2 DEF IInv, TypeOK
<1>4. Backlog' /\ Marks' /\ MarkIsLast'
  BY <1>1 DEF IInv, Backlog, Marks, MarkIsLast
<1>5. Ended'
  BY <1>1, <1>2 DEF IInv, Ended
<1> QED BY <1>3, <1>4, <1>5 DEF IInv

-----------------------------------------------------------------------------

\* Every step of script, tasks and generator keeps the invariant.
LEMMA Step == IInv /\ [Next]_vars => IInv'
<1> SUFFICES ASSUME IInv, [Next]_vars PROVE IInv'
  OBVIOUS
<1>1. CASE UNCHANGED vars
  BY <1>1 DEF vars, IInv, TypeOK, Backlog, Marks, NoMark, OneMark, TwoMarks, MarkIsLast, Ended
<1>2. CASE Next
  BY <1>2, ScriptStep, DrainLineStep, DrainEndsStep, YieldLineStep, MeetMarkStep, EndStep
  DEF Next, Drain, Generate
<1> QED BY <1>1, <1>2

\* The queue holds what is drained and not shown, in order, with its markers,
\* in every reachable state.
THEOREM Inductive == Spec => []IInv
BY InitHolds, Step, PTL DEF Spec

\* Queue, counters and stages stay in their types for streams of any length.
THEOREM TypeCorrect == Spec => []TypeOK
<1>1. IInv => TypeOK
  BY DEF IInv
<1> QED BY <1>1, Inductive, PTL

\* Each step of script, tasks and generator is one of RemoteRun or changes
\* nothing there: a drained line is nobody's concern until it is shown.
LEMMA StepRefines == IInv /\ [Next]_vars => [Promise!Next]_Promise!vars
<1> SUFFICES ASSUME IInv, [Next]_vars PROVE [Promise!Next]_Promise!vars
  OBVIOUS
<1> USE DEF Promise!vars, Outcome
<1>1. ASSUME NEW t \in Tags, Write(t) PROVE Promise!Write(t) /\ t \in Promise!Tags
  BY <1>1 DEF Write, Promise!Write, Promise!Tags, Tags
<1>2. CASE Exit
  BY <1>2 DEF Exit, Promise!Exit, Promise!Next
<1>3. ASSUME NEW how \in {"died", "lost"}, Fail(how) PROVE Promise!Fail(how)
  BY <1>3 DEF Fail, Promise!Fail
<1>4. ASSUME NEW t \in Tags, Drain(t) PROVE UNCHANGED Promise!vars
  BY <1>4 DEF Drain, DrainLine, DrainEnds
<1>5. CASE YieldLine
  <2>1. Head(queue).tag \in Tags /\ shown[Head(queue).tag] < written[Head(queue).tag]
    BY <1>5, YieldLineStep
  <2>2. Promise!Show(Head(queue).tag)
    BY <1>5, <2>1 DEF YieldLine, Promise!Show
  <2> QED BY <2>1, <2>2 DEF Promise!Next, Promise!Tags, Tags
<1>6. CASE MeetMark
  BY <1>6 DEF MeetMark
<1>7. CASE Judge
  <2>1. fate # "running" /\ (fate # "lost" => shown = written)
    BY <1>7, AllShown DEF Judge
  <2>2. GivesResult <=> fate = "exited"
    BY <2>1 DEF GivesResult, IInv, Ended, TypeOK, Tags
  <2>3. Promise!Finish
    BY <1>7, <2>1, <2>2 DEF Judge, Promise!Finish
  <2> QED BY <2>3 DEF Promise!Next
<1>8. CASE Leave
  BY <1>8 DEF Leave, Promise!Leave, Promise!Next
<1>9. CASE UNCHANGED vars
  BY <1>9 DEF vars
<1> QED
  BY <1>1, <1>2, <1>3, <1>4, <1>5, <1>6, <1>7, <1>8, <1>9
  DEF Next, Generate, Promise!Next

\* Two tasks, a queue and a count of markers implement RemoteRun: a result is
\* given exactly when the script has exited with code 0 and everything it
\* wrote has been shown, for streams of any length.
THEOREM Refines == Spec => KeepsPromise
<1>1. Init => Promise!Init
  BY DEF Init, Promise!Init, Outcome, Tags, Promise!Tags
<1> QED BY <1>1, StepRefines, Inductive, PTL DEF Spec, KeepsPromise, Promise!Spec
=============================================================================
