--------------------------- MODULE NodeSlotsProofs ---------------------------
(***************************************************************************)
(* Proofs about NodeSlots, for any range of ports and any number of        *)
(* sessions, nodes and clients.  SlotsDistinct is not inductive: a row     *)
(* still in a session's hands or in a view becomes a row of the table or   *)
(* of the relay later.  Private and Traced say what is known of those, and  *)
(* SameSlot that all rows of one node agree in their slot.                  *)
(***************************************************************************)
EXTENDS NodeSlots, TLAPS

\* The rows somebody has, in the table, on the relay or on the way to either.
Known(r) == r \in nodes \/ r \in served \/ \E c \in Sessions : r \in picked[c] \/ r \in view[c]

\* A short id leads to one node for ever, in rows and in clients' addresses.
Traced ==
  /\ \A r \in SlotRows : Known(r) => r.id \in used_ids /\ r.short_id \in issued
  /\ \A r, q \in SlotRows : Known(r) /\ Known(q) /\ r.short_id = q.short_id => r.id = q.id
  /\ \A e \in cached :
       /\ e.sid \in issued
       /\ \A r \in SlotRows : Known(r) /\ r.short_id = e.sid => r.id = e.node

\* A row about to be inserted is its session's only one, and key and short id
\* are nobody else's.
Private ==
  \A c \in Sessions : \A r \in picked[c] :
    /\ \A q \in nodes : r.id # q.id /\ r.short_id # q.short_id
    /\ \A d \in Sessions : \A q \in picked[d] :
         IF c = d THEN r = q ELSE r.id # q.id /\ r.short_id # q.short_id

IInv ==
  /\ TypeOK
  /\ Traced
  /\ Private
  /\ SlotsDistinct
  /\ \A c \in Sessions : Distinct(view[c])

-----------------------------------------------------------------------------
(* Rows.                                                                    *)

\* The columns of a row.
LEMMA RowColumns ==
  ASSUME NEW r \in SlotRows
  PROVE  /\ r.id \in Nodes /\ r.port \in Ports /\ r.short_id \in ShortIds
         /\ r.exit = r.id
         /\ \E t \in Suffixes : r.in_tag = InTag(t) /\ r.out_tag = OutTag(t)
BY DEF SlotRows, SlotRow

\* A row made of such columns.
LEMMA RowMade ==
  ASSUME NEW n \in Nodes, NEW t \in Suffixes, NEW port \in Ports, NEW sid \in ShortIds
  PROVE  LET r == SlotRow(n, t, port, sid, "active")
         IN r \in SlotRows /\ r.id = n /\ r.short_id = sid
BY DEF SlotRows, SlotRow, NodeStatus

\* Editing the status leaves every other column alone.
LEMMA RowEdited ==
  ASSUME NEW r \in SlotRows, NEW status \in NodeStatus
  PROVE  LET q == [r EXCEPT !.status = status]
         IN /\ q \in SlotRows
            /\ q.id = r.id /\ q.port = r.port /\ q.short_id = r.short_id
            /\ q.in_tag = r.in_tag /\ q.out_tag = r.out_tag
<1>1. PICK n \in Nodes, t \in Suffixes, port \in Ports, sid \in ShortIds, st \in NodeStatus :
        r = SlotRow(n, t, port, sid, st)
  BY DEF SlotRows
<1>2. [r EXCEPT !.status = status] = SlotRow(n, t, port, sid, status)
  BY <1>1 DEF SlotRow
<1>3. SlotRow(n, t, port, sid, status) \in SlotRows
  BY DEF SlotRows
<1> QED BY <1>1, <1>2, <1>3 DEF SlotRow

\* No tag of a node is the tag of the API inbound or of the direct outbound.
LEMMA TagsApart ==
  ASSUME NEW t
  PROVE  ApiRule.inboundTag # InTag(t) /\ DirectOutbound.tag # OutTag(t)
<1>1. ApiRule.inboundTag[1] = "api" /\ DirectOutbound.tag[1] = "direct"
  BY DEF ApiRule, DirectOutbound
<1>2. InTag(t)[1] = "in" /\ OutTag(t)[1] = "out"
  BY DEF InTag, OutTag
<1>3. "api" # "in" /\ "direct" # "out"
  OBVIOUS
<1> QED BY <1>1, <1>2, <1>3

\* The inbounds of the relay.
LEMMA Inbounds ==
  ASSUME NEW i \in Relay.inbounds
  PROVE  \/ i = API_INBOUND /\ i.port = ApiPort /\ i.shortIds = {}
         \/ \E r \in served : /\ i.port = r.port /\ i.tag = r.in_tag
                              /\ i.shortIds = {r.short_id}
<1>1. i = API_INBOUND \/ \E r \in served : i = InboundForNode(r, Clients)
  BY DEF Relay, BuildConfig
<1>2. API_INBOUND.port = ApiPort /\ API_INBOUND.shortIds = {}
  BY DEF API_INBOUND
<1>3. \A r \in served : LET k == InboundForNode(r, Clients)
                       IN k.port = r.port /\ k.tag = r.in_tag /\ k.shortIds = {r.short_id}
  BY DEF InboundForNode
<1> QED BY <1>1, <1>2, <1>3

-----------------------------------------------------------------------------
(* The invariant.                                                           *)

\* Nothing is registered, chosen, read or downloaded.
LEMMA InitHolds == Init => IInv
BY DEF Init, IInv, TypeOK, Traced, Known, Private, SlotsDistinct, Distinct

\* A session picks a row: key and short id are new, so no known row has them.
LEMMA ChooseStep ==
  ASSUME IInv, NEW c \in Sessions, NEW n \in Nodes, NEW t \in Suffixes, NEW sid \in ShortIds,
         Choose(c, n, t, sid)
  PROVE  IInv'
<1>1. PICK port \in Ports :
        picked' = [picked EXCEPT ![c] = {SlotRow(n, t, port, sid, "active")}]
  BY DEF Choose
<1> DEFINE x == SlotRow(n, t, port, sid, "active")
<1>2. x \in SlotRows /\ x.id = n /\ x.short_id = sid
  BY RowMade
<1>3. n \notin used_ids /\ sid \notin issued
  BY DEF Choose, FreshShortId
<1> HIDE DEF x
<1>4. /\ picked'[c] = {x} /\ \A d \in Sessions : d # c => picked'[d] = picked[d]
      /\ picked' \in [Sessions -> SUBSET SlotRows]
  BY <1>1, <1>2 DEF IInv, TypeOK, x
<1>5. TypeOK'
  BY <1>4 DEF Choose, IInv, TypeOK
<1>6. \A r \in SlotRows : Known(r)' => r = x \/ Known(r)
  BY <1>4 DEF Known, Choose
<1>7. Traced'
  <2>1. used_ids' = used_ids \cup {n} /\ issued' = issued \cup {sid} /\ cached' = cached
    BY DEF Choose
  <2>2. Traced
    BY DEF IInv
  <2> QED BY <1>2, <1>3, <1>6, <2>1, <2>2 DEF Traced
<1>8. \A r \in SlotRows : Known(r) => r.id # n /\ r.short_id # sid
  BY <1>3 DEF IInv, Traced
<1>9. \A d \in Sessions : picked[d] \subseteq SlotRows /\ nodes \subseteq SlotRows
  BY DEF IInv, TypeOK
<1>10. nodes' = nodes /\ Private
  BY DEF Choose, IInv
<1>11. Private'
  <2>1. \A r \in nodes : r.id # n /\ r.short_id # sid
    BY <1>8, <1>9 DEF Known
  <2>2. \A d \in Sessions : \A r \in picked[d] : r.id # n /\ r.short_id # sid
    BY <1>8, <1>9 DEF Known
  <2> QED BY <1>2, <1>4, <1>10, <2>1, <2>2 DEF Private
<1>12. SlotsDistinct' /\ \A d \in Sessions : Distinct(view[d])'
  BY DEF Choose, IInv, SlotsDistinct, Distinct
<1> QED BY <1>5, <1>7, <1>11, <1>12 DEF IInv

\* The UNIQUE columns and Private together keep the new row apart.
LEMMA InsertStep ==
  ASSUME IInv, NEW c \in Sessions, Insert(c)
  PROVE  IInv'
<1>1. /\ picked'[c] = {} /\ \A d \in Sessions : d # c => picked'[d] = picked[d]
      /\ nodes' = nodes \cup picked[c]
  BY DEF Insert, IInv, TypeOK
<1>2. TypeOK'
  BY DEF Insert, IInv, TypeOK
<1>3. \A r \in SlotRows : Known(r)' => Known(r)
  BY <1>1 DEF Known, Insert
<1>4. Traced'
  BY <1>3 DEF Insert, IInv, Traced
<1>5. Private'
  BY <1>1 DEF IInv, Private
<1>6. Distinct(nodes')
  <2>1. \A r \in picked[c] : \A q \in nodes :
          /\ r.id # q.id /\ r.short_id # q.short_id
          /\ r.port # q.port /\ r.in_tag # q.in_tag /\ r.out_tag # q.out_tag
    BY DEF IInv, Private, Insert, Unique
  <2>2. \A r, q \in picked[c] : r = q
    BY DEF IInv, Private
  <2>3. Distinct(nodes)
    BY DEF IInv, SlotsDistinct
  <2> QED BY <1>1, <2>1, <2>2, <2>3 DEF Distinct
<1>7. Distinct(served') /\ \A d \in Sessions : Distinct(view[d])'
  BY DEF Insert, IInv, SlotsDistinct, Distinct
<1> QED BY <1>2, <1>4, <1>5, <1>6, <1>7 DEF IInv, SlotsDistinct

\* An edited row keeps its slot.
LEMMA SetStatusStep ==
  ASSUME IInv, NEW c \in Sessions, NEW r \in nodes, NEW status \in NodeStatus,
         SetStatus(c, r, status)
  PROVE  IInv'
<1> DEFINE x == [r EXCEPT !.status = status]
<1>1. r \in SlotRows
  BY DEF IInv, TypeOK
<1>2. /\ x \in SlotRows /\ x.id = r.id /\ x.port = r.port /\ x.short_id = r.short_id
      /\ x.in_tag = r.in_tag /\ x.out_tag = r.out_tag
  BY <1>1, RowEdited
<1>3. nodes' = (nodes \ {r}) \cup {x}
  BY DEF SetStatus
<1> HIDE DEF x
<1>4. TypeOK'
  BY <1>2, <1>3 DEF SetStatus, IInv, TypeOK
<1>5. \A q \in SlotRows : Known(q)' => q = x \/ Known(q)
  BY <1>3 DEF Known, SetStatus
<1>6. Known(r)
  BY DEF Known
<1>7. Traced'
  <2>1. Traced /\ UNCHANGED <<cached, used_ids, issued>>
    BY DEF IInv, SetStatus
  <2> QED BY <1>1, <1>2, <1>5, <1>6, <2>1 DEF Traced
<1>8. Private'
  <2>1. Private /\ picked' = picked
    BY DEF IInv, SetStatus
  <2> QED BY <1>2, <1>3, <2>1 DEF Private
<1>9. Distinct(nodes')
  BY <1>2, <1>3 DEF IInv, SlotsDistinct, Distinct
<1>10. Distinct(served') /\ \A d \in Sessions : Distinct(view[d])'
  BY DEF SetStatus, IInv, SlotsDistinct, Distinct
<1> QED BY <1>4, <1>7, <1>8, <1>9, <1>10 DEF IInv, SlotsDistinct

\* Reading, writing, dropping and downloading rows makes none.
LEMMA OtherSteps ==
  ASSUME IInv, NEW c \in Sessions,
         \/ InsertFails(c) \/ ReadRows(c) \/ WriteConfig(c) \/ Abort(c)
         \/ \E r \in nodes : Delete(c, r)
  PROVE  IInv'
<1>1. TypeOK'
  <2>1. CASE \E r \in nodes : Delete(c, r)
    BY <2>1, RowColumns DEF Delete, IInv, TypeOK
  <2>2. CASE InsertFails(c)
    BY <2>2 DEF InsertFails, IInv, TypeOK
  <2>3. CASE ReadRows(c)
    BY <2>3 DEF ReadRows, IInv, TypeOK
  <2>4. CASE WriteConfig(c)
    BY <2>4 DEF WriteConfig, IInv, TypeOK
  <2>5. CASE Abort(c)
    BY <2>5 DEF Abort, IInv, TypeOK
  <2> QED BY <2>1, <2>2, <2>3, <2>4, <2>5
<1>2. /\ nodes' \subseteq nodes
      /\ \A d \in Sessions : picked'[d] \subseteq picked[d]
      /\ \A d \in Sessions : view'[d] \in {{}, nodes, view[d]}
      /\ served' = served \/ served' = view[c]
      /\ UNCHANGED <<cached, used_ids, issued>>
  BY DEF InsertFails, ReadRows, WriteConfig, Abort, Delete, IInv, TypeOK
<1>3. \A r \in SlotRows : Known(r)' => Known(r)
  BY <1>2 DEF Known
<1>4. Traced'
  BY <1>2, <1>3 DEF IInv, Traced
<1>5. Private'
  BY <1>2 DEF IInv, Private
<1>6. SlotsDistinct'
  BY <1>2 DEF IInv, SlotsDistinct, Distinct
<1>7. \A d \in Sessions : Distinct(view[d])'
  BY <1>2 DEF IInv, SlotsDistinct, Distinct
<1> QED BY <1>1, <1>4, <1>5, <1>6, <1>7 DEF IInv

\* What a client downloads are addresses of rows of the table.
LEMMA FetchStep ==
  ASSUME IInv, NEW u \in Clients, Fetch(u)
  PROVE  IInv'
<1>1. \A e \in Document(u, nodes) :
        \E r \in nodes : e = VlessEntry(u, r) /\ e.sid = r.short_id /\ e.node = r.id
  BY DEF Document, VlessEntry
<1>2. nodes \subseteq SlotRows /\ \A r \in nodes : Known(r)
  BY DEF IInv, TypeOK, Known
<1>3. TypeOK'
  <2>1. cached' \in SUBSET {VlessEntry(v, r) : v \in Clients, r \in SlotRows}
    BY <1>1, <1>2 DEF Fetch, IInv, TypeOK
  <2> QED BY <2>1 DEF Fetch, IInv, TypeOK
<1>4. Traced'
  <2>1. \A e \in cached' : e \in cached \/ \E r \in nodes : e.sid = r.short_id /\ e.node = r.id
    BY <1>1 DEF Fetch
  <2>2. Traced /\ UNCHANGED <<used_ids, issued>> /\ \A r \in SlotRows : Known(r)' <=> Known(r)
    BY DEF IInv, Fetch, Known
  <2>3. \A e \in cached' :
          /\ e.sid \in issued
          /\ \A r \in SlotRows : Known(r) /\ r.short_id = e.sid => r.id = e.node
    BY <1>2, <2>1, <2>2 DEF Traced
  <2> QED BY <2>2, <2>3 DEF Traced
<1>5. Private' /\ SlotsDistinct' /\ \A d \in Sessions : Distinct(view[d])'
  BY DEF Fetch, IInv, Private, SlotsDistinct, Distinct
<1> QED BY <1>3, <1>4, <1>5 DEF IInv

-----------------------------------------------------------------------------

\* The inductive invariant holds in every reachable state.
THEOREM Inductive == Spec => []IInv
<1>1. IInv /\ [Next]_vars => IInv'
  <2> SUFFICES ASSUME IInv, [Next]_vars PROVE IInv'
    OBVIOUS
  <2>1. CASE UNCHANGED vars
    BY <2>1 DEF vars, IInv, TypeOK, Traced, Known, Private, SlotsDistinct, Distinct
  <2>2. CASE Next
    <3>1. ASSUME NEW c \in Sessions,
                 \/ InsertFails(c) \/ ReadRows(c) \/ WriteConfig(c) \/ Abort(c)
                 \/ \E r \in nodes : Delete(c, r)
          PROVE  IInv'
      BY <3>1, OtherSteps
    <3>2. ASSUME NEW c \in Sessions, NEW n \in Nodes, NEW t \in Suffixes,
                 NEW sid \in ShortIds, Choose(c, n, t, sid)
          PROVE  IInv'
      BY <3>2, ChooseStep
    <3>3. ASSUME NEW c \in Sessions, NEW r \in nodes, NEW status \in NodeStatus,
                 SetStatus(c, r, status)
          PROVE  IInv'
      BY <3>3, SetStatusStep
    <3>4. ASSUME NEW c \in Sessions, Insert(c) PROVE IInv'
      BY <3>4, InsertStep
    <3>5. ASSUME NEW u \in Clients, Fetch(u) PROVE IInv'
      BY <3>5, FetchStep
    <3> QED BY <2>2, <3>1, <3>2, <3>3, <3>4, <3>5, Zenon DEF Next
  <2> QED BY <2>1, <2>2
<1> QED BY InitHolds, <1>1, PTL DEF Spec

\* Rows, views and addresses keep their shape, for any ranges and sessions.
THEOREM TypeCorrect == Spec => []TypeOK
<1>1. IInv => TypeOK
  BY DEF IInv
<1> QED BY <1>1, Inductive, PTL

\* However registrations race for ports, no two nodes share a slot, in the
\* table or on the relay.
THEOREM SlotsNeverShared == Spec => []SlotsDistinct
<1>1. IInv => SlotsDistinct
  BY DEF IInv
<1> QED BY <1>1, Inductive, PTL

\* An address a client once downloaded never leads out of another node.
THEOREM NoWrongExit == Spec => []NeverWrongExit
<1>1. IInv => NeverWrongExit
  <2> SUFFICES ASSUME IInv, NEW e \in cached, NEW i \in Accepting(Relay, e),
                      NEW x \in ExitsOf(Relay, i)
               PROVE  x = e.node
    BY DEF NeverWrongExit
  <2>1. i \in Relay.inbounds /\ e.sid \in i.shortIds
    BY DEF Accepting
  <2>2. PICK r \in served : i.tag = r.in_tag /\ e.sid = r.short_id
    BY <2>1, Inbounds
  <2>3. PICK rule \in Relay.rules, o \in Relay.outbounds :
          rule.inboundTag = i.tag /\ rule.outboundTag = o.tag /\ x = o.exit
    BY DEF ExitsOf
  <2>4. served \subseteq SlotRows /\ r \in SlotRows
    BY DEF IInv, TypeOK
  <2>5. PICK t \in Suffixes : r.in_tag = InTag(t) /\ r.out_tag = OutTag(t)
    BY <2>4, RowColumns
  <2>6. rule = ApiRule \/ \E q \in served : rule = RuleForNode(q)
    BY <2>3 DEF Relay, BuildConfig
  <2>7. rule # ApiRule
    BY <2>2, <2>3, <2>5, TagsApart
  <2>8. PICK q \in served : rule.inboundTag = q.in_tag /\ rule.outboundTag = q.out_tag
    BY <2>6, <2>7 DEF RuleForNode
  <2>9. q = r
    BY <2>2, <2>3, <2>8 DEF IInv, SlotsDistinct, Distinct
  <2>10. o = DirectOutbound \/ \E p \in served : o = OutboundForNode(p)
    BY <2>3 DEF Relay, BuildConfig
  <2>11. o # DirectOutbound
    BY <2>3, <2>5, <2>8, <2>9, TagsApart
  <2>12. PICK p \in served : o.tag = p.out_tag /\ o.exit = p.exit
    BY <2>10, <2>11 DEF OutboundForNode
  <2>13. p = r
    BY <2>3, <2>8, <2>9, <2>12 DEF IInv, SlotsDistinct, Distinct
  <2>14. x = r.id
    BY <2>3, <2>4, <2>12, <2>13, RowColumns
  <2>15. Known(r)
    BY DEF Known
  <2> QED BY <2>2, <2>4, <2>14, <2>15 DEF IInv, Traced
<1> QED BY <1>1, Inductive, PTL

\* Two inbounds of the relay share a port exactly as long as a node that has
\* been given the API's port is in its configuration: no other clash exists,
\* whatever the range of ports and however registrations race.
THEOREM ClashIsTheApis == Spec => [](ListenPortsDistinct <=> \A r \in served : r.port # ApiPort)
<1>1. IInv => (ListenPortsDistinct <=> \A r \in served : r.port # ApiPort)
  <2> SUFFICES ASSUME IInv PROVE ListenPortsDistinct <=> \A r \in served : r.port # ApiPort
    OBVIOUS
  <2>1. ASSUME ListenPortsDistinct, NEW r \in served PROVE r.port # ApiPort
    <3> DEFINE i == InboundForNode(r, Clients)
    <3>1. i \in Relay.inbounds /\ API_INBOUND \in Relay.inbounds
      BY DEF Relay, BuildConfig
    <3>2. i.port = r.port /\ i.tag = r.in_tag
      BY DEF InboundForNode
    <3>3. API_INBOUND.port = ApiPort /\ API_INBOUND.tag = <<"api", "">>
      BY DEF API_INBOUND
    <3>4. r.in_tag # <<"api", "">>
      <4>1. PICK t \in Suffixes : r.in_tag = InTag(t)
        BY DEF IInv, TypeOK, SlotRows, SlotRow
      <4> QED BY <4>1 DEF InTag
    <3> HIDE DEF i
    <3> QED BY <2>1, <3>1, <3>2, <3>3, <3>4 DEF ListenPortsDistinct
  <2>2. ASSUME \A r \in served : r.port # ApiPort,
               NEW i \in Relay.inbounds, NEW j \in Relay.inbounds, i.port = j.port
        PROVE  i.tag = j.tag
    <3>1. \A k \in Relay.inbounds :
            \/ k = API_INBOUND /\ k.port = ApiPort
            \/ \E r \in served : k.port = r.port /\ k.tag = r.in_tag
      BY Inbounds
    <3>2. \A r, q \in served : r.port = q.port => r = q
      BY DEF IInv, SlotsDistinct, Distinct
    <3> QED BY <2>2, <3>1, <3>2
  <2> QED BY <2>1, <2>2 DEF ListenPortsDistinct
<1> QED BY <1>1, Inductive, PTL

-----------------------------------------------------------------------------
(* What a relay that is up to date serves.                                  *)

\* Two rows of one node, and an address of it, have the same slot.
SameSlot ==
  /\ \A r, q \in SlotRows : Known(r) /\ Known(q) /\ r.id = q.id =>
       r.port = q.port /\ r.short_id = q.short_id /\ r.in_tag = q.in_tag /\ r.out_tag = q.out_tag
  /\ \A e \in cached :
       /\ e.node \in used_ids
       /\ e.uuid \in Clients
       /\ \A r \in SlotRows : Known(r) /\ r.id = e.node => r.port = e.port /\ r.short_id = e.sid

\* It is kept by a step that downloads nothing and brings only rows that have
\* the slot and the key of known ones.
LEMMA SlotsKept ==
  ASSUME IInv, SameSlot, cached' = cached, used_ids \subseteq used_ids',
         \A r \in SlotRows : Known(r)' =>
           \E q \in SlotRows :
             /\ Known(q)
             /\ r.id = q.id /\ r.port = q.port /\ r.short_id = q.short_id
             /\ r.in_tag = q.in_tag /\ r.out_tag = q.out_tag
  PROVE  SameSlot'
BY DEF SameSlot

\* Every step keeps the slots of nodes.
LEMMA SameSlotStep == IInv /\ SameSlot /\ [Next]_vars => SameSlot'
<1> SUFFICES ASSUME IInv, SameSlot, [Next]_vars PROVE SameSlot'
  OBVIOUS
<1>1. CASE UNCHANGED vars
  BY <1>1 DEF vars, SameSlot, Known
<1>2. ASSUME NEW c \in Sessions, NEW n \in Nodes, NEW t \in Suffixes, NEW sid \in ShortIds,
             Choose(c, n, t, sid)
      PROVE  SameSlot'
  <2>1. PICK port \in Ports :
          picked' = [picked EXCEPT ![c] = {SlotRow(n, t, port, sid, "active")}]
    BY <1>2 DEF Choose
  <2> DEFINE x == SlotRow(n, t, port, sid, "active")
  <2>2. x \in SlotRows /\ x.id = n
    BY RowMade
  <2> HIDE DEF x
  <2>3. /\ picked'[c] = {x} /\ \A d \in Sessions : d # c => picked'[d] = picked[d]
        /\ cached' = cached /\ used_ids' = used_ids \cup {n} /\ n \notin used_ids
    BY <1>2, <2>1 DEF Choose, IInv, TypeOK, x
  <2>4. \A r \in SlotRows : Known(r)' => r = x \/ Known(r)
    BY <1>2, <2>3 DEF Known, Choose
  <2>5. \A r \in SlotRows : Known(r) => r.id # n
    BY <2>3 DEF IInv, Traced
  <2> QED BY <2>2, <2>3, <2>4, <2>5 DEF SameSlot
<1>3. ASSUME NEW c \in Sessions, NEW r \in nodes, NEW status \in NodeStatus,
             SetStatus(c, r, status)
      PROVE  SameSlot'
  <2> DEFINE x == [r EXCEPT !.status = status]
  <2>1. r \in SlotRows /\ Known(r)
    BY DEF IInv, TypeOK, Known
  <2>2. /\ x \in SlotRows /\ x.id = r.id /\ x.port = r.port /\ x.short_id = r.short_id
        /\ x.in_tag = r.in_tag /\ x.out_tag = r.out_tag
    BY <2>1, RowEdited
  <2>3. nodes' = (nodes \ {r}) \cup {x}
    BY <1>3 DEF SetStatus
  <2> HIDE DEF x
  <2>4. \A q \in SlotRows : Known(q)' => q = x \/ Known(q)
    BY <1>3, <2>3 DEF Known, SetStatus
  <2>5. cached' = cached /\ used_ids' = used_ids
    BY <1>3 DEF SetStatus
  <2> QED BY <2>1, <2>2, <2>4, <2>5, SlotsKept
<1>4. ASSUME NEW c \in Sessions,
             \/ Insert(c) \/ InsertFails(c) \/ ReadRows(c) \/ WriteConfig(c) \/ Abort(c)
             \/ \E r \in nodes : Delete(c, r)
      PROVE  SameSlot'
  <2>1. /\ nodes' \subseteq nodes \cup picked[c]
        /\ \A d \in Sessions : picked'[d] \subseteq picked[d]
        /\ \A d \in Sessions : view'[d] \in {{}, nodes, view[d]}
        /\ served' = served \/ served' = view[c]
        /\ UNCHANGED <<cached, used_ids>>
    BY <1>4 DEF Insert, InsertFails, ReadRows, WriteConfig, Abort, Delete, IInv, TypeOK
  <2>2. \A r \in SlotRows : Known(r)' => Known(r)
    BY <2>1 DEF Known
  <2> QED BY <2>1, <2>2 DEF SameSlot
<1>5. ASSUME NEW u \in Clients, Fetch(u) PROVE SameSlot'
  <2>1. \A e \in Document(u, nodes) :
          \E r \in nodes : e.uuid = u /\ e.port = r.port /\ e.sid = r.short_id /\ e.node = r.id
    BY DEF Document, VlessEntry
  <2>2. nodes \subseteq SlotRows /\ \A r \in nodes : Known(r)
    BY DEF IInv, TypeOK, Known
  <2>3. /\ used_ids' = used_ids /\ cached' = cached \cup Document(u, nodes)
        /\ \A r \in SlotRows : Known(r)' <=> Known(r)
    BY <1>5 DEF Fetch, Known
  <2>4. \A r \in SlotRows : Known(r) => r.id \in used_ids
    BY DEF IInv, Traced
  <2>5. ASSUME NEW e \in cached'
        PROVE  /\ e.node \in used_ids /\ e.uuid \in Clients
               /\ \A r \in SlotRows : Known(r) /\ r.id = e.node => r.port = e.port /\ r.short_id = e.sid
    <3>1. CASE e \in cached
      BY <3>1 DEF SameSlot
    <3>2. CASE e \in Document(u, nodes)
      BY <2>1, <2>2, <2>4, <3>2 DEF SameSlot
    <3> QED BY <2>3, <3>1, <3>2
  <2> QED BY <2>3, <2>5 DEF SameSlot
<1> QED BY <1>1, <1>2, <1>3, <1>4, <1>5, Zenon DEF Next

\* The configuration that the rows of the table call for is built from rows with
\* the same inbounds, rules and outbounds.
LEMMA LiveServed ==
  ASSUME IInv, SameSlot, NEW e \in cached, Relay = BuildConfig(nodes, Clients)
  PROVE  IF \E r \in nodes : r.id = e.node
           THEN \E i \in Accepting(Relay, e) : Accepting(Relay, e) = {i} /\ ExitsOf(Relay, i) = {e.node}
           ELSE Accepting(Relay, e) = {}
<1>1. nodes \subseteq SlotRows /\ \A r \in nodes : Known(r)
  BY DEF IInv, TypeOK, Known
<1>2. /\ Relay.inbounds = {API_INBOUND} \cup {InboundForNode(r, Clients) : r \in nodes}
      /\ Relay.outbounds = {DirectOutbound} \cup {OutboundForNode(r) : r \in nodes}
      /\ Relay.rules = {ApiRule} \cup {RuleForNode(r) : r \in nodes}
  BY DEF BuildConfig
<1>3. ASSUME NEW i \in Accepting(Relay, e)
      PROVE  \E r \in nodes : r.id = e.node /\ i = InboundForNode(r, Clients)
  <2>1. i \in Relay.inbounds /\ e.sid \in i.shortIds
    BY DEF Accepting
  <2>2. i # API_INBOUND
    <3>1. API_INBOUND.shortIds = {}
      BY DEF API_INBOUND
    <3> QED BY <2>1, <3>1
  <2>3. PICK r \in nodes : i = InboundForNode(r, Clients)
    BY <1>2, <2>1, <2>2
  <2>4. r.short_id = e.sid
    BY <2>1, <2>3 DEF InboundForNode
  <2> QED BY <1>1, <2>3, <2>4 DEF IInv, Traced
<1>4. CASE ~ \E r \in nodes : r.id = e.node
  BY <1>3, <1>4
<1>5. ASSUME NEW r \in nodes, r.id = e.node
      PROVE  LET i == InboundForNode(r, Clients)
             IN Accepting(Relay, e) = {i} /\ ExitsOf(Relay, i) = {e.node}
  <2> DEFINE i == InboundForNode(r, Clients)
  <2>1. e.port = r.port /\ e.sid = r.short_id /\ e.uuid \in Clients
    BY <1>1, <1>5 DEF SameSlot
  <2>2. i.port = r.port /\ i.tag = r.in_tag /\ i.shortIds = {r.short_id} /\ i.clients = Clients
    BY DEF InboundForNode
  <2>3. i \in Accepting(Relay, e)
    BY <1>2, <2>1, <2>2 DEF Accepting
  <2>4. \A q \in nodes : q.id = e.node => q = r
    BY <1>5 DEF IInv, SlotsDistinct, Distinct
  <2>5. Accepting(Relay, e) = {i}
    BY <1>3, <2>3, <2>4
  <2>6. PICK t \in Suffixes : r.in_tag = InTag(t) /\ r.out_tag = OutTag(t)
    BY <1>1, RowColumns
  <2>7. r.exit = e.node
    BY <1>1, <1>5, RowColumns
  <2> DEFINE rule == RuleForNode(r)  o == OutboundForNode(r)
  <2>8. /\ rule \in Relay.rules /\ rule.inboundTag = r.in_tag /\ rule.outboundTag = r.out_tag
        /\ o \in Relay.outbounds /\ o.tag = r.out_tag /\ o.exit = r.exit
    BY <1>2 DEF RuleForNode, OutboundForNode
  <2>9. e.node \in ExitsOf(Relay, i)
    BY <2>2, <2>7, <2>8 DEF ExitsOf
  <2>10. ASSUME NEW x \in ExitsOf(Relay, i) PROVE x = e.node
    <3>1. PICK k \in Relay.rules, p \in Relay.outbounds :
            k.inboundTag = r.in_tag /\ k.outboundTag = p.tag /\ x = p.exit
      BY <2>2 DEF ExitsOf
    <3>2. k # ApiRule
      BY <2>6, <3>1, TagsApart
    <3>3. PICK q \in nodes : k.inboundTag = q.in_tag /\ k.outboundTag = q.out_tag
      BY <1>2, <3>1, <3>2 DEF RuleForNode
    <3>4. q = r
      BY <3>1, <3>3 DEF IInv, SlotsDistinct, Distinct
    <3>5. p # DirectOutbound
      BY <2>6, <3>1, <3>3, <3>4, TagsApart
    <3>6. PICK m \in nodes : p.tag = m.out_tag /\ p.exit = m.exit
      BY <1>2, <3>1, <3>5 DEF OutboundForNode
    <3>7. m = r
      BY <3>1, <3>3, <3>4, <3>6 DEF IInv, SlotsDistinct, Distinct
    <3> QED BY <2>7, <3>1, <3>6, <3>7
  <2> HIDE DEF i
  <2> QED BY <2>5, <2>9, <2>10 DEF i
<1> QED BY <1>4, <1>5

\* Once the relay is up to date, an address a client downloaded at any time
\* works exactly if its node is still there, through one inbound to that node.
THEOREM CurrentServes == Spec => []CurrentRelayServesLive
<1>1. Init => SameSlot
  BY DEF Init, SameSlot, Known
<1>2. IInv /\ SameSlot /\ [Next]_vars => SameSlot'
  BY SameSlotStep
<1>3. IInv /\ SameSlot => CurrentRelayServesLive
  BY LiveServed DEF CurrentRelayServesLive
<1> QED BY <1>1, <1>2, <1>3, Inductive, PTL DEF Spec
=============================================================================
