------------------------------ MODULE NodeSlots ------------------------------
(***************************************************************************)
(* The slot of an exit node on the relay (inbound port, tags, Reality      *)
(* short id) and what becomes of the clients' addresses of it.             *)
(*                                                                         *)
(* A registering session (JSON, form or SSH provisioning) draws tags,      *)
(* selects the used ports and takes the lowest free one, draws a short id, *)
(* and inserts the row; two sessions may have chosen the same port by      *)
(* then, and only the UNIQUE columns decide.  Deleting a node frees its    *)
(* port at once.  Clients meanwhile keep the addresses of every            *)
(* subscription document they ever downloaded, and the relay serves what   *)
(* the last rebuild to finish had read.                                    *)
(***************************************************************************)
EXTENDS RelayConfig, Integers

CONSTANTS
  Nodes,               \* primary keys, each used at most once
  PortStart, PortEnd,  \* settings.panel_inbound_port_start .. _end
  Suffixes,            \* what make_tags can draw: country code and 16 random bits
  ShortIds,            \* what random_short_id can draw: 32 random bits
  Clients,             \* users of active subscriptions
  Sessions             \* admin requests at work

Ports == PortStart..PortEnd

ASSUME SlotsAssumption ==
  /\ PortStart \in Int /\ PortEnd \in Int
  /\ "" \notin Suffixes

VARIABLES
  nodes,    \* the committed rows of table nodes
  pc,       \* where each session stands
  picked,   \* the row a registering session is about to insert
  view,     \* the rows a session has read for its rebuild
  served,   \* the rows the relay's configuration was built from
  cached,   \* the vless:// addresses clients have downloaded
  used_ids, \* history: primary keys ever inserted
  issued    \* history: short ids ever drawn

vars == <<nodes, pc, picked, view, served, cached, used_ids, issued>>

NodeStatus == {"active", "disabled"}

SlotRow(n, t, port, sid, status) ==
  [id |-> n, in_tag |-> InTag(t), out_tag |-> OutTag(t), port |-> port,
   short_id |-> sid, exit |-> n, status |-> status]

SlotRows == {SlotRow(n, t, port, sid, st) :
               n \in Nodes, t \in Suffixes, port \in Ports, sid \in ShortIds, st \in NodeStatus}

Relay == BuildConfig(served, Clients)

Init ==
  /\ nodes = {} /\ served = {}
  /\ pc = [c \in Sessions |-> "idle"]
  /\ picked = [c \in Sessions |-> {}]
  /\ view = [c \in Sessions |-> {}]
  /\ cached = {}
  /\ used_ids = {} /\ issued = {}

-----------------------------------------------------------------------------

UsedPorts == {r.port : r \in nodes}

\* allocate_inbound_port: the lowest port no row has.
LowestFree(port) == port \in Ports \ UsedPorts /\ \A q \in Ports \ UsedPorts : port <= q

\* Mutant: short ids come from too small a set to be new each time.
FreshShortIdNever(sid) == TRUE

\* A short id is taken to be new: 32 random bits, and no column would refuse a
\* repetition.
FreshShortId(sid) == sid \notin issued

\* With no free port the handler raises and nothing changes.
Choose(c, n, t, sid) ==
  /\ pc[c] = "idle"
  /\ n \notin used_ids
  /\ FreshShortId(sid)
  /\ \E port \in Ports :
       /\ LowestFree(port)
       /\ picked' = [picked EXCEPT ![c] = {SlotRow(n, t, port, sid, "active")}]
  /\ pc' = [pc EXCEPT ![c] = "chosen"]
  /\ used_ids' = used_ids \cup {n}
  /\ issued' = issued \cup {sid}
  /\ UNCHANGED <<nodes, view, served, cached>>

\* Mutant: the port column is not UNIQUE.
UniqueTags(r) == \A q \in nodes : r.in_tag # q.in_tag /\ r.out_tag # q.out_tag

\* The UNIQUE columns of table nodes; the short id is not one of them.
Unique(r) == \A q \in nodes : r.port # q.port /\ r.in_tag # q.in_tag /\ r.out_tag # q.out_tag

Insert(c) ==
  /\ pc[c] = "chosen"
  /\ \A r \in picked[c] : Unique(r)
  /\ nodes' = nodes \cup picked[c]
  /\ picked' = [picked EXCEPT ![c] = {}]
  /\ pc' = [pc EXCEPT ![c] = "committed"]
  /\ UNCHANGED <<view, served, cached, used_ids, issued>>

\* IntegrityError: the handler fails without retrying with another port.
InsertFails(c) ==
  /\ pc[c] = "chosen"
  /\ \E r \in picked[c] : ~Unique(r)
  /\ picked' = [picked EXCEPT ![c] = {}]
  /\ pc' = [pc EXCEPT ![c] = "idle"]
  /\ UNCHANGED <<nodes, view, served, cached, used_ids, issued>>

Delete(c, r) ==
  /\ pc[c] = "idle"
  /\ nodes' = nodes \ {r}
  /\ pc' = [pc EXCEPT ![c] = "committed"]
  /\ UNCHANGED <<picked, view, served, cached, used_ids, issued>>

SetStatus(c, r, status) ==
  /\ pc[c] = "idle"
  /\ r.status # status
  /\ nodes' = (nodes \ {r}) \cup {[r EXCEPT !.status = status]}
  /\ pc' = [pc EXCEPT ![c] = "committed"]
  /\ UNCHANGED <<picked, view, served, cached, used_ids, issued>>

\* rebuild_and_apply: the rows read and the file written are two steps.
ReadRows(c) ==
  /\ pc[c] = "committed"
  /\ view' = [view EXCEPT ![c] = nodes]
  /\ pc' = [pc EXCEPT ![c] = "read"]
  /\ UNCHANGED <<nodes, picked, served, cached, used_ids, issued>>

WriteConfig(c) ==
  /\ pc[c] = "read"
  /\ served' = view[c]
  /\ view' = [view EXCEPT ![c] = {}]
  /\ pc' = [pc EXCEPT ![c] = "idle"]
  /\ UNCHANGED <<nodes, picked, cached, used_ids, issued>>

\* A session cut short anywhere.
Abort(c) ==
  /\ pc[c] # "idle"
  /\ picked' = [picked EXCEPT ![c] = {}]
  /\ view' = [view EXCEPT ![c] = {}]
  /\ pc' = [pc EXCEPT ![c] = "idle"]
  /\ UNCHANGED <<nodes, served, cached, used_ids, issued>>

\* GET /sub/<token>; the client keeps what earlier documents gave it.
Fetch(u) ==
  /\ cached' = cached \cup Document(u, nodes)
  /\ UNCHANGED <<nodes, pc, picked, view, served, used_ids, issued>>

Next ==
  \/ \E c \in Sessions :
       \/ \E n \in Nodes, t \in Suffixes, sid \in ShortIds : Choose(c, n, t, sid)
       \/ Insert(c) \/ InsertFails(c)
       \/ \E r \in nodes : Delete(c, r) \/ \E status \in NodeStatus : SetStatus(c, r, status)
       \/ ReadRows(c) \/ WriteConfig(c) \/ Abort(c)
  \/ \E u \in Clients : Fetch(u)

Spec == Init /\ [][Next]_vars
-----------------------------------------------------------------------------

\* Rows have the columns of table nodes, sessions hold at most one new row.
TypeOK ==
  /\ nodes \in SUBSET SlotRows
  /\ pc \in [Sessions -> {"idle", "chosen", "committed", "read"}]
  /\ picked \in [Sessions -> SUBSET SlotRows]
  /\ view \in [Sessions -> SUBSET SlotRows]
  /\ served \in SUBSET SlotRows
  /\ cached \in SUBSET {VlessEntry(u, r) : u \in Clients, r \in SlotRows}
  /\ used_ids \subseteq Nodes
  /\ issued \subseteq ShortIds

\* A set of rows in which no two share a port, a tag, a short id or a key.
Distinct(rows) ==
  \A r, q \in rows :
    r.id = q.id \/ r.port = q.port \/ r.in_tag = q.in_tag \/ r.out_tag = q.out_tag
      \/ r.short_id = q.short_id => r = q

\* However registrations race for the lowest free port, no two nodes share a
\* slot, neither in the table nor in the relay's configuration.
SlotsDistinct == Distinct(nodes) /\ Distinct(served)

\* An address a client once downloaded never leads out of another node than
\* the one it was listed for: not after its port was given to a new node, and
\* not while the relay still runs an outdated configuration.
NeverWrongExit ==
  \A e \in cached : \A i \in Accepting(Relay, e) : ExitsOf(Relay, i) \subseteq {e.node}

\* Once the relay is up to date, a cached address works exactly if its node
\* is still in the table (disabled or not), through exactly one inbound.
CurrentRelayServesLive ==
  Relay = BuildConfig(nodes, Clients) =>
    \A e \in cached :
      IF \E r \in nodes : r.id = e.node
        THEN \E i \in Accepting(Relay, e) : Accepting(Relay, e) = {i} /\ ExitsOf(Relay, i) = {e.node}
        ELSE Accepting(Relay, e) = {}

\* Docs (configuration.md): the relay inbounds have the ports of the range and
\* the gRPC API has another, so every inbound listens on a port of its own;
\* otherwise XRay cannot bind and the whole relay is down.
ListenPortsDistinct ==
  \A i, j \in Relay.inbounds : i.port = j.port => i.tag = j.tag
=============================================================================
