----------------------------- MODULE RelayConfig -----------------------------
(***************************************************************************)
(* The two pure functions of the panel that must agree with each other:    *)
(* services/relay_config.py turns the tables nodes and subscriptions into  *)
(* the configuration of the relay's XRay, and services/                    *)
(* subscription_builder.py turns the same tables into the document a       *)
(* client downloads.  A node row is a record                               *)
(*   [id, in_tag, out_tag, port, short_id, exit, status]                   *)
(* whose field exit stands for host, s2s_password, s2s_sni and             *)
(* s2s_allow_insecure: all that selects and opens the tunnel to the exit.  *)
(* JSON lists whose order XRay does not depend on are sets.  Left out: the *)
(* fields that are equal in every entry (flow, level, Reality keys) and    *)
(* the "block" outbound, which no routing rule names; without it the       *)
(* configuration install_panel.sh starts with is BuildConfig({}, {}).      *)
(***************************************************************************)

CONSTANT ApiPort        \* port of API_INBOUND, 10085 in the source

\* Tags are pairs <<prefix, suffix>>, as make_tags builds "in-<cc>-<hex>".
InTag(t)  == <<"in", t>>
OutTag(t) == <<"out", t>>

API_INBOUND == [tag |-> <<"api", "">>, port |-> ApiPort, shortIds |-> {}, clients |-> {}]

InboundForNode(n, clients) ==
  [tag |-> n.in_tag, port |-> n.port, shortIds |-> {n.short_id}, clients |-> clients]

OutboundForNode(n) == [tag |-> n.out_tag, exit |-> n.exit]

DirectOutbound == [tag |-> <<"direct", "">>, exit |-> "freedom"]

ApiRule == [inboundTag |-> <<"api", "">>, outboundTag |-> <<"api", "">>]

RuleForNode(n) == [inboundTag |-> n.in_tag, outboundTag |-> n.out_tag]

\* Mutant: disabled nodes lose their slot.
BuildActiveOnly(nodes, clients) ==
  LET active == {n \in nodes : n.status = "active"}
  IN [inbounds  |-> {API_INBOUND} \cup {InboundForNode(n, clients) : n \in active},
      outbounds |-> {DirectOutbound} \cup {OutboundForNode(n) : n \in active},
      rules     |-> {ApiRule} \cup {RuleForNode(n) : n \in active}]

\* The status column of every node is ignored: a disabled node keeps its slot.
BuildConfig(nodes, clients) ==
  [inbounds  |-> {API_INBOUND} \cup {InboundForNode(n, clients) : n \in nodes},
   outbounds |-> {DirectOutbound} \cup {OutboundForNode(n) : n \in nodes},
   rules     |-> {ApiRule} \cup {RuleForNode(n) : n \in nodes}]

-----------------------------------------------------------------------------

\* One vless:// line: the panel's own host with the slot's port and short id.
VlessEntry(s, n) == [uuid |-> s, port |-> n.port, sid |-> n.short_id, node |-> n.id]

\* Mutant: the tag is listed where the short id belongs.
DocumentOfTags(s, nodes) == {[VlessEntry(s, n) EXCEPT !.sid = n.in_tag] : n \in nodes}

\* GET /sub/<token> of an active subscription lists the active nodes only.
Document(s, nodes) == {VlessEntry(s, n) : n \in {m \in nodes : m.status = "active"}}

\* What XRay does with a configuration: the handshake needs the inbound's
\* port, one of its short ids and a client it lists; the connection then
\* leaves through the outbound its routing rule names.
Accepting(cfg, e) ==
  {i \in cfg.inbounds : i.port = e.port /\ e.sid \in i.shortIds /\ e.uuid \in i.clients}

ExitsOf(cfg, i) ==
  {o.exit : o \in {x \in cfg.outbounds :
                     \E r \in cfg.rules : r.inboundTag = i.tag /\ r.outboundTag = x.tag}}
=============================================================================
