----------------------------- MODULE Provisioning -----------------------------
(***************************************************************************)
(* Provisioning an exit node over SSH.  The panel's side is a generator    *)
(* that streams the log to the admin's browser: it connects, uploads and   *)
(* runs bootstrap_node.sh, waits for its last line, registers the node and *)
(* rebuilds the relay.  The script draws a password, writes a certificate  *)
(* and XRay's configuration, restarts XRay and prints the password.        *)
(*                                                                         *)
(* The two sides fail independently.  A browser that goes away ends the    *)
(* generator wherever it waits; the script, which sshd does not stop, goes *)
(* on until it ends or dies of a broken pipe.  Nothing keeps two sessions  *)
(* from working on one host, or a second one from following the first.     *)
(*                                                                         *)
(* A session's name stands for the password and the key its script draws   *)
(* and for the row it inserts; how the row gets its slot is the matter of  *)
(* NodeSlots.  Firewall, downloads and the log lines are left out.         *)
(***************************************************************************)
EXTENDS Naturals

CONSTANTS
  Sessions,  \* provisioning requests, each served once
  Hosts,
  Busy       \* hosts where something else holds port 443

ASSUME ProvisioningAssumption ==
  /\ "none" \notin Sessions \cup Hosts
  /\ Busy \subseteq Hosts

VARIABLES
  target,   \* the host each session works on
  pc,       \* where the generator stands
  script,   \* how far the session's script has come
  dead,     \* scripts that have stopped before their end
  key,      \* whose private key the host has
  cert,     \* whose certificate it has
  disk,     \* password in its configuration file
  running,  \* password its XRay accepts
  rows      \* sessions whose node is in the table

host == <<key, cert, disk, running>>
vars == <<target, pc, script, dead, host, rows>>

Init ==
  /\ target = [p \in Sessions |-> "none"]
  /\ pc = [p \in Sessions |-> "idle"]
  /\ script = [p \in Sessions |-> "none"]
  /\ dead = {} /\ rows = {}
  /\ key = [h \in Hosts |-> "none"]
  /\ cert = [h \in Hosts |-> "none"]
  /\ disk = [h \in Hosts |-> "none"]
  /\ running = [h \in Hosts |-> "none"]

-----------------------------------------------------------------------------
(* The generator.                                                           *)

Go(p, from, to) ==
  /\ pc[p] = from
  /\ pc' = [pc EXCEPT ![p] = to]

Start(p, h) ==
  /\ Go(p, "idle", "connecting")
  /\ target' = [target EXCEPT ![p] = h]
  /\ UNCHANGED <<script, dead, host, rows>>

RunScript(p) ==
  /\ Go(p, "connecting", "streaming")
  /\ script' = [script EXCEPT ![p] = "started"]
  /\ UNCHANGED <<target, dead, host, rows>>

\* Both streams are at their end, the exit code is 0 and the last line of
\* stdout is the result.
ReadResult(p) ==
  /\ script[p] = "printed"
  /\ Go(p, "streaming", "result")
  /\ UNCHANGED <<target, script, dead, host, rows>>

\* Mutant: the drain of a script that dies late puts no end marker.
ReadErrorEarly(p) ==
  /\ p \in dead /\ script[p] # "restarted"
  /\ Go(p, "streaming", "ended")
  /\ UNCHANGED <<target, script, dead, host, rows>>

\* Another exit code, or no result in the last line.
ReadError(p) ==
  /\ p \in dead
  /\ Go(p, "streaming", "ended")
  /\ UNCHANGED <<target, script, dead, host, rows>>

\* Mutant: the node is registered without a look at the script's end.
RegisterEarly(p) ==
  /\ pc[p] \in {"streaming", "result"}
  /\ pc' = [pc EXCEPT ![p] = "registered"]
  /\ rows' = rows \cup {p}
  /\ UNCHANGED <<target, script, dead, host>>

\* The row of the node is inserted in a session of its own and committed.
Register(p) ==
  /\ Go(p, "result", "registered")
  /\ rows' = rows \cup {p}
  /\ UNCHANGED <<target, script, dead, host>>

Rebuild(p) ==
  /\ Go(p, "registered", "ended")
  /\ UNCHANGED <<target, script, dead, host, rows>>

\* No address of the panel, no connection, no upload, a lost connection; a
\* slot already taken, no port, no database, a rebuild that fails after the
\* row is committed; a browser that goes away or a panel that stops.
GiveUp(p) ==
  /\ pc[p] \notin {"idle", "ended"}
  /\ pc' = [pc EXCEPT ![p] = "ended"]
  /\ UNCHANGED <<target, script, dead, host, rows>>

-----------------------------------------------------------------------------
(* The script, and its host.                                                *)

Advance(p, from, to) ==
  /\ script[p] = from /\ p \notin dead
  /\ script' = [script EXCEPT ![p] = to]

\* openssl writes the key it has drawn, then the certificate made from it.
WriteKey(p) ==
  /\ Advance(p, "started", "keyed")
  /\ key' = [key EXCEPT ![target[p]] = p]
  /\ UNCHANGED <<target, pc, dead, cert, disk, running, rows>>

WriteCert(p) ==
  /\ Advance(p, "keyed", "certified")
  /\ cert' = [cert EXCEPT ![target[p]] = p]
  /\ UNCHANGED <<target, pc, dead, key, disk, running, rows>>

\* Mutant: the host's name in the password's place.
WriteConfigOfHost(p) ==
  /\ Advance(p, "certified", "written")
  /\ disk' = [disk EXCEPT ![target[p]] = target[p]]
  /\ UNCHANGED <<target, pc, dead, key, cert, running, rows>>

WriteConfig(p) ==
  /\ Advance(p, "certified", "written")
  /\ disk' = [disk EXCEPT ![target[p]] = p]
  /\ UNCHANGED <<target, pc, dead, key, cert, running, rows>>

\* What XRay accepts once it has read its files: nothing where its port is
\* taken, although the unit, of type simple, has started all the same, and
\* nothing with a certificate that is not its key's.
Accepts(h) == IF h \in Busy \/ key[h] # cert[h] THEN "none" ELSE disk[h]

\* Mutant: systemctl enable --now alone, which leaves a running XRay alone.
RestartEnableOnly(p) ==
  /\ Advance(p, "written", "restarted")
  /\ running' = [running EXCEPT ![target[p]] = IF @ = "none" THEN Accepts(target[p]) ELSE @]
  /\ UNCHANGED <<target, pc, dead, key, cert, disk, rows>>

\* enable --now and restart: XRay reads the files, whoever wrote them last.
RestartXray(p) ==
  /\ Advance(p, "written", "restarted")
  /\ running' = [running EXCEPT ![target[p]] = Accepts(target[p])]
  /\ UNCHANGED <<target, pc, dead, key, cert, disk, rows>>

PrintResult(p) ==
  /\ Advance(p, "restarted", "printed")
  /\ UNCHANGED <<target, pc, dead, host, rows>>

\* A command fails under set -e, the pipe is broken, the host reboots.
ScriptDies(p) ==
  /\ script[p] \in {"started", "keyed", "certified", "written", "restarted"} /\ p \notin dead
  /\ dead' = dead \cup {p}
  /\ UNCHANGED <<target, pc, script, host, rows>>

\* An enabled unit starts again after a crash or with its host.
ExitRestarts(h) ==
  /\ \E p \in Sessions : target[p] = h /\ script[p] \in {"restarted", "printed"}
  /\ running' = [running EXCEPT ![h] = Accepts(h)]
  /\ UNCHANGED <<target, pc, script, dead, key, cert, disk, rows>>

\* Deleting the node leaves the exit alone.
DeleteNode(p) ==
  /\ p \in rows
  /\ rows' = rows \ {p}
  /\ UNCHANGED <<target, pc, script, dead, host>>

Stream(p) == RunScript(p) \/ ReadResult(p) \/ ReadError(p) \/ Register(p) \/ Rebuild(p)

Script(p) == WriteKey(p) \/ WriteCert(p) \/ WriteConfig(p) \/ RestartXray(p) \/ PrintResult(p)

Next ==
  \/ \E p \in Sessions :
       \/ \E h \in Hosts : Start(p, h)
       \/ Stream(p) \/ GiveUp(p)
       \/ Script(p) \/ ScriptDies(p)
       \/ DeleteNode(p)
  \/ \E h \in Hosts : ExitRestarts(h)

Spec == Init /\ [][Next]_vars

\* Neither the event loop nor the host stops for ever.  There is no time limit
\* on the script: that its commands return is an assumption.
Fairness == \A p \in Sessions : WF_vars(Stream(p)) /\ WF_vars(Script(p))

FairSpec == Spec /\ Fairness
-----------------------------------------------------------------------------

Passwords == Sessions \cup {"none"}

\* Sessions and scripts stand at one of their points; keys, certificates and
\* passwords on a host are ones that some session's script has drawn.
TypeOK ==
  /\ target \in [Sessions -> Hosts \cup {"none"}]
  /\ pc \in [Sessions -> {"idle", "connecting", "streaming", "result", "registered", "ended"}]
  /\ script \in [Sessions -> {"none", "started", "keyed", "certified", "written", "restarted", "printed"}]
  /\ dead \subseteq Sessions /\ rows \subseteq Sessions
  /\ key \in [Hosts -> Passwords] /\ cert \in [Hosts -> Passwords]
  /\ disk \in [Hosts -> Passwords] /\ running \in [Hosts -> Passwords]

\* The sessions whose scripts have changed the host, live or dead.
Touched(h) ==
  {p \in Sessions : target[p] = h /\ script[p] \in {"keyed", "certified", "written", "restarted", "printed"}}

\* However scripts interleave on one host, die and follow each other, and
\* whenever browsers go away: if each session that ever changed the host has
\* its row in the table, the host accepts the password its file was given last,
\* one of the rows', unless two runs of openssl crossed and left one's key with
\* the other's certificate.  So a registered exit is cut off from all its rows
\* only by a session that has not registered, by a crossing, or by deletion.
RegisteredHostAccepts ==
  \A h \in Hosts \ Busy :
    Touched(h) # {} /\ Touched(h) \subseteq rows /\ key[h] = cert[h] =>
      running[h] = disk[h] /\ disk[h] \in Touched(h)

\* A session that connects comes to an end, however its script ends: the merge
\* of the two streams does not wait for a script that has gone.
SessionEnds == \A p \in Sessions : (pc[p] = "connecting") ~> (pc[p] = "ended")
=============================================================================
