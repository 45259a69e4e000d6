-------------------------- MODULE ProvisioningProofs --------------------------
(***************************************************************************)
(* RegisteredHostAccepts for any number of sessions and hosts.  The         *)
(* invariant follows whoever wrote a host's configuration last: no row      *)
(* without a script that has printed, no file without its script, and once  *)
(* that script has restarted XRay and no other is between its key and its   *)
(* configuration, the host accepts what the file says.                      *)
(***************************************************************************)
EXTENDS Provisioning, TLAPS

Writers(h) == {p \in Touched(h) : script[p] \in {"written", "restarted", "printed"}}

\* A session that has not run its script has none; one that has registered
\* has seen its script print; a session under way has a host to work on.
Scripted ==
  \A p \in Sessions :
    /\ pc[p] \in {"idle", "connecting"} => script[p] = "none"
    /\ p \in rows \/ pc[p] \in {"result", "registered"} => script[p] = "printed"
    /\ pc[p] # "idle" => target[p] \in Hosts

\* A host's configuration is there if any script wrote one, and is one's that did.
Written ==
  \A h \in Hosts :
    /\ disk[h] # "none" => disk[h] \in Writers(h)
    /\ Writers(h) # {} => disk[h] # "none"

\* A key and certificate that belong together are accepted with the file's
\* password once its script has restarted XRay, no other being on its way.
Restarted ==
  \A h \in Hosts \ Busy :
    /\ disk[h] # "none"
    /\ script[disk[h]] # "written"
    /\ Touched(h) = Writers(h)
    /\ key[h] = cert[h]
    => running[h] = disk[h]

IInv == TypeOK /\ Scripted /\ Written /\ Restarted

\* Hosts are untouched and no session has begun.
LEMMA InitHolds == Init => IInv
BY ProvisioningAssumption
DEF Init, IInv, TypeOK, Passwords, Scripted, Written, Restarted, Writers, Touched

\* Each variable keeps its type.
LEMMA TypeStep == IInv /\ [Next]_vars => TypeOK'
<1> SUFFICES ASSUME IInv, [Next]_vars PROVE TypeOK'
  OBVIOUS
<1> USE DEF IInv, TypeOK, Passwords
<1>1. ASSUME NEW p \in Sessions, NEW h \in Hosts, Start(p, h) PROVE TypeOK'
  BY <1>1 DEF Start, Go, host
<1>2. ASSUME NEW p \in Sessions, Stream(p) \/ GiveUp(p) PROVE TypeOK'
  BY <1>2 DEF Stream, RunScript, ReadResult, ReadError, Register, Rebuild, GiveUp, Go, host
<1>3. ASSUME NEW p \in Sessions, Script(p) PROVE TypeOK'
  BY <1>3 DEF Script, WriteKey, WriteCert, WriteConfig, RestartXray, Accepts, PrintResult, Advance, host
<1>4. ASSUME NEW p \in Sessions, ScriptDies(p) \/ DeleteNode(p) PROVE TypeOK'
  BY <1>4 DEF ScriptDies, DeleteNode, host
<1>5. ASSUME NEW h \in Hosts, ExitRestarts(h) PROVE TypeOK'
  BY <1>5 DEF ExitRestarts, Accepts
<1>6. CASE UNCHANGED vars
  BY <1>6 DEF vars, host
<1> QED BY <1>1, <1>2, <1>3, <1>4, <1>5, <1>6 DEF Next

\* Scripts follow their sessions, and rows their scripts.
LEMMA ScriptedStep == IInv /\ [Next]_vars => Scripted'
<1> SUFFICES ASSUME IInv, [Next]_vars PROVE Scripted'
  OBVIOUS
<1> USE DEF IInv, TypeOK, Scripted
<1>1. ASSUME NEW p \in Sessions, NEW h \in Hosts, Start(p, h) PROVE Scripted'
  BY <1>1 DEF Start, Go
<1>2. ASSUME NEW p \in Sessions, Stream(p) \/ GiveUp(p) PROVE Scripted'
  BY <1>2
  DEF Stream, RunScript, ReadResult, ReadError, Register, Rebuild, GiveUp, Go
<1>3. ASSUME NEW p \in Sessions, Script(p) PROVE Scripted'
  BY <1>3 DEF Script, WriteKey, WriteCert, WriteConfig, RestartXray, PrintResult, Advance
<1>4. ASSUME NEW p \in Sessions, ScriptDies(p) \/ DeleteNode(p) PROVE Scripted'
  BY <1>4 DEF ScriptDies, DeleteNode
<1>5. ASSUME NEW h \in Hosts, ExitRestarts(h) PROVE Scripted'
  BY <1>5 DEF ExitRestarts
<1>6. CASE UNCHANGED vars
  BY <1>6 DEF vars
<1> QED BY <1>1, <1>2, <1>3, <1>4, <1>5, <1>6 DEF Next

\* Only a script's own steps and a new session change what has touched a host.
LEMMA TouchedKept ==
  ASSUME UNCHANGED <<target, script>>
  PROVE  \A h \in Hosts : Touched(h)' = Touched(h) /\ Writers(h)' = Writers(h)
BY DEF Touched, Writers

\* The files of a host stay those of the scripts that wrote there.
LEMMA WrittenStep == IInv /\ [Next]_vars => Written'
<1> SUFFICES ASSUME IInv, [Next]_vars PROVE Written'
  OBVIOUS
<1> USE DEF IInv, TypeOK, Scripted, Written
<1>1. CASE UNCHANGED <<target, script, disk>>
  BY <1>1, TouchedKept
<1>2. ASSUME NEW p \in Sessions, NEW h \in Hosts, Start(p, h) PROVE Written'
  <2>1. \A g \in Hosts : Writers(g)' = Writers(g)
    BY <1>2 DEF Start, Go, Touched, Writers
  <2> QED BY <1>2, <2>1 DEF Start, host
<1>3. ASSUME NEW p \in Sessions, WriteConfig(p) PROVE Written'
  <2>1. target[p] \in Hosts /\ target' = target /\ script' = [script EXCEPT ![p] = "written"]
    BY <1>3 DEF WriteConfig, Advance
  <2>2. disk' = [disk EXCEPT ![target[p]] = p]
    BY <1>3 DEF WriteConfig
  <2>3. p \in Writers(target[p])'
    BY <2>1 DEF Writers, Touched
  <2>4. \A h \in Hosts \ {target[p]} : Writers(h)' = Writers(h)
    BY <2>1 DEF Writers, Touched
  <2> QED BY <2>1, <2>2, <2>3, <2>4, ProvisioningAssumption
<1>4. ASSUME NEW p \in Sessions, NEW s,
             target' = target, disk' = disk, script' = [script EXCEPT ![p] = s],
             s \in {"started", "keyed", "certified", "restarted", "printed"},
             script[p] \in {"written", "restarted"} <=> s \in {"restarted", "printed"},
             script[p] # "printed"
      PROVE Written'
  <2>1. \A h \in Hosts : Writers(h)' = Writers(h)
    BY <1>4 DEF Writers, Touched
  <2> QED BY <1>4, <2>1
<1>5. ASSUME NEW p \in Sessions, RunScript(p) \/ Script(p) PROVE Written'
  BY <1>3, <1>4, <1>5
  DEF Script, RunScript, WriteKey, WriteCert, RestartXray, PrintResult, Advance, Go, host
<1> QED
  BY <1>1, <1>2, <1>5
  DEF Next, Stream, ReadResult, ReadError, Register, Rebuild, GiveUp, Go, ScriptDies, DeleteNode,
      ExitRestarts, host, vars

\* A host accepts what its file says once nobody is between key and file.
LEMMA RestartedStep == IInv /\ [Next]_vars => Restarted'
<1> SUFFICES ASSUME IInv, [Next]_vars PROVE Restarted'
  OBVIOUS
<1> USE DEF IInv, TypeOK, Scripted, Written, Restarted
<1>1. CASE UNCHANGED <<target, script, host>>
  BY <1>1, TouchedKept DEF host
<1>2. ASSUME NEW p \in Sessions, NEW h \in Hosts, Start(p, h) PROVE Restarted'
  <2>1. \A g \in Hosts : Writers(g)' = Writers(g) /\ Touched(g)' = Touched(g)
    BY <1>2 DEF Start, Go, Touched, Writers
  <2> QED BY <1>2, <2>1 DEF Start, host
<1>3. ASSUME NEW p \in Sessions, RunScript(p) PROVE Restarted'
  <2>1. \A g \in Hosts : Writers(g)' = Writers(g) /\ Touched(g)' = Touched(g)
    BY <1>3 DEF RunScript, Go, Touched, Writers
  <2>2. \A g \in Hosts : disk[g] # "none" => disk[g] # p
    BY <1>3 DEF RunScript, Go, Touched, Writers
  <2> QED BY <1>3, <2>1, <2>2 DEF RunScript, host
<1>4. ASSUME NEW p \in Sessions, WriteKey(p) \/ WriteCert(p) PROVE Restarted'
  <2>1. script' = [script EXCEPT ![p] = script'[p]] /\ script'[p] \in {"keyed", "certified"}
    BY <1>4 DEF WriteKey, WriteCert, Advance
  <2>2. target' = target /\ disk' = disk /\ running' = running
    BY <1>4 DEF WriteKey, WriteCert
  <2>3. Touched(target[p])' # Writers(target[p])'
    BY <2>1, <2>2 DEF Touched, Writers
  <2>4. ASSUME NEW h \in Hosts, h # target[p]
        PROVE /\ Touched(h)' = Touched(h) /\ Writers(h)' = Writers(h)
              /\ key'[h] = key[h] /\ cert'[h] = cert[h]
              /\ disk[h] # "none" => disk[h] # p
    BY <1>4, <2>1, <2>2, <2>4 DEF Touched, Writers, WriteKey, WriteCert
  <2>5. \A h \in Hosts : h # target[p] /\ disk[h] # "none" => script'[disk[h]] = script[disk[h]]
    BY <2>1, <2>4 DEF Passwords
  <2> QED BY <2>2, <2>3, <2>4, <2>5
<1>5. ASSUME NEW p \in Sessions, WriteConfig(p) PROVE Restarted'
  <2>1. script' = [script EXCEPT ![p] = "written"] /\ disk' = [disk EXCEPT ![target[p]] = p]
    BY <1>5 DEF WriteConfig, Advance
  <2>2. UNCHANGED <<target, key, cert, running>> /\ target[p] \in Hosts
    BY <1>5 DEF WriteConfig, Advance
  <2>3. ASSUME NEW h \in Hosts, h # target[p]
        PROVE Touched(h)' = Touched(h) /\ Writers(h)' = Writers(h) /\ (disk[h] # "none" => disk[h] # p)
    BY <2>1, <2>2, <2>3 DEF Touched, Writers
  <2> QED BY <2>1, <2>2, <2>3
<1>6. ASSUME NEW p \in Sessions, RestartXray(p) \/ PrintResult(p) PROVE Restarted'
  <2>1. /\ script' = [script EXCEPT ![p] = script'[p]]
        /\ script[p] \in {"written", "restarted"} /\ script'[p] \in {"restarted", "printed"}
    BY <1>6 DEF RestartXray, PrintResult, Advance
  <2>2. UNCHANGED <<target, key, cert, disk>>
    BY <1>6 DEF RestartXray, PrintResult, host
  <2>3. \A h \in Hosts : Touched(h)' = Touched(h) /\ Writers(h)' = Writers(h)
    BY <2>1, <2>2 DEF Touched, Writers
  <2>4. CASE RestartXray(p)
    <3>1. \A h \in Hosts : disk[h] = p => h = target[p]
      BY ProvisioningAssumption DEF Writers, Touched
    <3>2. \A h \in Hosts : h # target[p] /\ disk[h] # "none" => script'[disk[h]] = script[disk[h]]
      BY <2>1, <3>1 DEF Passwords
    <3>3. \A h \in Hosts : running'[h] = IF h = target[p] THEN Accepts(h) ELSE running[h]
      BY <2>4 DEF RestartXray
    <3> QED BY <2>2, <2>3, <3>2, <3>3 DEF Accepts
  <2>5. CASE PrintResult(p)
    BY <2>1, <2>2, <2>3, <2>5 DEF PrintResult, Advance, host
  <2> QED BY <1>6, <2>4, <2>5
<1>7. ASSUME NEW h \in Hosts, ExitRestarts(h) PROVE Restarted'
  BY <1>7, TouchedKept DEF ExitRestarts, Accepts
<1> QED
  BY <1>1, <1>2, <1>3, <1>4, <1>5, <1>6, <1>7
  DEF Next, Stream, Script, ReadResult, ReadError, Register, Rebuild, GiveUp, Go, ScriptDies,
      DeleteNode, vars

\* With every touching session registered, all of them have printed.
LEMMA Enough == IInv => RegisteredHostAccepts
<1> SUFFICES ASSUME IInv, NEW h \in Hosts \ Busy,
                    Touched(h) # {}, Touched(h) \subseteq rows, key[h] = cert[h]
             PROVE  running[h] = disk[h] /\ disk[h] \in Touched(h)
  BY DEF RegisteredHostAccepts
<1>1. \A p \in Touched(h) : script[p] = "printed"
  BY DEF IInv, Scripted, TypeOK
<1>2. Touched(h) = Writers(h)
  BY <1>1 DEF Writers
<1> QED BY <1>1, <1>2 DEF IInv, Written, Restarted

\* The invariant of the proofs holds in every reachable state.
THEOREM Inductive == Spec => []IInv
<1>1. IInv /\ [Next]_vars => IInv'
  BY TypeStep, ScriptedStep, WrittenStep, RestartedStep DEF IInv
<1> QED BY InitHolds, <1>1, PTL DEF Spec

\* Keys, certificates and passwords on a host are always drawn by a session's
\* script, for any number of sessions and hosts.
THEOREM TypeCorrect == Spec => []TypeOK
<1>1. IInv => TypeOK
  BY DEF IInv
<1> QED BY <1>1, Inductive, PTL

\* However many sessions work on however many hosts, cut off wherever they are:
\* a host all of whose sessions have registered accepts the password of a row,
\* unless a crossing of two runs of openssl took key and certificate apart.
THEOREM RegisteredStayReachable == Spec => []RegisteredHostAccepts
BY Enough, Inductive, PTL

-----------------------------------------------------------------------------
(* The crossing.  Two live scripts between key and certificate of one host  *)
(* are what takes the two apart; scripts that die there, or that follow     *)
(* each other, do not.                                                      *)

\* At most one live script on h has written its key and not its certificate.
Uncrossed(h) ==
  \A p, q \in Sessions :
    /\ target[p] = h /\ script[p] = "keyed" /\ p \notin dead
    /\ target[q] = h /\ script[q] = "keyed" /\ q \notin dead
    => p = q

\* That script's key is the host's, and only such a script, live or dead, can
\* leave key and certificate apart.
Paired(h) ==
  /\ \A p \in Sessions : target[p] = h /\ script[p] = "keyed" /\ p \notin dead => key[h] = p
  /\ (\A p \in Touched(h) : script[p] # "keyed") => key[h] = cert[h]

\* A key is overwritten by another live script only where two would be keyed.
LEMMA PairedStep ==
  ASSUME NEW h \in Hosts, IInv, Paired(h), Uncrossed(h)', [Next]_vars
  PROVE  Paired(h)'
<1> USE DEF IInv, TypeOK, Scripted, Paired
<1>1. CASE UNCHANGED <<target, script, dead, key, cert>>
  BY <1>1 DEF Touched
<1>2. ASSUME NEW p \in Sessions, NEW g \in Hosts, Start(p, g) PROVE Paired(h)'
  BY <1>2 DEF Start, Go, Touched, host
<1>3. ASSUME NEW p \in Sessions, RunScript(p) PROVE Paired(h)'
  BY <1>3 DEF RunScript, Go, Touched, host
<1>4. ASSUME NEW p \in Sessions, WriteKey(p) PROVE Paired(h)'
  <2>1. /\ script' = [script EXCEPT ![p] = "keyed"] /\ p \notin dead
        /\ key' = [key EXCEPT ![target[p]] = p]
        /\ UNCHANGED <<target, dead, cert>>
    BY <1>4 DEF WriteKey, Advance
  <2>2. CASE target[p] = h
    <3>1. key'[h] = p /\ script'[p] = "keyed" /\ p \in Touched(h)'
      BY <2>1, <2>2 DEF Touched
    <3>2. \A q \in Sessions : target'[q] = h /\ script'[q] = "keyed" /\ q \notin dead' => q = p
      BY <2>1, <2>2, <3>1 DEF Uncrossed
    <3> QED BY <3>1, <3>2
  <2>3. CASE target[p] # h
    BY <2>1, <2>3 DEF Touched
  <2> QED BY <2>2, <2>3
<1>5. ASSUME NEW p \in Sessions, WriteCert(p) PROVE Paired(h)'
  <2>1. /\ script[p] = "keyed" /\ script' = [script EXCEPT ![p] = "certified"] /\ p \notin dead
        /\ cert' = [cert EXCEPT ![target[p]] = p]
        /\ UNCHANGED <<target, dead, key>>
    BY <1>5 DEF WriteCert, Advance
  <2>2. CASE target[p] = h
    BY <2>1, <2>2
  <2>3. CASE target[p] # h
    BY <2>1, <2>3 DEF Touched
  <2> QED BY <2>2, <2>3
<1>6. ASSUME NEW p \in Sessions, WriteConfig(p) \/ RestartXray(p) \/ PrintResult(p)
      PROVE  Paired(h)'
  BY <1>6 DEF WriteConfig, RestartXray, PrintResult, Advance, Touched, host
<1>7. ASSUME NEW p \in Sessions, ScriptDies(p) PROVE Paired(h)'
  BY <1>7 DEF ScriptDies, Touched, host
<1> QED
  BY <1>1, <1>2, <1>3, <1>4, <1>5, <1>6, <1>7
  DEF Next, Stream, Script, ReadResult, ReadError, Register, Rebuild, GiveUp, Go,
      DeleteNode, ExitRestarts, host, vars

\* A host on which no two runs of openssl cross accepts a row's password once
\* all sessions that changed it have registered, however many have followed each
\* other there and wherever scripts died before: of what RegisteredHostAccepts
\* excepts, nothing but the crossing is needed.
THEOREM UncrossedAccepts ==
  ASSUME NEW h \in Hosts \ Busy
  PROVE  Spec /\ []Uncrossed(h) =>
           [](Touched(h) # {} /\ Touched(h) \subseteq rows
                => running[h] = disk[h] /\ disk[h] \in Touched(h))
<1>1. Init => Paired(h)
  BY DEF Init, Paired, Touched
<1>2. IInv /\ Paired(h) /\ Uncrossed(h)' /\ [Next]_vars => Paired(h)'
  BY PairedStep
<1>3. IInv /\ Paired(h) /\ RegisteredHostAccepts =>
        (Touched(h) # {} /\ Touched(h) \subseteq rows
           => running[h] = disk[h] /\ disk[h] \in Touched(h))
  <2> SUFFICES ASSUME IInv, Paired(h), Touched(h) \subseteq rows PROVE key[h] = cert[h]
    BY DEF RegisteredHostAccepts
  <2>1. \A p \in Touched(h) : script[p] = "printed"
    BY DEF IInv, Scripted, TypeOK
  <2> QED BY <2>1 DEF Paired
<1> QED BY <1>1, <1>2, <1>3, Inductive, RegisteredStayReachable, PTL DEF Spec
===============================================================================
