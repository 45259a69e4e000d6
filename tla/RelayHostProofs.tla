--------------------------- MODULE RelayHostProofs ---------------------------
(***************************************************************************)
(* StaleHasCause and type correctness for any set of contents, any start   *)
(* limit and any number of faults.  Together the two are inductive.        *)
(***************************************************************************)
EXTENDS RelayHost, TLAPS

\* The state the installer leaves behind.
LEMMA InitHolds == Init => TypeOK /\ StaleHasCause
<1> SUFFICES ASSUME Init PROVE TypeOK /\ StaleHasCause
  OBVIOUS
<1>1. config \in Configs /\ loaded \in Good
  BY HostAssumption DEF Init, Good
<1>2. recent \in 0..Burst /\ faults \in 0..MaxFaults
  BY HostAssumption DEF Init
<1>3. wpc = "watching" /\ xray = "running" /\ missed \in BOOLEAN
  BY DEF Init
<1>4. TypeOK
  BY <1>1, <1>2, <1>3 DEF TypeOK
<1>5. StaleHasCause
  BY DEF Init, StaleHasCause
<1> QED BY <1>4, <1>5

\* Each variable keeps its type.
LEMMA TypeStep == TypeOK /\ [Next]_vars => TypeOK'
<1> SUFFICES ASSUME TypeOK, [Next]_vars PROVE TypeOK'
  OBVIOUS
<1> USE HostAssumption DEF TypeOK
<1>1. ASSUME NEW v \in Configs, Write(v) PROVE TypeOK'
  BY <1>1 DEF Write, WokenBy, WillBeRead
<1>2. CASE Watcher
  BY <1>2 DEF Watcher, Arm, Debounce, TestPasses, TestRejects, Restart, RestartRefused, Relaunch
<1>3. CASE ReadConfig
  BY <1>3 DEF ReadConfig, Good
<1>4. CASE AutoRestart
  BY <1>4 DEF AutoRestart
<1>5. CASE IntervalPasses
  BY <1>5 DEF IntervalPasses
<1>6. CASE Faults
  BY <1>6 DEF Faults, WatchFails, Crash, Reboot, WriterDies, WokenBy
<1>7. CASE UNCHANGED vars
  BY <1>7 DEF vars
<1> QED BY <1>1, <1>2, <1>3, <1>4, <1>5, <1>6, <1>7 DEF Next, Service

\* A running relay becomes stale only by a write; a write somebody will still
\* see leaves the watcher on its way, any other is remembered as missed.
LEMMA StaleStep == TypeOK /\ StaleHasCause /\ [Next]_vars => StaleHasCause'
<1> SUFFICES ASSUME TypeOK, StaleHasCause, [Next]_vars PROVE StaleHasCause'
  OBVIOUS
<1> USE DEF StaleHasCause
<1>1. ASSUME NEW v \in Configs, Write(v) PROVE StaleHasCause'
  <2>1. CASE WillBeRead
    BY <1>1, <2>1 DEF Write, WokenBy, WillBeRead
  <2>2. CASE ~WillBeRead
    BY <1>1, <2>2 DEF Write
  <2> QED BY <2>1, <2>2
<1>2. CASE Watcher
  BY <1>2 DEF Watcher, Arm, Debounce, TestPasses, TestRejects, Restart, RestartRefused, Relaunch
<1>3. CASE ReadConfig
  BY <1>3 DEF ReadConfig
<1>4. CASE AutoRestart \/ IntervalPasses
  BY <1>4 DEF AutoRestart, IntervalPasses
<1>5. CASE Faults
  BY <1>5 DEF Faults, WatchFails, Crash, Reboot, WriterDies, WokenBy
<1>6. CASE UNCHANGED vars
  BY <1>6 DEF vars
<1> QED BY <1>1, <1>2, <1>3, <1>4, <1>5, <1>6 DEF Next, Service

-----------------------------------------------------------------------------

\* Script, units and files stay in their states, whatever the contents.
THEOREM TypeCorrect == Spec => []TypeOK
BY InitHolds, TypeStep, PTL DEF Spec

\* A running relay is outdated only on the way to a restart or after a change
\* that fell into the gap between two inotifywaits.
THEOREM StalenessExplained == Spec => []StaleHasCause
BY InitHolds, TypeStep, StaleStep, PTL DEF Spec

-----------------------------------------------------------------------------
(* What of the docstring's claim holds.                                     *)

\* Replacements of the file come while the watcher listens or before it has
\* restarted XRay, never while it is about to listen again or down.
NoWriteInGap == [][\A v \in Configs : Write(v) => wpc \notin {"arming", "dead", "stopped"}]_vars

\* If no replacement falls into the gap between two inotifywaits, a running relay
\* with the watcher at its post runs the file, when the file is valid: bursts,
\* rejected files, crashes, reboots and the start limit do no harm to that.
THEOREM UngappedRunsTheFile == Spec /\ NoWriteInGap => []RunsTheFile
<1>1. Init => ~missed
  BY DEF Init
<1>2. /\ TypeOK /\ ~missed /\ [Next]_vars
      /\ [\A v \in Configs : Write(v) => wpc \notin {"arming", "dead", "stopped"}]_vars
      => ~missed'
  <2> SUFFICES ASSUME TypeOK, ~missed, [Next]_vars,
                      [\A v \in Configs : Write(v) => wpc \notin {"arming", "dead", "stopped"}]_vars
               PROVE  ~missed'
    OBVIOUS
  <2>1. ASSUME NEW v \in Configs, Write(v), vars' # vars PROVE ~missed'
    BY <2>1 DEF Write, WillBeRead, TypeOK
  <2>2. Watcher \/ IntervalPasses \/ Faults \/ UNCHANGED vars => missed' = missed
    BY DEF Watcher, Arm, Debounce, TestPasses, TestRejects, Restart, RestartRefused, Relaunch,
           IntervalPasses, Faults, WatchFails, Crash, Reboot, WriterDies, vars
  <2>3. Service => ~missed'
    BY DEF Service, ReadConfig, AutoRestart
  <2> QED BY <2>1, <2>2, <2>3, Zenon DEF Next
<1>3. ~missed /\ StaleHasCause => RunsTheFile
  BY DEF StaleHasCause, RunsTheFile
<1> QED BY <1>1, <1>2, <1>3, TypeCorrect, StalenessExplained, PTL DEF Spec, NoWriteInGap
=============================================================================
