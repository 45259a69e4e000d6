------------------------------ MODULE RelayHost ------------------------------
(***************************************************************************)
(* From the file to the running relay: _write_atomic in the panel's        *)
(* containers, the watcher script and the two systemd units that           *)
(* install_panel.sh puts on the host, and XRay itself.                     *)
(*                                                                         *)
(* The watcher's inotifywait runs without -m: it reports one event in the  *)
(* directory and exits, and until the loop has started the next one        *)
(* nothing listens.  XRay reads the file when it starts and never again.   *)
(*                                                                         *)
(* The temporary file lies in the watched directory, so closing it already *)
(* is an event.  The instant between close and os.replace is shorter than  *)
(* the watcher's one second of sleep: a writer's two events are one step,  *)
(* unless it dies between them.                                            *)
(***************************************************************************)
EXTENDS Naturals

CONSTANTS
  Configs,    \* contents the file can have
  Invalid,    \* those that `xray run -test` rejects, the empty file included
  Clashing,   \* those that pass the test but cannot bind their ports
  FirstConfig,
  Burst,      \* starts systemd allows in one interval (its default is 5 in 10 s)
  MaxFaults   \* reboots, crashes of XRay or of a writer, failures to watch

Good == Configs \ (Invalid \cup Clashing)

ASSUME HostAssumption ==
  /\ Invalid \subseteq Configs /\ Clashing \subseteq Configs
  /\ FirstConfig \in Good
  /\ Burst \in Nat \ {0} /\ MaxFaults \in Nat

VARIABLES
  config,   \* content of config.json
  wpc,      \* where the watcher script stands
  xray,     \* state of xray.service
  loaded,   \* the configuration XRay last started with
  recent,   \* starts counted against the limit
  faults,
  missed    \* history: the file was replaced with nobody to notice

vars == <<config, wpc, xray, loaded, recent, faults, missed>>

Init ==
  /\ config = FirstConfig
  /\ wpc = "watching"
  /\ xray = "running"
  /\ loaded = FirstConfig
  /\ recent = 0
  /\ faults = 0
  /\ missed = FALSE

-----------------------------------------------------------------------------
(* _write_atomic, in the web process or the worker.                         *)

WokenBy == IF wpc = "watching" THEN "debounce" ELSE wpc

\* Somebody will still read the file after this moment.
WillBeRead == wpc \in {"watching", "debounce", "testing", "restarting"}
              \/ xray \in {"starting", "waiting"}

Write(v) ==
  /\ config' = v
  /\ wpc' = WokenBy
  /\ missed' = (missed \/ ~WillBeRead)
  /\ UNCHANGED <<xray, loaded, recent, faults>>

\* The writer dies before os.replace: an event, and the old file stays.
WriterDies ==
  /\ faults < MaxFaults
  /\ faults' = faults + 1
  /\ wpc' = WokenBy
  /\ UNCHANGED <<config, xray, loaded, recent, missed>>

-----------------------------------------------------------------------------
(* xray-watcher.sh, under set -eu.                                          *)

Arm ==
  /\ wpc = "arming" /\ wpc' = "watching"
  /\ UNCHANGED <<config, xray, loaded, recent, faults, missed>>

Debounce ==
  /\ wpc = "debounce" /\ wpc' = "testing"
  /\ UNCHANGED <<config, xray, loaded, recent, faults, missed>>

\* Mutant: the branch ends without a restart.
TestPassesIdle ==
  /\ wpc = "testing" /\ config \notin Invalid
  /\ wpc' = "arming"
  /\ UNCHANGED <<config, xray, loaded, recent, faults, missed>>

TestPasses ==
  /\ wpc = "testing" /\ config \notin Invalid
  /\ wpc' = "restarting"
  /\ UNCHANGED <<config, xray, loaded, recent, faults, missed>>

TestRejects ==
  /\ wpc = "testing" /\ config \in Invalid
  /\ wpc' = "arming"
  /\ UNCHANGED <<config, xray, loaded, recent, faults, missed>>

\* Mutant: systemctl start, which leaves a running unit alone.
RestartIsStart ==
  /\ wpc = "restarting" /\ recent < Burst
  /\ xray' = IF xray = "running" THEN "running" ELSE "starting"
  /\ recent' = recent + 1
  /\ wpc' = "arming"
  /\ UNCHANGED <<config, loaded, faults, missed>>

\* Mutant: no start limit.
RestartUnlimited ==
  /\ wpc = "restarting"
  /\ xray' = "starting"
  /\ recent' = recent + 1
  /\ wpc' = "arming"
  /\ UNCHANGED <<config, loaded, faults, missed>>

\* systemctl restart: the unit is of type simple, so the command returns once
\* the process is forked, before XRay has read its file.
Restart ==
  /\ wpc = "restarting" /\ recent < Burst
  /\ xray' = "starting"
  /\ recent' = recent + 1
  /\ wpc' = "arming"
  /\ UNCHANGED <<config, loaded, faults, missed>>

\* Past the start limit the stop succeeds, the start is refused, the command
\* fails and set -e ends the script.
RestartRefused ==
  /\ wpc = "restarting" /\ recent = Burst
  /\ xray' = "failed"
  /\ wpc' = "dead"
  /\ UNCHANGED <<config, loaded, recent, faults, missed>>

\* Restart=on-failure of xray-watcher.service.
Relaunch ==
  /\ wpc = "dead" /\ wpc' = "arming"
  /\ UNCHANGED <<config, xray, loaded, recent, faults, missed>>

\* A failing inotifywait ends the loop, and the script, with status 0:
\* Restart=on-failure does not start it again.
WatchFails ==
  /\ wpc = "arming" /\ faults < MaxFaults
  /\ wpc' = "stopped"
  /\ faults' = faults + 1
  /\ UNCHANGED <<config, xray, loaded, recent, missed>>

-----------------------------------------------------------------------------
(* xray.service and the host.                                               *)

\* XRay reads the file: it runs it, or exits and systemd waits RestartSec.
ReadConfig ==
  /\ xray = "starting"
  /\ IF config \in Good THEN xray' = "running" /\ loaded' = config
                        ELSE xray' = "waiting" /\ loaded' = loaded
  /\ missed' = FALSE
  /\ UNCHANGED <<config, wpc, recent, faults>>

AutoRestart ==
  /\ xray = "waiting"
  /\ IF recent < Burst THEN xray' = "starting" /\ recent' = recent + 1
                       ELSE xray' = "failed" /\ recent' = recent
  /\ UNCHANGED <<config, wpc, loaded, faults, missed>>

IntervalPasses ==
  /\ recent > 0 /\ recent' = 0
  /\ UNCHANGED <<config, wpc, xray, loaded, faults, missed>>

Crash ==
  /\ xray = "running" /\ faults < MaxFaults
  /\ xray' = "waiting"
  /\ faults' = faults + 1
  /\ UNCHANGED <<config, wpc, loaded, recent, missed>>

\* Both units are enabled, so a reboot starts them afresh.
Reboot ==
  /\ faults < MaxFaults
  /\ faults' = faults + 1
  /\ wpc' = "arming" /\ xray' = "starting" /\ recent' = 1
  /\ UNCHANGED <<config, loaded, missed>>

Watcher == Arm \/ Debounce \/ TestPasses \/ TestRejects \/ Restart \/ RestartRefused \/ Relaunch
Service == ReadConfig \/ AutoRestart
Faults  == WatchFails \/ Crash \/ Reboot \/ WriterDies

Next ==
  \/ \E v \in Configs : Write(v)
  \/ Watcher \/ Service \/ IntervalPasses \/ Faults

Spec == Init /\ [][Next]_vars

\* The script and systemd never stop by themselves, and time passes.
Fairness == WF_vars(Watcher) /\ WF_vars(Service) /\ WF_vars(IntervalPasses)

FairSpec == Spec /\ Fairness
-----------------------------------------------------------------------------

\* What files, script and units can be.
TypeOK ==
  /\ config \in Configs /\ loaded \in Good
  /\ wpc \in {"arming", "watching", "debounce", "testing", "restarting", "dead", "stopped"}
  /\ xray \in {"starting", "running", "waiting", "failed"}
  /\ recent \in 0..Burst
  /\ faults \in 0..MaxFaults
  /\ missed \in BOOLEAN

\* A running relay differs from a file that passes the test only while the
\* watcher is on its way to restart it, or after a replacement that fell into
\* the gap between two inotifywaits: there is no other way to miss a change,
\* temporary files, debouncing, crashes and reboots included.
StaleHasCause ==
  xray = "running" /\ loaded # config /\ config \notin Invalid
    => missed \/ wpc \in {"debounce", "testing", "restarting"}

\* A change the watcher has woken for reaches the relay, unless the file
\* changes again or systemd refuses to start XRay once more.
NoticedIsLoaded ==
  \A v \in Good :
    (wpc = "debounce" /\ config = v)
      ~> ((xray = "running" /\ loaded = v) \/ config # v \/ xray = "failed")

\* Docstring of xray_local.py: the watcher detects the file change, validates
\* the file and restarts the relay.  So a running relay with the watcher back
\* at its post runs the file, when the file is valid.
RunsTheFile ==
  xray = "running" /\ wpc = "watching" /\ config \notin Invalid => loaded = config
=============================================================================
