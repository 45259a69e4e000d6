# Verification of the panel: TLA+ models, model checking, proofs

This directory holds TLA+ models of a self-hosted VPN panel: a FastAPI web
application, a background worker, a relay host running XRay, and exit nodes
provisioned over SSH. Paths below are relative to the repository (`panel/app/...`
is `src/panel/app/...` in `PROJECT.json`).

    tlc -workers 2 -config PanelSyncCore.cfg MCPanelSync.tla    # check a run
    tlapm PanelSyncProofs.tla                                   # check the proofs

`PROJECT.json` lists the runs, which module and configuration each uses, the
source lines behind every definition, the hazards, and the theorems. Each
property of a passing run has a *mutant* there: a plausible bug in the code,
written as an operator next to the definition it replaces, that makes the
property fail.

## 1. Inventory

### Components

| Component | Source | State it keeps | Operations |
|---|---|---|---|
| Relay configuration generator | `services/relay_config.py` | none (pure) | `build_panel_xray_config(nodes, subs)` |
| Subscription documents | `services/subscription_builder.py`, `api/subscription.py` | none (pure over the tables) | `GET /sub/<token>` in two formats |
| Rebuild | `services/xray_local.py`, `db.py` | the file `config.json`; per session an identity map | `rebuild_and_apply`: select nodes, select active subscriptions, replace the file |
| Node handlers | `api/admin_nodes.py`, `web_admin.py` | table `nodes` | create, edit, delete; each commits and rebuilds |
| Subscription handlers | `api/admin_subscriptions.py`, `web_admin.py`, `services/subscription_factory.py` | table `subscriptions` | create, edit (status, limit, dates, reset), delete |
| User and plan handlers | `api/admin_users.py`, `api/admin_plans.py`, `web_admin.py` | tables `users`, `plans` | create, edit, delete (a user's subscriptions go with it) |
| Billing job | `services/billing.py`, `workers/tasks.py` | `subscriptions.status` | every minute: mark lapsed rows, rebuild |
| Traffic collector | `services/traffic_collector.py`, `workers/tasks.py` | `traffic_used_bytes`, `traffic_log` | every minute: fetch and zero XRay's counters, add |
| Node allocator | `services/node_allocator.py` | none; decides from `nodes` | lowest free port, random tags and short id |
| Provisioner | `services/provisioner.py`, `api/admin_provision.py`, `scripts/bootstrap_node.sh` | the SSH session; on the exit: key pair, configuration, unit | bootstrap, parse the result, register, rebuild |
| Relay host | `scripts/install_panel.sh` | `config.json`, `xray-watcher.sh`, two systemd units, XRay's memory | watch, test, restart |
| Accounts | `api/auth.py`, `security.py`, `seed.py`, `web.py` | table `users` with `role`, `is_active` | register, sign in, seed at every start |
| Log stream | `services/provisioner.py` (`_merge_streams`) | a queue, two tasks, a count of end markers | drain, merge, judge the result |
| Dashboards, templates, translations | `api/user_dashboard.py`, `web_admin.py`, `i18n.py`, templates | none | read-only pages |
| Settings, models, migrations | `config.py`, `models/`, `alembic/` | schema | UNIQUE columns, cascades |
| Deployment | `deploy.sh`, `docker-compose.yml` | files on the host | linear installation |

### How they interact

Web process and worker share PostgreSQL and one file. Every change an admin or
the billing job makes that the relay must know of ends with `rebuild_and_apply`,
which derives the *whole* file from the tables. The file is in a volume shared
with the host; inotify wakes the watcher, which tests the file and restarts
XRay. XRay reads the file at its start only; its counters live in its memory, so
every restart clears them. The collector asks XRay through its API. Clients keep
the addresses of every document they ever downloaded. The provisioner reaches
exits over SSH and ends as one more session that inserts a node and rebuilds.

### What is hard

* Nothing serialises sessions: between any two awaits of one, others commit and
  replace the file; sessions keep attributes they loaded earlier
  (`expire_on_commit=False`).
* The commit and what follows from it are separate steps, and so are testing a
  file and starting it, zeroing a counter and logging it, rewriting an exit and
  registering it. A process may stop between the two of any such pair.
* The watcher listens only while `inotifywait` runs; systemd limits restarts.
* Identifiers are chosen first and inserted later; ports are reused at once.
* Edit pages show a row, rounded, and send every column back at any time later;
  what is written is the difference to the row as the handler loaded it.
* Two tasks and a generator share a queue; any of them may be cut off.

The full list, each at its line, is under `hazards` in `PROJECT.json`.

### What makes each component correct

* Rebuild: the file agrees with the tables once nobody is rebuilding.
* Billing: a lapsed subscription is marked, one that has not lapsed is not, and
  the client leaves the relay.
* Slots: two nodes never share one; no address leads out of a wrong exit.
* Relay host: the running relay has the file's latest valid content, and a bad
  file does not take it down.
* Collector: no byte is counted twice, none is lost, the total matches the log.
* Provisioner: a registered exit accepts the password in its row; the consumer
  of the log gets one outcome, and the script's own last line decides it.
* Accounts: one address has one account; the panel keeps an admin.
* Limits and ends: what an admin leaves alone stays, an extension is added, a
  mark has its reason.

## 2. Modules

    RelayConfig        pure: configuration and documents from rows
      <- PanelSync     sessions, commits, rebuilds, billing          <- PanelSyncProofs
      <- NodeSlots     ports, tags, short ids, clients' addresses     <- NodeSlotsProofs
    RelayHost          file, watcher, systemd, XRay                   <- RelayHostProofs
    Ledger             what the collector promises about bytes
      <- Traffic       counters, collector, resets: implements it     <- TrafficProofs
    Provisioning       SSH session, script, exit host                 <- ProvisioningProofs
    RemoteRun          what a run of the script promises
      <- LogStream     two tasks, a queue, end markers: implements it <- LogStreamProofs
    Accounts           users, roles, the seed                         <- AccountsProofs
    Billing            limits, ends, plans, the edit page, the job    <- BillingProofs
    MCPanelSync, MCNodeSlots, MCTraffic, MCAccounts, MCBilling
                       symmetry and constants for TLC

`PanelSync` and `NodeSlots` both extend `RelayConfig`, the one place where the
configuration is defined; they look at the same sessions from two sides and are
kept apart so that each stays small enough to check. `RelayHost` starts where
`PanelSync` ends, at the replacement of the file. `LogStream` is the inside of
the steps `ReadResult` and `ReadError` of `Provisioning`, `Billing` the inside of
`PanelSync`'s `due`, `Accounts` what stands before every handler.

**RelayConfig.** `BuildConfig` is `build_panel_xray_config`: an inbound, an
outbound and a rule per node whatever its status, and the API's. A node row's
field `exit` stands for the four columns that select and open the tunnel. Fields
equal in every entry and the unused `block` outbound are left out. `Document` is
what both formats list. `Accepting` and `ExitsOf` say what XRay does with a
configuration (external: handshake by port, short id and client; routing by tag).

**PanelSync.** `db` is the committed value of each row; `held` is a session's
identity map, `dirty` what its commit writes. A handler is one action from its
guard to its assignments, since it does not await in between (`Load` and the
operators above it), then `Commit` or `CommitFails`, `Refresh` or `RefreshFails`
where the handler refreshes, `ReadNodes`, `ReadSubs`, `Replace`; `Abort` cuts a
session short anywhere. JSON and form variants of an operation differ only in
what they refresh (`AfterCommit`, `Refresh`). A select returns committed rows,
but a row already in the identity map keeps the attributes it was loaded with
(`Seen`). The flush fails on an update of a deleted row; deleting a user
cascades. The limit, the bytes used and the dates are abstracted to `due`: what
the numbers say now. `Lapse` is the clock or traffic moving on; a form that edits
numbers sets `due` to anything. `StaleTotal` is the collector writing an outdated,
lower total over the one at the limit, which takes `over_limit` away again without
an admin; `relieved` is the history of the marks that this has overtaken. Users
exist from the start.

**NodeSlots.** `Choose` is tags, lowest free port and short id of a registering
session, `Insert`/`InsertFails` what the UNIQUE columns decide later;
`ReadRows`/`WriteConfig` are the rebuild; `Fetch` is a client downloading its
document and keeping the old ones. The four values of a node's status are
reduced to active and not active, all that the documents distinguish; a deletion
or an edit is one step to its commit (its reads matter in `PanelSync`). A short
id is taken to be new (32 random bits; no column enforces it), tags are not
(16 random bits; UNIQUE). `Abort` needs no bound here.

**RelayHost.** The two events of a write (`close_write` of the temporary file in
the watched directory, then the move) are one step unless the writer dies
between them: the watcher sleeps a second first. `set -e` ends the script when
`systemctl restart` is refused, and its unit relaunches it; a failing
`inotifywait` ends the loop with status 0, which `Restart=on-failure` ignores.
External: systemd's default start limit (5 in 10 s, since the unit sets none),
and that `xray run -test` does not bind ports, so a file can pass and still fail.

**Traffic.** Up and down are one count. `Query` fetches and zeroes; `LoadRows`
selects; `CommitJob` writes *absolute* totals computed from what was loaded, and
log rows; `CommitFails` is the whole batch failing because one row is gone. A
reset is a load and a commit; assigning 0 to a column loaded as 0 writes nothing.
`Ledger` knows neither jobs nor counters: a carried byte is pending, then booked
by a commit or dropped with a mark. The refinement maps `pending` to the counter
plus what all jobs have in hand.
History variables record what was carried, logged, logged since the last reset,
lost (and so may be missing), and written from an outdated value.

**Provisioning.** The generator and the script it starts are two processes. The
script's stages are those after which the host differs: key, certificate,
configuration, restart, result. `GiveUp` gathers every way a generator ends
early: a failed connection or upload, a lost connection, a failed registration or
rebuild, a browser that left. The script goes on by itself until it ends or dies.
What the browser is told is left out, as are the firewall and the downloads. A
host may have its port 443 taken: the unit, of type simple, starts all the same,
so the script succeeds. XRay ignores a certificate that is not its key's.

**RemoteRun, LogStream.** `RemoteRun` is what `provision_node` promises: the lines
of each stream in order, then one outcome, a result exactly when the script has
exited with code 0 and all it wrote was shown. `LogStream` is how it keeps that:
`DrainLine` and `DrainEnds` are the two `drain` tasks (their `finally` puts the
end marker even when a lost connection raises in their loop), `YieldLine` and
`MeetMark` the loop of `_merge_streams` with `last_stdout_line`, `Judge` the exit
code and the last line, `Leave` a consumer that goes: the generator is closed and
the connection with it, and nobody cancels the tasks. A line is its number in its
stream. The refinement maps `gen` to an outcome and forgets queue, markers and
last line. External: the channel keeps each stream's order and hands over the
exit code behind the data.

**Accounts.** A request selects the account behind its token (`SignIn`), then the
row it is about, then commits; each is a step. `ShowPage`/`PostPage` are the edit
page and its form, which arrives in a request of its own. `Edit` writes the
columns that differ from what the handler loaded, as SQLAlchemy's UPDATE does;
an admin who edits itself finds its own row in the identity map (`Got`). `Insert`
and `Edit` fail at the UNIQUE address, `Edit` on other rows' addresses only. The
field `kept` of a page and its request is history: the columns that no commit has
changed since the page read them, up to the select of the posted form's request,
and that its form leaves as shown. `Start` is the seed, `Stop` any end of the
process. Left out: passwords, the token's expiry, subscriptions (`PanelSync`).

**Billing.** One subscription, its plans, any number of admins. `ShownLimit` and
`ShownDate` are the template's rounding; `Forms` is what a page may send: what it
showed, or something typed or cleared, with the boxes. `Edited` and `EndOf` are
the assignments of `edit_subscription_submit`, `Post` the load before them and
`Commit` the UPDATE. `LapseOf` is the select and the branches of `enforce_limits`
and `JobSelect`'s `t` the clock it has read before. Time and bytes are integers.
`Hundredths` is the two decimals that the page shows, the even one of two that are
as near; a hundredth of a `Gigabyte` is no whole number of bytes, and `ShownLimit`
is what `int()` leaves of it. `Collect` writes any total but 0: the collector adds
to a total it loaded earlier and writes the sum, so where firings overlap or an
admin resets in between the bytes used may fall (`Traffic` has those steps). The
fields `kept` and `added` of a page or request are history: what its admin leaves
as shown and nobody has changed since, and the ticks it adds; so are the job's
`overtaken` and `lowered`.

## 3. Runs

| Run | Bounds | Question and answer |
|---|---|---|
| `PanelSyncCore` | 2 admin sessions, one for the subscription and one for node and user, 1 billing run, 1 subscription, 1 node, 1 user, 1 session cut short | Does the file agree with the tables whenever nobody is rebuilding? Only overlapped or interrupted rebuilds break it (`DivergenceHasCause`), an undisturbed one repairs it (`RebuildRepairs`), marks follow current numbers unless an admin's commit or an outdated total of the collector came between (`MarksAreDue`), and a lapsed row is marked in the end or relieved (`LapsedIsMarked`). |
| `PanelSyncRace` | 2 admin sessions, no fault | *Violation* of `InSyncWhenIdle`: the rebuild that read first writes last. |
| `PanelSyncTopUp` | 1 admin session, 1 billing run, no fault | *Violation* of `ReEvaluated`: a mark outlives the lapse. |
| `NodeSlotsCore` | 2 sessions, 3 nodes, 2 ports, 2 tags, 3 short ids, 1 client | Slots stay distinct in table and relay, no cached address leads out of a wrong exit, an up-to-date relay serves exactly the nodes that exist. |
| `NodeSlotsApiPort` | the default range from its 84th port on, 2 nodes, 1 session | *Violation* of `ListenPortsDistinct`: the second node gets the API's port. |
| `RelayHostCore` | 2 good contents, 1 rejected, 1 unbindable; start limit 5; 4 faults | A running relay is stale only on the way to a restart or after a change in the gap (`StaleHasCause`); a noticed change is loaded (`NoticedIsLoaded`). |
| `RelayHostLostWakeup` | 2 good contents, no fault | *Violation* of `RunsTheFile`: a change between two `inotifywait`s. |
| `TrafficCore` | 2 overlapping jobs, 1 admin, 2 clients of 2 bytes, 1 fault | No double count (`UsedWithinLog`, `LogWithinCarried`); every loss has a cause (`LossHasCause`), every wrong total too (`TotalMatchesLog`); each step is one of `Ledger` (`KeepsBooks`). |
| `ProvisioningCore` | 2 sessions, 2 hosts, one with its port taken | A host whose sessions have all registered accepts a row's password unless two `openssl` runs crossed (`RegisteredHostAccepts`); every session ends (`SessionEnds`). |
| `LogStreamCore` | 3 lines of each stream | Does the merge keep the promise of `RemoteRun` (`KeepsPromise`)? Is a consumer that stays given an outcome (`OutcomeComes`), and do the tasks end when it leaves (`TasksEnd`)? Yes. |
| `AccountsCore` | 3 accounts, 2 addresses, 2 requests | One address has one account (`EmailsDistinct`); the last active admin falls by its own edit or to an overtaken request only (`LastAdminFalls`); an edit leaves what its admin left alone as it is, whoever committed since the page, unless it was changed before the posted form's select (`UntouchedStays`). |
| `BillingCore` | 2 admins, 1 plan, limits of 0, 1 and 2 bytes where 0.01 GB is 2.5, ends 0..2 where a minute is 2 ticks, a typed limit and a typed date, time 0..1, 2 bytes | What is left alone stays but for the rounding (`UntouchedTermsStay`), extensions are added (`ExtensionReaches`), marks have their reason (`MarksSayWhy`), and a lapse changes only in the steps that `PanelSync` has for `due` (`LapsesAsAssumed`). |

*Why these bounds.* The races are between two sessions and a third actor: a pair
of rebuilds plus a commit, two registrations on one port plus a deletion, two
collector jobs plus a reset. `PanelSyncCore` has three sessions: one admin at work
on the subscription, one on its user and on the node (`Serves`, a bound: in the
code any session may run any handler), and the billing job. A subscription changes
under a session and back again, it is deleted with its user before it is
refreshed, a node comes and goes; one of each suffices because the two selects are
separate steps and each table has one. Sessions are slots, used again and again,
and any two of the three rebuild side by side. Other instances were tried with
the same result and left out for time: two sessions that run every handler beside
the job (safety only, 2.1 million states), and one such session beside two firings
of the job, with a node changed in place (708 thousand).

`NodeSlotsCore` has more nodes than ports, so that ports are reused and run out,
and fewer tags than nodes, so that tags collide. Two
bytes per client tell a counter from its double, and let a client carry before
and after a fetch. Four faults let a host crash while it recovers; five starts
are systemd's own number. Three provisioning sessions were also tried (about a
million states, same result); two are kept for time. Three lines let one stream
end while the other still has lines on the queue. Two requests in `AccountsCore`
are the pair that can overtake each other. In `BillingCore` a minute is two ticks
and 0.01 GB two and a half bytes: an end of 1 is shown and posted as 0, a limit of
1, below half of that, as 0.00 and none, while one of 2 is above half and stays by
the rounding up and the cutting off together. A day is one tick, so that an
extension can be told from what a form shows; two bytes let the
collector's total rise to a limit of 2 and fall below it under a job that is
marking, and a lapse can come by the clock, by bytes and by an admin. Nobody
ticks the reset in this run: it moves only the bytes used, which the collector
moves too, and `TrafficCore` has it racing with the collector. With the reset
ticked beside the box for no end the result is the same (1.1 million states).
`NodeSlotsApiPort` begins the range at its 84th port because the first 83 nodes
only fill it up. Every invariant and action property of the passing runs is also
proved without these bounds (section 5).

*Bounds by name.* `MaxFaults` caps faults in `PanelSync`, `RelayHost` and
`Traffic`; `Serves` says which handlers run on which session of `PanelSync`;
`MaxBytes` caps what a client carries; `recent` never exceeds `Burst`;
`MaxLines` caps a stream; `MaxTime`, `Horizon` and `MaxUsed` cap the clock, the
end up to which `Post` extends and the bytes in `Billing`.
Rows, primary keys, scripts, provisioning sessions are used once, so the runs of
all modules but `RelayHost` come to an end when all are used up; they do not
check for deadlock. `RelayHostCore` does.

*Symmetry* is used over interchangeable rows, sessions and identifiers in runs
without a liveness property (`MCSymmetry`, `Symmetry`).

### Fairness

* `PanelSync`: weak fairness of the billing job, which the cron fires every
  minute, and of each session's next step: an event loop runs what is ready, and
  a session that is not cut short gets its answers. Nothing is assumed of admins.
* `RelayHost`: weak fairness of the script, of systemd's steps, and of time, which
  ends the start limit's interval.
* `Provisioning`: weak fairness of generator and script. The code has no time
  limit on the script, so that its commands return is an assumption.
* `LogStream`: weak fairness of the generator and of each task: the event loop
  runs what can run, and a consumer that stays takes what it is offered. Nothing
  is asked of the script; both liveness properties begin when its run has ended.

### Disagreements with the documentation

Each `violation` run is listed under `findings` with the sentence it contradicts.
In short: rebuilding after the commit does not by itself keep file and tables in
sync; the billing job does not re-evaluate a lapsed row after a top-up; the port
of the API is one that a node can get; the watcher misses a change in its gap.

Seen while modelling and not given a run:

* `docs/architecture.md:201-204` says that the job's rebuild removes an over-quota
  client within a minute. Commit and rebuild are two steps (`billing.py:62`, 64);
  a job cut short between them is not made up for, because the next firing
  selects active rows only and returns without a rebuild. In `PanelSync` this is
  `Abort` after the billing job's `Commit`, one of the causes `missed` stands for.
* `docs/operations.md:56-57` tells admins to tick **Reset traffic**. A reset that
  commits between the collector's select (`traffic_collector.py:86-94`) and its
  commit (118) is overwritten by the old total plus the delta. In `Traffic` the
  client is then in `raced`, the exception of `TotalMatchesLog`.
* `docs/configuration.md:21` and `113` and `README.md:144` say that the default admin is seeded on the
  first run; the seed runs at every start, and makes it again with the configured
  password once it has been renamed or deleted (`Accounts`, `Start`).
* `docs/operations.md:58` says **Extend by plan** adds the plan's duration. It adds
  it to the old end however long ago that was (`Later`), so an extended
  subscription may still be expired; and where the plan has been deleted behind
  the page, the extension is ignored and `plan_id` cleared (`Added` is 0).
* A limit below 0.005 GB is shown as 0.00 on the edit page, and saving the page
  makes it unlimited. A negative limit, which the page's field does not accept,
  counts as unlimited too (`billing.py:54`).
* The edit page of a subscription nests the form that deletes inside the form that
  edits (`templates/admin/subscription_edit.html:79`). HTML parsers drop the inner
  one, so its button submits the edit.
* `docs/operations.md:47-48` promises a new node a fresh inbound port; the lowest
  free one is usually the one the deletion has just freed. The new short id is
  what protects old addresses (`NeverWrongExit`).
* `docs/development.md:138-139` calls restarts cheap; a burst of rewrites meets
  systemd's start limit and leaves the relay stopped (`RestartRefused`).
* `docs/deployment.md:55-58` calls test and restart atomic; the file can be
  replaced between them (`TestPasses`, then `ReadConfig`).
* `docs/architecture.md:124-125` says deltas are persisted; one deleted row fails
  the commit of the whole batch after the counters were zeroed (`CommitFails`).
* `docs/architecture.md:129-130` says that exits hold nothing that cannot be
  reproduced from the database; a script whose session is cut off leaves a
  password on the exit that no row has (`GiveUp` after `WriteConfig`).
* `docs/operations.md:60-61` and `architecture.md` say every 30 s; the cron fires
  once a minute, at second 30.
* The edit page preselects a lapsed status in a disabled option
  (`templates/admin/subscription_edit.html:35`), which browsers do not submit, so
  such a form reaches the handler without its required `status`.

## 4. Properties

Every module has one type invariant. The others are of three kinds.

*Cause invariants* (`DivergenceHasCause`, `StaleHasCause`, `LossHasCause`,
`TotalMatchesLog`, `RegisteredHostAccepts`) do not claim that nothing goes wrong
but that it goes wrong in the named ways only. The history variables that name
the causes (`missed`, `overlapped`, `relieved`, `lost`, `raced`) are set by the actions where
they arise and cleared by what repairs them; a bug that adds another way, such as
a handler without its rebuild, violates the invariant. The violation runs show
that the named causes do occur.

*Safety proper* (`SlotsDistinct`, `NeverWrongExit`, `CurrentRelayServesLive`,
`UsedWithinLog`, `LogWithinCarried`, `EmailsDistinct`) holds without exception.
`ListenPortsDistinct` does not hold with the default range (`NodeSlotsApiPort`).

*Action properties* speak of every step: `RebuildRepairs`, `MarksAreDue`,
`LastAdminFalls`, `UntouchedStays`, `UntouchedTermsStay`, `ExtensionReaches`,
`MarksSayWhy`, `LapsesAsAssumed`. Those about forms relate a commit to the page
that its admin saw, with the commits of others in between as the exception; those
about marks relate it to the select before it, with an admin's commit and a total
that the collector lowers as the exceptions. Where the code has the hazard and no
defence, no property denies it: such hazards have a note in `PROJECT.json`.

*Refinement*: `KeepsPromise` says that every behaviour of `LogStream` is one of
`RemoteRun`, `KeepsBooks` that every behaviour of `Traffic` is one of `Ledger`. The
latter says more than the two invariants about bytes: what is dropped never comes
back, and no step books and drops at once.

*Liveness* (`LapsedIsMarked`, `NoticedIsLoaded`, `SessionEnds`, `OutcomeComes`,
`TasksEnd`) holds under the
fairness above.

## 5. Proofs

TLAPS checks the following for all values of the constants that satisfy the
module's named assumption (`SyncAssumption`: the kinds of rows and of values are
distinct, every subscription has an owner; `SlotsAssumption`: port bounds are
integers; `HostAssumption`: contents are classified, the first one is good;
`TrafficAssumption` and `StreamAssumption`: bounds are naturals; `JobsAssumption`:
the collector runs at most finitely many times at once, since bytes in flight are a sum over
them;
`ProvisioningAssumption`: "none" is no session's or host's name;
`AccountsAssumption`, `NoAccount`: the configured address is one, no row differs
from every row; `BillingAssumption`: plans, limits and dates are integers, a
`Gigabyte` has at least as many bytes as it has `Parts`, ends are rounded to a
positive number). Every invariant is `Init => IInv`,
`IInv /\ [Next]_vars => IInv'`, `IInv => Inv`.

* **PanelSyncProofs**: `TypeCorrect`, `DivergenceExplained`, `RebuildsRepair`,
  `MarksWereDue`, `SerialInSync`. `DivergenceHasCause` says nothing of a session halfway through
  its rebuild, so it is not inductive. `Fresh` supplies that: as long as no other
  session has committed beside it, what a session holds or has read is what the
  tables say. `WritesHeld` says what a session may be about to write, in
  particular that a session deleting a user holds no row that the cascade takes;
  `Due` carries a lapse, or its place in `relieved`, from the billing job's select
  to its commit. Handlers are
  treated together: each is a `Load` of something fresh. `SerialInSync` is the part
  of the documentation's claim that holds, next to the run that refutes the rest:
  in every behaviour in which no session commits beside another and none is cut
  short, file and tables agree whenever nobody is at work. Its lemma shows that a
  refresh cannot fail there, so that nothing else needs to be assumed.
* **NodeSlotsProofs**: `TypeCorrect`, `SlotsNeverShared`, `NoWrongExit`,
  `CurrentServes`, and `ClashIsTheApis`: `ListenPortsDistinct` holds in exactly the
  states in which no node on the relay has the API's port, whatever the range; the
  defaults let a node have it. `Traced`: a short id leads to one node for
  ever, in the table, on the relay, in any session's hands and in any client's
  cache. `Private`: a row about to be inserted is its session's alone. `SameSlot`:
  two rows of one node, wherever they are kept, agree in tags, port and short id,
  so that an address fetched before an edit still meets the inbound of today.
* **RelayHostProofs**: `TypeCorrect` and `StalenessExplained`, together inductive.
  `UngappedRunsTheFile`: the docstring's claim, which `RelayHostLostWakeup` refutes,
  holds in every behaviour in which the file is never replaced while the script is
  about to listen again or down.
* **TrafficProofs**: `TypeCorrect`, `NeverDoubleCounts`, `TotalsExplained`,
  `TotalExactAlone`, `Refines`, `NothingTwice`, `LossExplained`. A job writes what
  it saw plus what it logs, so the invariant bounds what every job under way has
  seen (`SeenWithinLog`): outdated totals are old totals, and the log only grows.
  `TotalMatchesLog` is inductive beside the types. `TotalExactAlone` is about one
  client at a time: as long as no two sessions hold its row at once, its total is
  the log since the last reset, whatever else fails.
  The other three need sums over any finite set of jobs. Their lemmas are proved by
  induction over the subsets of `Jobs` (`SubsetInduction`, from the library's fact
  that strict inclusion is well founded there, with a set in the place of a
  predicate): the library's fold obeys its equation (`SumRecursion`), and a sum in
  which one summand changes changes by as much (`SumChange`). With `Holdings` (an idle
  job has nothing in hand, a loaded one has the rows of what it has) every step is
  a step of `Ledger` (`BooksStep`), and each step of `Ledger` leaves the books
  balanced (`BalanceStep`), which is what `LogWithinCarried` and `LossHasCause` say
  (`BalancedIs`).
* **ProvisioningProofs**: `TypeCorrect`, `RegisteredStayReachable`,
  `UncrossedAccepts`. The invariant follows whoever wrote a configuration last: `Scripted` (no row without
  a script that printed), `Written` (no configuration without its script), and
  `Restarted` (once that script has restarted XRay and no other is between its
  key and its configuration, the host accepts what the file says).
  `UncrossedAccepts` says what the exception about key and certificate comes from:
  only two live scripts between the two `openssl` steps of one host take them apart
  for good (`Paired`), not scripts that die there or follow each other.
* **LogStreamProofs**: `TypeCorrect` and `Refines`, the refinement of `RemoteRun`:
  `Init` implies its `Init`, and every step is one of its steps or a stutter. The
  invariant says what is on the queue (`Backlog`: the lines drained and not yet
  shown, each stream's in order; `Marks`: one marker for each task that has ended
  and was not counted; `MarkIsLast`: no line of a stream behind its marker), so
  that with two markers met all is shown and `last` is the last stdout line.
* **AccountsProofs**: `TypeCorrect`, `AddressesDistinct`, `LastAdminHolds`,
  `UntouchedHolds`, `AdminRemains`. `Authority`: while nobody has committed beside a
  request, its admin still is an active one, and a deletion is never about that
  admin. `Reliance`: the columns that a page or request still keeps are in the table
  as the page shows them, from the posted form's select on in the row it selected,
  and then in its form; a commit takes from each page what it changes
  (`OvertakenRelies`).
  `AdminRemains` turns the action property into a promise about the whole life of
  the panel: the first start finds an empty table and seeds an admin, and from then
  on there is one, unless an admin edits itself or a request is overtaken.
* **BillingProofs**: `TypeCorrect`, `TermsStay`, `ExtensionsReach`, `MarksHold`,
  `LapsesHold`. `Fresh`: what a page still keeps is the row's, and what a request
  still keeps or adds relates the columns it will write to the row as it is now;
  every step either leaves limit and end alone or takes the claim away. `Marked`
  carries the reason of a mark to its commit. The bounds on rounding are lemmas
  about division (`Shown` for the page, `CutOff` for `int()`, `Rounding` for both).

*Only model-checked.* Liveness (`LapsedIsMarked`, `NoticedIsLoaded`, `SessionEnds`,
`OutcomeComes`, `TasksEnd`): reasoning about fairness needs ENABLED, which the
prover does not support. Every invariant, action property and refinement of the
passing runs is proved. The properties of the violation runs are false of the
code; `SerialInSync` and `UngappedRunsTheFile` prove two of them under the
conditions that they lack, `ClashIsTheApis` says exactly when the third holds (the
fourth, `ReEvaluated`, is a liveness property).

*Theorems under a condition on the behaviour* (`SerialInSync`, `TotalExactAlone`,
`UngappedRunsTheFile`, `UncrossedAccepts`, `AdminRemains`) have the form
`Spec /\ []Condition => []Claim` or `Spec /\ [][Condition]_vars => []Claim`. They
complement the cause invariants: those say that every failure has a named cause,
these that without the cause, put in terms of what sessions, scripts and admins do
and not of a history variable wherever that is possible, there is no failure. An
operator who lets each change settle before the next meets all the conditions.

## 6. Not modelled

* Dashboards, pages, templates, translations, QR codes: they change no state.
* Wording, encodings and headers of documents and pages.
* Passwords, the expiry of tokens, cookies: no state of the tables depends on them.
* Names and prices of plans; `is_active` of plans, which nothing assigns.
* The firewall on exits, downloads, DNS and certificates of the panel itself.
* Migrations and the deployment script: linear, without concurrency.
* The settings validator: a check at start.

## 7. Plan

The modules of section 2 exist. What would come next, in this order:

1. `PanelSpec`, an abstract specification of the panel: tables and a file that
   is always one that the tables once called for; `PanelSync` as its refinement
   where rebuilds do not overlap.
2. `EndToEnd`: `PanelSync`, `RelayHost` and `Traffic` composed, for the time from
   a mark to the client's last byte, and the bytes lost with each restart.
3. `Billing` as an instance inside `PanelSync`, with `due` as the image of
   `LapseOf`; now the two are tied by `LapsesAsAssumed` only, and the collector's outdated totals
   are a step of each (`StaleTotal`, `Collect`) and not `Traffic`'s own.
4. Proofs of that refinement and of what `EndToEnd` states.
