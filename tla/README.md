# Verification of aimili-gateway

TLA+ models of aimili-gateway, model-checked with TLC and, for nine components, proved
with TLAPS. The source is the reference: every
definition is translated from the code that `PROJECT.json` names in `map`.

Contents: [inventory](#the-system), [modules](#modules),
[runs](#runs-bounds-and-results), [fairness](#fairness), [proofs](#proofs),
[what is only model-checked](#only-model-checked),
[what is not modelled](#not-modelled), [findings](#findings), [plan](#plan).

## The system

aimili-gateway gives the users of one VPS a set of proxy egresses. A Go **Gateway**
(`internal/`, `cmd/aimili-gateway`) serves an API and a web page, keeps a SQLite
database and drives two neighbours: **3x-ui/Xray**, which terminates the public
protocols, and the Python **egress engine** (`services/aimili-egress`), which runs one
OpenVPN slot per egress. What needs root is done by **oneshot helpers** that systemd
starts when a file appears in a spool directory.

| part | state | operations | what is hard, and what makes it correct |
|---|---|---|---|
| protocol helper `scripts/aimili_xui_protocol_transaction.py` | snapshot directory per operation, spool of requests and results, the Xray runtime, the 3x-ui database | apply, finalize, renew, rollback, recover_pending | killed between two steps, half-failed rollbacks, re-run requests, leases; runtime and database must stay restorable, outcomes must stay told as decided |
| protocol switch `internal/orchestrator/protocolmode.go` | row per egress (active, desired, state, operation, hash) | switch, repair revalidation, recovery at start | three processes, timeouts racing answers, a renewal goroutine, a mutation lease; "ready" must mean "served" |
| self-update `internal/updatetxn`, `gatewayupdate`, `updatefetch`, two commands | lease, requests, staging markers, results, journal, two binaries, the service | submit, fetch, install, rollback, recover, finish | replaces the binary of the process that asked for it; a crash anywhere must leave a good build to serve |
| UI release `internal/uirelease` | generations, active link, journal | install, rollback, recover | shares lease and journal with self-update |
| egress orchestration `orchestrator.go`, `reconcile.go` | proxy groups, slots, inbounds, clients | enable, replace, rotate, disable, reconcile | compensation over three systems |
| mixed policy `mixedpolicy.go` | source policy, random credentials | set policy, rotate credentials | several inbounds changed one by one |
| subscriptions `subscription.go`, `adapters/xui/subscription.go` | published links | verify, repair aliases | consistency with the inbounds |
| main assignment `main_assignment.py`, with its callers in `vpngate_manager.py` | one document (operations, active operation, mutation lease), the main node and its standby | stage, commit, rollback, repair, recover, lease; connect, promote, boot | memory and file apart after a failed write, a promotion that runs beside the lock, crashes between two phases; one claim at a time, decisions stay decided and are what runs |
| main connection, slots and standbys `vpngate_manager.py`, `egress_repair.py`, `recovery_policy.py` | records of tunnels, OpenVPN processes and their markers, policy routes, repair rows, pins | connect, dial, promote, probe, reap, repair; add, stop, start, delete, switch, assign | four threads and the administrator on one exit, locks that are tried and given up, restarts; a failed exit must come back or reach a person, a live one must not be taken down |
| node pool `node_pool.py`, `vpngate_manager.py` | `nodes.json`, `blacklist.json`, state of a refresh | collect, replenish, refresh a country or all, rebalance, mark as failed | a scan of two minutes writes what it read at its start; bound of the pool, last node of a country, end of a refresh |
| proxy listeners `proxy_server.py` | places per listener, connections, DNS cache per tunnel with its generation | accept, resolve, connect, relay, close, purge | one thread per connection while the tunnel under it is switched; exact count of places, nothing left on the old tunnel |
| rest of the engine `vpngate_manager.py`, `vpn_utils.py`, `control_api.py` | panel, OpenVPN's output, routes, logs | API, parsing, diagnosis | I/O |
| account sync `internal/accountsync` | journal of one change | change, recover | one account in three systems |
| maintenance `internal/maintenance` | schedule, recovery runs | periodic checks | races with user mutations |
| project updates `deploy/vps/project_update.py`, `project_update_boot.py` | requests and results, journal with a snapshot, installed files, databases, pointer to the update engine | submit, fetch, install, restore, recover, fall back | replaces every program, and the updater itself; a crash at any file must leave one whole release or a journal |
| auth, sessions, store, HTTP, config, release tools, web page, deployment scripts | | | sequential, or pure I/O |

Interactions. The browser calls the Gateway; `handleProtocolMode` runs the switch under
the request's context. Gateway and helper share only files: the Gateway creates
`<op>.<action>.json`, the `.path` unit starts the helper, the helper writes a result and
unlinks the request, the Gateway polls for the result; a `.timer` unit runs recovery
every minute. The Gateway and the updater also share only files: lease and request
from the Gateway, marker from the fetcher, result from the root installer, which stops
and starts the Gateway in between. The engine's mutation lease is held by the Gateway
during a switch of the main egress; the engine refuses to move its main connection under
it. Every exit of the engine has a dedicated standby on a device of its own; supervisor,
keeper, checker and administrator meet on the exit's lock and the standby's lock, and all
exits meet in the pool of candidates. A switch of the main connection puts another tunnel
behind the proxy's main listener while connections run. The project updater works like
the Gateway's, with a fetcher and a root oneshot on timers. The main connection itself is
switched in two phases: the Gateway stages a node,
validates it from outside and commits, or the engine rolls back; a dedicated standby
replaces a main connection that has died.

The hazards that follow from this are listed in `PROJECT.json` at the line where they
bite, with the properties that watch them.

## Modules

| module | what it is |
|---|---|
| `SwitchDecision` | abstract: every operation is decided once, finalized or rolled back, and told as decided |
| `ProtocolTxn` | the helper and its spool, with any client that keeps the protocol |
| `ProtocolSwitch` | EXTENDS `ProtocolTxn`: the Gateway in the client's place, its record, goroutine, recovery |
| `ProtocolProofs` | the theorems of both: first the helper with any client, then the helper with the Gateway |
| `MCProtocolSwitch` | instance for TLC |
| `GatewayUpdate` | submit, fetcher, installer, journal, service |
| `GatewayUpdateProofs` | its theorems |
| `MCGatewayUpdate` | instance for TLC |
| `MainAssignment` | the engine's coordinator, lease, recovery loop, boot, standby |
| `MainAssignmentProofs` | its theorems |
| `MCMainAssignment` | instance for TLC |
| `ProjectUpdate` | requests, fetcher, install worker, snapshot and restore, boot program and its pointer |
| `ProjectUpdateProofs` | its theorems |
| `EgressRecovery` | one exit with its standby: processes and devices, repair rows, the standby's life, the probe before a promotion; EXTENDED by the next two |
| `ExitSlot` | the exit of a slot: supervisor, keeper, checker, administrator |
| `ExitSlotProofs` | its theorems |
| `MainConnection` | the main connection: bootstrap, maintenance round, keeper, checker, administrator |
| `MainConnectionProofs` | its theorem |
| `ProxyServer` | listeners, capacity, connections, DNS, and a switch of the main tunnel |
| `ProxyServerProofs` | its theorems |
| `NodePool` | the pool, its three scanning threads, the refresh, what fails meanwhile |
| `NodePoolProofs` | its theorems |
| `MCProjectUpdate`, `MCExitSlot`, `MCMainConnection`, `MCProxyServer`, `MCNodePool` | instances for TLC |

### ProtocolTxn

`live` and `row` are the mode of one inbound in Xray and in the 3x-ui database;
`snap[op]` the snapshot directory (phase, the two modes, whether the 180 s lease is
fresh); `leftover[op]` the temporary file of a rollback; `requests`, `results`, `asked`
the spool; `hpc`, `job`, `verdict`, `batch` the one process systemd allows. One action
per externally visible effect of a handler: `apply` is `ApplyAdmit` (the load of the
target that must still be in the old mode), `ApplySnapshot`, `ApplyOfflineTest`,
`ApplyRemove`, `ApplyAdd`, `ApplyPersist`, `ApplyVerify`; `_rollback_snapshot` is
`RollbackSnapshot` to `RollbackFailed`, shared by apply, rollback and recovery, which end
it differently. Each save of a phase belongs to the step before the effect it announces,
as in the code. `HelperCrash` may come between any two steps.

Abstractions. One egress: operations on others touch other rows and tags. An inbound is
its mode; modes differ in whether their clients carry flow `xtls-rprx-vision`, which
is all the rollback's boundary check looks at (the Hysteria auth updates are folded
into this). Time is `fresh` and `LeaseExpires`. A result for an older heartbeat is
dropped when a renewal is sent, as `readResult` does. Not modelled: a snapshot file
that cannot be written, malformed spool files.

### ProtocolSwitch

`gpc` is the place in `SwitchProtocolModeExpected`, `rollbackProtocolMode`,
`revalidateProtocolRepair` or `RecoverProtocolModes`; the mutation lock makes it a
single control. `rec` is the database row and `mem` the copy the code works on, so that a
save that fails leaves them different. `beat` is the renewal goroutine, `lease` the
engine's mutation lease, `gone` the cancelled request. `Send` and `Await` are the two
halves of `Client.execute`; `Verify` stands for the subscription (which reads the
database) and for public traffic (which passes Xray). `GatewayIsClient` says that
this Gateway does nothing the `Client` of `ProtocolTxn` could not, so what is proved of
`ProtocolTxn` holds in the composition; TLC checks it and `GatewayClient` proves it. A helper that is stalled for two minutes, long
enough for a renewed lease to lapse, is excluded by `LeaseLapses`. The branch of
`RecoverProtocolModes` for a ready row with two modes is unreachable and left out.

### GatewayUpdate

`lease`, `submitting`, `asked` are the web process; `due`, `fetching` the fetcher and its
path unit; `staging`, `requests`, `results` the spool; `journal` the active journal;
`binary`, `previous`, `serving` the host; `plane` the fingerprint of the data plane;
`ipc`, `run`, `outcome` the installer. The installer's program: `Scan` (journal before
results before staged requests), `Process` (preflight, baseline, journal), `Backup`,
`Stop`, `Replace`, `Start`, `Verify` with a `Checkpoint` after each effect, `Undo...`
(`rollbackAfterFailure`), `Recover...`, then `Publish`, `Unlink`, `Clean`, `ClearJournal`
or `Keep` (`finishRequest`). Outcome `restored` is the code's `rolled_back` with an error
code. A checkpoint that cannot be written ends the process with no result, as in the
code. `Reboot` restarts everything and moves `plane`, because the baseline hashes PIDs.

Left out: UI runs, dry runs, the direct command line, `PruneResults`, what
is inside signatures and downloads. Path-unit events are not lost; re-sending a run
that is already there changes nothing and is a stutter.

### MainAssignment

`mem` is the coordinator's document and `disk` its file; `_write` comes after the change
of the memory, so `Lost` (a failed write) leaves them apart and `Crash` falls back to
`disk`. `hpc`, `job`, `runner` are the handler that holds `main_recovery_lock` and
`mutation_lock` from its first to its last step, and whose thread it runs in: `StageBegin`
and `StageOk` or `StageFails`, then `Restored` or `NotRestored` (the second half of
`_restore`, shared by stage, `Rollback` and `Recover`), `RepairBegin` and `RepairOk` or
`RepairFails`. `Commit`, `Replay` and the lease calls are one step. `main`, `up` are
`active_openvpn_node_id` and its process; what `connect_node` leaves is `Connected` or
`NotConnected` (nothing touched, stopped, or up and not validated). `standby` and `taking`
are the dedicated standby and a promotion between its stop of the old tunnel and its
assignment of the new one. `loop` is the recovery thread: still in the boot, looping, or
dead of an exception. `told`, `retracted` and `astray` are history variables: the answers
clients have, the decisions a restart took back, and a node put there under a claim.

Abstractions. A released or expired lease is free and who holds it is left open;
the nodes of a final operation are dropped, nobody reads them; the time of an operation
(`late`) matters while it waits for its commit. `hpc = "dead"` is what an exception inside
`_acquire_runtime_mutation` leaves: both locks taken by nobody (`LeaseLapsesLocked`). A
failed write during the boot ends the process, which is `Crash`. Left out: slots and the
candidate refresh, a standby that dies by itself, malformed documents, the routing
settings that `previous` carries.

### ProjectUpdate

`asked`, `ready`, `results`, `lease`, `catalog` are the files the Gateway, the fetcher and
the root worker share; `files`, `current`, `db`, `running` the host, where a file is the
release it comes from and `db` the schema of the two databases with the identities in
them; `journal` is `active.json` with its snapshot. `pc`, `run`, `at` are the worker:
`apply_stop` to `apply_finish` with one step per file, then `unlink`; `apply_error` and
`rollback_...` the handler of an exception, `recover` the worker that finds a journal,
`boot_main`, `fall_back` and `promote_engine` the fixed boot program with its pointer.
`Kill` ends the process, `Die` an engine for good, `Power` the host.

Abstractions. A migration moves a database to the schema of the program that starts on
it. The checks of archives, layout, signatures and disk space are one refusal each.
Left out: `adopt_bootloader`, progress and error codes, the atomicity of a single write
(`atomic_json` is one step). The unlink of `active.json` is taken not to fail: with that
fault `HostIsWhole` would not hold (see the hazard at `project_update.py:580`).

### EgressRecovery, ExitSlot, MainConnection

`run` and `standby` are the records of the exit and of its standby, `hold` the OpenVPN
process on each device (in whose record it is, or in a thread's hand, and the marker on
its command line), `routed` and `dark` the policy routes and the tunnels that forward
nothing, `repair` and `sbRepair` the rows of `RepairStore`, `rounds` the failed rounds of
the standby. Four threads (`pc`, `job`) take the locks of the code: `opLock` is
`slot_operation_lock` or the runtime mutation lease, `sbLock` `standby_operation_lock`. A
step ends where the code gives up a lock, starts or waits for a process, or probes.
`promote_take` and `promote_put` are the two halves of a promotion; in between the tunnel
is in no record. In `ExitSlot` the supervisor reads the lists of slots at the start of
its round (`seen`) and visits with that; in `MainConnection` the supervisor is the
bootstrap and then the loop of `maintain_valid_nodes`, whose scan is one step here
(`NodePool` has its inside).

Abstractions. The other exits are met only through `usable`, the candidates they leave.
A policy-routing table goes with its device. An attempt that finds a lock taken waits, or
gives up within `MaxEvents`. `failed_round` is `Over`, with the budget of seconds counted in
rounds. `Settled`: a dial or a scan takes longer than the two statements between
`promote_take` and `promote_put`. Left out of `ExitSlot`: `rotate_slot`, create and delete of
managed slots, which repeat switch, add and delete; `check_managed_slot`; the legacy
requeue for a standby. Left out of `MainConnection`: the claim of a fixed address, routing
modes other than auto, the choice between a persisted and a hinted node, and an
assignment under way (that is `MainAssignment`). Both leave out the exception path
of `_maintain_standby`.

### ProxyServer

`pc`, `via`, `device`, `socket` are the thread of each connection; `own` is
`ProxyCapacity`, `registry` the `ConnRegistry` of each listener. `resolve_device` and the
connection to the target are different steps, as are the DNS query and what it leaves:
`cache`, `pending` (the owner of a joint lookup), `current` (the connections that have seen
the present generation). `epoch` counts the OpenVPN processes of a device; `mpc` is the
thread that switches the main connection: stop, start, check, `close_all`, purge. The
SOCKS5 and HTTP dialogues and the relay of bytes are one step each; the number
`proxy_resource_headroom` allows is any up to `Configured`.

### NodePool

`pool` and `black` are the two files; `scan` what the scan in progress has read and
found, `pc` the collector, the worker that replenishes, and the refresher; `refresh`,
`requested`, `priority`, `resume` the flags they share, `lease` and `maint` the locks.
`rebalance_valid_pool` is an operator: `First(T, S, k, by)` says that T are the first k of S
sorted, `add` fills up to a limit, `Cover` takes one node per country.

Abstractions. `nodes.json`, `blacklist.json` and the state file are written in one action.
A rank says all that quality, identifier and country code say. Left out:
`merge_country_pool` (no caller), the files with OpenVPN configurations, the limits
`capacity.py` samples (a scan that stops), the read-modify-write of `connect_node`, nodes excluded
while a repair is manual, and a restart between two scans.

## Runs, bounds and results

| run | instance | shows |
|---|---|---|
| `protocol_switch` | 2 switches, 2 faults of reject, network, timeout, storage, lease, disconnect, gateway_crash, database; 1.02 M states | a ready record is served, agrees with the helper, stays; `operation_not_applied` is final; the Gateway is a legal client |
| `protocol_switch_live` | 1 switch, 2 faults: both processes crash, xray, database, x-ui, network and leases fail; 0.14 M states | published outcomes stay true and refine `SwitchDecision`, the operation is always restorable, lock released, record settles, snapshot closes |
| `gateway_update` | 2 runs, 3 builds of which one is bad, 2 faults of all 8 kinds; 0.44 M states | builds kept, good build served, repair freezes |
| `gateway_update_live` | the same, 2 faults of installer_crash, storage, systemctl | every run ends |
| `project_update` | 3 requests, 2 releases, 2 engines, 2 files, 2 faults of 4 kinds, 1 change of identities; 0.12 M states | one whole release or a journal, results tell what runs, a failed engine stays out, every request ends |
| `main_assignment` | 2 assignments, 3 nodes, 2 faults of crash and failed write; 0.85 M states | answers stay true, the node moves by right, decisions are served, assignments end |
| `main_connection` | 2 nodes, 1 standby device, 1 failed round, 1 event | a repair is decided against the main reported, or one not up or not verified, and replaces no other; a main that does not forward recovers or is handed over |
| `exit_slot` | the same for a slot | a failed exit recovers or is handed over; the keeper reaps no live exit |
| `proxy_server` | 2 connections, one of which may come to the slot, 3 devices, 1 process started by a switch and 1 promotion; 0.75 M states | exact capacity, no connection on the old tunnel, caches of the tunnel that runs |
| `node_pool` | 3 nodes of 2 countries, target and limit 2, 2 events; 0.36 M states | bound of the pool, last node of a country, outcome and end of a refresh |
| `main_stuck`, `node_pool_stale` | one fault; one failure during a scan | the [findings](#findings) |

Why the bounds suffice. Two operations are the least that let an old snapshot meet a
newer commit; operation ids are random, so the two orders of `Rank` are one instance with
the roles exchanged. Two modes that differ in client flow make the boundary check both
pass and fail. A rollback that fails after a failed apply takes two faults, which
`protocol_switch_live` has. Three builds let a bad one be newer than the installed one
and a good one newer still, so that an update after a restored update and a rollback
after an update both occur. Two faults in `gateway_update` let a recovery itself be
interrupted.

In `main_assignment` two operations are the least that let a second claim meet the first,
three nodes let the old node, the new node and the standby differ, and two faults let a
failed write be followed by the crash that undoes it, or a recovery be interrupted.
`OutcomeIsServed` and `MainMovesByRight` exempt a promotion that had begun before the
claim, and `PendingEnds` a rollback cut short (`main_stuck`) and a recovery thread that
died of a failed write.

In `project_update` two files are the least with a half-copied state (one of them the
configuration), two releases let a check, an update and an update after a failed one
follow each other, of which the second needs a newer engine; two faults let a restore be
interrupted and let an engine fail after it was promoted. In `exit_slot` and
`main_connection` one event is one of: an operation of the administrator, a tunnel that
dies or goes dark, a candidate that comes back, a restart, a lock found taken, a standby
that fails to come up. The initial states have the exit with and without a tunnel, so a
dial, its failure, the standby's rounds and a promotion are all met; a second event
takes the liveness check past its time. In `proxy_server` two connections share a cache
entry or a lookup, and two places with one reserved make the main listener borrow and
be refused. In `node_pool` three nodes over a limit of two make a country lose its
node unless it is covered, and two events let a node fail in the middle of a scan that
a refresh interrupts. The second exception of `CountryKept` needs two nodes of each country and
three events (a node is taken, fails, and its entry expires): on such an instance, with a target
of three, `CountryKept` held over 10.8 M states and was refuted without the exception; the
run is the smaller one, and the theorem is for all.

An x-ui restart is the one fault `CrashSafe` does not survive: between rollback's re-add
of the old inbound and its restore of the row, the restart puts Xray back on the new mode,
and the verification, which reads tags and the row, passes. The history variable `raced`
marks exactly that window, and `CrashSafe` is claimed outside it.

`protocol_switch` leaves out faults of xray, helper and x-ui, the same ones the theorems
of the Gateway exclude by `HelperReliable`: with a failing xray or a killed helper and two
operations none of `ReadyIsServed`, `OutcomeMatchesRecord`, `CommittedStays` and
`GatewayIsClient` holds, and with a restart of x-ui `ReadyIsServed` does not (see
[known divergences](#known-divergences), and the comparison of tags only). The
one-switch run has them.

Deadlock is checked in `exit_slot`, `main_connection` and `node_pool`, whose loops never
end. In the other models every behaviour may stop: users need not ask and a machine
without requests is at rest.

## Fairness

* `WF(GatewayStep)` and `WF(Helper)`: both processes run; systemd restarts the Gateway
  and starts the helper while a request file exists (`PathExistsGlob`) and every minute.
* `WF(LeaseLapses(op))`: time passes, so an unrenewed lease of 180 s ends.
* `WF(SubmitRequest)`, `WF(Fetcher)`, `WF(Installer)`: the web process finishes its call,
  the path units start their services.
* `WF(Handler)`, `WF(Boot)`: dials and probes of the engine have timeouts and the process
  runs. `WF(Recover)`: the recovery loop tries every five seconds; that it finds the
  locks free again and again is an assumption, as it tries them without waiting.
  `WF(OpLapses(op))`: time passes.
* `WF(Worker)`, `WF(fetch(r))`: systemd's timers start the install worker and the fetcher
  of project updates every five seconds.
* `SF(Supervisor)`, `SF(KeeperStep)`, `SF(Checker)`, `WF(AdminStep)` (`ExitSlot`,
  `MainConnection`): the loops of the engine run for ever and come back every few seconds.
  They try a lock without waiting, or wait for it, so strong fairness is the assumption
  that a lock that is free again and again is got at last; probes and dials have timeouts.
* `WF(Scan(t))` and `WF(Scan("refresher") \/ Refresher)` (`NodePool`): fetches and probes
  have timeouts, and the worker of the refresh waits with a deadline.
* None for users, faults, leases, promotions, or the renewal ticker.

## Proofs

`ProtocolProofs`, part one, the helper (for every set of operations, modes, ranks and
faults):

* `Inductive`: `Spec => []IInv`. `ResultsTruthful` is not inductive: one must know that the
  verdict about to be published is on disk (`VerdictInv`), that a rollback works only on a
  snapshot that can be restored (`ControlInv`), that recovery never comes back to an
  operation it has settled (`SweepInv`), and that requests name real modes (`AskedInv`).
* `TypeCorrect`, `Truthful`: two of its parts.
* `Implements`: `Spec => Abstract!Spec`. Tombstones only appear from open snapshots and
  stay, and a result is written only when it matches.
* `Final`: `NotAppliedIsFinal`, from `IInv` and `FInv`. What the helper works on, or has
  listed, is in the spool (`InSpool`): a crash empties the listing, the files stay. A
  rollback comes after the apply of its operation in every listing, by the sorted names,
  and no apply is asked for once a rollback is (`ApplyFirst`); so a snapshot is only made
  for an operation whose rollback has no answer yet.
* `Safe`: `CrashSafe`, from `IInv`, `FInv` and `CInv`. `CrashSafe` itself is far from inductive. A
  snapshot is made, and an apply answered, only for an operation that was asked for
  (`AskedFirst`), so a lone operation is the only one with a directory. Each phase is saved
  before the effect it announces, and a rollback of a phase before the first effect skips
  remove and add (`PhaseInv`): so what a rollback is about to verify is the old mode, in the
  runtime and in the row (`ServedInv`). A finalize drops the snapshot for good, so nothing
  may undo the operation between the Gateway's last look and the finalize: it is asked for
  under a fresh lease, comes before the rollback in every listing (`FinalizeFirst`), and
  recovery starts when the listing is done (`RecoverLast`). An apply that is read again is
  refused, as the row is its new mode by then (`ModesInv`). `ServedInv` holds outside the
  window of `raced`; the rest holds in it too.

`ProtocolProofs`, part two, the Gateway with its helper (for every set of operations, modes
and ranks):

* `GatewayTypes`: `GTypeOK`, whatever the faults.
* `SwitchInvariant`: `GSpec => []JInv`, where `JInv` is the helper's `IInv`, `FInv` and `CInv` with
  `GInv`, under the hypothesis `HelperReliable`: `FaultKinds` has none of xray, helper_crash
  and xui_restart. The hypothesis is needed, as the runs with those faults show; crashes of the
  Gateway, lost and late answers, lost leases, disconnects, rejected templates, failed
  database transactions and failed saves of the record are all allowed. The argument: at
  most one snapshot is open, and it leads back to `Base`, the mode owed (the record's, or
  the one its operation was finalized in; `RowInv`, with `BodyInv` for the effects of an
  apply or a rollback half done). Finalize is asked for only when the Gateway has seen the
  new mode served (`StageInv`), each answer stands for what the helper did (`AnswerInv`), and
  no earlier apply is left in spool or listing to be read again (`QueueInv`). The record and
  its copy in memory say only what the helper can still decide (`RecInv`, `MemInv`): a
  save that fails, or a crash after finalize, leaves them behind and never ahead. TLC
  checked `GInv` with two and three modes, equal ranks, and two and three faults first.
* The proof goes by kinds of steps: local steps of the Gateway, saves of its record,
  requests, and then each handler and each step of the helper's cycle.
* `GatewayClient`: the action property `GatewayIsClient`; `HelperPromises`: what part one proves of the
  helper with any client therefore holds with this one. `OutcomeRecorded`, `CommitHolds`,
  `ReadyServed`: `OutcomeMatchesRecord`, `CommittedStays` and `ReadyIsServed`, all from `JInv`.

`GatewayUpdateProofs` (for every set of runs, builds, good builds and faults):

* `UInductive`: `Spec => []UInv`. The argument: a journal is open whenever the host is being
  changed (`Journaled`), the build kept is the journal's from the backup on (`Kept`), the
  service runs the installed build or is down (`Hosted`), and only an outcome other than
  repair reached with a good serving build lets the journal go (`Concluded`, `Quiet`).
* `UTypeCorrect`, `Serves`, `OldBuildSafe`, `JournalOwned`: its parts.
* `RepairFreezes`: the action property `RepairStops`, from `Frozen`.

`ProjectUpdateProofs` (for every set of runs, releases, engines, number of files and faults):

* `PInductive`: `PTypeOK` and `PInv`. The argument: while the journal says `stopping` nothing is
  changed; from `installing` on its snapshot is the old release in all its parts
  (`Saved`); the files before `at` are the new release's while copying and the old one's
  while restoring, the current version last (`Copied`, `Restored`); a journal is removed
  only when its result is published and one release is whole (`ClosedIsServed`).
* `PTypeCorrect`, `AlwaysWhole`: `PTypeOK` and `HostIsWhole`.
* `Outcome`: `OutcomeIsServed`, from `Copied` and `Restored`.
* `FailedOut`: `FailedEngineStaysOut`, from `PointerInv`.

`MainAssignmentProofs` (for every set of operations, nodes and faults):

* `MInductive`: `Spec => []MInv`. The argument: a write, done or failed, touches the operation
  with the claim, or one when nobody has a claim (`Written`), so memory and file each keep
  one claim (`OneClaim`), and a crash, which takes the file for the memory, does too. The
  handler's step tells the state of its operation (`HandlerHolds`), so no lease can be
  active beside it. `NoStranger` survives a promotion only by `astray`.
* `MTypeCorrect`, and `MMoves`: the action property `MainMovesByRight`, from `MInv`.
* `MServed`: `OutcomeIsServed`, from `MInv` and `FileBehind` (what is decided in the file is
  decided in memory, so a crash decides nothing), itself proved.
* `MAnswers`: `AnswersKept`, inductive with `MInv`, as decided operations never move again
  while the engine runs (`FinalStays`).

`ProxyServerProofs` (for every number of connections, limits and switches):

* `XInductive`: `XTypeOK`, `XInv`, `CapacityExact` and `DnsOfTunnel`. The argument: a thread
  has a device from its request on, an answer counts only while the process it came
  through runs, and from `close_all` until the next switch every open connection of the
  main listener is on the new tunnel, since one that is registered later resolves the
  new device (`Sound`).
* `XTypeCorrect`, `Capacity`, `Dns`, `NoStale`: its parts. A place more or less is a thread
  more or less in the set counted, by the cardinality lemmas of the library.

`NodePoolProofs` (for every set of nodes and countries, any ranking and catalog):

* `NInductive`: `NTypeOK`, that the thread that scans has the lease (`Leased`), that a scan for
  all countries is the refresher's (`ForAll`), that a refresher at work means a running
  refresh (`AtWork`), and that what a scan has found was in the pool or has passed a probe, and
  what has failed is out and not probed again (`FoundKnown`, `FailedOut`, `NotProbedYet`). The bound
  of the pool comes from lemmas about `add`, `Cover` and `rebalance_valid_pool`, which never
  exceed the limit they are given.
* `NTypeCorrect`: `NTypeOK`. `Outcome`: `OutcomeStays`, as only a running refresh is given an outcome.
* `CountryStays`: `CountryKept`. A round of `add` takes all it is offered unless it fills the pool, and
  a full pool takes nothing more (`AddFills`); the anchor of a country is one node of it
  (`CoverSpec`). So a country with an available node that ends with none was not reached
  by the round of the anchors, and every place went to a node protected or asked for or to the
  anchor of another country, whose only node it is (`RebalanceAnchors`). The two ends of a scan pass such a
  country on, except that `sort_all_nodes` drops the failed node that stood for it.

`ExitSlotProofs` (for every set of candidates and devices, any bound of rounds and events):

* `SInductive`: `Types` and `RoundsLeft`; `STypeCorrect`: `STypeOK`. That the failed rounds of a standby
  keep their bound is not inductive by itself: a keeper in the middle of a round must have
  a failure left in its budget, because `begin_round` looked and nobody else adds one.
* `ReapSpares`: `ReapSparesExit`. The keeper leaves its wait only by `maintain_standby` (every other
  step of every thread is shown not to move it), which empties what no record names and the
  device of the live standby; a live exit is named by its record, and its device cannot be that
  of a live standby, as a device has one process.

`MainConnectionProofs` (for every set of candidates and devices, any bound of rounds and events):

* `MainInductive`: types, and what a thread holds where it is (`Holds`): the mutation lease from the
  decision of a repair to the end of the main it replaces, and while it connects; the
  standby's lock while it provisions one or has a promoted tunnel in hand. The bootstrap works without the
  lease, so it must be alone (`BootQuiet`). A promotion writes its record without the lease
  too; the standby it has emptied lets no repair decide until it has written (`PutAlone`).
* `OnlyFailedReplaced`: `OnlyTheFailedIsReplaced`. A step of one thread is summed up by `Step` and `Enters` (what it
  leaves to the others, and how it comes into a repair or a promotion), which each action
  is shown to satisfy; one lemma, `StepKeeps`, does the rest.

Assumptions: those named in the modules (modes and `None` differ, `None` is neither a
node nor a thread, builds are ordered by naturals, a fault bound is a natural, devices
differ, there is a newest release, and, in `PoolAssumption`, that any finite set of
nodes can be sorted), and `HelperReliable` where a theorem of part two says so. Each is
evaluated by TLC too.

## Only model-checked

Liveness (`GatewayAvailable`, `SwitchSettles`, `SnapshotsClose`, both `RunsEnd`, `PendingEnds`,
`FailureIsHandled`, `MainRecovers`, `RefreshEnds`), which is out of the prover's reach. Every other
property of the passing runs is the statement of a theorem. The safety properties of `ProtocolSwitch` hold with a failing
xray or a killed helper only for one switch, which `protocol_switch_live` checks in part;
the theorems say nothing of those faults.

`RunsEnd` of `GatewayUpdate` holds for crashes of the installer, storage and systemctl; it
fails for a killed fetcher, a Gateway killed inside Submit, and a reboot in either: the
fetcher's path unit is not triggered again, so the run stays pending and its lease
refuses later runs. `SwitchSettles` is checked without the browser that disconnects: it
cancels the rollback and its saves too, and the record stays interrupted until the
Gateway starts again. A crash inside the end of a failed run, between its request and
its staging, leaves a marker that starts the installer in vain; no property speaks of
it. `FailureIsHandled` speaks of exits that had a node. `RefreshEnds` does not say that a
queued refresh was heeded: it may give up after its 120 seconds.

## Not modelled

Parts with status `not_modelled` in `PROJECT.json`, with the reason. Inside the modelled
parts: several egresses at once, wording and error codes where no decision depends on
them, the contents of templates, signatures and links, files that are corrupt, and what
each module's section leaves out. A switch that starts between the updater's busy check
and the stop of the Gateway needs `ProtocolSwitch` and `GatewayUpdate` composed.

## Findings

Each is a run that TLC refutes, with the sentence of the repository it contradicts.

| run | what happens |
|---|---|
| `main_stuck` | a crash while an assignment is rolling back: recovery, rollback and repair all leave it, and the main connection stays down and blocked |
| `node_pool_stale` | a candidate that fails during a scan is written back as available when the scan ends, and its entry of the blacklist is dropped |

### Known divergences

Met while modelling and checked with TLC on variants of the modules, but not kept as
runs: the property of the module above exempts the case, or the fault is left out.

* Protocol switch: a complete rollback whose last listing fails keeps its snapshot; after
  a repair was revalidated and a second switch committed, recovery restores the first
  snapshot over it (`CommittedStays` with xray faults). Finalize may answer after the timeout;
  the in-line rollback then takes `operation_finalized` for a failure and marks a repair
  that has no snapshot.
* Self-update: a reboot between result and journal makes recovery undo an update already
  reported as a success.
* Main connection: the standby's thread writes the main's record after it gave the locks
  back, under a lease granted in between (`vpngate_manager.py:6360`), and the background repair of a
  failed assignment takes the standby away and is then refused by the guard of
  `stop_active_openvpn` (`:6616`).
* Main connection: a report that was overtaken. A repair looks whether the main it was told
  about is still the one that failed when it decides (`vpngate_manager.py:4145`, "must not roll a
  newer healthy main connection back"), and not again when it takes the main down. If the newer
  main was not verified at the decision, a probe that succeeds before the take does not stop
  it. TLC needs five events for it; `OnlyTheFailedIsReplaced` therefore speaks of the decision,
  and of who the main is until the take.
* Slots: an exit that is on and empty takes its ready standby only when the pool offers a
  node as well (`:5928`), so with an empty pool it waits; an orphaned process of a standby is
  not reaped while its repair is manual (`:6425`).
* Node pool: an unavailable node in use (a pin, say, that failed longer ago than its blacklist
  entry lasts) counts as its country's anchor in `rebalance_valid_pool` (`node_pool.py:190`, protected
  nodes are taken with `allow_unavailable`, `:181`), and `sort_all_nodes` drops it right after
  (`vpngate_manager.py:4808`). When the places are taken, the country loses its good node to the
  second node of another one. The design asks for at least one node of every country that is really
  available
  (`docs/superpowers/specs/2026-08-31-stable-runtime-order-and-country-cache-design.md:209`, `:217`).
  Seven steps and three events; the second exception of `CountryKept`.
* Project update: when an engine exits badly after a change has begun, the boot program
  publishes `repair_required` at once (`project_update_boot.py`, `record_failure`), and the previous
  engine, which could undo the change, leaves it for that reason;
  `docs/superpowers/specs/2026-09-25-project-updater-v2.md:10` asks for the recovery first. A change
  of an identity between the first reading and the stop of the services is not told
  apart from damage and ends in `repair_required` too.

## Plan

Done: `ProtocolTxn` with `SwitchDecision`, `ProtocolSwitch`, `GatewayUpdate`, `MainAssignment`,
`ProjectUpdate`, `EgressRecovery` with `ExitSlot` and `MainConnection`, `ProxyServer`,
`NodePool`, and the proofs above. Left, in this order:

1. `UIRelease`: generations and recovery under the journal of the self-update; composed with
   `GatewayUpdate`.
2. `MixedPolicy` and `AccountSync`: changes over several systems with compensation, an
   abstract specification "all or none, or marked for repair" that both implement.
3. `ProxyGroups`: orchestrator, reconciliation, maintenance.
4. `MainSwitch`: the Gateway's side of an assignment (`replaceMainCandidate`,
   `repairMainCandidate`) composed over `MainAssignment`, and the lease of `ProtocolSwitch`
   refined by the lease there.
