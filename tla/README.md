# Formal model of the Matreshka control plane

This project models the control plane of Matreshka, checks it with TLC and proves its central theorems with
TLAPS. Source paths below are relative to the root of the repository.

## The system

One JavaScript process (`src/server`, Bun and SQLite) decides everything. It reaches the operating system only
through a root agent written in Go (`agent/cmd/matreshka-agent`), over a Unix socket, and the agent runs the
scripts in `infra/scripts`. Two proxy engines, Xray and Hysteria, carry the traffic. The code between two
`await`s runs without interruption, so one action of a model is one turn of the event loop; whatever happens
while a turn awaits the agent or an engine happens in between. The agent serves each connection in a goroutine
of its own and does not notice when the caller has given up.

| Component | State | Operations | What is hard |
|---|---|---|---|
| Device outbox, `services/device-sync.ts` | `device_sync_jobs`, `redemption_sessions`, the draining flag | redeem, revoke, drain every 5 s, retry with backoff, recover after a start | requests and timer reach for one job; crash while awaiting; late answers |
| People and devices, `services/people.ts` | `people`, `devices`, `credentials`, `invitations` | create, reinvite, archive, Hysteria check | a device is reinvited while another job of it is open |
| Recovery config, `services/engine-runtime.ts` | `runtime/xray.json` | add, revoke, render | one file for all calls; one revoked credential blocks every render |
| Engine configurations, `adapters/engines.ts` | `engine_configs` | preview, apply, rollback | version and credentials read before the await, row written after it |
| Root agent, `main.go`, `apply-config` | `/etc/matreshka/engines`, `.previous`, systemd | users, configs, services, updates, backups | partial failure, restore, goroutines at the same time |
| Traffic, `services/traffic.ts` | `traffic_cursors`, `traffic_samples` | collect every 30 s, compact, overview | counters that restart, failed polls, commits one by one |
| Presence, same file | `device_presence`, facts in `devices` | online, offline, unknown, long absence | answers of two polls in the other order |
| Confirmed operations, `services/operations.ts` | `confirmations`, `operations`, listeners | preview, confirm, execute | nothing recovers an operation whose process has died |
| Engine updates, `update-engine` | `/opt/matreshka/engines`, `engine_versions` | download, unpack, link, restart, roll back, prune | death between two commands, a timeout before the end |
| Monitoring, `services/monitoring.ts` | `monitor_states` | collect every 60 s | two observations, hysteresis, a kill between event and row |
| Routes, `services/routes.ts` | `route_drafts`, `route_revisions` | edit, reorder, publish, rollback, discard | positions renumbered by each operation, fixed first and last rules |
| Owner authentication, `auth/webauthn.ts` | owner, passkeys, sessions, challenges, bootstrap link | register, sign in, revoke, reset | verification awaited between read and write |
| First setup, `services/setup.ts`, `finalize-domain` | four files, certificates, nginx, engines, the mode of the process | ask for a domain, replace, roll back, restart | failure between any two files; the process believes in the setup until its restart |
| Updater, `apply-update` | releases, `current`, environment, database and its log, snapshot | update, roll back, prune | failure between any two steps; a log beside another database |
| Journal, `services/journal.ts`, `web/journal.imba` | `events`; the list a page shows | record, list; filter, search, more | answers in another order than the requests |
| System service, HTTP, CLI, other views | views | read | no decisions |

They interact by calls inside the one process, by shared tables, and by shared files: `runtime/xray.json`,
which the outbox writes and the agent copies; `engines/xray.json`, which both the outbox and the owner's
`apply` replace; and the environment of the service, which setup and updater replace and the process reads
when it starts.

For each component the question is the same: does what the database says, what the files say and what the
running process does agree, once nothing is under way, whatever was interrupted before? For the outbox that
also means that access is granted at most once, and that no late call or retry brings back a device that every
part of the system has let go of; for traffic that each byte is counted
once; for the two sources of events that an incident, an absence and their ends are told once and in turn, and
only when they happened; for the authentication that there is one owner, who always has a key.

## Modules

| Module | Contents |
|---|---|
| `DeviceSync` | outbox, devices, invitations, recovery config, goroutines of the agent, Xray |
| `Access` | what the access of a device goes through: issued, taken in, granted, withdrawn |
| `DeviceSyncProofs` | inductive invariant and refinement; the engines agree again once a call has run alone |
| `EngineConfig` | revisions, the script of the agent, provisioning through the same file |
| `EngineConfigProofs` | types, a rejected template gets nowhere; a call that runs alone leaves the active revision installed, or the file it has found |
| `Traffic` | counters of the engines, polls, cursors, samples, compaction |
| `TrafficProofs` | types; each byte once, none lost; the samples hold what was counted, day by day |
| `Sums` | theorems on induction over sets and numbers, on sums over sets and on quotients |
| `Operations` | confirmations, operations, the goroutines that carry them out, the script that updates an engine |
| `OperationsProofs` | one operation for a confirmation, decided once; the engine's link and the record of its version |
| `MonitorStates` | the rows of `monitor_states`, which the next two share |
| `Presence` | polls of the engines, presence and facts of devices, what the journal tells of them |
| `Monitoring` | services, disk and certificate, incidents and their ends, kills between two writes |
| `WatchProofs` | events take turns, nothing untold, nothing unconfirmed; absence is real and last activity right, one poll at a time |
| `Setup` | the domain of a new server: request, script with its trap, restart of the panel |
| `Updater` | update of the control plane: release, database, environment, rollback, pruning |
| `HostProofs` | of `Setup`: the files end with one name; of `Updater`: release, environment and schema end together, no write is lost |
| `Owner` | bootstrap link, challenges, passkeys, sessions |
| `Routes` | draft and revisions of the routing rules |
| `Journal` | the event list of the server and the page that shows it |
| `Lists` | rows in the order of a query |
| `PanelProofs` | of `Owner`: one owner with all the keys, the link spent, the challenges limited; of `Routes`: the last rule stays last, publications are clean; of `Journal`: the pages join |
| `MCDeviceSync`, `MCEngineConfig`, `MCTraffic`, `MCOperations` | instances for TLC |
| `MCWatch`, `MCHost`, `MCPanel` | instances for TLC of two or three modules that share no state |

The last three put components that do not touch each other into one run: a behaviour moves one of them, which
`part` names, and leaves the others as they began. Nothing is composed there but the state spaces, which add
up instead of multiplying. What does interact is in one module: the outbox with the agent and Xray,
provisioning with the owner's configurations, operations with the script that updates an engine, setup and
updater each with the process and the host.

Definitions named `Bug_...` are plausible faults of the definition that follows them. No specification uses
them; replaced for the original, each makes the property it is meant for fail.

### DeviceSync and Access

A row of `device_sync_jobs` is a record of `job`, numbered in order of `created_at`. `Process` is the turn
that claims a job, renders the config and calls the agent; `Redeem`, `Revoke` and `DrainStep` contain it,
because the code calls it without an await in between. `AgentAccepted`, `AgentRefused` and `AgentTimeout` are
the turns after the await, `AgentInstall`, `AgentApply`, `AgentRestartsXray` and `AgentFails` the steps of a
goroutine. `Crash` and the two `...Interrupted` actions end the process between commits; `Restart` is
`recoverInterrupted()`.

Abstractions: attempts and the time of the next one become the statuses "waiting" and "failed"; a deadline
passes in `Lapse`; an agent that cannot be reached is `AgentFails` of a goroutine that has done nothing;
`install()` is one step; the two transactions of creating a device, which no await separates, are one action.
Sessions already open in Hysteria are not modelled, only what it is told about a new one.

`Access` is stated over one function, the access of each device. `AccessOf` is the refinement mapping and
looks at everything that can let the device in: the status, the credentials, the users Xray serves, the
installed config, the rendered file that a goroutine is about to install, and the goroutines that are adding
the device (`Known`). "withdrawn" means that none of them knows the device any more; until then, and for as
long as a late answer has made it active again, a device that was let in and is no longer is "lingering". So
`Access` does not promise that a revocation ends at once, or that no device is revived (that is the finding
`revived`): it promises that a device is let in only after an engine has taken it in, that an unused device is
withdrawn only while no engine knows it, and that a withdrawn one never comes back.

`doubts` is a history variable: "call" from the start of a call that overlaps another to the next one that
starts alone, "file" until the next installation that is not overlapped, "users" until Xray has been started
with such a file. `EnginesAgree` speaks of what is not in doubt; what an overlap leaves is the finding
`overwritten` of `EngineConfig`, where the owner's configurations join in.

### EngineConfig

A call is an `apply()` or the provisioning of a device, followed through the agent. `Apply` is the turn before
the await with the version and the credentials as they are then, `Test` to `Restore` are the lines of
`apply-config`, `Applied` is the transaction after the answer, with the unique version. Provisioning is
shortened to what it does to the files; its jobs are the subject of DeviceSync. Templates are told apart only
by whether `xray run -test` rejects them (`Invalid`) and whether the service dies of them (`Unfit`).
`systemctl is-active` may see a service that is about to die, since the unit is `Type=simple`. A failure
during `Restore` is left out.

Calls overlap as they do in the code, where nothing orders the owner's `apply()` and the provisioning by the
outbox. `doubts` is a history variable; the code knows nothing of it. "call" is there from the start of a call
that overlaps another to the next one that starts alone; "file" and "service" from then, or from a call that
is abandoned or a provisioning that is refused, until a call that is not overlapped succeeds: a provisioning
rights the file, an `apply()` the service too. `ActiveIsInstalled` and `RefusalRestores` speak of what is not
in doubt; `DatabaseIsTruth`, which is violated, of everything.

### Traffic

A flow is a device on an engine with one cumulative counter; upload and download are accounted in the same
way, each against its own cursor. `Answer` is the moment the engine reads its counters, `Deliver` the later
turn that records them, asks the next engine or compacts. `Fail` is the catch block. `Crash` leaves any subset
of the flows of one answer recorded, since each has a transaction of its own, and, for the commits listed in
`CutAfter`, a compaction cut short. A cursor of 0 stands for a missing row too. `counted` and `carried` are
history variables.

### Operations

`Confirm` is `confirm()` with `execute()` up to its await; `Completed`, `Failed` and `Timeout` are the three
ways the await ends, `ProcessEnds` the fourth, which leaves the row "running". `script` is what the goroutine
of an operation does; for an update it goes through `update-engine` command by command: `Begin` to
`DownloadFails` before the trap, `MakeDirectory` to `Check` under it, `Relink`, `Remove` and `Reload` as the
trap, `Prune` after it is taken off. `AgentDies` ends every script where it is, without a trap, because
systemd ends the processes of a unit together.

Abstractions: one engine; versions are told apart by whether their process dies (`Unfit`), and the check may
come before the death, since `systemctl is-active` does not wait. The service that stays dead stands for one
that systemd starts over and over. `service.stop` and `service.start` stand for `nginx.reload` and
`backup.export`, which only answer; `device.revoke` belongs to DeviceSync. Another payload than the previewed
one has another hash and is refused, so a confirmation carries its request. `Pin` is external: `seed()`
inserts the pinned versions only if there are none, and no source changes them, so that `engine.update` can be
confirmed only after a statement like the one in `tests/operations.test.ts`. `doubts` is a history variable:
"version" after an update whose end the control plane did not see or which failed while pruning, "files" after
a script was cut off.

The constant `Overlap` says whether an update may start while the script of another runs. Nothing in the code
prevents that, and with `Overlap` true `LinkIsComplete` fails: of two updates to one version both find no
directory, one rolls back, the other sets the link, and the first removes the directory. The run and the last
two theorems are for one update at a time.

### Presence

`Begin` is `collect()` up to its first await, with the time it keeps as `reference`; `HysteriaAnswers`,
`XrayAnswers` and `Fails` are the turns after the two awaits, which share `Turn`: rows of the active devices,
the row of the engine in `monitor_states` with its event, and, after Xray, `updateDeviceFacts()` for each
device. `Conclusion` is that function; `OfConnections`, `OfTraffic` and `Unanswered` are the three updates of
a row. `Pause` and `Resume` stand for revoking, archiving and activating again, seen from here. `Crash` ends
the process between turns: the writes of one turn are short, and splitting them is done in `Traffic` and
`Monitoring`.

Abstractions: of a count of misses only none, one and more matter. The window of two minutes and the absence
of a day are `Window` and `Day` on a clock of five moments. Of the journal the last two events of each subject
are kept, which says whether they take turns. `activity` and `unfinished` are history variables.

### Monitoring and MonitorStates

A poll awaits a probe and then goes through its keys in one turn, but each event and each row is a write of
its own. `Collect` is the turn as a whole, `KilledWhile` the turn of which the process completed some rows and
perhaps one more event. `Answered` is `observeService()` and, with the same form, `telemetryFailure()` and
`telemetrySuccess()` of `traffic.ts`; `Threshold` is `observeThreshold()`. `seen` and `told` are histories,
the last two observations and events of each key; `torn` the keys whose event was written and whose row was
not, of which the journal may be told again. A certificate that cannot be read is `Unread` and no observation.
A disk that cannot be read is an empty one, as in the code, which cannot tell them apart either.

### Setup

`Finalize` and `Resolved` are `SetupService.finalize()`; from `Check` on it is the script, which the agent
starts as a unit of its own, so that neither the panel's end nor its timeout stops it. `Save` arms the trap.
The files are a sequence, `Files`, in the order of the installs and of the restores; a file is known by the
name it is written for. `ScriptFails` leads into `Rollback` and `ReloadPrevious`. `panel` is the mode the
process has read when it was started, which differs from `files["env"]` until `RestartPanel`. Left out: a
rollback that fails itself, a reload of nginx while the files are half replaced (nobody reloads it), and the
failure of `systemd-run` at the end, after which the panel would stay in setup mode until the next restart.

The constant `Overlap` says whether setup may be asked for again while a script is at work. The code does not
prevent it: with `Overlap` true and two calls, two scripts replace the files of each other and
`DomainTogether` fails. The run and the theorems are for one at a time.

### Updater

One action for each command that changes something, `Copy` to `Prune`; `Fails` and `MigrateFails` lead into
the `ERR` trap, `Relink` to `Restart`. The script is a child of the agent, so it ends with it: `Halts` leaves
everything where it is, at any command. It also stands for a command that fails before the trap is set (`cp`,
`install -d`, `systemctl stop`, the snapshot) and for one that fails inside the rollback, which `set -e`
leaves unfinished. After `systemctl stop` the service then stays stopped (`wanted`), and `Restart=always` does
not act: `ServiceComesBack` names that end, and an update or the next start of the host ends it.

The database is a schema and a number of writes. `log` says whose write-ahead log may lie beside it: a process
that ends in order checkpoints and removes its log, one that dies leaves it, and so may a migration that
throws before it closes the database (`MigrateFails`). After `Restore` such a log is of another database
(`"other"`), and whoever opens both has a `Mixed` one, which is the finding below. `unsure` is a history
variable and names what a script cannot answer for: it was cut off between two of its commands (`"cut"`), or
it left such a log (`"log"`). What `systemd` does with the processes, what `cp`, SQLite's checkpoint and the
migrations do, is external and modelled from how the script uses it.

One update is at work at a time (`CopyOf` asks for step `"none"`). Nothing in the code enforces it: the agent
starts a second script if it is asked for one, and two scripts would race for the link, the snapshot and the
service; that is not modelled. Nor is a pruning that is cut off in the middle: `Prune` is one step. With
`InOrder` the releases are installed as they were built, and the directory of a copy that failed is
removed before the next update (`RemoveHalf`), since the script refuses to copy over it. With `InOrder` false
a release older than three others is pruned right after it has become current, and `CurrentIsWhole` fails. The
environment is restored by the rollback, but the unit files of `systemd` are not: they are not modelled.

### Owner

What is awaited is a set: `asked` for options being generated, `verifying` for responses being verified, so
that any number overlap. `RegistrationOptions`, `AuthenticationOptions`, `FinishRegistration` and
`FinishAuthentication` are the handlers up to their await, `Store`, `Register`, `RegistrationRefused`, `LogIn`
and `VerificationFails` the turns after it. What keeps two verified registrations apart is the foreign key of
`passkeys` and its primary key (`Accepted`); an owner's id is drawn with the challenge. Expiry of a challenge,
a link or a session is an action that may happen at any time. `ResetBootstrap` is the command of
`matreshkactl`. API tokens have no states between them and are left out.

### Routes

`draft` is the table by id, `Ordered` the query, `Renumbered` the loop that assigns positions. A query that
has an `ORDER BY` is the list in which each row stands behind those before it (`Listed`), which there is only
one of when the rows are put in order by something no two of them share. `Reorder`
accepts what the code accepts: a list of the right length of known ids with the fixed rules at its ends. Such
a list may name one rule twice and leave another out, which stays 10000 behind; then the order is no
permutation and `EverythingElseIsLast` fails. `Complete` leaves such lists out: the page never sends one.

### Journal

The server's `list()` is one operator, `List`; the page's `load()` is `Load` up to its await, `Arrives` and
`Fails` after it. A request and an answer may be overtaken by any other. `of` and `upTo` remember the filter
and the table of the first page that is shown. After a first page that failed, `next` still belongs to the
list before, and "more" then joins pages of two filters: `unsure` leaves that out of `PagesJoin`. The period
of the traffic view (`store.imba`) has no such stamp, so the later of two answers wins there; a model of one
assignment would show no more than that.

## What the runs show

| Run | Instance | Result |
|---|---|---|
| `overlap` | 2 devices, 3 links, 2 goroutines, 3 jobs, 2 faults | one open job, reservations backed, running jobs awaited once, revoked devices clean; implements `Access`; settled, and not in doubt after an overlap, config and running Xray agree with the database |
| `retry` | 1 device, 2 links, 2 goroutines, 3 jobs, 2 faults, fair | queued work finishes; a waiting page is answered |
| `accounting` | 2 engines, 1 poll, 1 restart, 1 fault, 5 ticks, fair | types, each byte once, none lost, totals kept, days kept, traffic recorded |
| `engine` | 1 device, 3 templates, 2 revisions, 2 calls, 1 fault | a call that runs alone leaves the active revision installed and running, refusals restore |
| `confirmed` | 3 versions, 2 confirmations, 2 operations, 2 pins, 2 faults | confirmed once, decided once, link names a whole version, record is true |
| `watch` | 1 device, 2 engines, 1 poll at a time, 5 moments, 1 break; 1 service, disk, certificate, 1 kill | events take turns, absence is real, last activity is right, incidents confirmed and told |
| `host` | 2 calls for 2 domains, 2 faults; 4 releases, 1 broken, 2 kept, 2 mishaps, fair | name given once, everything under one name, setup ends; release, environment and schema together, no write lost, the service comes back unless its script was cut off |
| `panel` | 3 challenges, 2 keys, 2 sessions, limit 1, 2 links; 4 rules, 2 revisions; 3 events, 3 requests | one owner with all the keys, challenges limited, link spent; fixed rules in place, a publication leaves a clean draft; pages join |
| `revived` | one device, two links | violated: a revoked device becomes active again |
| `overwritten` | 2 devices, 2 calls, no fault | violated: an active device is not in the installed file |
| `overtaken` | two polls at a time | violated: bytes counted twice |
| `leftover` | 2 releases, 1 broken, no mishap | violated: a rollback ends with a mixed database |

The last four are disagreements between the code and what its documents or tests say; `PROJECT.json` quotes
both sides. In short: `completeActivation()` ignores a status that has changed during its await (`revived`);
two provisionings at the same time render into one file, and the agent installs what was rendered last, and an
`apply()` installs the devices of before its await (`overwritten`); `setInterval` starts a poll while another
hangs (`overtaken`); the rollback of an update restores the database and not the log beside it (`leftover`).

Some properties hold only under a constant that the code does not enforce. Each constant is an assumption
about use, and giving it the other value makes TLC find the behaviour:

| Constant | Other value | What fails |
|---|---|---|
| `CutAfter` of `Traffic` | both commits of a compaction | `TotalsKept`: rollup and deletion are committed one by one |
| `Polls` of `Presence` | two polls | `LastSeenIsActivity`, `AbsenceIsReal`: the earlier poll's later answer sets `last_seen_at` back |
| `Overlap`, `InOrder`, `Complete` | see the modules | `LinkIsComplete`, `DomainTogether`; `CurrentIsWhole`; `EverythingElseIsLast` |

One more is in `DeviceSync` without a property: a second link redeemed while an activation is open shares its
job and reserves nothing.

### Bounds

Every bound is a constant, named `Max...` or declared with the word "bound", beside the sets of goroutines,
polls and calls. Two devices are needed for a config that lists someone else; a device with two links for
every overlap of one device with itself, since a third link only supersedes or is superseded; three jobs let
one device be activated and revoked beside the activation of another, or be activated, invited again and
revoked. One fault reaches each crash, timeout, failure and deadline at every point, two let a retry fail
again. `DrainLimit` is 20 in the code and 1 in the runs that pass, so that a drain does leave jobs behind.
Goroutines and calls are interchangeable (`Alike`), which `overlap` and `engine` use as a symmetry. In
`engine` and `overwritten` two calls are what it takes to overlap; two revisions are a first one and one that
goes back to it. Five ticks with an hour of two and a day of four put samples in every kind of bucket and
across a day boundary; two bytes make a delta with a cursor that is not zero. In `confirmed`, two operations
are an update and another update, its retry, or a stop, start or restart in the middle of it; three versions
with `Kept` at 2 instead of the script's 3 let the second update prune.

`watch`: five moments are a window of one, an absence of three, and a return. One device is enough, since no
row of a device depends on another's; one break pauses the device or ends the process at any point. The four
fillings of the disk lie in each of its four ranges with the boundaries 80, 85 and 95 themselves; the two
numbers of days on both sides of seven and at thirty. Two polls at a time are left to the theorem on events.
`host`: two calls, one of which comes after the other has finished and before the panel knows; two faults
reach each command and its rollback. Four releases with two kept let the third update prune, the broken one
fail at its start, and the one after it succeed. `panel`: three challenges let two registrations overlap with
each other and with a login, and limit 1 makes the limit bite with two; two keys allow a revocation. One local
rule instead of three and four rules leave two to be reordered between the fixed ends. Pages of one event and
three requests are a first page, the next one, and a filter chosen while either is on its way; two times let
an event be recorded behind others.

Deadlock is not checked: nobody is obliged to redeem or apply anything, and the bounds end each behaviour.

### Fairness

`DeviceSync`: weak fairness of the drain timer, backoff, the goroutines, delivery of answers and the restart
of the control plane (systemd restarts it). Failures, crashes, timeouts and people get none. `Traffic`: weak
fairness of the timer, an engine's answer and its delivery. `XrayRestarts` has no fairness. Liveness excludes
one state on purpose: with a revived device (`Revived`), rendering throws for every job, and nothing finishes
any more. `RevokeInterrupted` and the others with no fairness may still happen at any time within `MaxFaults`.

`Setup`: weak fairness of the script's commands and of the restart it schedules with `systemd-run`; not of its
failures, of the panel or of the host. `Updater`: weak fairness of the script as long as nothing cuts it off
(after `Halts` or `Reboot` it has no step to take), of its failure while it waits for `readyz`, whose wait is
limited, and of `Restart=always`, whose `RestartSec=3` stays below the start limit of `systemd`. `Presence`,
`Monitoring`, `EngineConfig`, `Operations`, `Owner`, `Routes` and `Journal` state no liveness: what they
promise at the end of a poll or a request is a safety property of that turn.

## What is proved

All proofs are for every value of the constants that satisfies the module's named assumption.

`DeviceSyncProofs`. The properties of `overlap` do not stand alone: that a running job is awaited exactly once
needs that an awaited goroutine serves a running job (`AwaitedRuns`); that reservations are backed needs the
uniqueness of open jobs, since completing a job must not leave another invitation of the device without one;
and both need that rows refer to things that exist (`UsedRows`, `LinksHaveDevices`). `IInv` is their
conjunction. One lemma per conjunct and group of actions shows it is kept, on top of a few facts about what
any step does to the outbox (`Moves`, `Inserts`) and to the tables. From `IInv` follow `TypeCorrect`,
`UniqueOpenJob`, `ReservationsBacked`, `RunningAwaitedOnce` and `RevocationClean`.

`Refinement`: `Spec` implements `Access` step by step, for any number of goroutines. Its invariant,
`AccessInv`, says that nothing knows a device which does not exist yet, that an invited device which is known
has an activation that is still open, and that a job to revoke a device is of one that has been active. The
interesting steps are those that make a device known: a config is rendered only of devices that have
credentials (`Renderable`) and are active or being activated (`KnownComes`), so a withdrawn device gets into
none; and the answer that activates an invited device comes from a goroutine that knows it, so "granted" is
never reached from "issued".

`EnginesAgreeAgain` is for any number of goroutines, devices, links, jobs and faults. While "call" is not in
doubt at most one goroutine is at work (`Solo`); the installed file and the users in Xray, as far as they are
not in doubt, may differ from the database only in devices that have an open job (`Agree`), and that goroutine
carries what was rendered for its own open job through the files (`Works`). `Chain` says that what leaves the
calls in doubt leaves the file in doubt, and that the users. When all is settled, no job is open.

`TrafficProofs`. With at most one poll (`OnePoll`), `EachByteOnce`: the deltas never exceed what was carried.
The invariant says that what is counted plus the delta that a poll would add now is at most what was carried,
and that the same holds for an answer under way plus what would be counted after it. Traffic adds at most one
to a delta, a reset makes it zero, an answer at the moment it is taken leaves a remainder of zero. `OnePoll`
is used only where an answer is recorded, and `overtaken` shows it is needed there. `NoByteLost` adds that,
without a restart, an answer lies between cursor and counter, so that each delta is exactly the move of the
cursor.

The samples are sums over buckets, and the library's induction theorems, which take an operator as a
parameter, cannot be used on them. `Sums` gets induction another way: the set of counterexamples, if there is
one, has a minimal element, of the numbers or of the finite subsets of a set, and that element is
contradicted. From there it proves what the recursion behind `SumFunctionOnSet` of the community modules does
with a set split in two, with a changed summand, and with summands regrouped by a second index.
`NothingLostInSamples` then is: recording adds a delta to one bucket; `rollup()` moves what the buckets of an
hour or a day hold into the one that stands for them, and deletion removes only buckets that were rolled up.
It assumes that no compaction is cut short between its commits (`CutAfter = {}`). `DaysKept` assumes nothing
of the kind: a cut leaves bytes in two sizes of bucket, which can only add to the account of their day. What
it needs is that a bucket never crosses midnight (`Whole`), so that an hour divides a day
(`TrafficAssumption`).

`EngineConfigProofs`. `TypeCorrect` needs that the version a call has taken is a row or the next one.
`InvalidNeverInstalled` holds for any number of overlapping calls: a config past its test is valid, and
everything else that is ever written is a copy of the file, of `.previous`, of the active template or of such
a config. `InstalledIsActive` and `RefusalsRestore` are for any number of calls too: unless calls have
overlapped and are not over yet, one is under way at most (`Solo`), and `CallInv` relates file, `.previous`,
row and service for each step of the script and of the answer (`Taken`, `Come`). What the call has taken is
still the database's version when its row is inserted, and what the trap copies back is the file the call has
found. A call that starts alone starts from a quiet system, whatever overlapped before it. `Chain` says that
what leaves the calls in doubt leaves the file in doubt, and that the service.

`OperationsProofs`. `OperationsConfirmed` and `OperationsDecidedOnce` follow from `Basic`: the confirmation of
an operation is used, so that what is confirmed next has no operation yet, and what is awaited is undecided.
`CurrentIsWhole` and `RecordIsTrue` assume one update at a time. Their invariant, `UpdateInv`, says for each
stage of the script what it relies on (`Sound`): until the link is set the previous version is current,
afterwards it is still there to go back to; the new directory is the newest, so that pruning spares it; the
link is back before the directory goes. `Known` is what the record says meanwhile, and `Halves` that only the
script's own directory may be incomplete.

`WatchProofs`. Each subject of the journal has an invariant of its own. In `Monitoring`, outside `torn`, a row
is in an alarm exactly while the last event of its key is that alarm (`Told`), and counts what was wrong at
the last observation (`Counts`); two equal observations are then a count of two, which is what makes an alarm.
From `MonitoringInv` follow `IncidentsInTurn`, `NothingUnconfirmed` and `NothingUntold`, for any services and
any measures; the thresholds enter only in `LevelIsWrong`. In `Presence` the facts of a device say what was
told last (`Ordered`, `OfDevice`), and the row of an engine likewise (`OfEngine`), so that `NewsInTurn` holds
for any number of polls that overlap. With one poll at a time (`OnePoll`), `LastSeenFollows` and `AbsenceTold`
need also what is true between the two answers of a poll (`SeenInv`): the last activity of a device is in one
of its two rows and in neither overtaken (`Witnessed`), Hysteria's row already shows this poll while the facts
still show the one before (`Halfway`), and the poll's `reference` is no older than any activity.

`HostProofs`, first setup. With one call at a time (`Overlap` false) the invariant says for each step of the
script how many files bear the new name and how many the old (`Progress`), that what was saved is the name
before (`Backed`), and which mode the process can have (`Mode`). `DomainsTogether` and `GivenOnce` follow: a
script that passes its check finds the address in the environment, and nothing has been given then.

`HostProofs`, updater. The invariant follows link, database and environment through the update and its trap
(`Reached`), says which process is there and whose log lies beside the database (`Still`), how the writes
relate to the snapshot (`Counted`), and which directories are whole and which the newest (`Dirs`). Only
`CurrentStaysWhole` assumes `InOrder`, under which the newest directory is the one of the update; at least one
is kept, and the proof counts the newer directories with the theorems on finite sets.

`PanelProofs`, owner. A login is verified for the owner its challenge was made for, so besides the types the
invariant needs that every such challenge that is stored, asked for or being verified is the owner's
(`AsksForOwner`); a registration may be for somebody else, and it is the two keys of `passkeys` that refuse
it. An owner's last passkey stays because revocation counts them in the turn that deletes. `LinkSpent` follows
step by step from `OwnerKeepsTheKeys`; `RowsLimited` needs that rows are counted and inserted in one turn, and
that they are finitely many (`Limits`).

`PanelProofs`, routes. The draft is a table and what is promised is about a list, so the invariant says there
is a list that is good, of distinct rules whose positions count from zero, with the fixed rules at their
places, and that the draft is what this list would be written as (`DraftIsGood`); each revision is good
itself. `ListedIs` says when a list is the one the query returns, and `RowsAre` that the query of a good draft
returns its list. Each operation then is a list made from the one before: a rule put in behind the local
networks (`AddStep`), one left out (`RemoveStep`), one changed in place (`UpdateStep`), another order of the
same (`ReorderStep`). To reorder, the code compares the length of the request and looks each id up: the
theorems assume `Complete`, that every rule is named, and the proof that then none is named twice counts them.
`CleanWhenPublished` follows since the draft after a publication is written from the list that was published,
positions and all.

`PanelProofs`, journal. `ListedAll` shows that any finite set of rows that are in a strict order can be
listed, by the number of rows before each, and `ListIsPage` what a page of such a list has: its rows are in
order, begin behind the row asked for, and leave out none up to the last. What is shown and what is on its way
back are described by the same few operators, of the table as it was (`Joins`, `Answered`), which later events
do not change (`PageStays`, `SortedStays`). Of the requests under way one is the latest, for the filter that
is chosen, and goes on where the list ends (`LatestIsOne`, `GoesOn`); the answer to it was given after all
that is shown (`ComesAfter`), so that the total it brings is no less than the list is long. `PagesGoOn` puts
the two together.

Model-checked only: all liveness (`TrafficIsRecorded`, `SetupEnds`, `ServiceComesBack`,
`QueuedWorkFinishes`, `WaitingPageIsAnswered`), which is out of the prover's reach. Every invariant and every
action property of the passing runs is a theorem.

## Not modelled

Left out: rendering of client formats and configs, the views of the web interface other than the journal, CLI,
MCP server, migrations, demo data and the installation scripts, which have no concurrent state or are pure
input and output; the system service and the HTTP layer, whose handlers are single assignments and calls of
the services that are modelled; `restore-backup` and the two exports, which an operator runs by hand and which
have no trap; API tokens. Cryptography, `systemd`, `nginx`, `certbot`, SQLite and the engines are external,
modelled from how the code uses them.

`public/app.js`, more than half of the repository's JavaScript, TypeScript and Go, is a bundle generated from
`src/web`, and nothing is mapped to it: its source is the `.imba` files. Much of what is modelled is in shell
scripts (`apply-config`, `update-engine`, `finalize-domain`, `apply-update`). Measured against the lines of
those three languages alone, the share that the map covers therefore stays well below a third, however much
more is modelled.

## Plan

What is left, in the order of what it would show:

1. `install()` of the agent in steps, since two goroutines write one temporary file.
2. An abstract specification of `Operations`, from "confirmed" to "completed" or "failed", with the listeners of
   the event stream.
3. `restore-backup`, with the same log beside the database as in the updater.

## Running

`tlc -config Traffic_accounting.cfg MCTraffic.tla` checks a run: the files are `<module>_<run>.cfg`. `tlapm
TrafficProofs.tla` checks the proofs of a module. No run takes more than about two minutes on two cores.
