----------------------------- MODULE Operations -----------------------------
(***************************************************************************)
(* Confirmed operations: the preview, the confirmation and the row of an   *)
(* operation in the control plane (services/operations.ts), the goroutine  *)
(* of the agent that carries it out, and the script that updates an engine *)
(* (infra/scripts/update-engine) with its ERR trap.                        *)
(*                                                                         *)
(* confirm() marks the confirmation and starts execute(), which awaits the *)
(* agent.  The await ends with the answer, with a timeout the script knows *)
(* nothing of, or with the process: a row it leaves "running" stays so.    *)
(*                                                                         *)
(* There is one engine.  service.stop and service.start stand for all that *)
(* only answer (backup.export, nginx.reload), service.restart is that of   *)
(* the control plane itself, and device.revoke is in DeviceSync.           *)
(***************************************************************************)
EXTENDS Naturals, Sequences, FiniteSets

CONSTANTS
    Versions,       \* versions of the engine
    Shipped,        \* the one the server was installed with
    Unfit,          \* versions whose process dies after it has started
    Kept,           \* version directories a successful update keeps; 3 in the script
    Overlap,        \* whether an update may start while the script of another runs
    MaxPreviews,    \* bound: rows of confirmations
    MaxOperations,  \* bound: rows of operations
    MaxPins,        \* bound: times another version is pinned
    MaxFaults,      \* bound: failing commands and processes that die
    NoVersion

ASSUME OperationsAssumption ==
    /\ Shipped \in Versions
    /\ Unfit \subseteq Versions \ {Shipped}
    /\ NoVersion \notin Versions
    /\ Kept \in Nat \ {0}
    /\ Overlap \in BOOLEAN
    /\ MaxPreviews \in Nat
    /\ MaxOperations \in Nat
    /\ MaxPins \in Nat
    /\ MaxFaults \in Nat

VARIABLES
    confirmations,  \* the table: what was previewed, and whether it still counts
    operations,     \* the table: request, confirmation and status
    desired,        \* engine_versions.desired_version
    recorded,       \* engine_versions.installed_version
    awaited,        \* operations whose execute() is at its await
    script,         \* the goroutine of each operation
    clock,          \* the directories made so far, which dates them
    mtime,          \* when the directory of a version was made; 0 for none
    complete,       \* those with all their files
    link,           \* where the symbolic link "current" points
    service,        \* the version the service runs; NoVersion when stopped
    doubts,         \* history: what updates have left that the control plane does not know
    pins, faults    \* spent so far

tables == <<confirmations, operations, desired, recorded>>
engine == <<clock, mtime, complete, link, service>>
vars == <<tables, awaited, script, engine, doubts, pins, faults>>

Update(v) == [action |-> "engine.update", version |-> v]
Plain == [action : {"service.stop", "service.start", "service.restart"},
          version : {NoVersion}]
Requests == Plain \cup {Update(v) : v \in Versions}

Ids == 1..MaxOperations

\* The steps of update-engine, and the answer of the goroutine: "ok" or "error".
Forward == {"checked", "unpacking", "unpacked", "linked", "restarted", "committed"}
Backward == {"relinking", "removing", "reloading"}
Stage == {"none", "received", "ok", "error"} \cup Forward \cup Backward

Confirmation == [request : Requests, state : {"open", "expired", "used"}]
Operation == [request : Requests, confirmation : 1..MaxPreviews,
              status : {"running", "completed", "failed"}]

\* A goroutine: for an update, the version and what "current" named when it began.
Script == [stage : Stage, version : Versions \cup {NoVersion}, previous : Versions]

TypeOK ==
    /\ confirmations \in Seq(Confirmation)
    /\ operations \in Seq(Operation)
    /\ Len(confirmations) <= MaxPreviews
    /\ Len(operations) <= MaxOperations
    /\ desired \in Versions
    /\ recorded \in Versions
    /\ awaited \in SUBSET (1..Len(operations))
    /\ script \in [Ids -> Script]
    /\ clock \in Nat
    /\ mtime \in [Versions -> 0..clock]
    /\ complete \in SUBSET Versions
    /\ link \in Versions
    /\ service \in Versions \cup {NoVersion}
    /\ doubts \in SUBSET {"version", "files"}
    /\ pins \in 0..MaxPins
    /\ faults \in 0..MaxFaults

Gone == [stage |-> "none", version |-> NoVersion, previous |-> Shipped]

Init ==
    /\ confirmations = <<>>
    /\ operations = <<>>
    /\ desired = Shipped
    /\ recorded = Shipped
    /\ awaited = {}
    /\ script = [o \in Ids |-> Gone]
    /\ clock = 1
    /\ mtime = [v \in Versions |-> IF v = Shipped THEN 1 ELSE 0]
    /\ complete = {Shipped}
    /\ link = Shipped
    /\ service = Shipped
    /\ doubts = {}
    /\ pins = 0
    /\ faults = 0

Fault ==
    /\ faults < MaxFaults
    /\ faults' = faults + 1

-----------------------------------------------------------------------------
(* The control plane *)

\* A definition named Bug_... is a deliberate fault: the definition after it with
\* a plausible bug, used by nothing.

\* validate(): an update is for the pinned version, which is not yet recorded.
Valid(request) ==
    request.action = "engine.update" =>
        /\ request.version = desired
        /\ recorded # request.version

\* Updates under way, and those whose answer nobody has read yet.
Unsettled == {o \in Ids : script[o].stage # "none" /\ script[o].version # NoVersion}

Preview(request) ==
    /\ Valid(request)
    /\ Len(confirmations) < MaxPreviews
    /\ confirmations' = Append(confirmations, [request |-> request, state |-> "open"])
    /\ UNCHANGED <<operations, desired, recorded, awaited, script, engine, doubts, pins,
                   faults>>

\* Ten minutes pass.
Expire(c) ==
    /\ confirmations[c].state = "open"
    /\ confirmations' = [confirmations EXCEPT ![c].state = "expired"]
    /\ UNCHANGED <<operations, desired, recorded, awaited, script, engine, doubts, pins,
                   faults>>

\* confirm(), and execute() up to its await; state is what the confirmation becomes.
ConfirmInto(c, state) ==
    LET o == Len(operations) + 1
        request == confirmations[c].request
    IN  /\ confirmations[c].state = "open"
        /\ Valid(request)
        /\ request.action = "engine.update" /\ ~Overlap => Unsettled = {}
        /\ Len(operations) < MaxOperations
        /\ confirmations' = [confirmations EXCEPT ![c].state = state]
        /\ operations' = Append(operations,
               [request |-> request, confirmation |-> c, status |-> "running"])
        /\ awaited' = awaited \cup {o}
        /\ script' = [script EXCEPT ![o] =
               [stage |-> "received", version |-> request.version, previous |-> link]]
        /\ UNCHANGED <<desired, recorded, engine, doubts, pins, faults>>

\* used_at is not written.
Bug_ConfirmTwice(c) == ConfirmInto(c, "open")

\* A request that differs from the previewed one has another hash and is refused.
Confirm(c) == ConfirmInto(c, "used")

Decide(o, status) ==
    /\ operations' = [operations EXCEPT ![o].status = status]
    /\ awaited' = awaited \ {o}

\* The end of an await that has an answer: the version is recorded first.
CompletedAs(o, version) ==
    /\ script[o].stage = "ok"
    /\ Decide(o, "completed")
    /\ recorded' = version
    /\ doubts' = IF script[o].version = NoVersion THEN doubts ELSE doubts \ {"version"}
    /\ script' = [script EXCEPT ![o] = Gone]
    /\ UNCHANGED <<confirmations, desired, engine, pins, faults>>

Installed(o) == IF script[o].version = NoVersion THEN recorded ELSE script[o].version

\* The version pinned now is recorded instead of the one that was requested.
Bug_CompletedAsPinned(o) ==
    /\ o \in awaited
    /\ CompletedAs(o, IF script[o].version = NoVersion THEN recorded ELSE desired)

\* An answer is taken from a connection that was given up.
Bug_CompletedLate(o) ==
    /\ o \in 1..Len(operations)
    /\ CompletedAs(o, Installed(o))

Completed(o) ==
    /\ o \in awaited
    /\ CompletedAs(o, Installed(o))

Failed(o) ==
    /\ o \in awaited
    /\ script[o].stage = "error"
    /\ Decide(o, "failed")
    /\ script' = [script EXCEPT ![o] = Gone]
    /\ UNCHANGED <<confirmations, desired, recorded, engine, doubts, pins, faults>>

GiveUp(o) ==
    /\ o \in awaited
    /\ Decide(o, "failed")
    /\ doubts' = IF script[o].version = NoVersion THEN doubts ELSE doubts \cup {"version"}
    /\ UNCHANGED <<confirmations, desired, recorded, script, engine, pins, faults>>

\* The socket times out; what the agent has begun goes on.
Timeout(o) == GiveUp(o)

\* The process ends and starts again: nothing looks at the rows it leaves.
ProcessEnds ==
    /\ awaited' = {}
    /\ doubts' = IF Unsettled = {} THEN doubts ELSE doubts \cup {"version"}
    /\ UNCHANGED <<tables, engine, pins>>

Crash ==
    /\ Fault
    /\ ProcessEnds
    /\ UNCHANGED script

\* A release pins another version.  Nothing in the sources does: the tests do it with
\* the statement a migration would use.
Pin(v) ==
    /\ v # desired
    /\ pins < MaxPins
    /\ desired' = v
    /\ pins' = pins + 1
    /\ UNCHANGED <<confirmations, operations, recorded, awaited, script, engine, doubts,
                   faults>>

-----------------------------------------------------------------------------
(* The agent *)

Step(o, from, to) ==
    /\ script[o].stage = from
    /\ script' = [script EXCEPT ![o].stage = to]

\* What the service runs once it is started: nothing if the files are not there.
Started == IF link \in complete THEN link ELSE NoVersion

\* A goroutine writes its answer to a connection nobody reads.
Unread(o) ==
    /\ o \notin awaited
    /\ script[o].stage \in {"ok", "error"}
    /\ script' = [script EXCEPT ![o] = Gone]
    /\ UNCHANGED <<tables, awaited, engine, doubts, pins, faults>>

Requested(o, action) ==
    /\ script[o].stage = "received"
    /\ operations[o].request.action = action

StopService(o) ==
    /\ Requested(o, "service.stop")
    /\ Step(o, "received", "ok")
    /\ service' = NoVersion
    /\ UNCHANGED <<tables, awaited, clock, mtime, complete, link, doubts, pins, faults>>

StartService(o) ==
    /\ Requested(o, "service.start")
    /\ Step(o, "received", IF Started = NoVersion THEN "error" ELSE "ok")
    /\ service' = IF service = NoVersion THEN Started ELSE service
    /\ UNCHANGED <<tables, awaited, clock, mtime, complete, link, doubts, pins, faults>>

\* systemctl restart matreshka ends the process that waits for the answer.
RestartPanel(o) ==
    /\ Requested(o, "service.restart")
    /\ Step(o, "received", "ok")
    /\ ProcessEnds
    /\ UNCHANGED faults

SystemctlFails(o) ==
    /\ script[o].version = NoVersion
    /\ Fault
    /\ Step(o, "received", "error")
    /\ UNCHANGED <<tables, awaited, engine, doubts, pins>>

-----------------------------------------------------------------------------
(* update-engine *)

\* The tests before the trap: where "current" points, and that the version is new.
Begin(o) ==
    /\ Requested(o, "engine.update")
    /\ script' = [script EXCEPT
           ![o].stage = IF mtime[link] # 0 /\ mtime[script[o].version] = 0
                        THEN "checked" ELSE "error",
           ![o].previous = link]
    /\ UNCHANGED <<tables, awaited, engine, doubts, pins, faults>>

\* curl and the checksum; the archive is outside the directories of the engine.
DownloadFails(o) ==
    /\ Fault
    /\ Step(o, "checked", "error")
    /\ UNCHANGED <<tables, awaited, engine, doubts, pins>>

MakeDirectoryAnd(o, target) ==
    /\ Step(o, "checked", "unpacking")
    /\ clock' = clock + 1
    /\ mtime' = [mtime EXCEPT ![script[o].version] = clock']
    /\ link' = target
    /\ UNCHANGED <<tables, awaited, complete, service, doubts, pins, faults>>

\* The link is set before the files are there.
Bug_LinkFirst(o) == MakeDirectoryAnd(o, script[o].version)

\* The trap is set and the directory made.
MakeDirectory(o) == MakeDirectoryAnd(o, link)

Unpack(o) ==
    /\ Step(o, "unpacking", "unpacked")
    /\ complete' = complete \cup {v \in {script[o].version} : mtime[v] # 0}
    /\ UNCHANGED <<tables, awaited, clock, mtime, link, service, doubts, pins, faults>>

\* ln -sfn
LinkTo(o, from, to, v) ==
    /\ Step(o, from, to)
    /\ link' = v
    /\ UNCHANGED <<tables, awaited, clock, mtime, complete, service, doubts, pins, faults>>

Link(o) == LinkTo(o, "unpacked", "linked", script[o].version)

\* systemctl restart, which does not wait for the engine to be up: the service is "simple".
Restart(o) ==
    /\ Step(o, "linked", "restarted")
    /\ Started # NoVersion
    /\ service' = Started
    /\ UNCHANGED <<tables, awaited, clock, mtime, complete, link, doubts, pins, faults>>

\* systemctl is-active, and the trap is taken off.
Check(o) ==
    /\ Step(o, "restarted", "committed")
    /\ service # NoVersion
    /\ UNCHANGED <<tables, awaited, engine, doubts, pins, faults>>

\* A process of an unfit version dies, before the check or after it; that systemd starts
\* it again and again is left out.
ServiceDies ==
    /\ service \in Unfit
    /\ service' = NoVersion
    /\ UNCHANGED <<tables, awaited, script, clock, mtime, complete, link, doubts, pins, faults>>

\* The newest Kept directories.
Newest == {v \in Versions : Cardinality({w \in Versions : mtime[w] > mtime[v]}) < Kept}

Prune(o) ==
    /\ Step(o, "committed", "ok")
    /\ mtime' = [v \in Versions |-> IF v \in Newest THEN mtime[v] ELSE 0]
    /\ complete' = complete \cap Newest
    /\ UNCHANGED <<tables, awaited, clock, link, service, doubts, pins, faults>>

\* The trap is off: the script ends with an error and the new version stays.
PruneFails(o) ==
    /\ Fault
    /\ Step(o, "committed", "error")
    /\ doubts' = doubts \cup {"version"}
    /\ UNCHANGED <<tables, awaited, engine, pins>>

\* A command fails while the trap is set.
Trapped(o) ==
    /\ \E from \in {"unpacking", "unpacked"} : Step(o, from, "relinking")
    /\ Fault
    /\ UNCHANGED <<tables, awaited, engine, doubts, pins>>

RestartFails(o) ==
    /\ Step(o, "linked", "relinking")
    /\ IF Started = NoVersion THEN UNCHANGED faults ELSE Fault
    /\ service' = NoVersion
    /\ UNCHANGED <<tables, awaited, clock, mtime, complete, link, doubts, pins>>

CheckFails(o) ==
    /\ Step(o, "restarted", "relinking")
    /\ service = NoVersion
    /\ UNCHANGED <<tables, awaited, engine, doubts, pins, faults>>

Relink(o) == LinkTo(o, "relinking", "removing", script[o].previous)

\* rm -rf
Remove(o) ==
    /\ Step(o, "removing", "reloading")
    /\ mtime' = [mtime EXCEPT ![script[o].version] = 0]
    /\ complete' = complete \ {script[o].version}
    /\ UNCHANGED <<tables, awaited, clock, link, service, doubts, pins, faults>>

\* systemctl restart || true
Reload(o) ==
    /\ Step(o, "reloading", "error")
    /\ service' = Started
    /\ UNCHANGED <<tables, awaited, clock, mtime, complete, link, doubts, pins, faults>>

ReloadFails(o) ==
    /\ Fault
    /\ Step(o, "reloading", "error")
    /\ service' = NoVersion
    /\ UNCHANGED <<tables, awaited, clock, mtime, complete, link, doubts, pins>>

\* The agent ends, and systemd ends the scripts it has started: no trap runs.  Their
\* connections close without an answer.
AgentDies ==
    LET cut == {o \in Ids : script[o].stage \notin {"none", "ok", "error"}}
    IN  /\ Fault
        /\ operations' = [o \in DOMAIN operations |->
               IF o \in awaited \cap cut THEN [operations[o] EXCEPT !.status = "failed"]
               ELSE operations[o]]
        /\ awaited' = awaited \ cut
        /\ script' = [o \in Ids |-> IF o \in cut THEN Gone ELSE script[o]]
        /\ doubts' = IF cut \cap Unsettled = {} THEN doubts ELSE {"version", "files"}
        /\ UNCHANGED <<confirmations, desired, recorded, engine, pins>>

-----------------------------------------------------------------------------

ControlPlane ==
    \/ \E request \in Requests : Preview(request)
    \/ \E c \in DOMAIN confirmations : Expire(c) \/ Confirm(c)
    \/ \E o \in DOMAIN operations : Completed(o) \/ Failed(o) \/ Timeout(o)
    \/ Crash
    \/ \E v \in Versions : Pin(v)

UpdateEngine(o) ==
    \/ Begin(o) \/ DownloadFails(o) \/ MakeDirectory(o) \/ Unpack(o) \/ Link(o)
    \/ Restart(o) \/ Check(o) \/ Prune(o) \/ PruneFails(o)
    \/ Trapped(o) \/ RestartFails(o) \/ CheckFails(o)
    \/ Relink(o) \/ Remove(o) \/ Reload(o) \/ ReloadFails(o)

Agent(o) ==
    \/ StopService(o) \/ StartService(o) \/ RestartPanel(o) \/ SystemctlFails(o)
    \/ UpdateEngine(o)
    \/ Unread(o)

Next ==
    \/ ControlPlane
    \/ \E o \in DOMAIN operations : Agent(o)
    \/ ServiceDies
    \/ AgentDies

Spec == Init /\ [][Next]_vars

-----------------------------------------------------------------------------
(* Properties *)

\* An operation runs because its request was previewed and confirmed, and a confirmation
\* starts one operation: confirm() refuses what has been used, has expired or differs.
ConfirmedOnce ==
    /\ \A o \in DOMAIN operations :
           LET c == operations[o].confirmation
           IN  c \in DOMAIN confirmations /\ confirmations[c].request = operations[o].request
    /\ \A o, p \in DOMAIN operations :
           operations[o].confirmation = operations[p].confirmation => o = p

\* Whatever fails, and wherever the script is cut off, "current" names a directory with
\* all its files: the next start of the service finds an engine (update-engine).
LinkIsComplete == link \in complete /\ mtime[link] # 0

\* With no update under way, and none whose end the control plane has missed, the version
\* it records is the installed one, and the service runs it or, when it was stopped or
\* died, nothing.  A script that was not cut off leaves no half of a version, which would
\* be refused as installed when it is tried again (update-engine).
RecordedIsInstalled ==
    Unsettled = {} =>
        /\ "version" \notin doubts => recorded = link /\ service \in {link, NoVersion}
        /\ "files" \notin doubts => \A v \in Versions : mtime[v] # 0 => v \in complete

\* An operation is decided once: a late answer, a retry or a restart changes nothing of
\* an operation that has completed or failed (execute()).
DecidedOnce ==
    [][\A o \in DOMAIN operations :
          operations[o].status # "running" => operations'[o] = operations[o]]_vars

=============================================================================
