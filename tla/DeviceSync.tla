----------------------------- MODULE DeviceSync -----------------------------
(***************************************************************************)
(* Device activation and revocation: the SQLite outbox                     *)
(* (services/device-sync.ts), the invitations and devices it works on      *)
(* (services/people.ts), the recovery config it renders                    *)
(* (services/engine-runtime.ts) and the root agent that installs that      *)
(* config and drives Xray (agent/cmd/matreshka-agent/main.go).             *)
(*                                                                         *)
(* The control plane is one JavaScript process: code between two awaits is *)
(* atomic, so one action is one turn of its event loop.  The only await on *)
(* these paths is the call to the agent, and any number of handlers run    *)
(* while such a call is pending.  The agent serves every connection in a   *)
(* goroutine of its own and outlives the control plane.                    *)
(***************************************************************************)
EXTENDS Naturals, FiniteSets

CONSTANTS
    Devices,       \* rows of the devices table that may ever be created
    Invitations,   \* rows of the invitations table that may ever be created
    DeviceOf,      \* the device an invitation is for
    Handlers,      \* agent goroutines that may be busy at the same time
    MaxJobs,       \* bound: rows of device_sync_jobs
    MaxFaults,     \* bound: crashes, timeouts, failures and lapsed deadlines
    DrainLimit,    \* jobs one drain takes (20 in the code)
    NoDevice, NoInvitation

JobIds == 1..MaxJobs

ASSUME DeviceSyncAssumption ==
    /\ DeviceOf \in [Invitations -> Devices]
    /\ MaxJobs \in Nat \ {0}
    /\ MaxFaults \in Nat
    /\ DrainLimit \in Nat \ {0}
    /\ NoDevice \notin Devices
    /\ NoInvitation \notin Invitations

VARIABLES
    device,        \* devices.status ("absent": no row yet)
    credential,    \* credentials of the device exist and are not revoked
    subscription,  \* devices.subscription_token_hash is not NULL
    invitation,    \* invitations.status ("absent": no row yet)
    lapsed,        \* invitations whose expires_at has passed
    session,       \* redemption_sessions row of the invitation
    job,           \* device_sync_jobs, in order of created_at
    created,       \* number of rows of job in use
    up,            \* the control plane is running
    drain,         \* the running drain(): ids left to look at, id awaited
    agent,         \* the agent's goroutines
    rendered,      \* users in DATA/runtime/xray.json, the file every call shares
    installed,     \* users in /etc/matreshka/engines/xray.json
    users,         \* users the Xray process serves
    xrayUp,        \* the Xray process runs
    doubts,        \* history: what calls of the agent that overlapped have left in doubt
    faults         \* faults spent so far

people == <<device, credential, subscription>>
invites == <<invitation, lapsed, session>>
outbox == <<job, created>>
engine == <<installed, users, xrayUp>>
vars == <<device, credential, subscription, invitation, lapsed, session, job,
          created, up, drain, agent, rendered, installed, users, xrayUp,
          doubts, faults>>

DeviceStatus == {"absent", "invited", "active", "revoked"}
InvitationStatus ==
    {"absent", "pending", "redeeming", "redeemed", "superseded", "revoked"}
SessionStatus == {"none", "open", "lapsed"}
Kind == {"activate", "revoke"}
\* "waiting" and "failed" are the code's failed jobs: before next_attempt_at and
\* after it.
JobStatus == {"unused", "pending", "running", "waiting", "failed", "completed"}
Stage == {"idle", "received", "installed", "accepted", "refused"}

Job == [kind : Kind, device : Devices \cup {NoDevice},
        invitation : Invitations \cup {NoInvitation},
        status : JobStatus]

\* One connection to the agent: the job it serves, how far the goroutine got,
\* and whether the control plane still waits for the answer.
Goroutine == [stage : Stage, job : JobIds, awaited : BOOLEAN]

Idle == [stage |-> "idle", job |-> 1, awaited |-> FALSE]
Unused == [kind |-> "activate", device |-> NoDevice,
           invitation |-> NoInvitation, status |-> "unused"]
NewJob(kind, d, i) == [kind |-> kind, device |-> d, invitation |-> i,
                       status |-> "pending"]
NotDraining == [todo |-> {}, current |-> 0]

TypeOK ==
    /\ device \in [Devices -> DeviceStatus]
    /\ credential \in [Devices -> BOOLEAN]
    /\ subscription \in [Devices -> BOOLEAN]
    /\ invitation \in [Invitations -> InvitationStatus]
    /\ lapsed \in SUBSET Invitations
    /\ session \in [Invitations -> SessionStatus]
    /\ job \in [JobIds -> Job]
    /\ created \in 0..MaxJobs
    /\ up \in BOOLEAN
    /\ drain \in [todo : SUBSET JobIds, current : 0..MaxJobs]
    /\ agent \in [Handlers -> Goroutine]
    /\ rendered \in SUBSET Devices
    /\ installed \in SUBSET Devices
    /\ users \in SUBSET Devices
    /\ xrayUp \in BOOLEAN
    /\ doubts \subseteq {"call", "file", "users"}
    /\ faults \in 0..MaxFaults

Init ==
    /\ device = [d \in Devices |-> "absent"]
    /\ credential = [d \in Devices |-> FALSE]
    /\ subscription = [d \in Devices |-> FALSE]
    /\ invitation = [i \in Invitations |-> "absent"]
    /\ lapsed = {}
    /\ session = [i \in Invitations |-> "none"]
    /\ job = [j \in JobIds |-> Unused]
    /\ created = 0
    /\ up = TRUE
    /\ drain = NotDraining
    /\ agent = [h \in Handlers |-> Idle]
    /\ rendered = {}
    /\ installed = {}
    /\ users = {}
    /\ xrayUp = TRUE
    /\ doubts = {}
    /\ faults = 0

\* The environment does something the code has to survive.
Fault ==
    /\ faults < MaxFaults
    /\ faults' = faults + 1

-----------------------------------------------------------------------------
(* The tables *)

\* A definition named Bug_... is a deliberate fault: the definition after it with
\* a plausible bug.  Nothing uses it; put in place of that definition it breaks
\* one of the properties below, which shows that the property watches this code.

Open == {"pending", "running", "waiting", "failed"}
Retryable == {"pending", "waiting", "failed"}

\* UPDATE device_sync_jobs SET status, next_attempt_at.
SetJob(table, j, status) == [table EXCEPT ![j].status = status]

\* openJob() that takes a failed job for a finished one.
Bug_OpenJobsNotFailed(d, kind) ==
    {j \in JobIds : /\ job[j].device = d
                    /\ job[j].kind = kind
                    /\ job[j].status \in {"pending", "running"}}

\* openJob(): the unfinished job of a kind a device has.
OpenJobs(d, kind) ==
    {j \in JobIds : /\ job[j].device = d
                    /\ job[j].kind = kind
                    /\ job[j].status \in Open}

ActiveDevices == {d \in Devices : device[d] = "active"}

\* revokeRows() that forgets invitations already reserved.
Bug_RevokeRowsKeepReserved(d) ==
    /\ device' = [device EXCEPT ![d] = "revoked"]
    /\ subscription' = [subscription EXCEPT ![d] = FALSE]
    /\ credential' = [credential EXCEPT ![d] = FALSE]
    /\ invitation' = [i \in Invitations |->
           IF DeviceOf[i] = d /\ invitation[i] = "pending"
           THEN "revoked" ELSE invitation[i]]
    /\ session' = [i \in Invitations |->
           IF DeviceOf[i] = d THEN "none" ELSE session[i]]

\* revokeRows(): the rows that stop a device.  Its jobs are not among them.
RevokeRows(d) ==
    /\ device' = [device EXCEPT ![d] = "revoked"]
    /\ subscription' = [subscription EXCEPT ![d] = FALSE]
    /\ credential' = [credential EXCEPT ![d] = FALSE]
    /\ invitation' = [i \in Invitations |->
           IF DeviceOf[i] = d /\ invitation[i] \in {"pending", "redeeming"}
           THEN "revoked" ELSE invitation[i]]
    /\ session' = [i \in Invitations |->
           IF DeviceOf[i] = d THEN "none" ELSE session[i]]

\* The answer GET /redemptions gives for the token of an invitation.
Redemption(i) ==
    IF session[i] # "open" THEN "notFound"
    ELSE IF /\ device[DeviceOf[i]] = "active"
            /\ \E j \in JobIds : /\ job[j].invitation = i
                                 /\ job[j].status = "completed"
    THEN "ready" ELSE "pending"

\* authenticateHysteria(): what the Hysteria server is told about a device.
HysteriaAccepts(d) == device[d] = "active" /\ credential[d]

-----------------------------------------------------------------------------
(* Owner: devices and invitations *)

\* createInvitation(): one more link, which replaces the one still unused.
InvitationRows(i) ==
    /\ invitation[i] = "absent"
    /\ invitation' = [k \in Invitations |->
           IF k = i THEN "pending"
           ELSE IF DeviceOf[k] = DeviceOf[i] /\ invitation[k] = "pending"
           THEN "superseded" ELSE invitation[k]]

CreateDevice(i) ==
    LET d == DeviceOf[i] IN
    /\ up
    /\ device[d] = "absent"
    /\ device' = [device EXCEPT ![d] = "invited"]
    /\ credential' = [credential EXCEPT ![d] = TRUE]
    /\ InvitationRows(i)
    /\ UNCHANGED <<subscription, lapsed, session, outbox, up, drain, agent,
                   rendered, doubts, engine, faults>>

CreateInvitation(i) ==
    /\ up
    /\ device[DeviceOf[i]] \in {"invited", "active"}
    /\ InvitationRows(i)
    /\ UNCHANGED <<people, lapsed, session, outbox, up, drain, agent, rendered, doubts,
                   engine, faults>>

\* expires_at of an invitation or of its session is reached.
Lapse(i) ==
    /\ Fault
    /\ \/ /\ invitation[i] \in {"pending", "redeeming"}
          /\ lapsed' = lapsed \cup {i}
          /\ UNCHANGED session
       \/ /\ session[i] = "open"
          /\ session' = [session EXCEPT ![i] = "lapsed"]
          /\ UNCHANGED lapsed
    /\ UNCHANGED <<people, invitation, outbox, up, drain, agent, rendered, doubts, engine>>

-----------------------------------------------------------------------------
(* process(): claim a job and call the agent *)

\* renderRecovery(): the active devices, with the one being added or without
\* the one being revoked.
RecoveryConfig(row) ==
    IF row.kind = "activate" THEN ActiveDevices \cup {row.device}
                             ELSE ActiveDevices \ {row.device}

\* credential() without its look at revoked_at.
Bug_RenderableAnyway(row) == row.device \in Devices

\* credential() throws for a device whose credentials are revoked, and it is
\* called for the job's own device and for each device in the config.
Renderable(row) ==
    \A d \in RecoveryConfig(row) \cup {row.device} : credential[d]

\* The turn from the claim to the agent call.  table is the outbox the turn
\* sees: job itself, or job with the row the same turn has just inserted.
Process(j, table) ==
    \/ /\ table[j].status \notin Retryable
       /\ job' = table
       /\ UNCHANGED <<agent, rendered, doubts>>
    \/ /\ table[j].status \in Retryable
       /\ ~Renderable(table[j])
       /\ job' = SetJob(table, j, "waiting")
       /\ UNCHANGED <<agent, rendered, doubts>>
    \/ /\ table[j].status \in Retryable
       /\ Renderable(table[j])
       /\ job' = SetJob(table, j, "running")
       /\ rendered' = RecoveryConfig(table[j])
       /\ doubts' = IF \E g \in Handlers : agent[g].stage # "idle"
                    THEN {"call", "file", "users"} ELSE doubts \ {"call"}
       /\ \E h \in Handlers :
             /\ agent[h].stage = "idle"
             /\ agent' = [agent EXCEPT ![h] =
                    [stage |-> "received", job |-> j, awaited |-> TRUE]]

\* The control plane dies: every await, the drain loop included, is forgotten.
Dies ==
    /\ Fault
    /\ up
    /\ up' = FALSE
    /\ drain' = NotDraining
    /\ agent' = [h \in Handlers |->
           IF agent[h].stage \in {"accepted", "refused"} THEN Idle
           ELSE [agent[h] EXCEPT !.awaited = FALSE]]

-----------------------------------------------------------------------------
(* Person: the invitation link *)

\* prepareActivation() with no unfinished activation of the device: the
\* reservation, its session and its job are one transaction.  A second session
\* of the invitation would break the uniqueness of its token.
Reserve(i) ==
    /\ OpenJobs(DeviceOf[i], "activate") = {}
    /\ created < MaxJobs
    /\ session[i] = "none"
    /\ invitation' = [invitation EXCEPT ![i] = "redeeming"]
    /\ session' = [session EXCEPT ![i] = "open"]
    /\ created' = created + 1

WithActivation(i) ==
    [job EXCEPT ![created + 1] = NewJob("activate", DeviceOf[i], i)]

Redeemable(i) ==
    /\ up
    /\ invitation[i] \in {"pending", "redeeming"}
    /\ i \notin lapsed

\* redeem(): an unfinished activation of the device is reused, whichever
\* invitation it came from, and nothing is reserved then.
Redeem(i) ==
    /\ Redeemable(i)
    /\ \/ /\ Reserve(i)
          /\ Process(created + 1, WithActivation(i))
       \/ /\ \E j \in OpenJobs(DeviceOf[i], "activate") : Process(j, job)
          /\ UNCHANGED <<invitation, session, created>>
    /\ UNCHANGED <<people, lapsed, up, drain, engine, faults>>

\* The transaction is on disk, the process dies before it claims the job.
RedeemInterrupted(i) ==
    /\ Redeemable(i)
    /\ Reserve(i)
    /\ job' = WithActivation(i)
    /\ Dies
    /\ UNCHANGED <<people, lapsed, rendered, doubts, engine>>

-----------------------------------------------------------------------------
(* Owner: revocation *)

Revocable(d) ==
    /\ up
    /\ OpenJobs(d, "activate") = {}

\* revokeUnprovisioned(): no engine knows the device, the rows are enough.
RevokeUnprovisioned(d) ==
    /\ Revocable(d)
    /\ device[d] = "invited"
    /\ RevokeRows(d)
    /\ UNCHANGED <<lapsed, outbox, up, drain, agent, rendered, doubts, engine, faults>>

EnqueueRevocation(d) ==
    /\ OpenJobs(d, "revoke") = {}
    /\ created < MaxJobs
    /\ created' = created + 1

WithRevocation(d) ==
    [job EXCEPT ![created + 1] = NewJob("revoke", d, NoInvitation)]

\* revoke() of an active device.
Revoke(d) ==
    /\ Revocable(d)
    /\ device[d] = "active"
    /\ \/ /\ EnqueueRevocation(d)
          /\ Process(created + 1, WithRevocation(d))
       \/ /\ \E j \in OpenJobs(d, "revoke") : Process(j, job)
          /\ UNCHANGED created
    /\ UNCHANGED <<people, invites, up, drain, engine, faults>>

RevokeInterrupted(d) ==
    /\ Revocable(d)
    /\ device[d] = "active"
    /\ EnqueueRevocation(d)
    /\ job' = WithRevocation(d)
    /\ Dies
    /\ UNCHANGED <<people, invites, rendered, doubts, engine>>

-----------------------------------------------------------------------------
(* drain(): the 5-second timer *)

\* A drain that never looks at failed jobs again.
Bug_DueOnlyPending == {j \in JobIds : job[j].status = "pending"}

Due == {j \in JobIds : job[j].status \in Retryable \ {"waiting"}}

\* The oldest due jobs; a drain that is still running makes the tick a no-op.
DrainBegin ==
    /\ up
    /\ drain = NotDraining
    /\ Due # {}
    /\ drain' = [todo |-> {j \in Due : Cardinality({k \in Due : k < j}) < DrainLimit},
                 current |-> 0]
    /\ UNCHANGED <<people, invites, outbox, up, agent, rendered, doubts, engine, faults>>

\* The next job of the list, by created_at.  It may have been claimed or
\* finished by a request since the list was read.
DrainStep ==
    /\ up
    /\ drain.current = 0
    /\ \E j \in drain.todo :
          /\ \A k \in drain.todo : j <= k
          /\ \/ /\ j \in Due
                /\ Process(j, job)
                /\ drain' = [todo |-> drain.todo \ {j},
                             current |-> IF job'[j].status = "running" THEN j ELSE 0]
             \/ /\ j \notin Due
                /\ drain' = [drain EXCEPT !.todo = @ \ {j}]
                /\ UNCHANGED <<job, agent, rendered, doubts>>
    /\ UNCHANGED <<people, invites, created, up, engine, faults>>

\* next_attempt_at of a failed job is reached: at most 300 seconds later.
BackoffElapses(j) ==
    /\ job[j].status = "waiting"
    /\ job' = SetJob(job, j, "failed")
    /\ UNCHANGED <<people, invites, created, up, drain, agent, rendered, doubts,
                   engine, faults>>

-----------------------------------------------------------------------------
(* The answer of the agent reaches process() *)

\* drain() without the try/finally: the flag stays set.
Bug_DrainNeverReturns(j) == UNCHANGED drain

\* The await returns to drain() when drain() is the caller.
Returns(j) ==
    drain' = IF drain.current = j THEN [drain EXCEPT !.current = 0] ELSE drain

CompleteJob(j) == job' = SetJob(job, j, "completed")
\* A failure that closes the job.
Bug_FailJobForGood(j) == job' = SetJob(job, j, "completed")
FailJob(j) == job' = SetJob(job, j, "waiting")

\* completeActivation(): it does not look at the status the device has by now.
CompleteActivation(j) ==
    LET d == job[j].device IN
    /\ device' = [device EXCEPT ![d] = "active"]
    /\ subscription' = [subscription EXCEPT ![d] = TRUE]
    /\ invitation' = [invitation EXCEPT ![job[j].invitation] = "redeemed"]
    /\ CompleteJob(j)
    /\ UNCHANGED <<credential, session>>

CompleteRevocation(j) ==
    /\ RevokeRows(job[j].device)
    /\ CompleteJob(j)

Answered(h, verdict) ==
    /\ up
    /\ agent[h].awaited
    /\ agent[h].stage = verdict
    /\ agent' = [agent EXCEPT ![h] = Idle]
    /\ Returns(agent[h].job)

AgentAccepted(h) ==
    LET j == agent[h].job IN
    /\ Answered(h, "accepted")
    /\ \/ job[j].kind = "activate" /\ CompleteActivation(j)
       \/ job[j].kind = "revoke" /\ CompleteRevocation(j)
    /\ UNCHANGED <<lapsed, created, up, rendered, doubts, engine, faults>>

AgentRefused(h) ==
    /\ Answered(h, "refused")
    /\ FailJob(agent[h].job)
    /\ UNCHANGED <<people, invites, created, up, rendered, doubts, engine, faults>>

\* callAgent() gives up after 30 seconds; the goroutine does not notice.
AgentTimeout(h) ==
    /\ Fault
    /\ agent[h].awaited
    /\ agent[h].stage \in {"received", "installed"}
    /\ agent' = [agent EXCEPT ![h].awaited = FALSE]
    /\ FailJob(agent[h].job)
    /\ Returns(agent[h].job)
    /\ UNCHANGED <<people, invites, created, up, rendered, doubts, engine>>

-----------------------------------------------------------------------------
(* Restarts of the control plane *)

Crash ==
    /\ Dies
    /\ UNCHANGED <<people, invites, outbox, rendered, doubts, engine>>

\* A start that skips recoverInterrupted().
Bug_RestartWithoutRecovery ==
    /\ ~up
    /\ up' = TRUE
    /\ UNCHANGED <<people, invites, outbox, drain, agent, rendered, doubts, engine, faults>>

\* recoverInterrupted(), before the server listens.
Restart ==
    /\ ~up
    /\ up' = TRUE
    /\ job' = [j \in JobIds |->
           IF job[j].status = "running"
           THEN [job[j] EXCEPT !.status = "failed"] ELSE job[j]]
    /\ UNCHANGED <<people, invites, created, drain, agent, rendered, doubts,
                   engine, faults>>

-----------------------------------------------------------------------------
(* The root agent: xray.user.add and xray.user.revoke *)

\* A goroutine nobody waits for ends without an answer.
Ends(h, verdict) ==
    agent' = [agent EXCEPT ![h] =
        IF agent[h].awaited THEN [agent[h] EXCEPT !.stage = verdict] ELSE Idle]

Subject(h) == job[agent[h].job].device

\* install(): copies the shared file as it is now, whoever rendered it last.
AgentInstall(h) ==
    /\ agent[h].stage = "received"
    /\ installed' = rendered
    /\ doubts' = IF "call" \in doubts THEN doubts ELSE doubts \ {"file"}
    /\ agent' = [agent EXCEPT ![h].stage = "installed"]
    /\ UNCHANGED <<people, invites, outbox, up, drain, rendered, users, xrayUp, faults>>

\* xray api adu / rmu.
AgentApply(h) ==
    /\ agent[h].stage = "installed"
    /\ xrayUp
    /\ users' = IF job[agent[h].job].kind = "activate" THEN users \cup {Subject(h)}
                                                       ELSE users \ {Subject(h)}
    /\ Ends(h, "accepted")
    /\ UNCHANGED <<people, invites, outbox, up, drain, rendered, doubts,
                   installed, xrayUp, faults>>

\* An API failure reported as success, without the restart.
Bug_AgentIgnoresApiFailure(h) ==
    /\ agent[h].stage = "installed"
    /\ Fault
    /\ Ends(h, "accepted")
    /\ UNCHANGED <<people, invites, outbox, up, drain, rendered, doubts, engine>>

\* Xray starts with the installed config.
LoadsInstalled ==
    /\ users' = installed
    /\ xrayUp' = TRUE
    /\ doubts' = IF "file" \in doubts THEN doubts ELSE doubts \ {"users"}

\* The API call fails: systemctl restart xray loads the installed config.
AgentRestartsXray(h) ==
    /\ agent[h].stage = "installed"
    /\ IF xrayUp THEN Fault ELSE UNCHANGED faults
    /\ LoadsInstalled
    /\ Ends(h, "accepted")
    /\ UNCHANGED <<people, invites, outbox, up, drain, rendered, installed>>

\* The agent fails: before the file is in place, after it, or in the restart.
AgentFails(h) ==
    /\ Fault
    /\ agent[h].stage \in {"received", "installed"}
    /\ \/ UNCHANGED <<users, xrayUp>>
       \/ /\ agent[h].stage = "installed"
          /\ users' = {}
          /\ xrayUp' = FALSE
    /\ Ends(h, "refused")
    /\ UNCHANGED <<people, invites, outbox, up, drain, rendered, doubts, installed>>

\* systemd or an operator starts Xray again, from the installed config.
XrayRestarts ==
    /\ IF xrayUp THEN Fault ELSE UNCHANGED faults
    /\ LoadsInstalled
    /\ UNCHANGED <<people, invites, outbox, up, drain, agent, rendered, installed>>

-----------------------------------------------------------------------------

Next ==
    \/ \E i \in Invitations :
          \/ CreateDevice(i)
          \/ CreateInvitation(i)
          \/ Lapse(i)
          \/ Redeem(i)
          \/ RedeemInterrupted(i)
    \/ \E d \in Devices :
          \/ RevokeUnprovisioned(d)
          \/ Revoke(d)
          \/ RevokeInterrupted(d)
    \/ DrainBegin
    \/ DrainStep
    \/ \E j \in JobIds : BackoffElapses(j)
    \/ \E h \in Handlers :
          \/ AgentAccepted(h)
          \/ AgentRefused(h)
          \/ AgentTimeout(h)
          \/ AgentInstall(h)
          \/ AgentApply(h)
          \/ AgentRestartsXray(h)
          \/ AgentFails(h)
    \/ Crash
    \/ Restart
    \/ XrayRestarts

\* Timers fire, goroutines run, answers arrive, systemd restarts what died.
\* Nobody is obliged to create, redeem or revoke, and no fault has to happen.
Fairness ==
    /\ WF_vars(DrainBegin)
    /\ WF_vars(DrainStep)
    /\ \A j \in JobIds : WF_vars(BackoffElapses(j))
    /\ \A h \in Handlers :
          /\ WF_vars(AgentAccepted(h))
          /\ WF_vars(AgentRefused(h))
          /\ WF_vars(AgentInstall(h))
          /\ WF_vars(AgentApply(h))
          /\ WF_vars(AgentRestartsXray(h))
    /\ WF_vars(Restart)

Spec == Init /\ [][Next]_vars
FairSpec == Spec /\ Fairness

-----------------------------------------------------------------------------
(* Properties *)

\* A device has at most one unfinished job of a kind: what the unique index
\* device_sync_jobs_open demands, and what openJob() takes for granted when it
\* reads one row.
OneOpenJob ==
    \A j, k \in JobIds :
        /\ job[j].status \in Open /\ job[k].status \in Open
        /\ job[j].device = job[k].device /\ job[j].kind = job[k].kind
        => j = k

\* An invitation that has been reserved and is not decided yet always has its
\* session, for the page that polls it, and an unfinished job of its own that
\* will decide it: a failed or interrupted activation is never forgotten, and
\* clicking the link again finds the job instead of inserting a second session.
ReservationIsBacked ==
    \A i \in Invitations : invitation[i] = "redeeming" =>
        /\ session[i] # "none"
        /\ \E j \in JobIds : /\ job[j].invitation = i
                              /\ job[j].kind = "activate"
                              /\ job[j].status \in Open

\* While the control plane runs, a job is running exactly when one process()
\* call awaits the agent for it.  A running job nobody awaits would be stuck:
\* process() and drain() both leave running jobs alone.
RunningIsAwaited ==
    up => \A j \in JobIds :
        (job[j].status = "running")
            <=> \E h \in Handlers : agent[h].awaited /\ agent[h].job = j

\* Two process() calls never await the agent for the same job.
AwaitedOnce ==
    \A g, h \in Handlers :
        agent[g].awaited /\ agent[h].awaited /\ agent[g].job = agent[h].job => g = h

\* Whatever jobs are still open, a revoked device has no subscription URL, no
\* usable credentials, no link and no installation page that would work.
RevokedIsClean ==
    \A d \in Devices : device[d] = "revoked" =>
        /\ ~subscription[d]
        /\ ~credential[d]
        /\ \A i \in Invitations : DeviceOf[i] = d =>
              /\ invitation[i] \notin {"pending", "redeeming"}
              /\ session[i] = "none"

\* An engine knows the device, a file that is still to be installed does, or a call of the
\* agent that adds it has not come back.
Known(d) ==
    \/ d \in users \cup installed
    \/ d \in rendered /\ \E h \in Handlers : agent[h].stage = "received"
    \/ \E h \in Handlers : /\ agent[h].stage \in {"received", "installed", "accepted"}
                           /\ job[agent[h].job].kind = "activate"
                           /\ Subject(h) = d

\* The abstract access of a device: what its row, its credentials, the engines and the calls
\* under way say together.  A device made active again by a late answer lingers.
AccessOf(d) ==
    CASE device[d] = "absent" -> "none"
      [] device[d] = "invited" /\ credential[d] -> IF Known(d) THEN "taken" ELSE "issued"
      [] HysteriaAccepts(d) -> "granted"
      [] OTHER -> IF device[d] = "revoked" /\ ~credential[d] /\ ~Known(d) THEN "withdrawn"
                  ELSE "lingering"

access == [d \in Devices |-> AccessOf(d)]

\* The outbox, with its retries, crashes and concurrent requests, implements Access: nobody
\* is let in whom the engines have not taken in first, an unused device can be withdrawn
\* only while no engine knows it, and once neither row, engine, file nor call knows a
\* withdrawn device, no retry, late call or restart brings it back.
A == INSTANCE Access WITH access <- access
AccessSpec == A!Spec

\* An active device whose credentials are revoked: a reinvitation was redeemed
\* while the revocation was under way, and its answer came last.
Revived == {d \in Devices : device[d] = "active" /\ ~credential[d]}

\* Every job the outbox holds is finished, unless its device lost its
\* credentials meanwhile or a revived device blocks every config.
QueuedWorkFinishes ==
    \A j \in JobIds : job[j].status \in Open ~>
        \/ job[j].status = "completed"
        \/ \E d \in Devices : job[j].device = d /\ ~credential[d]
        \/ Revived # {}

\* A page that is told to wait is eventually told that the device is ready or
\* that there is nothing to wait for.
WaitingPageIsAnswered ==
    \A i \in Invitations :
        Redemption(i) = "pending" ~> Redemption(i) # "pending" \/ Revived # {}

\* Nothing is in flight and nothing is queued.
Settled ==
    /\ up
    /\ \A j \in JobIds : job[j].status \notin Open
    /\ \A h \in Handlers : agent[h] = Idle

\* When provisioning is settled the installed recovery config, which Xray loads at its next
\* restart, lists exactly the active devices, and so does the Xray that runs: what an
\* installation, a failure of its API or a restart leaves.  Calls that overlap share one file
\* and put both in doubt; the next call that runs alone rights the file, and the next restart
\* of Xray what runs.
EnginesAgree ==
    Settled => /\ "file" \notin doubts => installed = ActiveDevices
               /\ "users" \notin doubts /\ xrayUp => users = ActiveDevices

\* The revocation of a device is final: a revoked device does not become
\* active again.
RevokedStaysRevoked ==
    [][\A d \in Devices : device[d] = "revoked" => device'[d] = "revoked"]_vars

-----------------------------------------------------------------------------
(* The inductive invariant: what the properties rest on *)

\* The rows of the outbox: each belongs to a device that exists, and an
\* activation to an invitation of that device.
UsedRows ==
    \A j \in JobIds :
        /\ job[j].status # "unused" <=> j <= created
        /\ job[j].status # "unused" =>
              /\ job[j].device \in Devices
              /\ device[job[j].device] # "absent"
              /\ job[j].kind = "activate" =>
                    /\ job[j].invitation \in Invitations
                    /\ DeviceOf[job[j].invitation] = job[j].device
              /\ job[j].kind = "revoke" => job[j].invitation = NoInvitation

\* A link belongs to a device that exists.
LinksHaveDevices ==
    \A i \in Invitations : invitation[i] # "absent" => device[DeviceOf[i]] # "absent"

\* A goroutine serves a job that exists; while it is awaited the control plane
\* is up and the job is running, and only an awaited one keeps an answer.
AwaitedRuns ==
    \A h \in Handlers :
        /\ agent[h].stage # "idle" => job[agent[h].job].status # "unused"
        /\ agent[h].awaited => /\ up
                               /\ agent[h].stage # "idle"
                               /\ job[agent[h].job].status = "running"
        /\ agent[h].stage \in {"accepted", "refused"} => agent[h].awaited

\* A device has credentials from its creation until it is revoked.
CredentialsFollowStatus ==
    \A d \in Devices : /\ device[d] = "invited" => credential[d]
                       /\ device[d] \in {"absent", "revoked"} => ~credential[d]

IInv ==
    /\ TypeOK
    /\ UsedRows
    /\ LinksHaveDevices
    /\ OneOpenJob
    /\ AwaitedRuns
    /\ AwaitedOnce
    /\ RunningIsAwaited
    /\ ReservationIsBacked
    /\ RevokedIsClean
    /\ CredentialsFollowStatus

=============================================================================
