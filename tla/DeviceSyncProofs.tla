-------------------------- MODULE DeviceSyncProofs --------------------------
(***************************************************************************)
(* Proofs about DeviceSync for every value of its constants, with any      *)
(* number of calls of the agent that overlap: the inductive invariant      *)
(* IInv, the access the outbox implements, and that the engines agree with *)
(* the database again once a call has run alone.                           *)
(***************************************************************************)
EXTENDS DeviceSync, TLAPS

-----------------------------------------------------------------------------
(* What a step does to the outbox *)

\* Every row but j is as before.
OthersKept(j) == \A k \in JobIds \ {j} : job'[k] = job[k]

\* A step moves one open job ...
Moves(j, status) ==
    /\ created' = created
    /\ OthersKept(j)
    /\ job[j].status \in Open
    /\ job'[j].kind = job[j].kind
    /\ job'[j].device = job[j].device
    /\ job'[j].invitation = job[j].invitation
    /\ job'[j].status = status

\* ... or inserts one.
Inserts(kind, d, i, status) ==
    /\ OpenJobs(d, kind) = {}
    /\ created < MaxJobs
    /\ created' = created + 1
    /\ OthersKept(created + 1)
    /\ job'[created + 1] =
          [kind |-> kind, device |-> d, invitation |-> i, status |-> status]

\* An update of the status is a move.
LEMMA SetMoves ==
    ASSUME TypeOK, NEW j \in JobIds, NEW status, job[j].status \in Open,
           job' = SetJob(job, j, status), created' = created
    PROVE  Moves(j, status)
BY DEF TypeOK, SetJob, Moves, OthersKept, Job

\* process() on a job of the table leaves it, fails it or sets it running.
LEMMA ProcessMoves ==
    ASSUME TypeOK, NEW j \in JobIds, Process(j, job), created' = created
    PROVE  \/ UNCHANGED outbox
           \/ \E status \in Open : Moves(j, status)
<1>1. CASE job' = job
  BY <1>1 DEF outbox
<1>2. ASSUME NEW s \in Open, job[j].status \in Retryable, job' = SetJob(job, j, s)
      PROVE  Moves(j, s)
  BY <1>2, SetMoves DEF Retryable, Open
<1>. QED BY <1>1, <1>2 DEF Process, Open

\* ... and a job the same turn inserts is waiting or running after it.
LEMMA ProcessInserts ==
    ASSUME TypeOK, NEW kind \in Kind, NEW d \in Devices,
           NEW i \in Invitations \cup {NoInvitation},
           OpenJobs(d, kind) = {}, created < MaxJobs, created' = created + 1,
           Process(created + 1, [job EXCEPT ![created + 1] = NewJob(kind, d, i)])
    PROVE  \E status \in Open : Inserts(kind, d, i, status)
<1> DEFINE n == created + 1
           t == [job EXCEPT ![n] = NewJob(kind, d, i)]
           row(status) == [kind |-> kind, device |-> d, invitation |-> i, status |-> status]
<1>1. n \in JobIds
  BY DeviceSyncAssumption DEF TypeOK, JobIds
<1>2. /\ t \in [JobIds -> Job]
      /\ t[n] = row("pending")
      /\ \A k \in JobIds \ {n} : t[k] = job[k]
  BY <1>1 DEF TypeOK, NewJob, Job, JobStatus
<1>3. ASSUME NEW s \in Open, job' = SetJob(t, n, s)
      PROVE  Inserts(kind, d, i, s)
  <2>. HIDE DEF t
  <2>1. \A k \in JobIds \ {n} : job'[k] = job[k]
    BY <1>2, <1>3 DEF SetJob
  <2>2. job'[n].kind = t[n].kind /\ job'[n].device = t[n].device
    BY <1>1, <1>2, <1>3 DEF SetJob
  <2>3. job'[n] = [t[n] EXCEPT !.status = s]
    BY <1>1, <1>2, <1>3 DEF SetJob
  <2>4. job'[n] = row(s)
    BY <1>2, <2>3
  <2>. QED BY <2>1, <2>4 DEF Inserts, OthersKept
<1>4. \E s \in Open : job' = SetJob(t, n, s)
  BY <1>2 DEF Process, Retryable, Open
<1>. QED BY <1>3, <1>4

-----------------------------------------------------------------------------
(* Type correctness *)

\* process() keeps the types of what it writes.
LEMMA ProcessTypes ==
    ASSUME TypeOK, NEW j \in JobIds, NEW table \in [JobIds -> Job],
           table[j].device \in Devices, Process(j, table)
    PROVE  /\ job' \in [JobIds -> Job]
           /\ agent' \in [Handlers -> Goroutine]
           /\ rendered' \in SUBSET Devices
           /\ doubts' \subseteq {"call", "file", "users"}
<1>1. \A s \in JobStatus : SetJob(table, j, s) \in [JobIds -> Job]
  BY DEF SetJob, Job
<1>2. job' \in [JobIds -> Job]
  BY <1>1 DEF Process, JobStatus
<1>3. RecoveryConfig(table[j]) \in SUBSET Devices
  BY DEF RecoveryConfig, ActiveDevices
<1>4. rendered' \in SUBSET Devices
  BY <1>3 DEF Process, TypeOK
<1>5. ASSUME NEW h \in Handlers
      PROVE  [agent EXCEPT ![h] = [stage |-> "received", job |-> j, awaited |-> TRUE]]
                \in [Handlers -> Goroutine]
  BY DEF TypeOK, Goroutine, Stage
<1>6. agent' \in [Handlers -> Goroutine]
  BY <1>5 DEF Process, TypeOK
<1>7. doubts' \subseteq {"call", "file", "users"}
  BY DEF Process, TypeOK
<1>. QED BY <1>2, <1>4, <1>6, <1>7

\* A row is a job of its parts.
LEMMA NewJobType ==
    ASSUME TypeOK, NEW kind \in Kind, NEW d \in Devices,
           NEW i \in Invitations \cup {NoInvitation}, created < MaxJobs
    PROVE  /\ created + 1 \in JobIds
           /\ created + 1 \in 0..MaxJobs
           /\ [job EXCEPT ![created + 1] = NewJob(kind, d, i)] \in [JobIds -> Job]
           /\ [job EXCEPT ![created + 1] = NewJob(kind, d, i)][created + 1].device = d
<1>1. created + 1 \in JobIds /\ created + 1 \in 0..MaxJobs
  BY DeviceSyncAssumption DEF TypeOK, JobIds
<1>2. NewJob(kind, d, i) \in Job
  BY DEF NewJob, Job, JobStatus
<1>3. job \in [JobIds -> Job]
  BY DEF TypeOK
<1>. QED BY <1>1, <1>2, <1>3 DEF NewJob

\* revokeRows() keeps the types.
LEMMA RevokeRowsTypes ==
    ASSUME TypeOK, NEW d, RevokeRows(d)
    PROVE  /\ device' \in [Devices -> DeviceStatus]
           /\ credential' \in [Devices -> BOOLEAN]
           /\ subscription' \in [Devices -> BOOLEAN]
           /\ invitation' \in [Invitations -> InvitationStatus]
           /\ session' \in [Invitations -> SessionStatus]
BY DEF TypeOK, RevokeRows, DeviceStatus, InvitationStatus, SessionStatus

\* createInvitation() keeps the type of the table.
LEMMA InvitationRowsTypes ==
    ASSUME TypeOK, NEW i, InvitationRows(i)
    PROVE  invitation' \in [Invitations -> InvitationStatus]
BY DEF TypeOK, InvitationRows, InvitationStatus

\* The death of the control plane keeps the types.
LEMMA DiesTypes ==
    ASSUME TypeOK, Dies
    PROVE  /\ up' \in BOOLEAN
           /\ faults' \in 0..MaxFaults
           /\ drain' \in [todo : SUBSET JobIds, current : 0..MaxJobs]
           /\ agent' \in [Handlers -> Goroutine]
<1>1. faults' \in 0..MaxFaults
  BY DeviceSyncAssumption DEF TypeOK, Dies, Fault
<1>2. NotDraining \in [todo : SUBSET JobIds, current : 0..MaxJobs]
  BY DeviceSyncAssumption DEF NotDraining
<1>3. Idle \in Goroutine
  BY DeviceSyncAssumption DEF Idle, Goroutine, Stage, JobIds
<1>4. agent' \in [Handlers -> Goroutine]
  BY <1>3 DEF TypeOK, Dies, Goroutine
<1>. QED BY <1>1, <1>2, <1>4 DEF Dies

\* The devices of used rows exist, the goroutines' jobs are used.
LEMMA SubjectType ==
    ASSUME TypeOK, UsedRows, AwaitedRuns, NEW h \in Handlers, agent[h].stage # "idle"
    PROVE  /\ agent[h].job \in JobIds
           /\ job[agent[h].job].status # "unused"
           /\ Subject(h) \in Devices
BY DEF TypeOK, Goroutine, UsedRows, AwaitedRuns, Subject

\* One update of the table by the answer of the agent.
LEMMA SetJobType ==
    ASSUME TypeOK, NEW j, NEW status \in JobStatus
    PROVE  SetJob(job, j, status) \in [JobIds -> Job]
BY DEF TypeOK, SetJob, Job

\* The end of an agent call keeps the types.
LEMMA AnsweredTypes ==
    ASSUME TypeOK, NEW h \in Handlers, NEW verdict, Answered(h, verdict)
    PROVE  /\ agent' \in [Handlers -> Goroutine]
           /\ drain' \in [todo : SUBSET JobIds, current : 0..MaxJobs]
<1>1. Idle \in Goroutine
  BY DeviceSyncAssumption DEF Idle, Goroutine, Stage, JobIds
<1>2. agent' \in [Handlers -> Goroutine]
  BY <1>1 DEF Answered, TypeOK
<1>3. [drain EXCEPT !.current = 0] \in [todo : SUBSET JobIds, current : 0..MaxJobs]
  BY DeviceSyncAssumption DEF TypeOK
<1>. QED BY <1>2, <1>3 DEF Answered, Returns, TypeOK

\* A goroutine that moves on keeps the types.
LEMMA EndsTypes ==
    ASSUME TypeOK, NEW h \in Handlers, NEW verdict \in Stage, Ends(h, verdict)
    PROVE  agent' \in [Handlers -> Goroutine]
<1>1. Idle \in Goroutine
  BY DeviceSyncAssumption DEF Idle, Goroutine, Stage, JobIds
<1>2. [agent[h] EXCEPT !.stage = verdict] \in Goroutine
  BY DEF TypeOK, Goroutine
<1>. QED BY <1>1, <1>2 DEF Ends, TypeOK

\* The type invariant: each action keeps it.
LEMMA TypeStep ==
    ASSUME TypeOK, UsedRows, AwaitedRuns, [Next]_vars
    PROVE  TypeOK'
<1> USE DEF people, invites, outbox, engine
<1>1. ASSUME NEW i \in Invitations, CreateDevice(i)
      PROVE  TypeOK'
  BY <1>1, InvitationRowsTypes DEF CreateDevice, TypeOK, DeviceStatus
<1>2. ASSUME NEW i \in Invitations, CreateInvitation(i)
      PROVE  TypeOK'
  BY <1>2, InvitationRowsTypes DEF CreateInvitation, TypeOK
<1>3. ASSUME NEW i \in Invitations, Lapse(i)
      PROVE  TypeOK'
  BY <1>3, DeviceSyncAssumption DEF Lapse, Fault, TypeOK, SessionStatus
<1>4. ASSUME NEW i \in Invitations, Redeem(i)
      PROVE  TypeOK'
  <2>1. DeviceOf[i] \in Devices
    BY DeviceSyncAssumption
  <2>2. CASE Reserve(i) /\ Process(created + 1, WithActivation(i))
    <3>1. /\ created + 1 \in JobIds /\ created + 1 \in 0..MaxJobs
          /\ WithActivation(i) \in [JobIds -> Job]
          /\ WithActivation(i)[created + 1].device \in Devices
      BY <2>1, <2>2, NewJobType DEF Reserve, WithActivation, Kind
    <3>2. /\ job' \in [JobIds -> Job]
          /\ agent' \in [Handlers -> Goroutine]
          /\ rendered' \in SUBSET Devices
          /\ doubts' \subseteq {"call", "file", "users"}
      BY <2>2, <3>1, ProcessTypes
    <3>3. /\ invitation' \in [Invitations -> InvitationStatus]
          /\ session' \in [Invitations -> SessionStatus]
          /\ created' \in 0..MaxJobs
      BY <2>2, <3>1 DEF Reserve, TypeOK, InvitationStatus, SessionStatus
    <3>. QED BY <1>4, <3>2, <3>3 DEF Redeem, TypeOK
  <2>3. CASE /\ \E j \in OpenJobs(DeviceOf[i], "activate") : Process(j, job)
             /\ UNCHANGED <<invitation, session, created>>
    <3>1. /\ job' \in [JobIds -> Job]
          /\ agent' \in [Handlers -> Goroutine]
          /\ rendered' \in SUBSET Devices
          /\ doubts' \subseteq {"call", "file", "users"}
      BY <2>1, <2>3, ProcessTypes DEF OpenJobs, TypeOK
    <3>. QED BY <1>4, <2>3, <3>1 DEF Redeem, TypeOK
  <2>. QED BY <1>4, <2>2, <2>3 DEF Redeem
<1>5. ASSUME NEW i \in Invitations, RedeemInterrupted(i)
      PROVE  TypeOK'
  <2>1. /\ created + 1 \in 0..MaxJobs
        /\ job' \in [JobIds -> Job]
    BY <1>5, NewJobType, DeviceSyncAssumption
       DEF RedeemInterrupted, Reserve, WithActivation, Kind
  <2>2. /\ invitation' \in [Invitations -> InvitationStatus]
        /\ session' \in [Invitations -> SessionStatus]
        /\ created' \in 0..MaxJobs
    BY <1>5, <2>1 DEF RedeemInterrupted, Reserve, TypeOK, InvitationStatus, SessionStatus
  <2>. QED BY <1>5, <2>1, <2>2, DiesTypes DEF RedeemInterrupted, TypeOK
<1>6. ASSUME NEW d \in Devices, RevokeUnprovisioned(d)
      PROVE  TypeOK'
  BY <1>6, RevokeRowsTypes DEF RevokeUnprovisioned, TypeOK
<1>7. ASSUME NEW d \in Devices, Revoke(d)
      PROVE  TypeOK'
  <2>1. CASE EnqueueRevocation(d) /\ Process(created + 1, WithRevocation(d))
    <3>1. /\ created + 1 \in JobIds /\ created + 1 \in 0..MaxJobs
          /\ WithRevocation(d) \in [JobIds -> Job]
          /\ WithRevocation(d)[created + 1].device \in Devices
      BY <2>1, NewJobType DEF EnqueueRevocation, WithRevocation, Kind
    <3>2. /\ job' \in [JobIds -> Job]
          /\ agent' \in [Handlers -> Goroutine]
          /\ rendered' \in SUBSET Devices
          /\ doubts' \subseteq {"call", "file", "users"}
      BY <2>1, <3>1, ProcessTypes
    <3>. QED BY <1>7, <2>1, <3>1, <3>2 DEF Revoke, EnqueueRevocation, TypeOK
  <2>2. CASE (\E j \in OpenJobs(d, "revoke") : Process(j, job)) /\ UNCHANGED created
    <3>1. /\ job' \in [JobIds -> Job]
          /\ agent' \in [Handlers -> Goroutine]
          /\ rendered' \in SUBSET Devices
          /\ doubts' \subseteq {"call", "file", "users"}
      BY <2>2, ProcessTypes DEF OpenJobs, TypeOK
    <3>. QED BY <1>7, <2>2, <3>1 DEF Revoke, TypeOK
  <2>. QED BY <1>7, <2>1, <2>2 DEF Revoke
<1>8. ASSUME NEW d \in Devices, RevokeInterrupted(d)
      PROVE  TypeOK'
  <2>1. /\ created' \in 0..MaxJobs
        /\ job' \in [JobIds -> Job]
    BY <1>8, NewJobType DEF RevokeInterrupted, EnqueueRevocation, WithRevocation, Kind
  <2>. QED BY <1>8, <2>1, DiesTypes DEF RevokeInterrupted, TypeOK
<1>9. ASSUME DrainBegin
      PROVE  TypeOK'
  <2>1. drain' \in [todo : SUBSET JobIds, current : 0..MaxJobs]
    BY <1>9, DeviceSyncAssumption DEF DrainBegin, Due
  <2>. QED BY <1>9, <2>1 DEF DrainBegin, TypeOK
<1>10. ASSUME DrainStep
       PROVE  TypeOK'
  <2>1. PICK j \in drain.todo :
           \/ /\ j \in Due
              /\ Process(j, job)
              /\ drain' = [todo |-> drain.todo \ {j},
                           current |-> IF job'[j].status = "running" THEN j ELSE 0]
           \/ /\ j \notin Due
              /\ drain' = [drain EXCEPT !.todo = @ \ {j}]
              /\ UNCHANGED <<job, agent, rendered, doubts>>
    BY <1>10 DEF DrainStep
  <2>2. j \in JobIds /\ j \in 0..MaxJobs /\ drain.todo \in SUBSET JobIds
    BY <2>1, DeviceSyncAssumption DEF TypeOK, JobIds
  <2>3. drain' \in [todo : SUBSET JobIds, current : 0..MaxJobs]
    BY <2>1, <2>2, DeviceSyncAssumption DEF TypeOK
  <2>4. /\ job' \in [JobIds -> Job]
        /\ agent' \in [Handlers -> Goroutine]
        /\ rendered' \in SUBSET Devices
        /\ doubts' \subseteq {"call", "file", "users"}
    <3>1. CASE j \in Due /\ Process(j, job)
      BY <2>2, <3>1, ProcessTypes DEF Due, Retryable, UsedRows, TypeOK
    <3>2. CASE UNCHANGED <<job, agent, rendered, doubts>>
      BY <3>2 DEF TypeOK
    <3>. QED BY <2>1, <3>1, <3>2
  <2>. QED BY <1>10, <2>3, <2>4 DEF DrainStep, TypeOK
<1>11. ASSUME NEW j \in JobIds, BackoffElapses(j)
       PROVE  TypeOK'
  BY <1>11, SetJobType DEF BackoffElapses, TypeOK, JobStatus
<1>12. ASSUME NEW h \in Handlers, AgentAccepted(h)
       PROVE  TypeOK'
  <2>1. /\ agent' \in [Handlers -> Goroutine]
        /\ drain' \in [todo : SUBSET JobIds, current : 0..MaxJobs]
    BY <1>12, AnsweredTypes DEF AgentAccepted
  <2>2. job' \in [JobIds -> Job]
    BY <1>12, SetJobType
       DEF AgentAccepted, CompleteActivation, CompleteRevocation, CompleteJob, JobStatus
  <2>3. /\ device' \in [Devices -> DeviceStatus]
        /\ credential' \in [Devices -> BOOLEAN]
        /\ subscription' \in [Devices -> BOOLEAN]
        /\ invitation' \in [Invitations -> InvitationStatus]
        /\ session' \in [Invitations -> SessionStatus]
    <3>1. CASE CompleteActivation(agent[h].job)
      BY <3>1 DEF CompleteActivation, TypeOK, DeviceStatus, InvitationStatus
    <3>2. CASE CompleteRevocation(agent[h].job)
      BY <3>2, RevokeRowsTypes DEF CompleteRevocation
    <3>. QED BY <1>12, <3>1, <3>2 DEF AgentAccepted
  <2>. QED BY <1>12, <2>1, <2>2, <2>3 DEF AgentAccepted, Answered, TypeOK
<1>13. ASSUME NEW h \in Handlers, AgentRefused(h)
       PROVE  TypeOK'
  <2>1. /\ agent' \in [Handlers -> Goroutine]
        /\ drain' \in [todo : SUBSET JobIds, current : 0..MaxJobs]
    BY <1>13, AnsweredTypes DEF AgentRefused
  <2>2. job' \in [JobIds -> Job]
    BY <1>13, SetJobType DEF AgentRefused, FailJob, JobStatus
  <2>. QED BY <1>13, <2>1, <2>2 DEF AgentRefused, Answered, TypeOK
<1>14. ASSUME NEW h \in Handlers, AgentTimeout(h)
       PROVE  TypeOK'
  <2>1. agent' \in [Handlers -> Goroutine]
    BY <1>14 DEF AgentTimeout, TypeOK, Goroutine
  <2>2. [drain EXCEPT !.current = 0] \in [todo : SUBSET JobIds, current : 0..MaxJobs]
    BY DeviceSyncAssumption DEF TypeOK
  <2>3. drain' \in [todo : SUBSET JobIds, current : 0..MaxJobs]
    BY <1>14, <2>2 DEF AgentTimeout, Returns, TypeOK
  <2>4. job' \in [JobIds -> Job]
    BY <1>14, SetJobType DEF AgentTimeout, FailJob, JobStatus
  <2>5. faults' \in 0..MaxFaults
    BY <1>14, DeviceSyncAssumption DEF AgentTimeout, Fault, TypeOK
  <2>. QED BY <1>14, <2>1, <2>3, <2>4, <2>5 DEF AgentTimeout, TypeOK
<1>15. ASSUME NEW h \in Handlers, AgentInstall(h)
       PROVE  TypeOK'
  <2>1. agent' \in [Handlers -> Goroutine]
    BY <1>15 DEF AgentInstall, TypeOK, Goroutine, Stage
  <2>. QED BY <1>15, <2>1 DEF AgentInstall, TypeOK
<1>16. ASSUME NEW h \in Handlers, AgentApply(h)
       PROVE  TypeOK'
  <2>1. agent' \in [Handlers -> Goroutine]
    BY <1>16, EndsTypes DEF AgentApply, Stage
  <2>2. users' \in SUBSET Devices
    BY <1>16, SubjectType DEF AgentApply, TypeOK
  <2>. QED BY <1>16, <2>1, <2>2 DEF AgentApply, TypeOK
<1>17. ASSUME NEW h \in Handlers, AgentRestartsXray(h)
       PROVE  TypeOK'
  <2>1. agent' \in [Handlers -> Goroutine]
    BY <1>17, EndsTypes DEF AgentRestartsXray, Stage
  <2>2. Fault \/ UNCHANGED faults
    BY <1>17 DEF AgentRestartsXray
  <2>3. faults' \in 0..MaxFaults
    BY <2>2, DeviceSyncAssumption DEF Fault, TypeOK
  <2>4. /\ users' = installed /\ xrayUp' = TRUE
        /\ doubts' \subseteq doubts
        /\ UNCHANGED <<people, invites, outbox, up, drain, rendered, installed>>
    BY <1>17 DEF AgentRestartsXray, LoadsInstalled
  <2>. QED BY <2>1, <2>3, <2>4 DEF TypeOK
<1>18. ASSUME NEW h \in Handlers, AgentFails(h)
       PROVE  TypeOK'
  <2>1. agent' \in [Handlers -> Goroutine]
    BY <1>18, EndsTypes DEF AgentFails, Stage
  <2>2. faults' \in 0..MaxFaults
    BY <1>18, DeviceSyncAssumption DEF AgentFails, Fault, TypeOK
  <2>3. /\ users' \in SUBSET Devices
        /\ xrayUp' \in BOOLEAN
    BY <1>18 DEF AgentFails, TypeOK
  <2>4. UNCHANGED <<people, invites, outbox, up, drain, rendered, doubts, installed>>
    BY <1>18 DEF AgentFails
  <2>. QED BY <2>1, <2>2, <2>3, <2>4 DEF TypeOK
<1>19. ASSUME Crash
       PROVE  TypeOK'
  BY <1>19, DiesTypes DEF Crash, TypeOK
<1>20. ASSUME Restart
       PROVE  TypeOK'
  BY <1>20 DEF Restart, TypeOK, Job, JobStatus
<1>21. ASSUME XrayRestarts
       PROVE  TypeOK'
  BY <1>21, DeviceSyncAssumption DEF XrayRestarts, LoadsInstalled, Fault, TypeOK
<1>22. CASE UNCHANGED vars
  BY <1>22 DEF vars, TypeOK
<1>. QED
  BY <1>1, <1>2, <1>3, <1>4, <1>5, <1>6, <1>7, <1>8, <1>9, <1>10, <1>11, <1>12, <1>13,
     <1>14, <1>15, <1>16, <1>17, <1>18, <1>19, <1>20, <1>21, <1>22 DEF Next

-----------------------------------------------------------------------------
(* What a step does to the tables *)

\* A link is redeemed: the reservation, its session and its job.
Reserves(i, status) ==
    /\ Redeemable(i)
    /\ invitation' = [invitation EXCEPT ![i] = "redeeming"]
    /\ session' = [session EXCEPT ![i] = "open"]
    /\ Inserts("activate", DeviceOf[i], i, status)
    /\ UNCHANGED <<people, lapsed>>

\* A step that only works on the outbox: a job is claimed, fails or waits, a
\* revocation is queued, or the control plane starts.
OutboxOnly ==
    /\ UNCHANGED <<people, invites>>
    /\ \/ UNCHANGED outbox
       \/ \E j \in JobIds, status \in Open : Moves(j, status)
       \/ \E d \in Devices, status \in Open :
             device[d] = "active" /\ Inserts("revoke", d, NoInvitation, status)
       \/ Restart

\* revoke() works on the outbox.
LEMMA RevokeTables ==
    ASSUME TypeOK, NEW d \in Devices, Revoke(d) \/ RevokeInterrupted(d)
    PROVE  OutboxOnly
<1>1. device[d] = "active" /\ UNCHANGED <<people, invites>>
  BY DEF Revoke, RevokeInterrupted
<1>2. CASE EnqueueRevocation(d) /\ Process(created + 1, WithRevocation(d))
  <2>1. \E status \in Open : Inserts("revoke", d, NoInvitation, status)
    BY <1>2, ProcessInserts DEF EnqueueRevocation, WithRevocation, Kind
  <2>. QED BY <1>1, <2>1 DEF OutboxOnly
<1>3. CASE \E j \in OpenJobs(d, "revoke") : Process(j, job) /\ UNCHANGED created
  BY <1>1, <1>3, ProcessMoves DEF OutboxOnly, OpenJobs
<1>4. CASE EnqueueRevocation(d) /\ job' = WithRevocation(d)
  <2>1. created + 1 \in JobIds
    BY <1>4, DeviceSyncAssumption DEF EnqueueRevocation, TypeOK, JobIds
  <2>2. Inserts("revoke", d, NoInvitation, "pending")
    BY <1>4, <2>1
       DEF EnqueueRevocation, WithRevocation, NewJob, Inserts, OthersKept, TypeOK
  <2>. QED BY <1>1, <2>2 DEF OutboxOnly, Open
<1>. QED BY <1>2, <1>3, <1>4 DEF Revoke, RevokeInterrupted

\* redeem() reserves the link, or claims the job the device already has.
LEMMA RedeemTables ==
    ASSUME TypeOK, NEW i \in Invitations, Redeem(i) \/ RedeemInterrupted(i)
    PROVE  OutboxOnly \/ \E status \in Open : Reserves(i, status)
<1>1. DeviceOf[i] \in Devices
  BY DeviceSyncAssumption
<1>2. Redeemable(i) /\ UNCHANGED <<people, lapsed>>
  BY DEF Redeem, RedeemInterrupted
<1>3. CASE Reserve(i) /\ Process(created + 1, WithActivation(i))
  <2>1. \E status \in Open : Inserts("activate", DeviceOf[i], i, status)
    BY <1>1, <1>3, ProcessInserts DEF Reserve, WithActivation, Kind
  <2>. QED BY <1>2, <1>3, <2>1 DEF Reserve, Reserves
<1>4. CASE /\ \E j \in OpenJobs(DeviceOf[i], "activate") : Process(j, job)
           /\ UNCHANGED <<invitation, session, created>>
  BY <1>2, <1>4, ProcessMoves DEF OutboxOnly, OpenJobs, invites
<1>5. CASE Reserve(i) /\ job' = WithActivation(i)
  <2>1. created + 1 \in JobIds
    BY <1>5, DeviceSyncAssumption DEF Reserve, TypeOK, JobIds
  <2>2. Inserts("activate", DeviceOf[i], i, "pending")
    BY <1>5, <2>1 DEF Reserve, WithActivation, NewJob, Inserts, OthersKept, TypeOK
  <2>. QED BY <1>2, <1>5, <2>2 DEF Reserve, Reserves, Open
<1>. QED BY <1>3, <1>4, <1>5 DEF Redeem, RedeemInterrupted

\* The drain and the failures work on the outbox.
LEMMA WorkTables ==
    ASSUME TypeOK, AwaitedRuns,
           \/ DrainStep
           \/ \E j \in JobIds : BackoffElapses(j)
           \/ \E h \in Handlers : AgentRefused(h) \/ AgentTimeout(h)
    PROVE  OutboxOnly
<1>1. CASE DrainStep
  <2>1. PICK j \in drain.todo : Process(j, job) \/ UNCHANGED job
    BY <1>1 DEF DrainStep
  <2>2. j \in JobIds
    BY DEF TypeOK
  <2>. QED BY <1>1, <2>1, <2>2, ProcessMoves DEF DrainStep, OutboxOnly, outbox
<1>2. CASE \E j \in JobIds : BackoffElapses(j)
  BY <1>2, SetMoves DEF BackoffElapses, OutboxOnly, Open
<1>3. ASSUME NEW h \in Handlers, AgentRefused(h) \/ AgentTimeout(h)
      PROVE  OutboxOnly
  <2>1. /\ agent[h].job \in JobIds
        /\ job[agent[h].job].status = "running"
        /\ job' = SetJob(job, agent[h].job, "waiting")
        /\ UNCHANGED <<people, invites, created>>
    BY <1>3 DEF TypeOK, Goroutine, AwaitedRuns, AgentRefused, AgentTimeout, Answered, FailJob
  <2>. QED BY <2>1, SetMoves DEF OutboxOnly, Open
<1>. QED BY <1>1, <1>2, <1>3

\* Every step, by what it does to the tables.
LEMMA TablesStep ==
    ASSUME TypeOK, AwaitedRuns, [Next]_vars
    PROVE  \/ OutboxOnly
           \/ \E i \in Invitations : CreateDevice(i)
           \/ \E i \in Invitations : CreateInvitation(i)
           \/ \E i \in Invitations : Lapse(i)
           \/ \E i \in Invitations, status \in Open : Reserves(i, status)
           \/ \E d \in Devices : RevokeUnprovisioned(d)
           \/ \E h \in Handlers : AgentAccepted(h)
<1>1. CASE \/ DrainBegin
           \/ \E h \in Handlers : \/ AgentInstall(h) \/ AgentApply(h)
                                  \/ AgentRestartsXray(h) \/ AgentFails(h)
           \/ Crash
           \/ XrayRestarts
           \/ UNCHANGED vars
  <2>1. UNCHANGED <<people, invites, outbox>>
    BY <1>1 DEF DrainBegin, AgentInstall, AgentApply, AgentRestartsXray, AgentFails, Crash,
                XrayRestarts, vars, people, invites, outbox
  <2>. QED BY <2>1 DEF OutboxOnly
<1>2. CASE Restart
  BY <1>2 DEF Restart, OutboxOnly
<1>. QED BY <1>1, <1>2, RevokeTables, RedeemTables, WorkTables DEF Next

-----------------------------------------------------------------------------
(* The rows of the outbox and the unique index *)

\* No device disappears.
LEMMA DevicesStay ==
    ASSUME TypeOK, AwaitedRuns, [Next]_vars, NEW d \in Devices, device[d] # "absent"
    PROVE  device'[d] # "absent"
<1>1. CASE OutboxOnly \/ \E i \in Invitations, status \in Open : Reserves(i, status)
  BY <1>1 DEF OutboxOnly, Reserves, people
<1>2. CASE \E i \in Invitations : CreateDevice(i) \/ CreateInvitation(i) \/ Lapse(i)
  BY <1>2 DEF CreateDevice, CreateInvitation, Lapse, people, TypeOK
<1>3. CASE \E e \in Devices : RevokeUnprovisioned(e)
  BY <1>3 DEF RevokeUnprovisioned, RevokeRows, TypeOK
<1>4. CASE \E h \in Handlers : AgentAccepted(h)
  BY <1>4 DEF AgentAccepted, CompleteActivation, CompleteRevocation, RevokeRows, TypeOK
<1>. QED BY <1>1, <1>2, <1>3, <1>4, TablesStep

\* A new link is for a device that exists.
LEMMA LinksHaveDevicesStep ==
    ASSUME TypeOK, UsedRows, LinksHaveDevices, AwaitedRuns, [Next]_vars
    PROVE  LinksHaveDevices'
<1> SUFFICES ASSUME NEW i \in Invitations, device'[DeviceOf[i]] = "absent"
             PROVE  invitation'[i] = "absent"
  BY DEF LinksHaveDevices
<1>1. DeviceOf[i] \in Devices /\ device[DeviceOf[i]] = "absent" /\ invitation[i] = "absent"
  BY DevicesStay, DeviceSyncAssumption DEF LinksHaveDevices
<1>2. CASE OutboxOnly \/ \E k \in Invitations : Lapse(k)
  BY <1>1, <1>2 DEF OutboxOnly, Lapse, invites
<1>3. ASSUME NEW k \in Invitations, CreateDevice(k) \/ CreateInvitation(k)
      PROVE  invitation'[i] = "absent"
  BY <1>1, <1>3 DEF CreateDevice, CreateInvitation, InvitationRows, people, TypeOK
<1>4. ASSUME NEW k \in Invitations, NEW status \in Open, Reserves(k, status)
      PROVE  invitation'[i] = "absent"
  BY <1>1, <1>4 DEF Reserves, Redeemable, TypeOK
<1>5. ASSUME NEW d \in Devices, RevokeUnprovisioned(d)
      PROVE  invitation'[i] = "absent"
  BY <1>1, <1>5 DEF RevokeUnprovisioned, RevokeRows
<1>6. ASSUME NEW h \in Handlers, AgentAccepted(h)
      PROVE  invitation'[i] = "absent"
  <2>1. agent[h].job \in JobIds /\ job[agent[h].job].status # "unused"
    BY <1>6 DEF AgentAccepted, Answered, AwaitedRuns, TypeOK, Goroutine
  <2>2. CASE CompleteActivation(agent[h].job) /\ job[agent[h].job].kind = "activate"
    BY <1>1, <2>1, <2>2 DEF CompleteActivation, UsedRows, TypeOK
  <2>3. CASE CompleteRevocation(agent[h].job)
    BY <1>1, <2>3 DEF CompleteRevocation, RevokeRows
  <2>. QED BY <1>6, <2>2, <2>3 DEF AgentAccepted
<1>. QED BY <1>2, <1>3, <1>4, <1>5, <1>6, TablesStep

\* What every step does to the outbox alone.
LEMMA OutboxStep ==
    ASSUME TypeOK, LinksHaveDevices, AwaitedRuns, [Next]_vars
    PROVE  \/ UNCHANGED outbox
           \/ \E j \in JobIds, status \in Open \cup {"completed"} : Moves(j, status)
           \/ \E i \in Invitations, status \in Open :
                 /\ device[DeviceOf[i]] # "absent"
                 /\ Inserts("activate", DeviceOf[i], i, status)
           \/ \E d \in Devices, status \in Open :
                 device[d] # "absent" /\ Inserts("revoke", d, NoInvitation, status)
           \/ Restart
<1>1. CASE OutboxOnly \/ \E i \in Invitations, status \in Open : Reserves(i, status)
  BY <1>1 DEF OutboxOnly, Reserves, Redeemable, LinksHaveDevices
<1>2. CASE \/ \E i \in Invitations : CreateDevice(i) \/ CreateInvitation(i) \/ Lapse(i)
           \/ \E e \in Devices : RevokeUnprovisioned(e)
  BY <1>2 DEF CreateDevice, CreateInvitation, Lapse, RevokeUnprovisioned, outbox
<1>3. CASE \E h \in Handlers : AgentAccepted(h)
  <2>1. PICK h \in Handlers : AgentAccepted(h)
    BY <1>3
  <2>2. /\ agent[h].job \in JobIds
        /\ job[agent[h].job].status = "running"
        /\ job' = SetJob(job, agent[h].job, "completed")
        /\ created' = created
    BY <2>1 DEF TypeOK, Goroutine, AwaitedRuns, AgentAccepted, Answered,
                CompleteActivation, CompleteRevocation, CompleteJob
  <2>. QED BY <2>2, SetMoves DEF Open
<1>. QED BY <1>1, <1>2, <1>3, TablesStep

\* The rows stay well formed.
LEMMA UsedRowsStep ==
    ASSUME TypeOK, UsedRows, LinksHaveDevices, AwaitedRuns, [Next]_vars
    PROVE  UsedRows'
<1> DEFINE Fine(j) ==
             /\ job'[j].status # "unused"
             /\ job'[j].device \in Devices
             /\ device[job'[j].device] # "absent"
             /\ job'[j].kind = "activate" =>
                   /\ job'[j].invitation \in Invitations
                   /\ DeviceOf[job'[j].invitation] = job'[j].device
             /\ job'[j].kind = "revoke" => job'[j].invitation = NoInvitation
<1>1. SUFFICES \A j \in JobIds : IF j <= created' THEN Fine(j)
                                                    ELSE job'[j].status = "unused"
  BY DevicesStay DEF UsedRows
<1>2. \A j \in JobIds : job'[j] = job[j] =>
          IF j <= created THEN Fine(j) ELSE job'[j].status = "unused"
  BY DEF UsedRows
<1>3. CASE UNCHANGED outbox
  BY <1>2, <1>3 DEF outbox
<1>4. ASSUME NEW j \in JobIds, NEW status \in Open \cup {"completed"}, Moves(j, status)
      PROVE  \A k \in JobIds : IF k <= created' THEN Fine(k)
                                                  ELSE job'[k].status = "unused"
  <2>1. Fine(j) /\ j <= created /\ created' = created
    BY <1>4 DEF Moves, UsedRows, Open
  <2>. QED BY <1>2, <1>4, <2>1 DEF Moves, OthersKept
<1>5. ASSUME NEW kind \in Kind, NEW d \in Devices, device[d] # "absent",
             NEW i, NEW status \in Open, Inserts(kind, d, i, status),
             kind = "activate" => i \in Invitations /\ DeviceOf[i] = d,
             kind = "revoke" => i = NoInvitation
      PROVE  \A k \in JobIds : IF k <= created' THEN Fine(k)
                                                  ELSE job'[k].status = "unused"
  <2>1. created + 1 \in JobIds /\ created \in Nat /\ created' = created + 1
    BY <1>5, DeviceSyncAssumption DEF Inserts, TypeOK, JobIds
  <2>2. Fine(created + 1)
    BY <1>5 DEF Inserts, Open
  <2>3. ASSUME NEW k \in JobIds, k # created + 1
        PROVE  /\ job'[k] = job[k]
               /\ k <= created + 1 <=> k <= created
    BY <1>5, <2>1, <2>3 DEF Inserts, OthersKept, JobIds
  <2>. QED BY <1>2, <2>1, <2>2, <2>3
<1>6. CASE Restart
  <2>1. ASSUME NEW j \in JobIds
        PROVE  /\ job'[j].kind = job[j].kind
               /\ job'[j].device = job[j].device
               /\ job'[j].invitation = job[j].invitation
               /\ job'[j].status = "unused" <=> job[j].status = "unused"
    BY <1>6 DEF Restart, TypeOK, Job
  <2>. QED BY <1>6, <2>1 DEF Restart, UsedRows
<1>. QED BY <1>3, <1>4, <1>5, <1>6, OutboxStep, DeviceSyncAssumption DEF Kind

\* The unique index: a job is inserted only where none of its kind is open.
LEMMA OneOpenJobStep ==
    ASSUME TypeOK, UsedRows, LinksHaveDevices, AwaitedRuns, OneOpenJob, [Next]_vars
    PROVE  OneOpenJob'
<1>1. CASE UNCHANGED outbox
  BY <1>1 DEF outbox, OneOpenJob
<1>2. ASSUME NEW j \in JobIds, NEW status \in Open \cup {"completed"}, Moves(j, status)
      PROVE  OneOpenJob'
  BY <1>2 DEF Moves, OthersKept, OneOpenJob
<1>3. ASSUME NEW kind, NEW d, NEW i, NEW status, Inserts(kind, d, i, status)
      PROVE  OneOpenJob'
  <2>1. \A k \in JobIds \ {created + 1} :
           /\ job'[k] = job[k]
           /\ job'[k].status \in Open => job'[k].device # d \/ job'[k].kind # kind
    BY <1>3 DEF Inserts, OthersKept, OpenJobs
  <2>2. job'[created + 1].device = d /\ job'[created + 1].kind = kind
    BY <1>3 DEF Inserts
  <2>. QED BY <2>1, <2>2 DEF OneOpenJob
<1>4. CASE Restart
  <2>1. ASSUME NEW j \in JobIds
        PROVE  /\ job'[j].kind = job[j].kind
               /\ job'[j].device = job[j].device
               /\ job'[j].status \in Open <=> job[j].status \in Open
    BY <1>4 DEF Restart, TypeOK, Job, Open
  <2>. QED BY <2>1 DEF OneOpenJob
<1>. QED BY <1>1, <1>2, <1>3, <1>4, OutboxStep

-----------------------------------------------------------------------------
(* The jobs that run and the calls that await them *)

Calls == AwaitedRuns /\ AwaitedOnce /\ RunningIsAwaited

\* A step that neither starts nor ends a job or a wait.
LEMMA CallsKept ==
    ASSUME TypeOK, Calls, up' = up,
           \A j \in JobIds : /\ job'[j].status = "running" <=> job[j].status = "running"
                             /\ job[j].status # "unused" => job'[j].status # "unused",
           \A h \in Handlers :
              \/ agent'[h] = agent[h]
              \/ agent'[h] = Idle /\ ~agent[h].awaited
              \/ /\ agent[h].stage # "idle"
                 /\ agent'[h].job = agent[h].job
                 /\ agent'[h].awaited = agent[h].awaited
                 /\ agent'[h].stage # "idle"
                 /\ agent'[h].stage \in {"accepted", "refused"} => agent[h].awaited
    PROVE  Calls'
<1>1. \A h \in Handlers : /\ agent'[h].awaited <=> agent[h].awaited
                          /\ agent[h].awaited => agent'[h].job = agent[h].job
  BY DEF Idle
<1>2. AwaitedOnce'
  BY <1>1 DEF Calls, AwaitedOnce
<1>3. RunningIsAwaited'
  BY <1>1 DEF Calls, RunningIsAwaited
<1>4. AwaitedRuns'
  BY <1>1 DEF Calls, AwaitedRuns, Idle, TypeOK, Goroutine
<1>. QED BY <1>2, <1>3, <1>4 DEF Calls

\* The claim of a job that does not run, and the call for it.
LEMMA ProcessCalls ==
    ASSUME TypeOK, Calls, up, up' = up, NEW j \in JobIds,
           NEW table \in [JobIds -> Job], \A k \in JobIds \ {j} : table[k] = job[k],
           table = job \/ (job[j].status = "unused" /\ table[j].status = "pending"),
           Process(j, table)
    PROVE  Calls'
<1>1. CASE job' = table /\ table[j].status \notin Retryable /\ UNCHANGED <<agent, rendered, doubts>>
  BY <1>1, CallsKept DEF Retryable
<1>2. CASE /\ table[j].status \in Retryable
           /\ job' = SetJob(table, j, "waiting")
           /\ UNCHANGED <<agent, rendered, doubts>>
  <2>1. job'[j].status = "waiting" /\ \A k \in JobIds \ {j} : job'[k] = job[k]
    BY <1>2 DEF SetJob, Job
  <2>2. job[j].status # "running"
    BY <1>2 DEF Retryable
  <2>. QED BY <1>2, <2>1, <2>2, CallsKept
<1>3. CASE /\ table[j].status \in Retryable
           /\ job' = SetJob(table, j, "running")
           /\ \E h \in Handlers :
                 /\ agent[h].stage = "idle"
                 /\ agent' = [agent EXCEPT ![h] =
                        [stage |-> "received", job |-> j, awaited |-> TRUE]]
  <2>1. job'[j].status = "running" /\ \A k \in JobIds \ {j} : job'[k] = job[k]
    BY <1>3 DEF SetJob, Job
  <2>2. job[j].status # "running"
    BY <1>3 DEF Retryable
  <2>3. PICK h \in Handlers : /\ agent[h].stage = "idle"
                              /\ agent' = [agent EXCEPT ![h] =
                                     [stage |-> "received", job |-> j, awaited |-> TRUE]]
    BY <1>3
  <2>4. /\ \A g \in Handlers \ {h} : agent'[g] = agent[g]
        /\ agent'[h].stage = "received" /\ agent'[h].job = j /\ agent'[h].awaited
    BY <2>3 DEF TypeOK
  <2>5. \A g \in Handlers : agent[g].awaited => agent[g].job # j /\ g # h
    BY <2>2, <2>3 DEF Calls, AwaitedRuns
  <2>6. AwaitedOnce'
    BY <2>4, <2>5 DEF Calls, AwaitedOnce
  <2>7. RunningIsAwaited'
    BY <2>1, <2>4, <2>5 DEF Calls, RunningIsAwaited
  <2>8. AwaitedRuns'
    BY <2>1, <2>4, <2>5 DEF Calls, AwaitedRuns, TypeOK, Goroutine
  <2>. QED BY <2>6, <2>7, <2>8 DEF Calls
<1>. QED BY <1>1, <1>2, <1>3 DEF Process

\* The death of the control plane: no call is awaited any more.
LEMMA DiesCalls ==
    ASSUME TypeOK, Calls, Dies,
           \A j \in JobIds : job[j].status # "unused" => job'[j].status # "unused"
    PROVE  Calls'
<1>1. \A h \in Handlers :
         /\ ~agent'[h].awaited
         /\ \/ agent'[h].stage = "idle"
            \/ agent'[h].stage = agent[h].stage /\ agent'[h].job = agent[h].job
         /\ agent'[h].stage \notin {"accepted", "refused"}
  BY DEF Dies, Idle, TypeOK, Goroutine
<1>2. ~up'
  BY DEF Dies
<1>3. AwaitedOnce' /\ RunningIsAwaited'
  BY <1>1, <1>2 DEF AwaitedOnce, RunningIsAwaited
<1>4. AwaitedRuns'
  BY <1>1 DEF Calls, AwaitedRuns, TypeOK, Goroutine
<1>. QED BY <1>3, <1>4 DEF Calls

\* The end of one call: its job stops running with it.
LEMMA EndedCalls ==
    ASSUME TypeOK, Calls, NEW h \in Handlers, up, up' = up, agent[h].awaited,
           \A g \in Handlers \ {h} : agent'[g] = agent[g],
           ~agent'[h].awaited,
           \/ agent'[h].stage = "idle"
           \/ agent'[h].stage \in {"received", "installed"} /\ agent'[h].job = agent[h].job,
           NEW status \in {"waiting", "completed"}, job' = SetJob(job, agent[h].job, status)
    PROVE  Calls'
<1> DEFINE j == agent[h].job
<1>1. /\ j \in JobIds
      /\ job'[j].status = status
      /\ \A k \in JobIds \ {j} : job'[k] = job[k]
  BY DEF TypeOK, Goroutine, Job, SetJob
<1>2. \A g \in Handlers \ {h} : agent[g].awaited => agent[g].job # j
  BY DEF Calls, AwaitedOnce
<1>3. AwaitedOnce'
  BY DEF Calls, AwaitedOnce
<1>4. RunningIsAwaited'
  BY <1>1, <1>2 DEF Calls, RunningIsAwaited
<1>5. AwaitedRuns'
  BY <1>1, <1>2 DEF Calls, AwaitedRuns, TypeOK, Goroutine
<1>. QED BY <1>3, <1>4, <1>5 DEF Calls

\* A job runs exactly while one call awaits it: each action keeps that.
LEMMA CallsStep ==
    ASSUME TypeOK, UsedRows, Calls, [Next]_vars
    PROVE  Calls'
<1> USE DEF outbox
<1>1. ASSUME NEW i \in Invitations, Redeem(i)
      PROVE  Calls'
  <2>1. up /\ up' = up /\ DeviceOf[i] \in Devices
    BY <1>1, DeviceSyncAssumption DEF Redeem, Redeemable
  <2>2. CASE Reserve(i) /\ Process(created + 1, WithActivation(i))
    <3>1. /\ created + 1 \in JobIds
          /\ WithActivation(i) \in [JobIds -> Job]
          /\ WithActivation(i)[created + 1].status = "pending"
          /\ \A k \in JobIds \ {created + 1} : WithActivation(i)[k] = job[k]
      BY <2>1, <2>2, NewJobType DEF Reserve, WithActivation, NewJob, Kind, TypeOK
    <3>2. job[created + 1].status = "unused"
      BY <3>1 DEF UsedRows, TypeOK, JobIds
    <3>. QED BY <2>1, <2>2, <3>1, <3>2, ProcessCalls
  <2>3. CASE \E j \in OpenJobs(DeviceOf[i], "activate") : Process(j, job)
    BY <2>1, <2>3, ProcessCalls DEF OpenJobs, TypeOK
  <2>. QED BY <1>1, <2>2, <2>3 DEF Redeem
<1>2. ASSUME NEW d \in Devices, Revoke(d)
      PROVE  Calls'
  <2>1. up /\ up' = up
    BY <1>2 DEF Revoke, Revocable
  <2>2. CASE EnqueueRevocation(d) /\ Process(created + 1, WithRevocation(d))
    <3>1. /\ created + 1 \in JobIds
          /\ WithRevocation(d) \in [JobIds -> Job]
          /\ WithRevocation(d)[created + 1].status = "pending"
          /\ \A k \in JobIds \ {created + 1} : WithRevocation(d)[k] = job[k]
      BY <2>2, NewJobType DEF EnqueueRevocation, WithRevocation, NewJob, Kind, TypeOK
    <3>2. job[created + 1].status = "unused"
      BY <3>1 DEF UsedRows, TypeOK, JobIds
    <3>. QED BY <2>1, <2>2, <3>1, <3>2, ProcessCalls
  <2>3. CASE \E j \in OpenJobs(d, "revoke") : Process(j, job)
    BY <2>1, <2>3, ProcessCalls DEF OpenJobs, TypeOK
  <2>. QED BY <1>2, <2>2, <2>3 DEF Revoke
<1>3. CASE DrainStep
  <2>1. up /\ up' = up
    BY <1>3 DEF DrainStep
  <2>2. PICK j \in drain.todo : Process(j, job) \/ UNCHANGED <<job, agent>>
    BY <1>3 DEF DrainStep
  <2>3. j \in JobIds
    BY DEF TypeOK
  <2>4. CASE Process(j, job)
    BY <2>1, <2>3, <2>4, ProcessCalls DEF TypeOK
  <2>5. CASE UNCHANGED <<job, agent>>
    BY <2>1, <2>5, CallsKept
  <2>. QED BY <2>2, <2>4, <2>5
<1>4. ASSUME Dies, \/ \E i \in Invitations : RedeemInterrupted(i)
                   \/ \E d \in Devices : RevokeInterrupted(d)
                   \/ Crash
      PROVE  Calls'
  <2>1. ASSUME NEW i \in Invitations, RedeemInterrupted(i)
        PROVE  \A j \in JobIds : job[j].status # "unused" => job'[j].status # "unused"
    BY <2>1 DEF RedeemInterrupted, Reserve, WithActivation, NewJob, TypeOK
  <2>2. ASSUME NEW d \in Devices, RevokeInterrupted(d)
        PROVE  \A j \in JobIds : job[j].status # "unused" => job'[j].status # "unused"
    BY <2>2 DEF RevokeInterrupted, EnqueueRevocation, WithRevocation, NewJob, TypeOK
  <2>. QED BY <1>4, <2>1, <2>2, DiesCalls DEF Crash
<1>5. ASSUME NEW h \in Handlers, AgentAccepted(h) \/ AgentRefused(h) \/ AgentTimeout(h)
      PROVE  Calls'
  <2>1. up /\ up' = up /\ agent[h].awaited
    BY <1>5 DEF AgentAccepted, AgentRefused, AgentTimeout, Answered, Calls, AwaitedRuns
  <2>2. \E status \in {"waiting", "completed"} : job' = SetJob(job, agent[h].job, status)
    BY <1>5 DEF AgentAccepted, AgentRefused, AgentTimeout, CompleteActivation,
                CompleteRevocation, CompleteJob, FailJob
  <2>3. /\ \A g \in Handlers \ {h} : agent'[g] = agent[g]
        /\ ~agent'[h].awaited
        /\ \/ agent'[h].stage = "idle"
           \/ /\ agent'[h].stage \in {"received", "installed"}
              /\ agent'[h].job = agent[h].job
    <3>1. CASE agent' = [agent EXCEPT ![h] = Idle]
      BY <3>1 DEF Idle, TypeOK
    <3>2. CASE AgentTimeout(h)
      BY <3>2 DEF AgentTimeout, TypeOK, Goroutine
    <3>. QED BY <1>5, <3>1, <3>2 DEF AgentAccepted, AgentRefused, Answered
  <2>. QED BY <2>1, <2>2, <2>3, EndedCalls
<1>6. ASSUME NEW h \in Handlers,
             AgentInstall(h) \/ AgentApply(h) \/ AgentRestartsXray(h) \/ AgentFails(h)
      PROVE  Calls'
  <2>1. UNCHANGED <<job, up>>
    BY <1>6 DEF AgentInstall, AgentApply, AgentRestartsXray, AgentFails
  <2>2. agent[h].stage # "idle" /\ \A g \in Handlers \ {h} : agent'[g] = agent[g]
    <3>1. /\ agent[h].stage # "idle"
          /\ \/ agent' = [agent EXCEPT ![h].stage = "installed"]
             \/ \E verdict \in Stage : Ends(h, verdict)
      BY <1>6 DEF AgentInstall, AgentApply, AgentRestartsXray, AgentFails, Stage
    <3>. QED BY <3>1 DEF Ends, TypeOK
  <2>3. CASE AgentInstall(h)
    <3>1. /\ agent'[h].stage = "installed"
          /\ agent'[h].job = agent[h].job
          /\ agent'[h].awaited = agent[h].awaited
      BY <2>3 DEF AgentInstall, TypeOK, Goroutine
    <3>. QED BY <2>1, <2>2, <3>1, CallsKept
  <2>4. ASSUME NEW verdict \in {"accepted", "refused"}, Ends(h, verdict)
        PROVE  Calls'
    <3>1. CASE ~agent[h].awaited
      <4>1. agent'[h] = Idle
        BY <2>4, <3>1 DEF Ends, TypeOK
      <4>. QED BY <2>1, <2>2, <3>1, <4>1, CallsKept
    <3>2. CASE agent[h].awaited
      <4>1. /\ agent'[h].stage = verdict
            /\ agent'[h].job = agent[h].job
            /\ agent'[h].awaited = agent[h].awaited
        BY <2>4, <3>2 DEF Ends, TypeOK, Goroutine
      <4>. QED BY <2>1, <2>2, <2>4, <3>2, <4>1, CallsKept
    <3>. QED BY <3>1, <3>2
  <2>. QED BY <1>6, <2>3, <2>4 DEF AgentApply, AgentRestartsXray, AgentFails
<1>7. CASE Restart
  <2>1. ASSUME NEW j \in JobIds
        PROVE  job'[j].status # "running" /\ (job[j].status # "unused" => job'[j].status # "unused")
    <3>1. job'[j] = IF job[j].status = "running"
                    THEN [job[j] EXCEPT !.status = "failed"] ELSE job[j]
      BY <1>7 DEF Restart
    <3>2. [job[j] EXCEPT !.status = "failed"].status = "failed"
      BY DEF TypeOK, Job
    <3>. QED BY <3>1, <3>2
  <2>2. \A h \in Handlers : ~agent[h].awaited
    BY <1>7 DEF Restart, Calls, AwaitedRuns
  <2>3. agent' = agent /\ up'
    BY <1>7 DEF Restart
  <2>4. AwaitedOnce' /\ RunningIsAwaited'
    BY <2>1, <2>2, <2>3 DEF AwaitedOnce, RunningIsAwaited
  <2>5. AwaitedRuns'
    BY <2>1, <2>2, <2>3 DEF Calls, AwaitedRuns, TypeOK, Goroutine
  <2>. QED BY <2>4, <2>5 DEF Calls
<1>8. ASSUME NEW j \in JobIds, BackoffElapses(j)
      PROVE  Calls'
  <2>1. /\ job[j].status = "waiting" /\ job'[j].status = "failed"
        /\ \A k \in JobIds \ {j} : job'[k] = job[k]
        /\ UNCHANGED <<agent, up>>
    BY <1>8 DEF BackoffElapses, SetJob, TypeOK, Job
  <2>. QED BY <2>1, CallsKept
<1>9. CASE UNCHANGED <<job, agent, up>>
  BY <1>9, CallsKept
<1>10. ASSUME \/ \E i \in Invitations : CreateDevice(i) \/ CreateInvitation(i) \/ Lapse(i)
              \/ \E d \in Devices : RevokeUnprovisioned(d)
              \/ DrainBegin \/ XrayRestarts \/ UNCHANGED vars
       PROVE  UNCHANGED <<job, agent, up>>
  BY <1>10 DEF CreateDevice, CreateInvitation, Lapse, RevokeUnprovisioned, DrainBegin,
               XrayRestarts, vars
<1>11. (\E i \in Invitations : RedeemInterrupted(i)) => Dies
  BY DEF RedeemInterrupted
<1>12. (\E d \in Devices : RevokeInterrupted(d)) \/ Crash => Dies
  BY DEF RevokeInterrupted, Crash
<1>. QED BY <1>1, <1>2, <1>3, <1>4, <1>5, <1>6, <1>7, <1>8, <1>9, <1>10, <1>11, <1>12 DEF Next

-----------------------------------------------------------------------------
(* Devices, their links and what revocation leaves *)

Rows ==
    /\ RevokedIsClean
    /\ CredentialsFollowStatus

\* revokeRows() leaves a device without subscription, credentials and links.
LEMMA RevokeRowsClean ==
    ASSUME TypeOK, Rows, NEW d \in Devices, RevokeRows(d)
    PROVE  Rows'
<1>1. RevokedIsClean'
  BY DEF TypeOK, Rows, RevokedIsClean, RevokeRows
<1>2. CredentialsFollowStatus'
  BY DEF TypeOK, Rows, CredentialsFollowStatus, RevokeRows
<1>. QED BY <1>1, <1>2 DEF Rows

\* A new link is for a device that is not revoked.
LEMMA InvitationRowsClean ==
    ASSUME TypeOK, Rows, NEW i \in Invitations, InvitationRows(i), UNCHANGED session,
           device'[DeviceOf[i]] # "revoked",
           \A d \in Devices \ {DeviceOf[i]} :
               /\ device'[d] = device[d]
               /\ credential'[d] = credential[d]
               /\ subscription'[d] = subscription[d]
    PROVE  RevokedIsClean'
<1>1. /\ invitation'[i] = "pending"
      /\ \A k \in Invitations \ {i} :
            invitation'[k] = IF DeviceOf[k] = DeviceOf[i] /\ invitation[k] = "pending"
                             THEN "superseded" ELSE invitation[k]
  BY DEF InvitationRows
<1>2. RevokedIsClean'
  BY <1>1 DEF Rows, RevokedIsClean
<1>. QED BY <1>2

\* Each step keeps them, by what it does to the tables.
LEMMA RowsStep ==
    ASSUME TypeOK, UsedRows, AwaitedRuns, Rows, [Next]_vars
    PROVE  Rows'
<1> USE DEF people, invites
<1>1. CASE OutboxOnly
  BY <1>1 DEF OutboxOnly, Rows, RevokedIsClean, CredentialsFollowStatus
<1>2. ASSUME NEW i \in Invitations, CreateDevice(i)
      PROVE  Rows'
  <2> DEFINE d == DeviceOf[i]
  <2>1. /\ d \in Devices /\ device[d] = "absent"
        /\ device' = [device EXCEPT ![d] = "invited"]
        /\ credential' = [credential EXCEPT ![d] = TRUE]
        /\ InvitationRows(i) /\ UNCHANGED <<subscription, session>>
    BY <1>2, DeviceSyncAssumption DEF CreateDevice
  <2>2. RevokedIsClean'
    BY <2>1, InvitationRowsClean DEF TypeOK
  <2>3. CredentialsFollowStatus'
    BY <2>1 DEF TypeOK, Rows, CredentialsFollowStatus
  <2>. QED BY <2>2, <2>3 DEF Rows
<1>3. ASSUME NEW i \in Invitations, CreateInvitation(i)
      PROVE  Rows'
  <2>1. /\ device[DeviceOf[i]] # "revoked"
        /\ InvitationRows(i) /\ UNCHANGED <<people, session>>
    BY <1>3 DEF CreateInvitation
  <2>2. RevokedIsClean'
    BY <2>1, InvitationRowsClean
  <2>3. CredentialsFollowStatus'
    BY <2>1 DEF Rows, CredentialsFollowStatus
  <2>. QED BY <2>2, <2>3 DEF Rows
<1>4. ASSUME NEW i \in Invitations, Lapse(i)
      PROVE  Rows'
  <2>1. /\ UNCHANGED <<people, invitation>>
        /\ \A k \in Invitations : session[k] = "none" => session'[k] = "none"
    BY <1>4 DEF Lapse, TypeOK
  <2>. QED BY <2>1 DEF Rows, RevokedIsClean, CredentialsFollowStatus
<1>5. ASSUME NEW i \in Invitations, NEW status \in Open, Reserves(i, status)
      PROVE  Rows'
  <2>1. /\ DeviceOf[i] \in Devices
        /\ invitation[i] \in {"pending", "redeeming"}
        /\ invitation' = [invitation EXCEPT ![i] = "redeeming"]
        /\ session' = [session EXCEPT ![i] = "open"]
        /\ UNCHANGED people
    BY <1>5, DeviceSyncAssumption DEF Reserves, Redeemable
  <2>2. device[DeviceOf[i]] # "revoked"
    BY <2>1 DEF Rows, RevokedIsClean
  <2>3. RevokedIsClean'
    BY <2>1, <2>2 DEF Rows, RevokedIsClean, TypeOK
  <2>4. CredentialsFollowStatus'
    BY <2>1 DEF Rows, CredentialsFollowStatus
  <2>. QED BY <2>3, <2>4 DEF Rows
<1>6. ASSUME NEW d \in Devices, RevokeUnprovisioned(d)
      PROVE  Rows'
  BY <1>6, RevokeRowsClean DEF RevokeUnprovisioned
<1>7. ASSUME NEW h \in Handlers, AgentAccepted(h)
      PROVE  Rows'
  <2> DEFINE j == agent[h].job
  <2>1. j \in JobIds /\ job[j].device \in Devices
    BY <1>7 DEF AgentAccepted, Answered, AwaitedRuns, UsedRows, TypeOK, Goroutine
  <2>2. CASE CompleteActivation(j) /\ job[j].kind = "activate"
    <3>1. /\ device' = [device EXCEPT ![job[j].device] = "active"]
          /\ subscription' = [subscription EXCEPT ![job[j].device] = TRUE]
          /\ UNCHANGED <<credential, session>>
      BY <2>2 DEF CompleteActivation
    <3>2. \A k \in Invitations : invitation'[k] = invitation[k] \/ invitation'[k] = "redeemed"
      BY <2>2 DEF CompleteActivation, TypeOK
    <3>3. RevokedIsClean'
      BY <2>1, <3>1, <3>2 DEF Rows, RevokedIsClean, TypeOK
    <3>4. CredentialsFollowStatus'
      BY <2>1, <3>1 DEF Rows, CredentialsFollowStatus, TypeOK
    <3>. QED BY <3>3, <3>4 DEF Rows
  <2>3. CASE CompleteRevocation(j)
    BY <2>1, <2>3, RevokeRowsClean DEF CompleteRevocation
  <2>. QED BY <1>7, <2>2, <2>3 DEF AgentAccepted
<1>. QED BY <1>1, <1>2, <1>3, <1>4, <1>5, <1>6, <1>7, TablesStep

-----------------------------------------------------------------------------
(* Reservations *)

\* A row that is open stays open, unless the agent's answer completes it.
LEMMA OpenStays ==
    ASSUME TypeOK, UsedRows, AwaitedRuns,
           OutboxOnly \/ \E i \in Invitations, status \in Open : Reserves(i, status),
           NEW j \in JobIds, job[j].status \in Open
    PROVE  /\ job'[j].status \in Open
           /\ job'[j].kind = job[j].kind
           /\ job'[j].invitation = job[j].invitation
<1>1. CASE UNCHANGED outbox
  BY <1>1 DEF outbox
<1>2. ASSUME NEW k \in JobIds, NEW status \in Open, Moves(k, status)
      PROVE  /\ job'[j].status \in Open
             /\ job'[j].kind = job[j].kind
             /\ job'[j].invitation = job[j].invitation
  BY <1>2 DEF Moves, OthersKept
<1>3. ASSUME NEW kind, NEW d, NEW i, NEW status, Inserts(kind, d, i, status)
      PROVE  job'[j] = job[j]
  <2>1. j # created + 1
    BY DEF UsedRows, TypeOK, Open, JobIds
  <2>. QED BY <1>3, <2>1 DEF Inserts, OthersKept
<1>4. CASE Restart
  BY <1>4 DEF Restart, TypeOK, Job, Open
<1>. QED BY <1>1, <1>2, <1>3, <1>4 DEF OutboxOnly, Reserves

\* A reserved invitation keeps its session and its job.
LEMMA ReservationStep ==
    ASSUME TypeOK, UsedRows, AwaitedRuns, ReservationIsBacked, [Next]_vars
    PROVE  ReservationIsBacked'
<1> USE DEF people, invites
<1>1. CASE OutboxOnly
  BY <1>1, OpenStays DEF OutboxOnly, ReservationIsBacked
<1>2. ASSUME NEW i \in Invitations, CreateDevice(i) \/ CreateInvitation(i)
      PROVE  ReservationIsBacked'
  <2>1. UNCHANGED <<session, job>>
    BY <1>2 DEF CreateDevice, CreateInvitation, outbox
  <2>2. \A k \in Invitations : invitation'[k] = "redeeming" => invitation[k] = "redeeming"
    BY <1>2 DEF CreateDevice, CreateInvitation, InvitationRows
  <2>. QED BY <2>1, <2>2 DEF ReservationIsBacked
<1>3. ASSUME NEW i \in Invitations, Lapse(i)
      PROVE  ReservationIsBacked'
  <2>1. /\ UNCHANGED <<invitation, job>>
        /\ \A k \in Invitations : session'[k] = "none" => session[k] = "none"
    BY <1>3 DEF Lapse, outbox, TypeOK
  <2>. QED BY <2>1 DEF ReservationIsBacked
<1>4. ASSUME NEW i \in Invitations, NEW status \in Open, Reserves(i, status)
      PROVE  ReservationIsBacked'
  <2>1. /\ job'[created + 1].invitation = i
        /\ job'[created + 1].kind = "activate"
        /\ job'[created + 1].status \in Open
    BY <1>4 DEF Reserves, Inserts
  <2>2. created + 1 \in JobIds
    BY <1>4, DeviceSyncAssumption DEF Reserves, Inserts, TypeOK, JobIds
  <2>3. session'[i] = "open"
    BY <1>4 DEF Reserves, TypeOK
  <2>4. \A k \in Invitations \ {i} : invitation'[k] = invitation[k] /\ session'[k] = session[k]
    BY <1>4 DEF Reserves, TypeOK
  <2>. QED BY <1>4, <2>1, <2>2, <2>3, <2>4, OpenStays DEF ReservationIsBacked
<1>5. ASSUME NEW d \in Devices, RevokeUnprovisioned(d)
      PROVE  ReservationIsBacked'
  <2>1. UNCHANGED job
    BY <1>5 DEF RevokeUnprovisioned, outbox
  <2>2. \A k \in Invitations : invitation'[k] = "redeeming" =>
           invitation[k] = "redeeming" /\ session'[k] = session[k]
    BY <1>5 DEF RevokeUnprovisioned, RevokeRows
  <2>. QED BY <2>1, <2>2 DEF ReservationIsBacked
<1>6. ASSUME NEW h \in Handlers, AgentAccepted(h)
      PROVE  ReservationIsBacked'
  <2> DEFINE j == agent[h].job
  <2>1. j \in JobIds /\ job[j].status # "unused"
    BY <1>6 DEF AgentAccepted, Answered, AwaitedRuns, TypeOK, Goroutine
  <2>2. \A k \in JobIds \ {j} : job'[k] = job[k]
    BY <1>6 DEF AgentAccepted, CompleteActivation, CompleteRevocation, CompleteJob, SetJob, TypeOK
  <2>3. \A i \in Invitations : invitation'[i] = "redeeming" =>
           /\ invitation[i] = "redeeming"
           /\ session'[i] = session[i]
           /\ job[j].kind = "activate" => job[j].invitation # i
    <3>1. CASE job[j].kind = "activate" /\ CompleteActivation(j)
      BY <2>1, <3>1 DEF CompleteActivation, UsedRows, TypeOK
    <3>2. CASE job[j].kind = "revoke" /\ CompleteRevocation(j)
      BY <3>2 DEF CompleteRevocation, RevokeRows
    <3>. QED BY <1>6, <3>1, <3>2 DEF AgentAccepted
  <2>. QED BY <2>2, <2>3 DEF ReservationIsBacked
<1>. QED BY <1>1, <1>2, <1>3, <1>4, <1>5, <1>6, TablesStep

-----------------------------------------------------------------------------
(* The theorems *)

\* The empty database of a fresh installation satisfies the invariant.
LEMMA InitIInv == Init => IInv
<1> SUFFICES ASSUME Init PROVE IInv
  OBVIOUS
<1>1. TypeOK
  <2>1. Unused \in Job /\ Idle \in Goroutine
    BY DeviceSyncAssumption DEF Unused, Job, Kind, JobStatus, Idle, Goroutine, Stage, JobIds
  <2>2. NotDraining \in [todo : SUBSET JobIds, current : 0..MaxJobs]
    BY DeviceSyncAssumption DEF NotDraining
  <2>. QED BY <2>1, <2>2, DeviceSyncAssumption
          DEF Init, TypeOK, DeviceStatus, InvitationStatus, SessionStatus
<1>2. UsedRows /\ OneOpenJob
  BY DEF Init, Unused, JobIds, UsedRows, OneOpenJob, Open
<1>3. LinksHaveDevices /\ ReservationIsBacked /\ RevokedIsClean
  BY DEF Init, LinksHaveDevices, ReservationIsBacked, RevokedIsClean
<1>4. CredentialsFollowStatus
  BY DEF Init, CredentialsFollowStatus
<1>5. AwaitedRuns /\ AwaitedOnce /\ RunningIsAwaited
  BY DEF Init, Idle, Unused, AwaitedRuns, AwaitedOnce, RunningIsAwaited
<1>. QED BY <1>1, <1>2, <1>3, <1>4, <1>5 DEF IInv

\* Every step of every actor keeps it: the parts proved one by one above.
LEMMA StepIInv == IInv /\ [Next]_vars => IInv'
BY TypeStep, UsedRowsStep, LinksHaveDevicesStep, OneOpenJobStep, CallsStep, ReservationStep,
   RowsStep
   DEF IInv, Calls, Rows

\* The outbox and the tables it works on are well typed, and every part of the
\* inductive invariant holds, in every reachable state.
THEOREM Invariance == Spec => []IInv
BY InitIInv, StepIInv, PTL DEF Spec

\* Type correctness.
THEOREM TypeCorrect == Spec => []TypeOK
<1>1. IInv => TypeOK
  BY DEF IInv
<1>. QED BY <1>1, Invariance, PTL

\* A device never has two unfinished jobs of a kind, whatever requests, drains,
\* timeouts and crashes overlap: openJob() reads the only one.
THEOREM UniqueOpenJob == Spec => []OneOpenJob
<1>1. IInv => OneOpenJob
  BY DEF IInv
<1>. QED BY <1>1, Invariance, PTL

\* A reserved invitation is never forgotten: its session and its unfinished job
\* are there until the agent has accepted the device or the device is revoked.
THEOREM ReservationsBacked == Spec => []ReservationIsBacked
<1>1. IInv => ReservationIsBacked
  BY DEF IInv
<1>. QED BY <1>1, Invariance, PTL

\* A job runs exactly while one call to the agent is awaited for it, so no job
\* is stuck in "running", which drain() and process() leave alone.
THEOREM RunningAwaitedOnce == Spec => [](RunningIsAwaited /\ AwaitedOnce)
<1>1. IInv => RunningIsAwaited /\ AwaitedOnce
  BY DEF IInv
<1>. QED BY <1>1, Invariance, PTL

\* A revoked device has no subscription URL, no usable credentials and no link,
\* whatever jobs are still open for it.
THEOREM RevocationClean == Spec => []RevokedIsClean
<1>1. IInv => RevokedIsClean
  BY DEF IInv
<1>. QED BY <1>1, Invariance, PTL

\* A device is decided by an accepted answer alone, which alone makes it active or not.
LEMMA NothingDecided ==
    ASSUME TypeOK, UsedRows, AwaitedRuns, [Next]_vars, ~\E h \in Handlers : AgentAccepted(h)
    PROVE  /\ ActiveDevices' = ActiveDevices
           /\ \A j \in JobIds : job[j].status \in Open =>
                  /\ job'[j].status \in Open
                  /\ job'[j].kind = job[j].kind /\ job'[j].device = job[j].device
<1> USE DEF people, invites, outbox
<1>1. CASE OutboxOnly \/ \E i \in Invitations, status \in Open : Reserves(i, status)
  <2>1. UNCHANGED device
    BY <1>1 DEF OutboxOnly, Reserves
  <2>2. ASSUME NEW j \in JobIds, job[j].status \in Open
        PROVE  /\ job'[j].status \in Open
               /\ job'[j].kind = job[j].kind /\ job'[j].device = job[j].device
    <3>1. ASSUME NEW k \in JobIds, NEW status \in Open, Moves(k, status)
          PROVE  job'[j].device = job[j].device
      BY <3>1 DEF Moves, OthersKept
    <3>2. ASSUME NEW kind, NEW d, NEW i, NEW status, Inserts(kind, d, i, status)
          PROVE  job'[j] = job[j]
      <4>1. j # created + 1
        BY <2>2 DEF UsedRows, TypeOK, Open, JobIds
      <4>. QED BY <2>2, <3>2, <4>1 DEF Inserts, OthersKept
    <3>3. ASSUME Restart PROVE job'[j].device = job[j].device
      <4>1. job[j] \in Job
        BY DEF TypeOK
      <4>2. job'[j] = job[j] \/ job'[j] = [job[j] EXCEPT !.status = "failed"]
        BY <3>3 DEF Restart
      <4>. QED BY <4>1, <4>2 DEF Job
    <3>4. job'[j].device = job[j].device
      BY <1>1, <3>1, <3>2, <3>3 DEF OutboxOnly, Reserves
    <3>. QED BY <1>1, <2>2, <3>4, OpenStays
  <2>. QED BY <2>1, <2>2 DEF ActiveDevices
<1>2. ASSUME NEW i \in Invitations, CreateDevice(i)
      PROVE  ActiveDevices' = ActiveDevices /\ UNCHANGED job
  BY <1>2, DeviceSyncAssumption DEF CreateDevice, ActiveDevices, TypeOK
<1>3. ASSUME NEW i \in Invitations, CreateInvitation(i) \/ Lapse(i)
      PROVE  ActiveDevices' = ActiveDevices /\ UNCHANGED job
  BY <1>3 DEF CreateInvitation, Lapse, ActiveDevices
<1>4. ASSUME NEW d \in Devices, RevokeUnprovisioned(d)
      PROVE  ActiveDevices' = ActiveDevices /\ UNCHANGED job
  BY <1>4 DEF RevokeUnprovisioned, RevokeRows, ActiveDevices, TypeOK
<1>. QED BY <1>1, <1>2, <1>3, <1>4, TablesStep

-----------------------------------------------------------------------------
(* What a step does to the engines, the files and the calls *)

\* A turn that leaves the files and Xray as they are, or forgets a call.
Quiet ==
    /\ UNCHANGED <<rendered, installed, users, xrayUp, doubts>>
    /\ \A h \in Handlers : \/ agent'[h].stage = "idle"
                           \/ /\ agent'[h].stage = agent[h].stage
                              /\ agent'[h].job = agent[h].job

\* A turn that may end in a call of the agent.
Calling ==
    /\ UNCHANGED <<installed, users, xrayUp>>
    /\ \E j \in JobIds, table \in [JobIds -> Job] : Process(j, table)

\* A goroutine that is forgotten goes on.
LEMMA Forgotten ==
    ASSUME NEW g \in Goroutine
    PROVE  /\ Idle.stage = "idle"
           /\ [g EXCEPT !.awaited = FALSE].stage = g.stage
           /\ [g EXCEPT !.awaited = FALSE].job = g.job
<1>1. Idle.stage = "idle"
  BY DEF Idle
<1>2. [g EXCEPT !.awaited = FALSE].stage = g.stage
  BY DEF Goroutine
<1>3. [g EXCEPT !.awaited = FALSE].job = g.job
  BY DEF Goroutine
<1>. QED BY <1>1, <1>2, <1>3

\* One goroutine is idle or forgotten, and the others are as they were.
LEMMA OneQuiet ==
    ASSUME TypeOK, UNCHANGED <<rendered, installed, users, xrayUp, doubts>>,
           NEW h \in Handlers,
           \/ agent' = [agent EXCEPT ![h] = Idle]
           \/ agent' = [agent EXCEPT ![h] = [agent[h] EXCEPT !.awaited = FALSE]]
    PROVE  Quiet
<1>1. agent[h] \in Goroutine /\ DOMAIN agent = Handlers
  BY DEF TypeOK
<1>2. agent'[h] = Idle \/ agent'[h] = [agent[h] EXCEPT !.awaited = FALSE]
  BY <1>1
<1>3. \A g \in Handlers \ {h} : agent'[g] = agent[g]
  BY <1>1
<1>. QED BY <1>1, <1>2, <1>3, Forgotten DEF Quiet

\* Every step, by what it does to them.
LEMMA EngineStep ==
    ASSUME TypeOK, [Next]_vars
    PROVE  \/ Quiet \/ Calling \/ XrayRestarts
           \/ \E h \in Handlers : \/ AgentInstall(h) \/ AgentApply(h)
                                  \/ AgentRestartsXray(h) \/ AgentFails(h)
<1> USE DEF engine
<1>1. CASE \E i \in Invitations : Redeem(i)
  <2>1. PICK i \in Invitations : Redeem(i)
    BY <1>1
  <2>2. DeviceOf[i] \in Devices
    BY DeviceSyncAssumption
  <2>3. CASE Reserve(i) /\ Process(created + 1, WithActivation(i))
    BY <2>1, <2>2, <2>3, NewJobType DEF Redeem, Reserve, WithActivation, Kind, Calling
  <2>4. CASE \E j \in OpenJobs(DeviceOf[i], "activate") : Process(j, job)
    BY <2>1, <2>4 DEF Redeem, OpenJobs, TypeOK, Calling
  <2>. QED BY <2>1, <2>3, <2>4 DEF Redeem
<1>2. CASE \E d \in Devices : Revoke(d)
  <2>1. PICK d \in Devices : Revoke(d)
    BY <1>2
  <2>2. CASE EnqueueRevocation(d) /\ Process(created + 1, WithRevocation(d))
    BY <2>1, <2>2, NewJobType DEF Revoke, EnqueueRevocation, WithRevocation, Kind, Calling
  <2>3. CASE \E j \in OpenJobs(d, "revoke") : Process(j, job)
    BY <2>1, <2>3 DEF Revoke, OpenJobs, TypeOK, Calling
  <2>. QED BY <2>1, <2>2, <2>3 DEF Revoke
<1>3. CASE DrainStep
  <2>1. PICK j \in drain.todo : Process(j, job) \/ UNCHANGED <<agent, rendered, doubts>>
    BY <1>3 DEF DrainStep
  <2>2. j \in JobIds /\ job \in [JobIds -> Job] /\ UNCHANGED <<installed, users, xrayUp>>
    BY <1>3 DEF TypeOK, DrainStep
  <2>. QED BY <2>1, <2>2 DEF Calling, Quiet
<1>4. CASE \/ \E i \in Invitations : CreateDevice(i) \/ CreateInvitation(i) \/ Lapse(i)
           \/ \E d \in Devices : RevokeUnprovisioned(d)
           \/ DrainBegin \/ Restart
           \/ \E j \in JobIds : BackoffElapses(j)
           \/ UNCHANGED vars
  <2>1. UNCHANGED <<agent, rendered, installed, users, xrayUp, doubts>>
    BY <1>4 DEF CreateDevice, CreateInvitation, Lapse, RevokeUnprovisioned, DrainBegin, Restart,
                BackoffElapses, vars
  <2>. QED BY <2>1 DEF Quiet
<1>5. CASE \/ Crash
           \/ \E i \in Invitations : RedeemInterrupted(i)
           \/ \E d \in Devices : RevokeInterrupted(d)
  <2>1. Dies /\ UNCHANGED <<rendered, installed, users, xrayUp, doubts>>
    BY <1>5 DEF Crash, RedeemInterrupted, RevokeInterrupted
  <2>2. ASSUME NEW h \in Handlers
        PROVE  agent'[h] = Idle \/ agent'[h] = [agent[h] EXCEPT !.awaited = FALSE]
    BY <2>1, <2>2 DEF Dies
  <2>3. \A h \in Handlers : agent[h] \in Goroutine
    BY DEF TypeOK
  <2>. QED BY <2>1, <2>2, <2>3, Forgotten DEF Quiet
<1>6. ASSUME NEW h \in Handlers, AgentAccepted(h) \/ AgentRefused(h) \/ AgentTimeout(h)
      PROVE  Quiet
  <2>1. UNCHANGED <<rendered, installed, users, xrayUp, doubts>>
    BY <1>6 DEF AgentAccepted, AgentRefused, AgentTimeout
  <2>2. \/ agent' = [agent EXCEPT ![h] = Idle]
        \/ agent' = [agent EXCEPT ![h] = [agent[h] EXCEPT !.awaited = FALSE]]
    BY <1>6 DEF AgentAccepted, AgentRefused, AgentTimeout, Answered
  <2>. QED BY <2>1, <2>2, OneQuiet
<1>. QED BY <1>1, <1>2, <1>3, <1>4, <1>5, <1>6 DEF Next

-----------------------------------------------------------------------------
(* Access *)

\* An activation of the device is open.
Opening(d) == OpenJobs(d, "activate") # {}

\* The rows in use stay, with their device.
LEMMA UsedRowsStay ==
    ASSUME TypeOK, UsedRows, LinksHaveDevices, AwaitedRuns, [Next]_vars,
           NEW j \in JobIds, job[j].status # "unused"
    PROVE  job'[j].kind = job[j].kind /\ job'[j].device = job[j].device
<1>1. ASSUME NEW k \in JobIds, NEW status, Moves(k, status)
      PROVE  job'[j].kind = job[j].kind /\ job'[j].device = job[j].device
  BY <1>1 DEF Moves, OthersKept
<1>2. ASSUME NEW kind, NEW d, NEW i, NEW status, Inserts(kind, d, i, status)
      PROVE  job'[j] = job[j]
  <2>1. j # created + 1
    BY DEF UsedRows, TypeOK, JobIds
  <2>. QED BY <1>2, <2>1 DEF Inserts, OthersKept
<1>3. CASE Restart
  <2>1. job[j] \in Job
    BY DEF TypeOK
  <2>2. job'[j] = job[j] \/ job'[j] = [job[j] EXCEPT !.status = "failed"]
    BY <1>3 DEF Restart
  <2>. QED BY <2>1, <2>2 DEF Job
<1>. QED BY <1>1, <1>2, <1>3, OutboxStep DEF outbox

\* A goroutine that adds the device and has not come back.
Adding(h, d) ==
    /\ agent[h].stage \in {"received", "installed", "accepted"}
    /\ job[agent[h].job].kind = "activate"
    /\ Subject(h) = d

LEMMA KnownIs ==
    ASSUME NEW d
    PROVE  Known(d) <=> \/ d \in users \/ d \in installed
                        \/ d \in rendered /\ \E h \in Handlers : agent[h].stage = "received"
                        \/ \E h \in Handlers : Adding(h, d)
BY DEF Known, Adding

\* A goroutine whose stage does not go back adds what it added before.
LEMMA AddingStays ==
    ASSUME IInv, [Next]_vars, NEW d, NEW h \in Handlers, Adding(h, d)',
           agent'[h].job = agent[h].job,
           agent[h].stage \in {"received", "installed", "accepted"}
    PROVE  Adding(h, d)
<1>1. agent[h].job \in JobIds /\ job[agent[h].job].status # "unused"
  BY DEF IInv, AwaitedRuns, TypeOK, Goroutine
<1>2. /\ job'[agent[h].job].kind = job[agent[h].job].kind
      /\ job'[agent[h].job].device = job[agent[h].job].device
  BY <1>1, UsedRowsStay DEF IInv
<1>. QED BY <1>2 DEF Adding, Subject

\* Only a call that is made with the credentials of a device makes the engines know it, and
\* one whose device is active or has an open activation.
LEMMA KnownComes ==
    ASSUME IInv, [Next]_vars, NEW d \in Devices, ~Known(d), Known(d)'
    PROVE  credential[d] /\ (device[d] = "active" \/ Opening(d)')
<1>1. /\ d \notin users /\ d \notin installed
      /\ d \in rendered => \A h \in Handlers : agent[h].stage # "received"
      /\ \A h \in Handlers : ~Adding(h, d)
  BY KnownIs
<1>2. \/ d \in users' \/ d \in installed'
      \/ d \in rendered' /\ \E h \in Handlers : agent'[h].stage = "received"
      \/ \E h \in Handlers : Adding(h, d)'
  BY DEF Known, Adding, Subject
<1>3. /\ agent \in [Handlers -> Goroutine]
      /\ \A h \in Handlers : agent[h] \in Goroutine /\ agent[h].job \in JobIds
  BY DEF IInv, TypeOK, Goroutine
<1>4. CASE Quiet
  <2>1. UNCHANGED <<rendered, installed, users>>
    BY <1>4 DEF Quiet
  <2>2. ASSUME NEW h \in Handlers, agent'[h].stage # "idle"
        PROVE  agent'[h].stage = agent[h].stage /\ agent'[h].job = agent[h].job
    BY <1>4, <2>2 DEF Quiet
  <2>3. ASSUME NEW h \in Handlers PROVE ~Adding(h, d)'
    <3>1. SUFFICES ASSUME Adding(h, d)' PROVE FALSE
      OBVIOUS
    <3>2. agent'[h].stage = agent[h].stage /\ agent'[h].job = agent[h].job
          /\ agent'[h].stage \in {"received", "installed", "accepted"}
      BY <2>2, <3>1 DEF Adding
    <3>. QED BY <1>1, <3>1, <3>2, AddingStays
  <2>4. \A h \in Handlers : agent'[h].stage = "received" => agent[h].stage = "received"
    BY <2>2
  <2>. QED BY <1>1, <1>2, <2>1, <2>3, <2>4
<1>5. CASE Calling
  <2>1. PICK j \in JobIds, table \in [JobIds -> Job] : Process(j, table)
    BY <1>5 DEF Calling
  <2>2. UNCHANGED <<installed, users>>
    BY <1>5 DEF Calling
  <2>3. CASE UNCHANGED <<agent, rendered, doubts>>
    <3>1. ASSUME NEW h \in Handlers, Adding(h, d)' PROVE FALSE
      <4>1. agent[h].stage \in {"received", "installed", "accepted"}
        BY <2>3, <3>1 DEF Adding
      <4>. QED BY <1>1, <2>3, <3>1, <4>1, AddingStays
    <3>. QED BY <1>1, <1>2, <2>2, <2>3, <3>1
  <2>4. CASE ~UNCHANGED <<agent, rendered, doubts>>
    <3>1. /\ job' = SetJob(table, j, "running") /\ Renderable(table[j])
          /\ rendered' = RecoveryConfig(table[j])
      BY <2>1, <2>4 DEF Process
    <3>2. PICK h \in Handlers :
            agent' = [agent EXCEPT ![h] = [stage |-> "received", job |-> j, awaited |-> TRUE]]
      BY <2>1, <2>4 DEF Process
    <3>3. /\ agent'[h].job = j
          /\ \A g \in Handlers \ {h} : agent'[g] = agent[g]
      BY <1>3, <3>2
    <3>4. job'[j] = [table[j] EXCEPT !.status = "running"]
      BY <3>1 DEF SetJob
    <3>5. /\ job'[j].status = "running"
          /\ job'[j].kind = table[j].kind /\ job'[j].device = table[j].device
      BY <3>4 DEF Job
    <3>6. ASSUME NEW g \in Handlers \ {h} PROVE ~Adding(g, d)'
      <4>1. SUFFICES ASSUME Adding(g, d)' PROVE FALSE
        OBVIOUS
      <4>2. agent[g].stage \in {"received", "installed", "accepted"}
        BY <3>3, <4>1 DEF Adding
      <4>. QED BY <1>1, <3>3, <4>1, <4>2, AddingStays
    <3>7. \/ d \in RecoveryConfig(table[j])
          \/ table[j].kind = "activate" /\ table[j].device = d
      <4>1. CASE Adding(h, d)'
        BY <3>3, <3>5, <4>1 DEF Adding, Subject
      <4>. QED BY <1>1, <1>2, <2>2, <3>1, <3>6, <4>1
    <3>8. credential[d]
      BY <3>1, <3>7 DEF Renderable
    <3>9. device[d] = "active" \/ (table[j].kind = "activate" /\ table[j].device = d)
      BY <3>7 DEF RecoveryConfig, ActiveDevices
    <3>10. CASE table[j].kind = "activate" /\ table[j].device = d
      <4>1. j \in OpenJobs(d, "activate")'
        BY <3>5, <3>10 DEF OpenJobs, Open
      <4>. QED BY <3>8, <4>1 DEF Opening
    <3>. QED BY <3>8, <3>9, <3>10
  <2>. QED BY <2>3, <2>4
<1>6. CASE XrayRestarts
  <2>1. UNCHANGED <<agent, job, rendered, installed>> /\ users' = installed
    BY <1>6 DEF XrayRestarts, LoadsInstalled, outbox
  <2>2. \A h \in Handlers : Adding(h, d)' <=> Adding(h, d)
    BY <2>1 DEF Adding, Subject
  <2>. QED BY <1>1, <1>2, <2>1, <2>2
<1>7. ASSUME NEW h \in Handlers,
             AgentInstall(h) \/ AgentApply(h) \/ AgentRestartsXray(h) \/ AgentFails(h)
      PROVE  FALSE
  <2>1. UNCHANGED <<job, rendered>> /\ agent[h].stage \in {"received", "installed"}
    BY <1>7 DEF AgentInstall, AgentApply, AgentRestartsXray, AgentFails, outbox
  <2>2. \/ agent' = [agent EXCEPT ![h].stage = "installed"]
        \/ \E verdict \in {"accepted", "refused"} : Ends(h, verdict)
    BY <1>7 DEF AgentInstall, AgentApply, AgentRestartsXray, AgentFails
  <2>3. \A g \in Handlers \ {h} : agent'[g] = agent[g]
    BY <1>3, <2>2 DEF Ends
  <2>4. /\ agent'[h].stage # "received"
        /\ agent'[h].stage # "idle" => agent'[h].job = agent[h].job
    BY <1>3, <2>2 DEF Ends, Idle, Goroutine
  <2>5. ASSUME NEW g \in Handlers PROVE ~Adding(g, d)'
    <3>1. SUFFICES ASSUME Adding(g, d)' PROVE FALSE
      OBVIOUS
    <3>2. agent'[g].stage \in {"received", "installed", "accepted"}
      BY <3>1 DEF Adding
    <3>3. agent'[g].job = agent[g].job /\ agent[g].stage \in {"received", "installed", "accepted"}
      BY <2>1, <2>3, <2>4, <3>2
    <3>. QED BY <1>1, <3>1, <3>3, AddingStays
  <2>6. d \in users' \/ d \in installed'
    BY <1>1, <1>2, <2>1, <2>3, <2>4, <2>5
  <2>7. CASE AgentInstall(h)
    BY <1>1, <2>6, <2>7 DEF AgentInstall
  <2>8. CASE AgentApply(h)
    <3>1. installed' = installed /\ job[agent[h].job].kind = "activate" /\ Subject(h) = d
      BY <1>1, <2>6, <2>8 DEF AgentApply
    <3>2. Adding(h, d)
      BY <2>1, <3>1 DEF Adding
    <3>. QED BY <1>1, <3>2
  <2>9. CASE AgentRestartsXray(h)
    BY <1>1, <2>6, <2>9 DEF AgentRestartsXray, LoadsInstalled
  <2>10. CASE AgentFails(h)
    BY <1>1, <2>6, <2>10 DEF AgentFails
  <2>. QED BY <1>7, <2>7, <2>8, <2>9, <2>10
<1>8. TypeOK
  BY DEF IInv
<1>. QED BY <1>4, <1>5, <1>6, <1>7, <1>8, EngineStep

\* How a step changes the row of a device and its credentials.
LEMMA DeviceStep ==
    ASSUME IInv, [Next]_vars, NEW d \in Devices
    PROVE  \/ device'[d] = device[d] /\ credential'[d] = credential[d]
           \/ device[d] = "absent" /\ device'[d] = "invited" /\ credential'[d]
           \/ /\ device[d] = "invited" /\ device'[d] = "revoked" /\ ~credential'[d]
              /\ ~Opening(d) /\ UNCHANGED job
           \/ \E h \in Handlers :
                 /\ AgentAccepted(h) /\ agent[h].stage = "accepted"
                 /\ agent[h].job \in JobIds /\ Subject(h) = d
                 /\ \/ /\ job[agent[h].job].kind = "activate"
                       /\ device'[d] = "active" /\ credential'[d] = credential[d]
                    \/ /\ job[agent[h].job].kind = "revoke"
                       /\ device'[d] = "revoked" /\ ~credential'[d]
<1> USE DEF people, IInv
<1>1. CASE \/ OutboxOnly
           \/ \E i \in Invitations : CreateInvitation(i) \/ Lapse(i)
           \/ \E i \in Invitations, status \in Open : Reserves(i, status)
  BY <1>1 DEF OutboxOnly, CreateInvitation, Lapse, Reserves
<1>2. ASSUME NEW i \in Invitations, CreateDevice(i)
      PROVE  \/ device'[d] = device[d] /\ credential'[d] = credential[d]
             \/ device[d] = "absent" /\ device'[d] = "invited" /\ credential'[d]
  BY <1>2, DeviceSyncAssumption DEF CreateDevice, TypeOK
<1>3. ASSUME NEW e \in Devices, RevokeUnprovisioned(e)
      PROVE  \/ device'[d] = device[d] /\ credential'[d] = credential[d]
             \/ /\ device[d] = "invited" /\ device'[d] = "revoked" /\ ~credential'[d]
                /\ ~Opening(d) /\ UNCHANGED job
  BY <1>3 DEF RevokeUnprovisioned, Revocable, RevokeRows, Opening, TypeOK, outbox
<1>4. ASSUME NEW h \in Handlers, AgentAccepted(h),
             ~(device'[d] = device[d] /\ credential'[d] = credential[d])
      PROVE  /\ agent[h].stage = "accepted"
             /\ agent[h].job \in JobIds /\ Subject(h) = d
             /\ \/ /\ job[agent[h].job].kind = "activate"
                   /\ device'[d] = "active" /\ credential'[d] = credential[d]
                \/ /\ job[agent[h].job].kind = "revoke"
                   /\ device'[d] = "revoked" /\ ~credential'[d]
  <2>1. agent[h].stage = "accepted" /\ agent[h].job \in JobIds
    BY <1>4 DEF AgentAccepted, Answered, TypeOK, Goroutine
  <2>2. CASE job[agent[h].job].kind = "activate" /\ CompleteActivation(agent[h].job)
    BY <1>4, <2>1, <2>2 DEF CompleteActivation, Subject, TypeOK
  <2>3. CASE job[agent[h].job].kind = "revoke" /\ CompleteRevocation(agent[h].job)
    BY <1>4, <2>1, <2>3 DEF CompleteRevocation, RevokeRows, Subject, TypeOK
  <2>. QED BY <1>4, <2>1, <2>2, <2>3 DEF AgentAccepted
<1>. QED BY <1>1, <1>2, <1>3, <1>4, TablesStep

\* Engines know a device only when its activation is open or has been accepted, and only a
\* device that was active is ever revoked by a job.
AccessInv ==
    /\ IInv
    /\ \A d \in Devices : /\ device[d] = "absent" => ~Known(d)
                          /\ device[d] = "invited" /\ Known(d) => Opening(d)
    /\ \A j \in JobIds : job[j].status # "unused" /\ job[j].kind = "revoke" =>
                             device[job[j].device] \in {"active", "revoked"}

LEMMA InitAccessInv == Init => AccessInv
<1> SUFFICES ASSUME Init PROVE AccessInv
  OBVIOUS
<1>1. \A d \in Devices : ~Known(d)
  BY DEF Init, Known, Idle
<1>2. \A j \in JobIds : job[j].status = "unused"
  BY DEF Init, Unused
<1>. QED BY <1>1, <1>2, InitIInv DEF AccessInv

\* A job to revoke a device is inserted only while the device is active.
LEMMA InsertedRevocation ==
    ASSUME TypeOK, UsedRows, AwaitedRuns, [Next]_vars,
           NEW j \in JobIds, job[j].status = "unused",
           job'[j].status # "unused", job'[j].kind = "revoke"
    PROVE  \E d \in Devices, status \in Open :
               device[d] = "active" /\ Inserts("revoke", d, NoInvitation, status)
<1>1. CASE OutboxOnly
  <2>1. ASSUME NEW k \in JobIds, NEW status \in Open, Moves(k, status) PROVE FALSE
    BY <2>1 DEF Moves, OthersKept, Open
  <2>2. ~Restart
    BY DEF Restart
  <2>. QED BY <1>1, <2>1, <2>2 DEF OutboxOnly, outbox
<1>2. ASSUME NEW i \in Invitations, NEW status \in Open, Reserves(i, status) PROVE FALSE
  BY <1>2 DEF Reserves, Inserts, OthersKept
<1>3. ASSUME NEW i \in Invitations, CreateDevice(i) \/ CreateInvitation(i) \/ Lapse(i) PROVE FALSE
  BY <1>3 DEF CreateDevice, CreateInvitation, Lapse, outbox
<1>4. ASSUME NEW d \in Devices, RevokeUnprovisioned(d) PROVE FALSE
  BY <1>4 DEF RevokeUnprovisioned, outbox
<1>5. ASSUME NEW h \in Handlers, AgentAccepted(h) PROVE FALSE
  <2>1. agent[h].job \in JobIds /\ job[agent[h].job].status = "running"
    BY <1>5 DEF AgentAccepted, Answered, AwaitedRuns, TypeOK, Goroutine
  <2>2. job' = SetJob(job, agent[h].job, "completed")
    BY <1>5 DEF AgentAccepted, CompleteActivation, CompleteRevocation, CompleteJob
  <2>. QED BY <2>1, <2>2 DEF SetJob, TypeOK
<1>. QED BY <1>1, <1>2, <1>3, <1>4, <1>5, TablesStep

LEMMA StepAccessInv == AccessInv /\ [Next]_vars => AccessInv'
<1> SUFFICES ASSUME AccessInv, [Next]_vars PROVE AccessInv'
  OBVIOUS
<1>1. IInv /\ IInv' /\ TypeOK /\ UsedRows /\ AwaitedRuns /\ LinksHaveDevices
      /\ CredentialsFollowStatus
  BY StepIInv DEF AccessInv, IInv
<1>2. ASSUME NEW d \in Devices, device'[d] = "absent" PROVE ~Known(d)'
  <2>1. device[d] = "absent"
    BY <1>1, <1>2, DevicesStay
  <2>2. ~credential[d] /\ ~Known(d)
    BY <1>1, <2>1 DEF CredentialsFollowStatus, AccessInv
  <2>. QED BY <1>1, <2>2, KnownComes
<1>3. ASSUME NEW d \in Devices, device'[d] = "invited", Known(d)' PROVE Opening(d)'
  <2>1. device[d] \in {"absent", "invited"}
    BY <1>1, <1>3, DeviceStep DEF TypeOK, DeviceStatus
  <2>2. CASE ~Known(d)
    BY <1>1, <1>3, <2>1, <2>2, KnownComes
  <2>3. CASE Known(d)
    <3>1. device[d] = "invited" /\ Opening(d)
      BY <2>1, <2>3 DEF AccessInv
    <3>2. PICK j \in JobIds : j \in OpenJobs(d, "activate")
      BY <3>1 DEF Opening, OpenJobs
    <3>3. job'[j].kind = "activate" /\ job'[j].device = d
      BY <1>1, <3>2, UsedRowsStay DEF OpenJobs, Open
    <3>4. job'[j].status \in Open
      <4>1. CASE ~\E h \in Handlers : AgentAccepted(h)
        BY <1>1, <3>2, <4>1, NothingDecided DEF OpenJobs
      <4>2. ASSUME NEW h \in Handlers, AgentAccepted(h)
            PROVE  job'[j].status \in Open
        <5>1. agent[h].job \in JobIds /\ job'= SetJob(job, agent[h].job, "completed")
          BY <1>1, <4>2 DEF AgentAccepted, CompleteActivation, CompleteRevocation, CompleteJob,
                            TypeOK, Goroutine
        <5>2. CASE agent[h].job = j
          <6>1. CompleteActivation(j)
            BY <3>2, <4>2, <5>2 DEF AgentAccepted, OpenJobs
          <6>2. device'[d] = "active"
            BY <1>1, <3>2, <6>1 DEF CompleteActivation, OpenJobs, TypeOK
          <6>. QED BY <1>3, <6>2
        <5>3. CASE agent[h].job # j
          BY <1>1, <3>2, <5>1, <5>3 DEF SetJob, OpenJobs, TypeOK
        <5>. QED BY <5>2, <5>3
      <4>. QED BY <4>1, <4>2
    <3>5. j \in OpenJobs(d, "activate")'
      BY <3>3, <3>4 DEF OpenJobs
    <3>. QED BY <3>5 DEF Opening
  <2>. QED BY <2>2, <2>3
<1>4. ASSUME NEW d \in Devices, device[d] \in {"active", "revoked"}
      PROVE  device'[d] \in {"active", "revoked"}
  BY <1>1, <1>4, DeviceStep
<1>5. ASSUME NEW j \in JobIds, job'[j].status # "unused", job'[j].kind = "revoke"
      PROVE  device'[job'[j].device] \in {"active", "revoked"}
  <2>1. CASE job[j].status # "unused"
    <3>1. /\ job'[j].kind = job[j].kind /\ job'[j].device = job[j].device
          /\ job[j].device \in Devices
      BY <1>1, <2>1, UsedRowsStay DEF UsedRows
    <3>. QED BY <1>4, <1>5, <2>1, <3>1 DEF AccessInv
  <2>2. CASE job[j].status = "unused"
    <3>1. PICK d \in Devices, status \in Open :
            device[d] = "active" /\ Inserts("revoke", d, NoInvitation, status)
      BY <1>1, <1>5, <2>2, InsertedRevocation
    <3>2. j = created + 1
      BY <1>5, <2>2, <3>1 DEF Inserts, OthersKept
    <3>. QED BY <1>4, <3>1, <3>2 DEF Inserts
  <2>. QED BY <2>1, <2>2
<1>. QED BY <1>1, <1>2, <1>3, <1>5 DEF AccessInv

\* A step takes the access of each device where Access allows.
LEMMA AccessStep ==
    ASSUME AccessInv, [Next]_vars, NEW d \in Devices
    PROVE  access'[d] \in {access[d]} \cup A!After[access[d]]
<1>1. IInv /\ IInv' /\ TypeOK /\ TypeOK' /\ CredentialsFollowStatus /\ CredentialsFollowStatus'
  BY StepIInv DEF AccessInv, IInv
<1>2. /\ device'[d] = "absent" => access'[d] = "none"
      /\ device'[d] = "invited" => access'[d] = IF Known(d)' THEN "taken" ELSE "issued"
      /\ device'[d] = "active" /\ credential'[d] => access'[d] = "granted"
      /\ device'[d] = "active" /\ ~credential'[d] => access'[d] = "lingering"
      /\ device'[d] = "revoked" => access'[d] = IF Known(d)' THEN "lingering" ELSE "withdrawn"
  BY <1>1 DEF access, AccessOf, HysteriaAccepts, CredentialsFollowStatus
<1>3. /\ device[d] = "absent" => access[d] = "none"
      /\ device[d] = "invited" => access[d] = IF Known(d) THEN "taken" ELSE "issued"
      /\ device[d] = "active" /\ credential[d] => access[d] = "granted"
      /\ device[d] = "active" /\ ~credential[d] => access[d] = "lingering"
      /\ device[d] = "revoked" => access[d] = IF Known(d) THEN "lingering" ELSE "withdrawn"
      /\ device[d] \in {"absent", "revoked"} => ~credential[d]
  BY <1>1 DEF access, AccessOf, HysteriaAccepts, CredentialsFollowStatus
<1>4. ~credential[d] /\ ~Known(d) => ~Known(d)'
  BY <1>1, KnownComes
<1>5. device[d] \in DeviceStatus /\ device'[d] \in DeviceStatus
  BY <1>1 DEF TypeOK
<1>6. CASE device'[d] = device[d] /\ credential'[d] = credential[d]
  BY <1>2, <1>3, <1>4, <1>5, <1>6 DEF A!After, DeviceStatus
<1>7. CASE device[d] = "absent" /\ device'[d] = "invited"
  <2>1. ~Known(d)
    BY <1>7 DEF AccessInv
  <2>. QED BY <1>2, <1>3, <1>4, <1>7, <2>1 DEF A!After
<1>8. CASE /\ device[d] = "invited" /\ device'[d] = "revoked"
           /\ ~Opening(d) /\ UNCHANGED job
  <2>1. ~Known(d)
    BY <1>8 DEF AccessInv
  <2>2. ~Opening(d)'
    BY <1>8 DEF Opening, OpenJobs
  <2>3. ~Known(d)'
    BY <1>1, <1>8, <2>1, <2>2, KnownComes
  <2>. QED BY <1>2, <1>3, <1>8, <2>1, <2>3 DEF A!After
<1>9. ASSUME NEW h \in Handlers, agent[h].stage = "accepted", Subject(h) = d,
             job[agent[h].job].kind = "activate",
             device'[d] = "active", credential'[d] = credential[d]
      PROVE  access'[d] \in {access[d]} \cup A!After[access[d]]
  <2>1. Known(d)
    BY <1>9 DEF Known
  <2>2. device[d] # "absent"
    BY <2>1 DEF AccessInv
  <2>3. device[d] = "invited" => credential[d]
    BY <1>1 DEF CredentialsFollowStatus
  <2>. QED BY <1>2, <1>3, <1>5, <1>9, <2>1, <2>2, <2>3 DEF A!After, DeviceStatus
<1>10. ASSUME NEW h \in Handlers, agent[h].stage = "accepted", Subject(h) = d,
              agent[h].job \in JobIds, job[agent[h].job].kind = "revoke",
              device'[d] = "revoked"
       PROVE  access'[d] \in {access[d]} \cup A!After[access[d]]
  <2>1. job[agent[h].job].status # "unused"
    BY <1>1, <1>10 DEF IInv, AwaitedRuns
  <2>2. device[d] \in {"active", "revoked"}
    BY <1>10, <2>1 DEF AccessInv, Subject
  <2>. QED BY <1>2, <1>3, <1>4, <1>10, <2>2 DEF A!After
<1>. QED BY <1>1, <1>6, <1>7, <1>8, <1>9, <1>10, DeviceStep

\* The outbox with its retries, timeouts, crashes and concurrent requests implements Access,
\* for any number of calls that overlap: whom the engines have not taken in is not let in,
\* and once nothing knows a withdrawn device, nothing ever brings it back.
THEOREM Refinement == Spec => AccessSpec
<1>1. Init => A!Init
  BY DEF Init, A!Init, access, AccessOf, HysteriaAccepts
<1>2. AccessInv /\ [Next]_vars => [A!Next]_access
  <2> SUFFICES ASSUME AccessInv, [Next]_vars PROVE A!Next
    OBVIOUS
  <2>1. access' \in [Devices -> A!States]
    BY DEF access, AccessOf, A!States
  <2>. QED BY <2>1, AccessStep DEF A!Next
<1>. QED BY <1>1, <1>2, InitAccessInv, StepAccessInv, PTL DEF Spec, AccessSpec, A!Spec

-----------------------------------------------------------------------------
(* The engines and the database *)

\* No job of the device is open: its rows are decided.
Decided(d) == \A j \in JobIds : job[j].status \in Open => job[j].device # d

\* What Xray serves is right about the devices that are decided.
Agree(serves) == \A d \in Devices : Decided(d) => (d \in serves <=> device[d] = "active")

\* The job of a goroutine stays open, and the files are those of its call.
Works(h) ==
    LET row == job[agent[h].job] IN
    /\ agent[h].stage # "idle" => row.status \in Open /\ rendered = RecoveryConfig(row)
    /\ agent[h].stage \in {"installed", "accepted"} => installed = rendered
    /\ agent[h].stage = "accepted" /\ xrayUp =>
           (row.device \in users <=> row.kind = "activate")

\* At most one goroutine is at work.
Solo == \A g, h \in Handlers : agent[g].stage # "idle" /\ agent[h].stage # "idle" => g = h

\* A call that has overlapped leaves the file in doubt, and a file in doubt what runs.
Chain == /\ "call" \in doubts => "file" \in doubts
         /\ "file" \in doubts => "users" \in doubts

AgreeInv ==
    /\ IInv
    /\ Chain
    /\ "call" \notin doubts => Solo /\ \A h \in Handlers : Works(h)
    /\ "file" \notin doubts => Agree(installed)
    /\ "users" \notin doubts /\ xrayUp => Agree(users)

\* What AgreeInv says of the types.
LEMMA AgreeTypes ==
    ASSUME AgreeInv
    PROVE  /\ TypeOK /\ UsedRows /\ AwaitedRuns
           /\ agent \in [Handlers -> Goroutine]
           /\ \A h \in Handlers : agent[h] \in Goroutine /\ agent[h].job \in JobIds
BY DEF AgreeInv, IInv, TypeOK, Goroutine

\* As long as no device is decided, what Xray serves stays right.
LEMMA AgreeStays ==
    ASSUME ActiveDevices' = ActiveDevices, NEW serves, Agree(serves),
           \A j \in JobIds : job[j].status \in Open =>
               job'[j].status \in Open /\ job'[j].device = job[j].device
    PROVE  \A d \in Devices : Decided(d)' => (d \in serves <=> device'[d] = "active")
<1>1. \A d \in Devices : Decided(d)' => Decided(d)
  BY DEF Decided
<1>2. \A d \in Devices : device'[d] = "active" <=> device[d] = "active"
  BY DEF ActiveDevices
<1>. QED BY <1>1, <1>2 DEF Agree

\* A turn that leaves the goroutines, the files and Xray as they are, or forgets a call.
LEMMA QuietAgrees ==
    ASSUME AgreeInv, IInv', ActiveDevices' = ActiveDevices,
           \A j \in JobIds : job[j].status \in Open =>
               /\ job'[j].status \in Open
               /\ job'[j].kind = job[j].kind /\ job'[j].device = job[j].device,
           Quiet
    PROVE  AgreeInv'
<1>1. /\ UNCHANGED <<rendered, installed, users, xrayUp, doubts>>
      /\ \A h \in Handlers : \/ agent'[h].stage = "idle"
                             \/ /\ agent'[h].stage = agent[h].stage
                                /\ agent'[h].job = agent[h].job
  BY DEF Quiet
<1>2. ("file" \notin doubts => Agree(installed))'
  BY <1>1, AgreeStays DEF Agree, AgreeInv
<1>3. ("users" \notin doubts /\ xrayUp => Agree(users))'
  BY <1>1, AgreeStays DEF Agree, AgreeInv
<1>4. ASSUME NEW h \in Handlers, "call" \notin doubts PROVE Works(h)'
  <2>1. Works(h) /\ agent[h].job \in JobIds
    BY <1>4, AgreeTypes DEF AgreeInv
  <2>2. CASE agent'[h].stage = "idle"
    BY <2>2 DEF Works
  <2>3. CASE agent[h].stage # "idle" /\ agent'[h].stage = agent[h].stage
             /\ agent'[h].job = agent[h].job
    <3>1. /\ job'[agent'[h].job].status \in Open
          /\ job'[agent'[h].job].kind = job[agent[h].job].kind
          /\ job'[agent'[h].job].device = job[agent[h].job].device
      BY <2>1, <2>3 DEF Works
    <3>. QED BY <1>1, <2>1, <2>3, <3>1 DEF Works, RecoveryConfig
  <2>. QED BY <1>1, <2>2, <2>3
<1>5. "call" \notin doubts => Solo'
  BY <1>1 DEF Solo, AgreeInv
<1>6. Chain'
  BY <1>1 DEF Chain, AgreeInv
<1>. QED BY <1>1, <1>2, <1>3, <1>4, <1>5, <1>6 DEF AgreeInv

\* A call that is made alone has the config of its job in the shared file; one that is not
\* leaves everything in doubt.
LEMMA ProcessAgrees ==
    ASSUME AgreeInv, IInv', ActiveDevices' = ActiveDevices,
           \A j \in JobIds : job[j].status \in Open =>
               /\ job'[j].status \in Open
               /\ job'[j].kind = job[j].kind /\ job'[j].device = job[j].device,
           Calling
    PROVE  AgreeInv'
<1>1. PICK j \in JobIds, table \in [JobIds -> Job] : Process(j, table)
  BY DEF Calling
<1>2. UNCHANGED <<installed, users, xrayUp>>
  BY DEF Calling
<1>3. CASE UNCHANGED <<agent, rendered, doubts>>
  <2>1. Quiet
    BY <1>2, <1>3 DEF Quiet
  <2>. QED BY <2>1, QuietAgrees
<1>4. CASE ~UNCHANGED <<agent, rendered, doubts>>
  <2>1. /\ job' = SetJob(table, j, "running")
        /\ rendered' = RecoveryConfig(table[j])
        /\ doubts' = IF \E g \in Handlers : agent[g].stage # "idle"
                     THEN {"call", "file", "users"} ELSE doubts \ {"call"}
    BY <1>1, <1>4 DEF Process
  <2>2. CASE \E g \in Handlers : agent[g].stage # "idle"
    <3>1. doubts' = {"call", "file", "users"}
      BY <2>1, <2>2
    <3>. QED BY <3>1 DEF AgreeInv, Chain
  <2>3. CASE \A g \in Handlers : agent[g].stage = "idle"
    <3>1. doubts' = doubts \ {"call"}
      BY <2>1, <2>3
    <3>2. PICK h \in Handlers :
            agent' = [agent EXCEPT ![h] = [stage |-> "received", job |-> j, awaited |-> TRUE]]
      BY <1>1, <1>4 DEF Process
    <3>3. /\ agent'[h].stage = "received" /\ agent'[h].job = j
          /\ \A g \in Handlers \ {h} : agent'[g].stage = "idle"
      BY <2>3, <3>2, AgreeTypes
    <3>4. job'[j] = [table[j] EXCEPT !.status = "running"]
      BY <2>1 DEF SetJob
    <3>5. /\ job'[j].status = "running"
          /\ job'[j].kind = table[j].kind /\ job'[j].device = table[j].device
      BY <3>4 DEF Job
    <3>6. RecoveryConfig(job[j])' = RecoveryConfig(table[j])
      BY <3>5 DEF RecoveryConfig
    <3>7. Works(h)'
      BY <2>1, <3>3, <3>5, <3>6 DEF Works, Open
    <3>8. \A g \in Handlers : Works(g)'
      BY <3>3, <3>7 DEF Works
    <3>9. Solo'
      BY <3>3 DEF Solo
    <3>10. Chain'
      BY <3>1 DEF Chain, AgreeInv
    <3>11. ("file" \notin doubts => Agree(installed))'
      BY <1>2, <3>1, AgreeStays DEF Agree, AgreeInv
    <3>12. ("users" \notin doubts /\ xrayUp => Agree(users))'
      BY <1>2, <3>1, AgreeStays DEF Agree, AgreeInv
    <3>. QED BY <3>8, <3>9, <3>10, <3>11, <3>12 DEF AgreeInv
  <2>. QED BY <2>2, <2>3
<1>. QED BY <1>3, <1>4

\* While calls are in doubt, the agent takes no doubt away.
LEMMA DoubtStays ==
    ASSUME AgreeInv, IInv', "call" \in doubts, doubts' \subseteq {"call", "file", "users"},
           \/ \E h \in Handlers : \/ AgentInstall(h) \/ AgentApply(h)
                                  \/ AgentRestartsXray(h) \/ AgentFails(h)
           \/ XrayRestarts
    PROVE  AgreeInv'
<1>1. "file" \in doubts /\ "users" \in doubts
  BY DEF AgreeInv, Chain
<1>2. doubts' = doubts
  BY <1>1 DEF AgentInstall, AgentApply, AgentRestartsXray, AgentFails, XrayRestarts, LoadsInstalled
<1>. QED BY <1>1, <1>2 DEF AgreeInv, Chain

\* How far the only goroutine at work gets: what it installs is right about every decided
\* device, whatever earlier calls have left.
LEMMA GoroutineAgrees ==
    ASSUME AgreeInv, IInv', NEW h \in Handlers,
           AgentInstall(h) \/ AgentApply(h) \/ AgentRestartsXray(h) \/ AgentFails(h),
           "call" \notin doubts
    PROVE  AgreeInv'
<1> DEFINE row == job[agent[h].job]
<1>1. UNCHANGED <<job, device, rendered>>
  BY DEF AgentInstall, AgentApply, AgentRestartsXray, AgentFails, people, outbox
<1>2. /\ agent \in [Handlers -> Goroutine] /\ agent[h] \in Goroutine
      /\ TypeOK /\ Works(h) /\ row \in Job /\ agent[h].stage # "idle"
  BY AgreeTypes
     DEF AgreeInv, TypeOK, AgentInstall, AgentApply, AgentRestartsXray, AgentFails, Goroutine
<1>3. row.status \in Open /\ rendered = RecoveryConfig(row) /\ row.device \in Devices
  BY <1>2, AgreeTypes DEF Works, UsedRows, Open
<1>4. \A g \in Handlers \ {h} : agent[g].stage = "idle"
  BY <1>2 DEF AgreeInv, Solo
<1>5. \A d \in Devices : /\ Decided(d)' <=> Decided(d)
                         /\ Decided(d) => d # row.device
                         /\ Decided(d) => (d \in rendered <=> device[d] = "active")
  <2>1. \A d \in Devices : Decided(d)' <=> Decided(d)
    BY <1>1 DEF Decided
  <2>2. agent[h].job \in JobIds
    BY <1>2 DEF Goroutine
  <2>3. \A d \in Devices : Decided(d) => d # row.device
    BY <1>3, <2>2 DEF Decided
  <2>. QED BY <1>3, <2>1, <2>3 DEF RecoveryConfig, ActiveDevices
<1>6. row.device \in rendered <=> row.kind = "activate"
  BY <1>2, <1>3 DEF RecoveryConfig, Job, Kind
<1>7. /\ Chain
      /\ "file" \notin doubts => Agree(installed)
      /\ "users" \notin doubts /\ xrayUp => Agree(users)
  BY DEF AgreeInv
<1>8. ActiveDevices' = ActiveDevices
  BY <1>1 DEF ActiveDevices
<1>9. ASSUME Works(h)', \A g \in Handlers \ {h} : agent'[g] = agent[g],
             doubts' \subseteq doubts, Chain',
             "file" \notin doubts' =>
                 \A d \in Devices : Decided(d) => (d \in installed' <=> device[d] = "active"),
             "users" \notin doubts' /\ xrayUp' =>
                 \A d \in Devices : Decided(d) => (d \in users' <=> device[d] = "active")
      PROVE  AgreeInv'
  <2>1. \A g \in Handlers \ {h} : agent'[g].stage = "idle"
    BY <1>4, <1>9
  <2>2. Solo' /\ \A g \in Handlers : Works(g)'
    BY <1>9, <2>1 DEF Solo, Works
  <2>3. ("file" \notin doubts => Agree(installed))'
    BY <1>1, <1>5, <1>9 DEF Agree
  <2>4. ("users" \notin doubts /\ xrayUp => Agree(users))'
    BY <1>1, <1>5, <1>9 DEF Agree
  <2>. QED BY <1>9, <2>2, <2>3, <2>4 DEF AgreeInv
<1>10. CASE AgentInstall(h)
  <2>1. /\ installed' = rendered /\ UNCHANGED <<users, xrayUp>>
        /\ agent'[h].stage = "installed" /\ agent'[h].job = agent[h].job
        /\ \A g \in Handlers \ {h} : agent'[g] = agent[g]
        /\ doubts' = doubts \ {"file"}
    BY <1>2, <1>10 DEF AgentInstall, Goroutine
  <2>2. Works(h)'
    BY <1>1, <1>3, <1>8, <2>1 DEF Works, RecoveryConfig
  <2>3. Chain'
    BY <2>1 DEF Chain
  <2>. QED BY <1>5, <1>7, <1>9, <2>1, <2>2, <2>3 DEF Agree
<1>11. ASSUME NEW verdict \in {"accepted", "refused"}, Ends(h, verdict), UNCHANGED installed,
              agent[h].stage = "installed" \/ verdict = "refused",
              verdict = "accepted" /\ xrayUp' => (row.device \in users' <=> row.kind = "activate")
       PROVE  Works(h)' /\ \A g \in Handlers \ {h} : agent'[g] = agent[g]
  <2>1. \/ agent'[h].stage = "idle"
        \/ agent'[h].stage = verdict /\ agent'[h].job = agent[h].job
    BY <1>2, <1>11 DEF Ends, Idle, Goroutine
  <2>2. Works(h)'
    BY <1>1, <1>2, <1>3, <1>8, <1>11, <2>1 DEF Works, RecoveryConfig
  <2>3. \A g \in Handlers \ {h} : agent'[g] = agent[g]
    BY <1>2, <1>11 DEF Ends
  <2>. QED BY <2>2, <2>3
<1>12. CASE AgentApply(h)
  <2>1. /\ xrayUp /\ xrayUp' /\ UNCHANGED <<installed, doubts>> /\ agent[h].stage = "installed"
        /\ users' = IF row.kind = "activate" THEN users \cup {row.device}
                                             ELSE users \ {row.device}
        /\ Ends(h, "accepted")
    BY <1>12 DEF AgentApply, Subject
  <2>2. Works(h)' /\ \A g \in Handlers \ {h} : agent'[g] = agent[g]
    BY <1>11, <2>1
  <2>3. "users" \notin doubts =>
            \A d \in Devices : Decided(d) => (d \in users' <=> device[d] = "active")
    BY <1>5, <1>7, <2>1 DEF Agree
  <2>4. Chain'
    BY <1>7, <2>1 DEF Chain
  <2>. QED BY <1>7, <1>9, <2>1, <2>2, <2>3, <2>4 DEF Agree
<1>13. CASE AgentRestartsXray(h)
  <2>1. /\ xrayUp' /\ installed' = installed /\ agent[h].stage = "installed"
        /\ users' = installed /\ Ends(h, "accepted")
        /\ doubts' = IF "file" \in doubts THEN doubts ELSE doubts \ {"users"}
    BY <1>13 DEF AgentRestartsXray, LoadsInstalled
  <2>2. installed = rendered
    BY <1>2, <2>1 DEF Works
  <2>3. Works(h)' /\ \A g \in Handlers \ {h} : agent'[g] = agent[g]
    BY <1>6, <1>11, <2>1, <2>2
  <2>4. Chain'
    BY <1>7, <2>1 DEF Chain
  <2>. QED BY <1>5, <1>7, <1>9, <2>1, <2>2, <2>3, <2>4 DEF Agree
<1>14. CASE AgentFails(h)
  <2>1. /\ UNCHANGED <<installed, doubts>> /\ Ends(h, "refused")
        /\ UNCHANGED <<users, xrayUp>> \/ ~xrayUp'
    BY <1>14 DEF AgentFails
  <2>2. Works(h)' /\ \A g \in Handlers \ {h} : agent'[g] = agent[g]
    BY <1>11, <2>1
  <2>3. Chain'
    BY <1>7, <2>1 DEF Chain
  <2>. QED BY <1>7, <1>9, <2>1, <2>2, <2>3 DEF Agree
<1>. QED BY <1>10, <1>12, <1>13, <1>14

\* An accepted answer decides the device of its job, as the files have it already.
LEMMA AcceptedAgrees ==
    ASSUME AgreeInv, IInv', NEW h \in Handlers, AgentAccepted(h)
    PROVE  AgreeInv'
<1> DEFINE k == agent[h].job
           row == job[k]
<1>1. /\ TypeOK /\ k \in JobIds /\ row \in Job
      /\ agent[h].stage = "accepted" /\ agent'[h] = Idle
      /\ UNCHANGED <<rendered, installed, users, xrayUp, doubts>>
      /\ \A g \in Handlers \ {h} : agent'[g] = agent[g]
      /\ job[k].status = "running"
  BY AgreeTypes DEF TypeOK, AgentAccepted, Answered, engine, AwaitedRuns
<1>2. row.status \in Open /\ row.device \in Devices
  BY <1>1, AgreeTypes DEF UsedRows, Open
<1>3. row.kind \in Kind
  BY <1>1 DEF Job
<1>4. /\ \A j \in JobIds \ {k} : job'[j] = job[j]
      /\ device'[row.device] = IF row.kind = "activate" THEN "active" ELSE "revoked"
      /\ \A d \in Devices \ {row.device} : device'[d] = device[d]
  <2>1. CASE row.kind = "activate"
    BY <1>1, <1>2, <2>1
       DEF AgentAccepted, CompleteActivation, CompleteJob, SetJob, TypeOK
  <2>2. CASE row.kind = "revoke"
    BY <1>1, <1>2, <2>2
       DEF AgentAccepted, CompleteRevocation, RevokeRows, CompleteJob, SetJob, TypeOK
  <2>. QED BY <1>3, <2>1, <2>2 DEF Kind
<1>5. Chain'
  BY <1>1 DEF AgreeInv, Chain
<1>6. CASE "call" \in doubts
  BY <1>1, <1>5, <1>6 DEF AgreeInv, Chain
<1>7. CASE "call" \notin doubts
  <2>1. Works(h) /\ Solo
    BY <1>7 DEF AgreeInv
  <2>2. /\ installed = RecoveryConfig(row)
        /\ xrayUp => (row.device \in users <=> row.kind = "activate")
    BY <1>1, <2>1 DEF Works
  <2>3. \A d \in Devices \ {row.device} : Decided(d)' => Decided(d)
    BY <1>1, <1>4 DEF Decided
  <2>4. row.device \in installed <=> row.kind = "activate"
    BY <1>3, <2>2 DEF RecoveryConfig, Kind
  <2>5. ASSUME NEW serves, Agree(serves), row.device \in serves <=> row.kind = "activate"
        PROVE  \A d \in Devices : Decided(d)' => (d \in serves <=> device'[d] = "active")
    BY <1>2, <1>4, <2>3, <2>5 DEF Agree
  <2>6. ("file" \notin doubts => Agree(installed))'
    BY <1>1, <2>4, <2>5 DEF Agree, AgreeInv
  <2>7. ("users" \notin doubts /\ xrayUp => Agree(users))'
    BY <1>1, <2>2, <2>5 DEF Agree, AgreeInv
  <2>8. \A g \in Handlers : agent'[g].stage = "idle"
    BY <1>1, <2>1 DEF Solo, Idle
  <2>9. Solo' /\ \A g \in Handlers : Works(g)'
    BY <2>8 DEF Works, Solo
  <2>. QED BY <1>5, <2>6, <2>7, <2>9 DEF AgreeInv
<1>. QED BY <1>6, <1>7

\* Xray starts again with the installed config, and that agrees.
LEMMA RestartAgrees ==
    ASSUME AgreeInv, IInv', XrayRestarts, "call" \notin doubts
    PROVE  AgreeInv'
<1>1. /\ UNCHANGED <<job, device, agent, rendered, installed>> /\ users' = installed
      /\ doubts' = IF "file" \in doubts THEN doubts ELSE doubts \ {"users"}
  BY DEF XrayRestarts, LoadsInstalled, people, outbox
<1>2. \A d \in Devices : Decided(d)' <=> Decided(d)
  BY <1>1 DEF Decided
<1>3. Chain /\ Chain'
  BY <1>1 DEF AgreeInv, Chain
<1>4. ("file" \notin doubts => Agree(installed))'
  BY <1>1, <1>2 DEF AgreeInv, Agree
<1>5. ("users" \notin doubts => Agree(users))'
  BY <1>1, <1>2, <1>3 DEF AgreeInv, Agree, Chain
<1>6. ASSUME NEW h \in Handlers PROVE Works(h)'
  <2>1. Works(h) /\ job[agent[h].job] \in Job
    BY <1>6, AgreeTypes DEF TypeOK, AgreeInv
  <2>2. ActiveDevices' = ActiveDevices
    BY <1>1 DEF ActiveDevices
  <2>. QED BY <1>1, <2>1, <2>2 DEF Works, RecoveryConfig, Job, Kind
<1>7. Solo'
  BY <1>1 DEF Solo, AgreeInv
<1>. QED BY <1>3, <1>4, <1>5, <1>6, <1>7 DEF AgreeInv

LEMMA StepAgreeInv == AgreeInv /\ [Next]_vars => AgreeInv'
<1> SUFFICES ASSUME AgreeInv, [Next]_vars PROVE AgreeInv'
  OBVIOUS
<1>1. IInv' /\ TypeOK /\ TypeOK' /\ UsedRows /\ AwaitedRuns
  BY StepIInv, AgreeTypes DEF AgreeInv, IInv
<1>2. doubts' \subseteq {"call", "file", "users"}
  BY <1>1 DEF TypeOK
<1>3. CASE \E h \in Handlers : AgentAccepted(h)
  BY <1>1, <1>3, AcceptedAgrees
<1>4. CASE \/ \E h \in Handlers : \/ AgentInstall(h) \/ AgentApply(h)
                                  \/ AgentRestartsXray(h) \/ AgentFails(h)
           \/ XrayRestarts
  <2>1. CASE "call" \in doubts
    BY <1>1, <1>2, <1>4, <2>1, DoubtStays
  <2>2. CASE "call" \notin doubts
    BY <1>1, <1>4, <2>2, GoroutineAgrees, RestartAgrees
  <2>. QED BY <2>1, <2>2
<1>5. CASE ~(\E h \in Handlers : AgentAccepted(h)) /\ (Quiet \/ Calling)
  <2>1. /\ ActiveDevices' = ActiveDevices
        /\ \A j \in JobIds : job[j].status \in Open =>
               /\ job'[j].status \in Open
               /\ job'[j].kind = job[j].kind /\ job'[j].device = job[j].device
    BY <1>1, <1>5, NothingDecided
  <2>. QED BY <1>1, <1>5, <2>1, QuietAgrees, ProcessAgrees
<1>. QED BY <1>1, <1>3, <1>4, <1>5, EngineStep

LEMMA InitAgreeInv == Init => AgreeInv
<1> SUFFICES ASSUME Init PROVE AgreeInv
  OBVIOUS
<1>1. Agree(installed) /\ Agree(users)
  BY DEF Init, Agree
<1>2. Solo /\ \A h \in Handlers : Works(h)
  BY DEF Init, Works, Solo, Idle
<1>3. Chain
  BY DEF Init, Chain
<1>. QED BY <1>1, <1>2, <1>3, InitIInv DEF AgreeInv

\* Whatever calls of the agent timed out, failed, overlapped or outlived the control plane:
\* when nothing is queued or in flight, and a call has run alone since calls last overlapped,
\* the installed recovery config lists exactly the active devices; once Xray has started
\* again with it, the Xray that runs serves exactly them.
THEOREM EnginesAgreeAgain == Spec => []EnginesAgree
<1>1. AgreeInv => EnginesAgree
  <2> SUFFICES ASSUME AgreeInv, Settled
               PROVE  /\ "file" \notin doubts => installed = ActiveDevices
                      /\ "users" \notin doubts /\ xrayUp => users = ActiveDevices
    BY DEF EnginesAgree
  <2>1. \A d \in Devices : Decided(d)
    BY DEF Settled, Decided
  <2>2. installed \subseteq Devices /\ users \subseteq Devices
    BY AgreeTypes DEF TypeOK
  <2>3. /\ "file" \notin doubts => Agree(installed)
        /\ "users" \notin doubts /\ xrayUp => Agree(users)
    BY DEF AgreeInv
  <2>. QED BY <2>1, <2>2, <2>3 DEF Agree, ActiveDevices
<1>. QED BY <1>1, InitAgreeInv, StepAgreeInv, PTL DEF Spec

=============================================================================
