------------------------- MODULE EngineConfigProofs -------------------------
(***************************************************************************)
(* Proofs about EngineConfig for every value of its constants, any number  *)
(* of concurrent calls included: the types, that a template the engine     *)
(* rejects gets nowhere, and that a call which runs alone, whatever calls  *)
(* overlapped before it, leaves the active revision installed, or the file *)
(* it has found.                                                           *)
(***************************************************************************)
EXTENDS EngineConfig, SequenceTheorems, TLAPS

\* The versions calls have taken are rows or the next one.
VersionsFollow == \A c \in Calls : call[c].version <= Len(revisions) + 1

\* Only a revision the agent has not tested yet, or has refused, may be invalid.
CallsClean ==
    \A c \in Calls :
        \/ call[c].config.template \notin Invalid
        \/ call[c].kind = "apply" /\ call[c].stage \in {"received", "refused"}

\* A provisioning is for a device.
DevicesNamed == \A c \in Calls : call[c].kind # "apply" => call[c].device \in Devices

TablesClean ==
    /\ \A v \in DOMAIN revisions : revisions[v] \notin Invalid
    /\ rendered.template \notin Invalid
    /\ file.template \notin Invalid
    /\ previous.template \notin Invalid
    /\ service.template \notin Invalid

IInv == TypeOK /\ VersionsFollow /\ CallsClean /\ DevicesNamed /\ TablesClean

-----------------------------------------------------------------------------

\* The active template is a template, and valid when the rows are.
LEMMA ActiveTemplateClean ==
    ASSUME TypeOK, TablesClean
    PROVE  ActiveTemplate \in Templates \ Invalid
BY EngineConfigAssumption DEF TypeOK, TablesClean, ActiveTemplate

\* A restart runs a config it is given, or none.
LEMMA LoadedClean ==
    ASSUME NEW config \in Config, config.template \notin Invalid
    PROVE  /\ Loaded(config) \in Config \cup {Down}
           /\ Loaded(config).template \notin Invalid
BY EngineConfigAssumption DEF Loaded, Down

\* What every step but the start of a call does to the calls: each is as it was,
\* is over, or has only moved on.
Moved(c, stages) ==
    /\ call' \in [Calls -> Call]
    /\ \A d \in Calls : \/ call'[d] = call[d]
                        \/ call'[d] = Idle
                        \/ /\ d = c
                           /\ call'[d].stage \in stages
                           /\ call'[d].kind = call[d].kind
                           /\ call'[d].version = call[d].version
                           /\ call'[d].device = call[d].device
                           /\ call'[d].config = call[d].config

\* The idle call is one, with nothing invalid.
LEMMA IdleClean ==
    /\ Idle \in Call
    /\ Idle.config.template \notin Invalid
    /\ Idle.version = 0
    /\ Idle.kind = "apply"
BY EngineConfigAssumption DEF Idle, Call, Stage, Config, Initially

\* A goroutine's step is such a move.
LEMMA GoesMoves ==
    ASSUME TypeOK, NEW c \in Calls, NEW stage \in Stage, Goes(c, stage)
    PROVE  Moved(c, {stage})
<1>1. call[c] \in Call
  BY DEF TypeOK
<1>2. [call[c] EXCEPT !.stage = stage] \in Call
  BY <1>1 DEF Call
<1>3. /\ call' \in [Calls -> Call]
      /\ \A d \in Calls \ {c} : call'[d] = call[d]
      /\ call'[c] \in {Idle, [call[c] EXCEPT !.stage = stage]}
  BY <1>2, IdleClean DEF TypeOK, Goes
<1>. QED BY <1>1, <1>3 DEF Moved, Call

\* So is an answer the control plane has taken.
LEMMA AnsweredMoves ==
    ASSUME TypeOK, NEW c \in Calls, NEW verdict, Answered(c, verdict)
    PROVE  Moved(c, {})
BY IdleClean DEF TypeOK, Answered, Moved

\* And a call nobody waits for any more.
LEMMA AbandonMoves ==
    ASSUME TypeOK, NEW c \in Calls, Abandon(c)
    PROVE  Moved(c, {call[c].stage})
<1>1. call[c] \in Call
  BY DEF TypeOK
<1>2. [call[c] EXCEPT !.awaited = FALSE] \in Call
  BY <1>1 DEF Call
<1>3. /\ call' \in [Calls -> Call]
      /\ \A d \in Calls \ {c} : call'[d] = call[d]
      /\ call'[c] \in {Idle, [call[c] EXCEPT !.awaited = FALSE]}
  BY <1>2, IdleClean DEF TypeOK, Abandon
<1>. QED BY <1>1, <1>3 DEF Moved, Call

\* A move keeps the calls clean if it takes no invalid revision past its test.
LEMMA MovedClean ==
    ASSUME IInv, NEW c \in Calls, NEW stages, Moved(c, stages),
           \/ call[c].config.template \notin Invalid
           \/ call[c].kind = "apply" /\ stages \subseteq {"received", "refused"}
    PROVE  CallsClean' /\ DevicesNamed'
BY IdleClean DEF IInv, CallsClean, DevicesNamed, Moved

\* ... and the versions, while no row goes away.
LEMMA MovedVersions ==
    ASSUME IInv, NEW c, NEW stages, Moved(c, stages), Len(revisions') \in Nat,
           Len(revisions) <= Len(revisions')
    PROVE  VersionsFollow'
<1> SUFFICES ASSUME NEW d \in Calls
             PROVE  call'[d].version <= Len(revisions') + 1
  BY DEF VersionsFollow
<1>1. /\ call[d].version <= Len(revisions) + 1
      /\ call[d].version \in Nat
      /\ Len(revisions) \in Nat
  BY DEF IInv, VersionsFollow, TypeOK, Call
<1>. QED BY <1>1, IdleClean DEF Moved

\* A call that starts takes the place of an idle one.
LEMMA StartTypes ==
    ASSUME IInv, NEW c \in Calls, NEW kind \in {"apply", "add", "revoke"},
           NEW version \in Nat, version <= Len(revisions) + 1,
           NEW d \in Devices \cup {NoDevice}, NEW config \in Config,
           kind = "apply" \/ (d \in Devices /\ config.template \notin Invalid),
           Start(c, kind, version, d, config)
    PROVE  /\ call' \in [Calls -> Call] /\ CallsClean' /\ DevicesNamed' /\ VersionsFollow'
           /\ doubts' \in SUBSET {"call", "file", "service"}
<1> DEFINE new == [stage |-> "received", kind |-> kind, version |-> version, device |-> d,
                   config |-> config, before |-> file, awaited |-> TRUE]
<1>1. new \in Call
  BY DEF IInv, TypeOK, Call, Stage
<1>2. call' = [call EXCEPT ![c] = new] /\ revisions' = revisions
  BY DEF Start, rows
<1>3. call' \in [Calls -> Call] /\ call'[c] = new /\ \A e \in Calls \ {c} : call'[e] = call[e]
  BY <1>1, <1>2 DEF IInv, TypeOK
<1>4. CallsClean' /\ DevicesNamed'
  BY <1>3 DEF IInv, CallsClean, DevicesNamed
<1>5. VersionsFollow'
  BY <1>2, <1>3 DEF IInv, VersionsFollow
<1>6. doubts' \in SUBSET {"call", "file", "service"}
  BY DEF Start, IInv, TypeOK
<1>. QED BY <1>3, <1>4, <1>5, <1>6

\* A revision from the owner's template or from an earlier revision.
LEMMA ApplyStep ==
    ASSUME IInv, NEW c \in Calls, NEW t \in Templates, Apply(c, t)
    PROVE  IInv'
<1> DEFINE config == [template |-> t, users |-> devices]
<1>1. config \in Config /\ Len(revisions) \in Nat
  BY DEF IInv, TypeOK, Config
<1>2. Start(c, "apply", Len(revisions) + 1, NoDevice, config) /\ UNCHANGED rendered
  BY DEF Apply
<1>3. /\ call' \in [Calls -> Call] /\ CallsClean' /\ DevicesNamed' /\ VersionsFollow'
      /\ doubts' \in SUBSET {"call", "file", "service"}
  BY <1>1, <1>2, StartTypes
<1>4. UNCHANGED <<rows, host, rendered, faults>>
  BY <1>2 DEF Start
<1>. QED BY <1>3, <1>4 DEF IInv, TypeOK, TablesClean, rows, host

\* A provisioning renders the active template.
LEMMA ProvisionStep ==
    ASSUME IInv, NEW c \in Calls, NEW d \in Devices, Add(c, d) \/ Revoke(c, d)
    PROVE  IInv'
<1>1. PICK kind \in Provisioning, us \in SUBSET Devices :
          /\ rendered' = [template |-> ActiveTemplate, users |-> us]
          /\ Start(c, kind, 0, d, rendered')
  <2>1. devices \cup {d} \in SUBSET Devices /\ devices \ {d} \in SUBSET Devices
    BY DEF IInv, TypeOK
  <2>. QED BY <2>1 DEF Add, Revoke, Provisioning
<1>2. rendered' \in Config /\ rendered'.template \notin Invalid
  BY <1>1, ActiveTemplateClean DEF IInv, Config
<1>3. /\ call' \in [Calls -> Call] /\ CallsClean' /\ DevicesNamed' /\ VersionsFollow'
      /\ doubts' \in SUBSET {"call", "file", "service"}
  <2>1. 0 <= Len(revisions) + 1
    BY DEF IInv, TypeOK
  <2>. QED BY <1>1, <1>2, <2>1, StartTypes DEF Provisioning
<1>4. UNCHANGED <<rows, host, faults>>
  BY <1>1 DEF Start
<1>. QED BY <1>2, <1>3, <1>4 DEF IInv, TypeOK, TablesClean, rows, host

\* The revision becomes a row: the agent has tested it.
LEMMA AppliedStep ==
    ASSUME IInv, NEW c \in Calls, Applied(c)
    PROVE  IInv'
<1>1. Moved(c, {}) /\ call[c].stage = "accepted"
  BY AnsweredMoves DEF Applied, Answered, IInv
<1>2. /\ call[c].config \in Config
      /\ call[c].config.template \in Templates
      /\ call[c].config.template \notin Invalid
      /\ call[c].version \in Nat
      /\ call[c].version <= Len(revisions) + 1
  BY <1>1 DEF IInv, TypeOK, Call, Config, CallsClean, VersionsFollow
<1>3. UNCHANGED <<rendered, devices, host, faults>> /\ doubts' \in SUBSET {"call", "file", "service"}
  BY DEF Applied, Rights, IInv, TypeOK
<1>4. CASE Len(revisions) < call[c].version
  <2> DEFINE t == call[c].config.template
  <2>1. revisions' = Append(revisions, t) /\ active' = call[c].version
    BY <1>4 DEF Applied
  <2>2. revisions \in Seq(Templates) /\ Len(revisions) \in Nat
    BY DEF IInv, TypeOK
  <2>3. /\ revisions' \in Seq(Templates)
        /\ Len(revisions') = Len(revisions) + 1
        /\ \A v \in 1..Len(revisions) : revisions'[v] = revisions[v]
        /\ revisions'[Len(revisions) + 1] = t
    BY <1>2, <2>1, <2>2, AppendProperties
  <2>4. active' \in 0..Len(revisions')
    BY <1>2, <2>1, <2>2, <2>3
  <2>5. \A v \in DOMAIN revisions' : revisions'[v] \notin Invalid
    <3>1. DOMAIN revisions = 1..Len(revisions) /\ DOMAIN revisions' = 1..Len(revisions')
      BY <2>2, <2>3
    <3>2. \A v \in DOMAIN revisions : revisions[v] \notin Invalid
      BY DEF IInv, TablesClean
    <3>3. TAKE v \in DOMAIN revisions'
    <3>4. v \in 1..Len(revisions) \/ v = Len(revisions) + 1
      BY <2>2, <2>3, <3>1
    <3>. QED BY <1>2, <2>3, <3>1, <3>2, <3>4
  <2>6. CallsClean' /\ DevicesNamed' /\ VersionsFollow'
    BY <1>1, <1>2, <2>2, <2>3, MovedClean, MovedVersions
  <2>. QED BY <1>1, <1>3, <2>3, <2>4, <2>5, <2>6 DEF IInv, TypeOK, TablesClean, host, Moved
<1>5. CASE ~(Len(revisions) < call[c].version)
  <2>1. UNCHANGED <<revisions, active>>
    BY <1>5 DEF Applied
  <2>2. CallsClean' /\ DevicesNamed' /\ VersionsFollow'
    BY <1>1, <1>2, <2>1, MovedClean, MovedVersions DEF IInv, TypeOK
  <2>. QED BY <1>1, <1>3, <2>1, <2>2 DEF IInv, TypeOK, TablesClean, host, Moved
<1>. QED BY <1>4, <1>5

\* A step that moves a call and touches neither files, rows nor the service.
LEMMA QuietStep ==
    ASSUME IInv, NEW c \in Calls, NEW stages, Moved(c, stages),
           \/ call[c].config.template \notin Invalid
           \/ call[c].kind = "apply" /\ stages \subseteq {"received", "refused"},
           UNCHANGED <<revisions, active, rendered, file, previous, service>>,
           devices' \in SUBSET Devices,
           doubts' \in SUBSET {"call", "file", "service"},
           faults' \in 0..MaxFaults
    PROVE  IInv'
<1>1. CallsClean' /\ DevicesNamed' /\ VersionsFollow'
  BY MovedClean, MovedVersions DEF IInv, TypeOK
<1>. QED BY <1>1 DEF IInv, TypeOK, TablesClean, Moved

\* A step of the agent that writes only files or the service, and nothing invalid.
LEMMA HostStep ==
    ASSUME IInv, NEW c \in Calls, NEW stage \in Stage, Goes(c, stage),
           call[c].config.template \notin Invalid,
           UNCHANGED <<rows, rendered, doubts>>,
           file' \in Config, file'.template \notin Invalid,
           previous' \in Config, previous'.template \notin Invalid,
           service' \in Config \cup {Down}, service'.template \notin Invalid,
           faults' \in 0..MaxFaults
    PROVE  IInv'
<1>1. Moved(c, {stage})
  BY GoesMoves DEF IInv
<1>2. CallsClean' /\ DevicesNamed' /\ VersionsFollow'
  BY <1>1, MovedClean, MovedVersions DEF IInv, TypeOK, rows
<1>. QED BY <1>1, <1>2 DEF IInv, TypeOK, TablesClean, Moved, rows

\* A call past its test is clean.
LEMMA TestedClean ==
    ASSUME IInv, NEW c \in Calls,
           call[c].stage \notin {"received", "refused"} \/ call[c].kind # "apply"
    PROVE  call[c].config \in Config /\ call[c].config.template \notin Invalid
BY DEF IInv, TypeOK, Call, CallsClean

\* A fault is within its bound.
LEMMA FaultTypes ==
    ASSUME IInv, Fault
    PROVE  faults' \in 0..MaxFaults
BY EngineConfigAssumption DEF IInv, TypeOK, Fault

\* The turns of the control plane that end a call.
LEMMA EndStep ==
    ASSUME IInv, NEW c \in Calls, Provisioned(c) \/ Refused(c) \/ Abandon(c)
    PROVE  IInv'
<1>1. CASE Provisioned(c)
  <2>1. Moved(c, {}) /\ call[c].stage = "accepted" /\ call[c].kind # "apply"
    BY <1>1, AnsweredMoves DEF Provisioned, Answered, IInv
  <2>3. call[c].config.template \notin Invalid
    BY <2>1, TestedClean
  <2>4. devices' \in SUBSET Devices
    BY <1>1, <2>1 DEF Provisioned, IInv, DevicesNamed, TypeOK
  <2>. QED BY <1>1, <2>1, <2>3, <2>4, QuietStep DEF Provisioned, Rights, IInv, TypeOK, host
<1>2. CASE Refused(c)
  <2>1. Moved(c, {}) /\ call[c].stage = "refused"
    BY <1>2, AnsweredMoves DEF Refused, Answered, IInv
  <2>2. \/ call[c].config.template \notin Invalid
        \/ call[c].kind = "apply" /\ {} \subseteq {"received", "refused"}
    BY <2>1, TestedClean
  <2>. QED BY <1>2, <2>1, <2>2, QuietStep DEF Refused, IInv, TypeOK, rows, host
<1>3. CASE Abandon(c)
  <2>1. Moved(c, {call[c].stage})
    BY <1>3, AbandonMoves DEF IInv
  <2>2. \/ call[c].config.template \notin Invalid
        \/ call[c].kind = "apply" /\ {call[c].stage} \subseteq {"received", "refused"}
    BY TestedClean
  <2>3. faults' \in 0..MaxFaults
    BY <1>3, FaultTypes DEF Abandon
  <2>. QED BY <1>3, <2>1, <2>2, <2>3, QuietStep DEF Abandon, IInv, TypeOK, rows, host
<1>. QED BY <1>1, <1>2, <1>3

\* The test, the check of the service and a failure change no file.
LEMMA TestStep ==
    ASSUME IInv, NEW c \in Calls, Test(c) \/ Check(c) \/ AgentFails(c)
    PROVE  IInv'
<1>1. CASE Test(c)
  <2>1. CASE call[c].config.template \in Invalid
    <3>1. Moved(c, {"refused"}) /\ call[c].kind = "apply"
      BY <1>1, <2>1, GoesMoves DEF Test, At, IInv, Stage
    <3>. QED BY <1>1, <3>1, QuietStep DEF Test, IInv, TypeOK, rows, host
  <2>2. CASE call[c].config.template \notin Invalid
    <3>1. Moved(c, {"tested"})
      BY <1>1, <2>2, GoesMoves DEF Test, IInv, Stage
    <3>. QED BY <1>1, <2>2, <3>1, QuietStep DEF Test, IInv, TypeOK, rows, host
  <2>. QED BY <2>1, <2>2
<1>2. CASE Check(c)
  <2>1. call[c].config.template \notin Invalid
    BY <1>2, TestedClean DEF Check, At
  <2>2. PICK stage \in Stage : Goes(c, stage)
    BY <1>2 DEF Check, Stage
  <2>3. Moved(c, {stage})
    BY <2>2, GoesMoves DEF IInv
  <2>. QED BY <1>2, <2>1, <2>3, QuietStep DEF Check, IInv, TypeOK, rows, host
<1>3. CASE AgentFails(c)
  <2>1. Moved(c, {"refused"})
    BY <1>3, GoesMoves DEF AgentFails, IInv, Stage
  <2>2. \/ call[c].config.template \notin Invalid
        \/ call[c].kind = "apply" /\ {"refused"} \subseteq {"received", "refused"}
    BY TestedClean
  <2>3. faults' \in 0..MaxFaults
    BY <1>3, FaultTypes DEF AgentFails
  <2>. QED BY <1>3, <2>1, <2>2, <2>3, QuietStep DEF AgentFails, IInv, TypeOK, rows, host
<1>. QED BY <1>1, <1>2, <1>3

\* The steps that write: each moves a config that is already clean.
LEMMA WriteStep ==
    ASSUME IInv, NEW c \in Calls,
           \/ Save(c) \/ Install(c) \/ RestartService(c) \/ RestartFails(c)
           \/ Restore(c) \/ ChangeUsers(c)
    PROVE  IInv'
<1>1. /\ file \in Config /\ previous \in Config /\ rendered \in Config
      /\ service \in Config \cup {Down}
      /\ faults \in 0..MaxFaults /\ call[c] \in Call
      /\ file.template \notin Invalid /\ previous.template \notin Invalid
      /\ rendered.template \notin Invalid /\ service.template \notin Invalid
  BY DEF IInv, TypeOK, TablesClean
<1>2. Down.template \notin Invalid
  BY EngineConfigAssumption
<1>3. {"saved", "installed", "restarted", "restoring", "refused", "accepted"} \subseteq Stage
  BY DEF Stage
<1>4. CASE Save(c)
  <2>1. call[c].config.template \notin Invalid
    BY <1>4, TestedClean DEF Save, At
  <2>. QED BY <1>1, <1>3, <1>4, <2>1, HostStep DEF Save
<1>5. CASE Install(c)
  <2>1. call[c].config \in Config /\ call[c].config.template \notin Invalid
    BY <1>5, TestedClean DEF Install
  <2>. QED BY <1>1, <1>3, <1>5, <2>1, HostStep DEF Install
<1>6. CASE RestartService(c)
  <2>1. call[c].config.template \notin Invalid
    BY <1>6, TestedClean DEF RestartService, At
  <2>2. Loaded(file) \in Config \cup {Down} /\ Loaded(file).template \notin Invalid
    BY <1>1, LoadedClean
  <2>. QED BY <1>1, <1>3, <1>6, <2>1, <2>2, HostStep DEF RestartService
<1>7. CASE RestartFails(c)
  <2>1. call[c].config.template \notin Invalid
    BY <1>7, TestedClean DEF RestartFails, At
  <2>2. faults' \in 0..MaxFaults
    BY <1>7, FaultTypes DEF RestartFails
  <2>. QED BY <1>1, <1>2, <1>3, <1>7, <2>1, <2>2, HostStep DEF RestartFails
<1>8. CASE Restore(c)
  <2>1. call[c].config.template \notin Invalid
    BY <1>8, TestedClean DEF Restore, At
  <2>2. Loaded(previous) \in Config \cup {Down} /\ Loaded(previous).template \notin Invalid
    BY <1>1, LoadedClean
  <2>. QED BY <1>1, <1>3, <1>8, <2>1, <2>2, HostStep DEF Restore
<1>9. CASE ChangeUsers(c)
  <2>1. call[c].config.template \notin Invalid
    BY <1>9, TestedClean DEF ChangeUsers, At
  <2>2. Loaded(file) \in Config \cup {Down} /\ Loaded(file).template \notin Invalid
    BY <1>1, LoadedClean
  <2>3. faults' \in 0..MaxFaults
    BY <1>1, <1>9, FaultTypes DEF ChangeUsers
  <2>4. service' \in Config \cup {Down} /\ service'.template \notin Invalid
    <3>1. CASE service' = Loaded(file)
      BY <2>2, <3>1
    <3>2. ASSUME NEW us \in SUBSET Devices, service # Down,
                 service' = [service EXCEPT !.users = us]
          PROVE  service' \in Config /\ service'.template = service.template
      BY <1>1, <3>2 DEF Config
    <3>3. CASE service # Down /\ service' # Loaded(file)
      <4> DEFINE us == IF call[c].kind = "add" THEN service.users \cup {call[c].device}
                                               ELSE service.users \ {call[c].device}
      <4>1. service' = [service EXCEPT !.users = us]
        BY <1>9, <3>3 DEF ChangeUsers
      <4>2. call[c].device \in Devices
        BY <1>9 DEF ChangeUsers, At, Provisioning, IInv, DevicesNamed
      <4>3. us \in SUBSET Devices
        BY <1>1, <3>3, <4>2 DEF Config
      <4>. HIDE DEF us
      <4>. QED BY <1>1, <3>2, <3>3, <4>1, <4>3
    <3>. QED BY <1>1, <1>9, <3>1, <3>2, <3>3 DEF ChangeUsers
  <2>. QED BY <1>1, <1>3, <1>9, <2>1, <2>3, <2>4, HostStep DEF ChangeUsers
<1>. QED BY <1>4, <1>5, <1>6, <1>7, <1>8, <1>9

\* Every step keeps the invariant.
LEMMA StepIInv == IInv /\ [Next]_vars => IInv'
<1> SUFFICES ASSUME IInv, [Next]_vars PROVE IInv'
  OBVIOUS
<1>1. ASSUME NEW c \in Calls, Rollback(c)
      PROVE  IInv'
  <2>1. PICK v \in DOMAIN revisions : Apply(c, revisions[v])
    BY <1>1 DEF Rollback
  <2>2. revisions[v] \in Templates
    BY <2>1 DEF IInv, TypeOK
  <2>. QED BY <1>1, <2>1, <2>2, ApplyStep
<1>2. CASE UNCHANGED vars
  BY <1>2 DEF vars, IInv, TypeOK, VersionsFollow, CallsClean, DevicesNamed, TablesClean
<1>. QED
  BY <1>1, <1>2, ApplyStep, ProvisionStep, AppliedStep, EndStep, TestStep, WriteStep DEF Next

\* The invariant holds at first.
LEMMA InitIInv == Init => IInv
<1> SUFFICES ASSUME Init PROVE IInv
  OBVIOUS
<1>1. Initially \in Config /\ Initially.template \notin Invalid
  BY EngineConfigAssumption DEF Initially, Config
<1>2. revisions \in Seq(Templates) /\ Len(revisions) = 0 /\ DOMAIN revisions = {}
  BY DEF Init
<1>. QED BY <1>1, <1>2, IdleClean, EngineConfigAssumption
         DEF Init, IInv, TypeOK, VersionsFollow, CallsClean, DevicesNamed, TablesClean

\* The inductive invariant holds for any number of calls and revisions.
THEOREM Invariance == Spec => []IInv
BY InitIInv, StepIInv, PTL DEF Spec

\* The revisions, the files, the service and the calls have their types.
THEOREM TypeCorrect == Spec => []TypeOK
<1>1. IInv => TypeOK
  BY DEF IInv
<1>. QED BY <1>1, Invariance, PTL

\* However many calls overlap, are abandoned or fail, a template the engine
\* rejects is never installed, kept to fall back on, run or made active: apply()
\* and the script of the agent.
THEOREM InvalidNeverInstalled == Spec => []InvalidStaysOut
<1>1. IInv => InvalidStaysOut
  BY ActiveTemplateClean DEF IInv, TablesClean, InvalidStaysOut
<1>. QED BY <1>1, Invariance, PTL

-----------------------------------------------------------------------------
(* Calls that have run alone *)

\* The service runs the config, or is dead.
Serves(config) == "service" \notin doubts /\ service # Down => service = config

\* Where nothing is under way.
Resting == ("file" \notin doubts => file = Settled) /\ Serves(file)

\* What a call has taken before its await is still so.
Taken(c) ==
    LET k == call[c] IN
    k.stage # "idle" =>
        /\ "file" \notin doubts => k.before = Settled
        /\ ~k.awaited => doubts = {"file", "service"}
        /\ k.kind = "apply" => k.version = Len(revisions) + 1 /\ k.config.users = devices
        /\ k.kind \in Provisioning =>
              /\ k.config = rendered
              /\ k.config.template = ActiveTemplate
              /\ k.config.users = IF k.kind = "add" THEN devices \cup {k.device}
                                                   ELSE devices \ {k.device}

\* How far the file and the service have come.
Come(c) ==
    LET k == call[c] IN
    /\ k.stage = "idle" \/ k.stage = "received" \/ (k.kind = "apply" /\ k.stage = "refused") => Resting
    /\ k.stage = "received" => file = k.before
    /\ k.kind = "apply" =>
          /\ k.stage \in {"tested", "saved"} => Resting
          /\ k.stage \in {"tested", "saved", "refused"} => file = k.before
          /\ k.stage \in {"saved", "installed", "restarted", "restoring"} => previous = k.before
          /\ k.stage \in {"installed", "restarted", "accepted"} => file = k.config
          /\ k.stage \in {"restarted", "accepted"} => service = Loaded(file)
          /\ k.stage = "restoring" => service = Down
    /\ k.kind \in Provisioning =>
          /\ k.stage \in {"installed", "accepted"} => file = k.config
          /\ k.stage = "installed" => Serves(k.before)
          /\ k.stage = "accepted" => Serves(file)
          /\ k.stage \in {"idle", "received", "installed", "accepted", "refused"}

\* What an overlap leaves in doubt is the file, and what leaves the file in doubt
\* leaves the service in doubt.
Chain ==
    /\ "call" \in doubts => "file" \in doubts
    /\ "file" \in doubts => "service" \in doubts

Alone(c) == \A d \in Calls \ {c} : call[d] = Idle
Solo == \A c, d \in Calls : call[c] # Idle /\ call[d] # Idle => c = d

\* Unless calls have overlapped and are not over yet, one is under way at most, and the
\* file and the service are as far as it has come.
CallInv ==
    /\ IInv
    /\ Chain
    /\ Quiet => Resting
    /\ "call" \notin doubts => Solo /\ \A c \in Calls : Alone(c) => Taken(c) /\ Come(c)

\* The call that runs alone.
Lone(c) == "call" \notin doubts /\ Alone(c)

\* The idle call has taken nothing and is at rest.
LEMMA IdleRests ==
    ASSUME NEW c \in Calls, call'[c] = Idle, Resting'
    PROVE  Taken(c)' /\ Come(c)'
BY DEF Taken, Come, Idle, Provisioning

\* While no other is under way, what holds of one call holds of all.
LEMMA OneIsAll ==
    ASSUME NEW c \in Calls, IInv', Chain', Alone(c)', Taken(c)', Come(c)'
    PROVE  CallInv'
<1>1. call'[c] = Idle => Resting'
  BY DEF Come, Idle
<1>2. Quiet' => Resting'
  BY <1>1 DEF Quiet
<1>3. Solo'
  BY DEF Solo, Alone
<1>4. ASSUME NEW d \in Calls, Alone(d)'
      PROVE  Taken(d)' /\ Come(d)'
  <2>1. CASE d = c
    BY <2>1
  <2>2. CASE d # c
    <3>1. call'[c] = Idle /\ call'[d] = Idle
      BY <1>4, <2>2 DEF Alone
    <3>. QED BY <1>1, <3>1, IdleRests
  <2>. QED BY <2>1, <2>2
<1>. QED BY <1>2, <1>3, <1>4 DEF CallInv

\* While calls that have overlapped are under way nothing is promised.
LEMMA DoubtIsAll ==
    ASSUME IInv', Chain', "call" \in doubts'
    PROVE  CallInv'
BY DEF CallInv, Chain, Resting, Serves

\* The steps of a call that has started.
Steps(c) ==
    \/ Applied(c) \/ Provisioned(c) \/ Refused(c) \/ Abandon(c)
    \/ Test(c) \/ Save(c) \/ Install(c) \/ RestartService(c) \/ Check(c)
    \/ RestartFails(c) \/ Restore(c) \/ ChangeUsers(c) \/ AgentFails(c)

\* They are of that call only, and a doubt about the calls is settled by none of them.
LEMMA StepsOfOne ==
    ASSUME CallInv, NEW c \in Calls, Steps(c)
    PROVE  /\ "call" \notin doubts => Lone(c) /\ Alone(c)'
           /\ "call" \in doubts => "call" \in doubts' /\ Chain'
<1>1. call \in [Calls -> Call] /\ doubts \in SUBSET {"call", "file", "service"}
  BY DEF CallInv, IInv, TypeOK
<1>2. call[c].stage # "idle" \/ call[c].awaited
  BY DEF Steps, Applied, Provisioned, Refused, Answered, Abandon, Test, Save, Install,
         RestartService, Check, RestartFails, Restore, ChangeUsers, AgentFails, At
<1>3. call[c] # Idle
  BY <1>2 DEF Idle
<1>4. \A d \in Calls \ {c} : call'[d] = call[d]
  BY <1>1 DEF Steps, Applied, Provisioned, Refused, Answered, Abandon, Test, Save, Install,
         RestartService, Check, RestartFails, Restore, ChangeUsers, AgentFails, Goes
<1>5. "call" \notin doubts => Lone(c) /\ Alone(c)'
  BY <1>3, <1>4 DEF CallInv, Solo, Alone, Lone
<1>6. "call" \in doubts => doubts' = doubts
  <2>. SUFFICES ASSUME "call" \in doubts PROVE doubts' = doubts
    OBVIOUS
  <2>1. doubts = {"call", "file", "service"}
    BY <1>1 DEF CallInv, Chain
  <2>2. doubts \cup {"file", "service"} = doubts
    BY <2>1
  <2>. QED BY <2>2 DEF Steps, Applied, Provisioned, Rights, Refused, Abandon, Test, Save, Install,
         RestartService, Check, RestartFails, Restore, ChangeUsers, AgentFails
<1>. QED BY <1>5, <1>6 DEF CallInv, Chain

\* The types that the steps below rely on.
LEMMA OneTypes ==
    ASSUME CallInv, NEW c \in Calls, Lone(c)
    PROVE  /\ call[c] \in Call
           /\ file \in Config /\ previous \in Config /\ rendered \in Config
           /\ service \in Config \cup {Down}
           /\ doubts \in {{}, {"service"}, {"file", "service"}}
           /\ Len(revisions) \in Nat
           /\ Taken(c) /\ Come(c)
<1>1. /\ call[c] \in Call
      /\ file \in Config /\ previous \in Config /\ rendered \in Config
      /\ service \in Config \cup {Down}
  BY DEF CallInv, IInv, TypeOK
<1>2. /\ doubts \in SUBSET {"call", "file", "service"} /\ "call" \notin doubts
      /\ "file" \in doubts => "service" \in doubts
  BY DEF CallInv, IInv, TypeOK, Chain, Lone
<1>3. Len(revisions) \in Nat
  BY LenProperties DEF CallInv, IInv, TypeOK
<1>4. doubts \in {{}, {"service"}, {"file", "service"}}
  BY <1>2
<1>. QED BY <1>1, <1>3, <1>4 DEF CallInv, Lone

\* The next step of a goroutine keeps what its call has taken.
LEMMA GoesOn ==
    ASSUME CallInv, NEW c \in Calls, Lone(c), NEW stage \in Stage, Goes(c, stage), call[c].stage # "idle"
    PROVE  \/ /\ call'[c] = Idle
              /\ ~call[c].awaited /\ stage \in {"accepted", "refused"}
              /\ doubts = {"file", "service"}
           \/ /\ call'[c].stage = stage
              /\ call'[c].kind = call[c].kind
              /\ call'[c].version = call[c].version
              /\ call'[c].device = call[c].device
              /\ call'[c].config = call[c].config
              /\ call'[c].before = call[c].before
              /\ call'[c].awaited = call[c].awaited
<1>1. call[c] \in Call /\ Taken(c) /\ call \in [Calls -> Call]
  BY OneTypes DEF CallInv, IInv, TypeOK
<1>2. call'[c] = IF ~call[c].awaited /\ stage \in {"accepted", "refused"} THEN Idle
                 ELSE [call[c] EXCEPT !.stage = stage]
  BY <1>1 DEF Goes
<1>. QED BY <1>1, <1>2 DEF Taken, Call

\* A step of the agent that leaves the tables alone: the rest is what it does to files.
LEMMA GoesTaken ==
    ASSUME CallInv, NEW c \in Calls, Lone(c), NEW stage \in Stage \ {"idle"}, Goes(c, stage),
           call[c].stage # "idle", UNCHANGED <<rows, rendered, doubts>>
    PROVE  Taken(c)'
<1>1. UNCHANGED <<revisions, active, devices, ActiveTemplate, Settled>>
  BY DEF rows, ActiveTemplate, Settled
<1>2. CASE call'[c] = Idle
  BY <1>2 DEF Taken, Idle
<1>3. CASE call'[c] # Idle
  BY <1>1, <1>3, GoesOn, OneTypes DEF Taken
<1>. QED BY <1>2, <1>3

\* A call that starts while another is under way leaves everything in doubt; one that starts
\* where nothing is under way starts from a file and a service at rest.
LEMMA OneStarts ==
    ASSUME CallInv, IInv', NEW c \in Calls, NEW kind \in {"apply", "add", "revoke"},
           NEW version \in Nat, NEW d, NEW config \in Config,
           Start(c, kind, version, d, config),
           kind = "apply" => version = Len(revisions) + 1 /\ config.users = devices,
           kind \in Provisioning =>
               /\ config = rendered'
               /\ config.template = ActiveTemplate
               /\ config.users = IF kind = "add" THEN devices \cup {d} ELSE devices \ {d}
    PROVE  CallInv'
<1>1. CASE \E b \in Calls : call[b] # Idle
  <2>1. doubts' = {"call", "file", "service"}
    BY <1>1 DEF Start
  <2>. QED BY <2>1, DoubtIsAll DEF Chain
<1>2. CASE \A b \in Calls : call[b] = Idle
  <2>1. Resting
    BY <1>2 DEF CallInv, Quiet
  <2>2. doubts' = doubts \ {"call"}
    BY <1>2 DEF Start
  <2>3. /\ call'[c] = [stage |-> "received", kind |-> kind, version |-> version, device |-> d,
                       config |-> config, before |-> file, awaited |-> TRUE]
        /\ \A b \in Calls \ {c} : call'[b] = call[b]
    BY DEF Start, CallInv, IInv, TypeOK
  <2>4. UNCHANGED <<revisions, active, devices, file, previous, service, ActiveTemplate, Settled>>
    BY DEF Start, rows, host, ActiveTemplate, Settled
  <2>5. Resting'
    BY <2>1, <2>2, <2>4 DEF Resting, Serves
  <2>6. Taken(c)'
    BY <2>3, <2>4, <2>5 DEF Taken, Resting
  <2>7. Come(c)'
    BY <2>3, <2>4, <2>5 DEF Come, Provisioning
  <2>8. Chain' /\ Alone(c)'
    BY <1>2, <2>2, <2>3 DEF CallInv, Chain, Alone
  <2>. QED BY <2>6, <2>7, <2>8, OneIsAll
<1>. QED BY <1>1, <1>2

\* apply() and rollback() take the next version and the devices there are.
LEMMA OneApplies ==
    ASSUME CallInv, IInv', NEW c \in Calls, NEW t \in Templates, Apply(c, t)
    PROVE  CallInv'
<1> DEFINE config == [template |-> t, users |-> devices]
<1>1. config \in Config /\ Len(revisions) + 1 \in Nat /\ config.users = devices
  BY DEF CallInv, IInv, TypeOK, Config
<1>2. Start(c, "apply", Len(revisions) + 1, NoDevice, config)
  BY DEF Apply
<1> HIDE DEF config
<1>. QED BY <1>1, <1>2, OneStarts DEF Provisioning

\* A provisioning renders the active template with one device more or less.
LEMMA OneProvisions ==
    ASSUME CallInv, IInv', NEW c \in Calls, NEW d \in Devices, Add(c, d) \/ Revoke(c, d)
    PROVE  CallInv'
<1>1. ActiveTemplate \in Templates /\ devices \in SUBSET Devices
  BY ActiveTemplateClean DEF CallInv, IInv, TypeOK
<1>2. CASE Add(c, d)
  <2>1. rendered' \in Config /\ Start(c, "add", 0, d, rendered')
    BY <1>1, <1>2 DEF Add, Config
  <2>2. rendered'.template = ActiveTemplate /\ rendered'.users = devices \cup {d}
    BY <1>2 DEF Add
  <2>. QED BY <2>1, <2>2, OneStarts
<1>3. CASE Revoke(c, d)
  <2>1. rendered' \in Config /\ Start(c, "revoke", 0, d, rendered')
    BY <1>1, <1>3 DEF Revoke, Config
  <2>2. rendered'.template = ActiveTemplate /\ rendered'.users = devices \ {d}
    BY <1>3 DEF Revoke
  <2>. QED BY <2>1, <2>2, OneStarts
<1>. QED BY <1>2, <1>3

\* The row that is inserted is of the file that is installed.
LEMMA OneApplied ==
    ASSUME CallInv, IInv', NEW c \in Calls, Lone(c), Applied(c)
    PROVE  Chain' /\ Taken(c)' /\ Come(c)'
<1>1. /\ call[c].stage = "accepted" /\ call[c].kind = "apply" /\ call[c] \in Call
      /\ call'[c] = Idle
      /\ UNCHANGED <<devices, file, service>>
  BY DEF Applied, Answered, CallInv, IInv, TypeOK, host
<1>2. /\ call[c].version = Len(revisions) + 1 /\ call[c].config.users = devices
      /\ file = call[c].config /\ service = Loaded(file)
      /\ call[c].config \in Config
  BY <1>1, OneTypes DEF Taken, Come, Call
<1>3. /\ revisions' = Append(revisions, call[c].config.template)
      /\ active' = Len(revisions) + 1
      /\ doubts' = {}
  BY <1>2, OneTypes DEF Applied, Rights, Lone
<1>4. ActiveTemplate' = call[c].config.template
  <2>1. revisions \in Seq(Templates) /\ call[c].config.template \in Templates
    BY <1>2 DEF CallInv, IInv, TypeOK, Config
  <2>2. revisions'[Len(revisions) + 1] = call[c].config.template /\ active' # 0
    BY <1>3, <2>1, AppendProperties
  <2>. QED BY <1>3, <2>2 DEF ActiveTemplate
<1>5. Resting'
  <2>1. file = Settled'
    BY <1>1, <1>2, <1>4 DEF Settled, Config
  <2>. QED BY <1>1, <1>2, <2>1 DEF Resting, Serves, Loaded
<1>. QED BY <1>1, <1>3, <1>5, IdleRests DEF Chain

\* The device of a provisioning is active, or is not any more, as the file has it.
LEMMA OneProvisioned ==
    ASSUME CallInv, NEW c \in Calls, Lone(c), Provisioned(c)
    PROVE  Chain' /\ Taken(c)' /\ Come(c)'
<1>1. /\ call[c].stage = "accepted" /\ call[c].kind \in Provisioning /\ call[c] \in Call
      /\ call'[c] = Idle
      /\ UNCHANGED <<revisions, active, file, service>>
  BY DEF Provisioned, Answered, CallInv, IInv, TypeOK, host, Call, Provisioning
<1>2. /\ call[c].config.template = ActiveTemplate
      /\ call[c].config.users = devices'
      /\ file = call[c].config
      /\ Serves(file)
      /\ call[c].config \in Config
  BY <1>1, OneTypes DEF Provisioned, Taken, Come, Call, Provisioning
<1>3. doubts' = doubts \ {"file"} /\ doubts' \in {{}, {"service"}} /\ (doubts' = {} => doubts = {})
  BY OneTypes DEF Provisioned, Rights, Lone
<1>4. file = Settled'
  BY <1>1, <1>2 DEF Settled, ActiveTemplate, Config
<1>5. Resting'
  BY <1>1, <1>2, <1>3, <1>4 DEF Resting, Serves
<1>. QED BY <1>1, <1>3, <1>5, IdleRests DEF Chain

\* A refusal leaves the file of an apply, and says nothing of that of a provisioning.
LEMMA OneRefused ==
    ASSUME CallInv, NEW c \in Calls, Lone(c), Refused(c)
    PROVE  Chain' /\ Taken(c)' /\ Come(c)'
<1>1. /\ call[c].stage = "refused" /\ call'[c] = Idle
      /\ UNCHANGED <<revisions, active, devices, file, service>>
  BY DEF Refused, Answered, CallInv, IInv, TypeOK, rows, host
<1>2. CASE call[c].kind = "apply"
  <2>1. doubts' = doubts /\ Resting
    BY <1>1, <1>2, OneTypes DEF Refused, Come
  <2>2. Resting'
    BY <1>1, <2>1 DEF Resting, Serves, Settled, ActiveTemplate
  <2>3. Chain'
    BY <2>1 DEF CallInv, Chain
  <2>. QED BY <1>1, <2>2, <2>3, IdleRests
<1>3. CASE call[c].kind # "apply"
  <2>1. doubts' = {"file", "service"}
    BY <1>3, OneTypes DEF Refused
  <2>2. Resting'
    BY <2>1 DEF Resting, Serves
  <2>. QED BY <1>1, <2>1, <2>2, IdleRests DEF Chain
<1>. QED BY <1>2, <1>3

\* Nobody knows what an abandoned call leaves; its goroutine goes on as before.
LEMMA OneAbandoned ==
    ASSUME CallInv, NEW c \in Calls, Lone(c), Abandon(c)
    PROVE  Chain' /\ Taken(c)' /\ Come(c)'
<1>1. /\ doubts' = {"file", "service"}
      /\ UNCHANGED <<revisions, active, devices, rendered, file, previous, service,
                     ActiveTemplate, Settled>>
  BY OneTypes DEF Abandon, rows, host, ActiveTemplate, Settled
<1>2. Resting' /\ \A config : Serves(config)'
  BY <1>1 DEF Resting, Serves
<1>3. CASE call[c].stage \in {"accepted", "refused"}
  BY <1>1, <1>2, <1>3, IdleRests DEF Abandon, CallInv, IInv, TypeOK, Chain
<1>4. CASE call[c].stage \notin {"accepted", "refused"}
  <2>1. call'[c] = [call[c] EXCEPT !.awaited = FALSE]
    BY <1>4 DEF Abandon, CallInv, IInv, TypeOK
  <2>2. /\ call'[c].stage = call[c].stage /\ call'[c].kind = call[c].kind
        /\ call'[c].version = call[c].version /\ call'[c].device = call[c].device
        /\ call'[c].config = call[c].config /\ call'[c].before = call[c].before
        /\ ~call'[c].awaited
    BY <2>1, OneTypes DEF Call
  <2>3. Taken(c)'
    BY <1>1, <2>2, OneTypes DEF Taken
  <2>4. Come(c)'
    BY <1>1, <1>2, <2>2, OneTypes DEF Come, Loaded
  <2>. QED BY <1>1, <2>3, <2>4 DEF Chain
<1>. QED BY <1>3, <1>4

\* What the steps of a goroutine that leave the tables alone have in common: where they
\* leave the files is all that is to be shown.
LEMMA GoesCome ==
    ASSUME CallInv, NEW c \in Calls, Lone(c), NEW stage \in Stage \ {"idle"}, Goes(c, stage),
           call[c].stage # "idle", UNCHANGED <<rows, rendered, doubts>>
    PROVE  /\ Chain'
           /\ Taken(c)'
           /\ UNCHANGED <<ActiveTemplate, Settled>>
           /\ call'[c] = Idle => Come(c)'
<1>1. UNCHANGED <<ActiveTemplate, Settled>>
  BY DEF rows, ActiveTemplate, Settled
<1>2. call'[c] = Idle => Come(c)'
  <2>. SUFFICES ASSUME call'[c] = Idle PROVE Come(c)'
    OBVIOUS
  <2>1. Idle.stage # stage
    BY DEF Idle
  <2>2. doubts = {"file", "service"}
    BY <2>1, GoesOn
  <2>3. Resting'
    BY <2>2 DEF Resting, Serves
  <2>. QED BY <2>3, IdleRests
<1>3. Chain'
  BY DEF CallInv, Chain
<1>. QED BY <1>1, <1>2, <1>3, GoesTaken

\* The test changes nothing.
LEMMA OneTested ==
    ASSUME CallInv, NEW c \in Calls, Lone(c), Test(c)
    PROVE  Chain' /\ Taken(c)' /\ Come(c)'
<1>1. PICK stage \in {"refused", "tested"} : Goes(c, stage)
  BY DEF Test
<1>2. /\ call[c].stage = "received" /\ call[c].kind = "apply" /\ stage \in Stage
      /\ UNCHANGED <<rows, host, rendered, doubts>>
  BY <1>1 DEF Test, At, Stage
<1>3. call'[c] # Idle => Come(c)'
  <2>. SUFFICES ASSUME call'[c] # Idle PROVE Come(c)'
    OBVIOUS
  <2>1. /\ call'[c].stage = stage /\ call'[c].kind = "apply"
        /\ call'[c].before = call[c].before
    BY <1>1, <1>2, GoesOn
  <2>2. UNCHANGED <<file, previous, service, Settled, Resting>>
    BY <1>1, <1>2, GoesCome DEF host, Resting, Serves
  <2>. QED BY <1>1, <1>2, <2>1, <2>2, OneTypes DEF Come, Provisioning
<1>. QED BY <1>1, <1>2, <1>3, GoesCome

\* The copy to fall back on is of the file the call has found.
LEMMA OneSaved ==
    ASSUME CallInv, NEW c \in Calls, Lone(c), Save(c)
    PROVE  Chain' /\ Taken(c)' /\ Come(c)'
<1>1. /\ call[c].stage = "tested" /\ call[c].kind = "apply" /\ Goes(c, "saved")
      /\ previous' = file
      /\ UNCHANGED <<rows, file, service, rendered, doubts>>
  BY DEF Save, At
<1>2. call'[c] # Idle => Come(c)'
  <2>. SUFFICES ASSUME call'[c] # Idle PROVE Come(c)'
    OBVIOUS
  <2>1. /\ call'[c].stage = "saved" /\ call'[c].kind = "apply"
        /\ call'[c].before = call[c].before
    BY <1>1, GoesOn DEF Stage
  <2>2. UNCHANGED <<Settled, Resting>>
    BY <1>1, GoesCome DEF Stage, Resting, Serves
  <2>. QED BY <1>1, <2>1, <2>2, OneTypes DEF Come, Provisioning
<1>. QED BY <1>1, <1>2, GoesCome DEF Stage

\* With no other call nothing has rendered into the shared file since this one did.
LEMMA OneInstalled ==
    ASSUME CallInv, NEW c \in Calls, Lone(c), Install(c)
    PROVE  Chain' /\ Taken(c)' /\ Come(c)'
<1>1. /\ Goes(c, "installed") /\ call[c].stage \in {"received", "saved"}
      /\ call[c].stage = IF call[c].kind = "apply" THEN "saved" ELSE "received"
      /\ UNCHANGED <<rows, previous, service, rendered, doubts>>
  BY DEF Install
<1>2. call[c].kind \in {"apply", "add", "revoke"}
  BY OneTypes DEF Call
<1>3. file' = call[c].config
  BY <1>1, <1>2, OneTypes DEF Install, Taken, Provisioning
<1>4. call'[c] # Idle => Come(c)'
  <2>. SUFFICES ASSUME call'[c] # Idle PROVE Come(c)'
    OBVIOUS
  <2>1. /\ call'[c].stage = "installed" /\ call'[c].kind = call[c].kind
        /\ call'[c].before = call[c].before /\ call'[c].config = call[c].config
    BY <1>1, GoesOn DEF Stage
  <2>2. call[c].kind # "apply" => Serves(call[c].before)
    BY <1>1, <1>2, OneTypes DEF Come, Resting
  <2>3. call[c].kind # "apply" => Serves(call[c].before)'
    BY <1>1, <2>1, <2>2 DEF Serves
  <2>. QED BY <1>1, <1>2, <1>3, <2>1, <2>3, OneTypes DEF Come, Provisioning
<1>. QED BY <1>1, <1>4, GoesCome DEF Stage

\* The restart loads the new file, or the service dies of it.
LEMMA OneRestarted ==
    ASSUME CallInv, NEW c \in Calls, Lone(c), RestartService(c) \/ RestartFails(c)
    PROVE  Chain' /\ Taken(c)' /\ Come(c)'
<1>1. PICK stage \in {"restarted", "restoring"} :
        /\ Goes(c, stage)
        /\ service' = IF stage = "restarted" THEN Loaded(file) ELSE Down
  BY DEF RestartService, RestartFails
<1>2. /\ call[c].stage = "installed" /\ call[c].kind = "apply" /\ stage \in Stage
      /\ UNCHANGED <<rows, file, previous, rendered, doubts>>
  BY <1>1 DEF RestartService, RestartFails, At, Stage
<1>3. call'[c] # Idle => Come(c)'
  <2>. SUFFICES ASSUME call'[c] # Idle PROVE Come(c)'
    OBVIOUS
  <2>1. /\ call'[c].stage = stage /\ call'[c].kind = "apply"
        /\ call'[c].before = call[c].before /\ call'[c].config = call[c].config
    BY <1>1, <1>2, GoesOn
  <2>. QED BY <1>1, <1>2, <2>1, OneTypes DEF Come, Provisioning, Loaded
<1>. QED BY <1>1, <1>2, <1>3, GoesCome

\* Only a dead service is refused.
LEMMA OneChecked ==
    ASSUME CallInv, NEW c \in Calls, Lone(c), Check(c)
    PROVE  Chain' /\ Taken(c)' /\ Come(c)'
<1>1. PICK stage \in {"accepted", "restoring"} :
        Goes(c, stage) /\ (stage = "restoring" => service = Down)
  BY DEF Check
<1>2. /\ call[c].stage = "restarted" /\ call[c].kind = "apply" /\ stage \in Stage
      /\ UNCHANGED <<rows, host, rendered, doubts>>
  BY <1>1 DEF Check, At, Stage
<1>3. call'[c] # Idle => Come(c)'
  <2>. SUFFICES ASSUME call'[c] # Idle PROVE Come(c)'
    OBVIOUS
  <2>1. /\ call'[c].stage = stage /\ call'[c].kind = "apply"
        /\ call'[c].before = call[c].before /\ call'[c].config = call[c].config
    BY <1>1, <1>2, GoesOn
  <2>. QED BY <1>1, <1>2, <2>1, OneTypes DEF Come, Provisioning, Loaded, host
<1>. QED BY <1>1, <1>2, <1>3, GoesCome

\* The file the call has found is there again, and the service runs it or is dead.
LEMMA OneRestored ==
    ASSUME CallInv, NEW c \in Calls, Lone(c), Restore(c)
    PROVE  Chain' /\ Taken(c)' /\ Come(c)'
<1>1. /\ call[c].stage = "restoring" /\ call[c].kind = "apply" /\ Goes(c, "refused")
      /\ file' = previous /\ service' = Loaded(previous)
      /\ UNCHANGED <<rows, previous, rendered, doubts>>
  BY DEF Restore, At
<1>2. call'[c] # Idle => Come(c)'
  <2>. SUFFICES ASSUME call'[c] # Idle PROVE Come(c)'
    OBVIOUS
  <2>1. /\ call'[c].stage = "refused" /\ call'[c].kind = "apply"
        /\ call'[c].before = call[c].before
    BY <1>1, GoesOn DEF Stage
  <2>0. Taken(c) /\ Come(c)
    BY OneTypes
  <2>2. file' = call[c].before /\ ("file" \notin doubts => file' = Settled)
    BY <1>1, <2>0 DEF Come, Taken
  <2>3. UNCHANGED Settled
    BY <1>1, GoesCome DEF Stage
  <2>4. Resting'
    BY <1>1, <2>2, <2>3 DEF Resting, Serves, Loaded
  <2>. QED BY <1>1, <2>1, <2>2, <2>4 DEF Come, Provisioning
<1>. QED BY <1>1, <1>2, GoesCome DEF Stage

\* The service that ran the file before runs the new one: one user more or less is all that
\* they differ in, or it has been restarted.
LEMMA OneChanged ==
    ASSUME CallInv, NEW c \in Calls, Lone(c), ChangeUsers(c)
    PROVE  Chain' /\ Taken(c)' /\ Come(c)'
<1>1. /\ call[c].stage = "installed" /\ call[c].kind \in Provisioning /\ Goes(c, "accepted")
      /\ UNCHANGED <<rows, file, previous, rendered, doubts>>
  BY DEF ChangeUsers, At
<1>2. /\ file = call[c].config /\ Serves(call[c].before)
      /\ "file" \notin doubts => call[c].before = Settled
      /\ call[c].config.template = ActiveTemplate
      /\ call[c].config.users = IF call[c].kind = "add" THEN devices \cup {call[c].device}
                                ELSE devices \ {call[c].device}
      /\ call[c].config \in Config
  BY <1>1, OneTypes DEF Come, Taken, Call
<1>3. doubts = {} /\ service' # Down => service' = file
  <2>1. CASE service' = Loaded(file)
    BY <2>1 DEF Loaded
  <2>2. CASE doubts = {} /\ service # Down /\ service' # Loaded(file)
    <3>1. service = Settled
      BY <1>2, <2>2 DEF Serves
    <3>2. service' = [service EXCEPT !.users =
                 IF call[c].kind = "add" THEN @ \cup {call[c].device}
                                         ELSE @ \ {call[c].device}]
      BY <2>2 DEF ChangeUsers
    <3>. QED BY <1>2, <3>1, <3>2 DEF Settled, Config
  <2>. QED BY <2>1, <2>2 DEF ChangeUsers
<1>4. call'[c] # Idle => Come(c)'
  <2>. SUFFICES ASSUME call'[c] # Idle PROVE Come(c)'
    OBVIOUS
  <2>1. /\ call'[c].stage = "accepted" /\ call'[c].kind = call[c].kind
        /\ call'[c].config = call[c].config
    BY <1>1, GoesOn DEF Stage
  <2>. QED BY <1>1, <1>2, <1>3, <2>1, OneTypes DEF Come, Provisioning, Serves
<1>. QED BY <1>1, <1>4, GoesCome DEF Stage

\* A step of the agent that fails has changed nothing.
LEMMA OneFailed ==
    ASSUME CallInv, NEW c \in Calls, Lone(c), AgentFails(c)
    PROVE  Chain' /\ Taken(c)' /\ Come(c)'
<1>1. /\ Goes(c, "refused")
      /\ \/ call[c].stage \in {"received", "tested", "saved"}
         \/ call[c].stage = "installed" /\ call[c].kind \in Provisioning
      /\ UNCHANGED <<rows, host, rendered, doubts>>
  BY DEF AgentFails, At
<1>2. call[c].kind \in {"apply", "add", "revoke"} /\ "apply" \notin Provisioning
  BY OneTypes DEF Call, Provisioning
<1>3. call'[c] # Idle => Come(c)'
  <2>. SUFFICES ASSUME call'[c] # Idle PROVE Come(c)'
    OBVIOUS
  <2>1. /\ call'[c].stage = "refused" /\ call'[c].kind = call[c].kind
        /\ call'[c].before = call[c].before
    BY <1>1, GoesOn DEF Stage
  <2>2. UNCHANGED <<file, previous, service, Settled, Resting>>
    BY <1>1, GoesCome DEF host, Resting, Serves, Stage
  <2>. QED BY <1>1, <1>2, <2>1, <2>2, OneTypes DEF Come, Provisioning
<1>. QED BY <1>1, <1>3, GoesCome DEF Stage

\* Every step keeps the invariant of the calls.
LEMMA StepCallInv == CallInv /\ [Next]_vars => CallInv'
<1> SUFFICES ASSUME CallInv, [Next]_vars PROVE CallInv'
  OBVIOUS
<1>1. IInv'
  BY StepIInv DEF CallInv
<1>2. ASSUME NEW c \in Calls, Rollback(c)
      PROVE  CallInv'
  <2>1. PICK v \in DOMAIN revisions : Apply(c, revisions[v])
    BY <1>2 DEF Rollback
  <2>2. revisions[v] \in Templates
    BY <2>1 DEF CallInv, IInv, TypeOK
  <2>. QED BY <1>1, <2>1, <2>2, OneApplies
<1>3. ASSUME NEW c \in Calls, Steps(c)
      PROVE  CallInv'
  <2>1. CASE "call" \in doubts
    BY <1>1, <1>3, <2>1, StepsOfOne, DoubtIsAll
  <2>2. CASE "call" \notin doubts
    <3>1. Lone(c) /\ Alone(c)'
      BY <1>3, <2>2, StepsOfOne
    <3>2. Chain' /\ Taken(c)' /\ Come(c)'
      BY <1>1, <1>3, <3>1, OneApplied, OneProvisioned, OneRefused, OneAbandoned, OneTested,
         OneSaved, OneInstalled, OneRestarted, OneChecked, OneRestored, OneChanged, OneFailed
         DEF Steps
    <3>. QED BY <1>1, <3>1, <3>2, OneIsAll
  <2>. QED BY <2>1, <2>2
<1>4. CASE UNCHANGED vars
  <2>1. UNCHANGED <<Chain, Quiet, Resting, Solo>>
    BY <1>4 DEF vars, Chain, Quiet, Resting, Serves, Settled, ActiveTemplate, Solo
  <2>2. \A c \in Calls : UNCHANGED <<Alone(c), Taken(c), Come(c)>>
    BY <1>4 DEF vars, Alone, Resting, Serves, Settled, ActiveTemplate, Taken, Come
  <2>. QED BY <1>1, <1>4, <2>1, <2>2 DEF vars, CallInv
<1>. QED BY <1>1, <1>2, <1>3, <1>4, OneApplies, OneProvisions DEF Next, Steps

LEMMA InitCallInv == Init => CallInv
<1> SUFFICES ASSUME Init PROVE CallInv
  OBVIOUS
<1>1. Resting
  BY DEF Init, Resting, Serves, Settled, ActiveTemplate, Initially
<1>2. \A c \in Calls : call[c] = Idle
  BY DEF Init
<1>3. \A c \in Calls : Taken(c) /\ Come(c)
  BY <1>1, <1>2 DEF Taken, Come, Idle, Provisioning
<1>. QED BY <1>1, <1>2, <1>3, InitIInv DEF Init, CallInv, Chain, Solo

\* However many calls have overlapped, been refused, abandoned or rolled back before: when
\* nothing is under way, a call that has run alone and succeeded has left the active
\* revision with the active devices in the installed file, and an apply() that has, a
\* service that runs it or is dead.
THEOREM InstalledIsActive == Spec => []ActiveIsInstalled
<1>1. CallInv => ActiveIsInstalled
  BY DEF CallInv, Resting, Serves, ActiveIsInstalled
<1>. QED BY <1>1, InitCallInv, StepCallInv, PTL DEF Spec

\* A refused config leaves the file that was there before the call, whichever command of
\* apply-config has failed and whatever calls overlapped before it, unless another call was
\* under way.
THEOREM RefusalsRestore == Spec => []RefusalRestores
<1>1. ASSUME CallInv, "call" \notin doubts, NEW c \in Calls, At(c, "refused", {"apply"})
      PROVE  file = call[c].before
  <2>1. call[c] # Idle
    BY <1>1 DEF At, Idle
  <2>2. Alone(c)
    BY <1>1, <2>1 DEF CallInv, Solo, Alone
  <2>. QED BY <1>1, <2>2 DEF CallInv, Come, At
<1>2. CallInv => RefusalRestores
  BY <1>1 DEF RefusalRestores
<1>. QED BY <1>2, InitCallInv, StepCallInv, PTL DEF Spec

=============================================================================
