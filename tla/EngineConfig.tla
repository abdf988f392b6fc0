---------------------------- MODULE EngineConfig ----------------------------
(***************************************************************************)
(* The configuration of an engine: the revisions in SQLite and the apply() *)
(* and rollback() that make them (adapters/engines.ts), the script of the  *)
(* agent that tests, installs and restarts (infra/scripts/apply-config),   *)
(* and the provisioning of a device, which writes the same file from the   *)
(* active revision (services/engine-runtime.ts).                           *)
(*                                                                         *)
(* apply() takes the version number, the template and the credentials      *)
(* before its await on the agent, and writes the revision after it.  The   *)
(* agent runs every call in a goroutine of its own and does not notice     *)
(* when nobody waits for it any more.  The engine is Xray; Hysteria is the *)
(* instance with no devices in the file and no template that is tested.    *)
(***************************************************************************)
EXTENDS Naturals, Sequences

CONSTANTS
    Templates,     \* templates with all protected blocks, which apply() accepts
    Default,       \* the built-in template
    Invalid,       \* templates "xray run -test" rejects
    Unfit,         \* templates it accepts and the service dies of
    Devices,       \* devices that may be provisioned
    Calls,         \* calls that may be busy at the same time
    MaxRevisions,  \* bound: rows of engine_configs
    MaxFaults,     \* bound: failures of the agent and calls abandoned
    NoDevice

\* The config that runs when none does.
Down == [template |-> "down", users |-> {}]

ASSUME EngineConfigAssumption ==
    /\ Default \in Templates
    /\ Down.template \notin Templates
    /\ Invalid \subseteq Templates \ {Default}
    /\ Unfit \subseteq Templates \ {Default}
    /\ NoDevice \notin Devices
    /\ MaxRevisions \in Nat
    /\ MaxFaults \in Nat

VARIABLES
    revisions,  \* engine_configs: the template of each version
    active,     \* the version with active = 1; 0 for none
    devices,    \* devices whose status is active
    rendered,   \* DATA/runtime/xray.json, which every provisioning renders into
    file,       \* /etc/matreshka/engines/xray.json
    previous,   \* the .previous file beside it
    service,    \* the config the running service has loaded, or Down
    call,       \* the calls
    doubts,     \* history: what calls that overlapped or did not succeed have left in doubt
    faults      \* faults spent so far

rows == <<revisions, active, devices>>
host == <<file, previous, service>>
vars == <<revisions, active, devices, rendered, file, previous, service, call, doubts, faults>>

Config == [template : Templates, users : SUBSET Devices]

Stage == {"idle", "received", "tested", "saved", "installed", "restarted",
          "restoring", "accepted", "refused"}

\* One call: an apply() of a revision, or the provisioning of a device.  config is
\* what it renders; before is the file as the call found it (history).
Call == [stage : Stage, kind : {"apply", "add", "revoke"}, version : Nat,
         device : Devices \cup {NoDevice}, config : Config, before : Config,
         awaited : BOOLEAN]

Initially == [template |-> Default, users |-> {}]
Idle == [stage |-> "idle", kind |-> "apply", version |-> 0, device |-> NoDevice,
         config |-> Initially, before |-> Initially, awaited |-> FALSE]

TypeOK ==
    /\ revisions \in Seq(Templates)
    /\ active \in 0..Len(revisions)
    /\ devices \in SUBSET Devices
    /\ rendered \in Config
    /\ file \in Config
    /\ previous \in Config
    /\ service \in Config \cup {Down}
    /\ call \in [Calls -> Call]
    /\ doubts \subseteq {"call", "file", "service"}
    /\ faults \in 0..MaxFaults

Init ==
    /\ revisions = <<>>
    /\ active = 0
    /\ devices = {}
    /\ rendered = Initially
    /\ file = Initially
    /\ previous = Initially
    /\ service = Initially
    /\ call = [c \in Calls |-> Idle]
    /\ doubts = {}
    /\ faults = 0

Fault ==
    /\ faults < MaxFaults
    /\ faults' = faults + 1

-----------------------------------------------------------------------------
(* The control plane *)

\* A definition named Bug_... is a deliberate fault: the definition after it with
\* a plausible bug, used by nothing.

\* The template of the active revision.
ActiveTemplate == IF active = 0 THEN Default ELSE revisions[active]

\* A call that starts while another is under way puts everything in doubt.
Start(c, kind, version, d, config) ==
    /\ call[c] = Idle
    /\ call' = [call EXCEPT ![c] =
           [stage |-> "received", kind |-> kind, version |-> version, device |-> d,
            config |-> config, before |-> file, awaited |-> TRUE]]
    /\ doubts' = IF \E b \in Calls : call[b] # Idle
                 THEN {"call", "file", "service"} ELSE doubts \ {"call"}
    /\ UNCHANGED <<rows, host, faults>>

\* apply() up to its await: the next version and the credentials of now.
Apply(c, template) ==
    /\ Len(revisions) < MaxRevisions
    /\ Start(c, "apply", Len(revisions) + 1, NoDevice,
             [template |-> template, users |-> devices])
    /\ UNCHANGED rendered

\* rollback(): the template of an earlier revision, applied as a new one.
Rollback(c) == \E v \in DOMAIN revisions : Apply(c, revisions[v])

\* The outbox provisions a device: renderRecovery() with the active template,
\* into the one file all provisionings share.
Add(c, d) ==
    /\ d \notin devices
    /\ rendered' = [template |-> ActiveTemplate, users |-> devices \cup {d}]
    /\ Start(c, "add", 0, d, rendered')

Revoke(c, d) ==
    /\ d \in devices
    /\ rendered' = [template |-> ActiveTemplate, users |-> devices \ {d}]
    /\ Start(c, "revoke", 0, d, rendered')

\* What a call that has succeeded alone takes out of doubt.
Rights(what) == doubts' = IF "call" \in doubts THEN doubts ELSE doubts \ what

Answered(c, verdict) ==
    /\ call[c].stage = verdict
    /\ call[c].awaited
    /\ call' = [call EXCEPT ![c] = Idle]

\* The revision is the active one only after the agent has answered: a version that
\* exists by now breaks UNIQUE(engine, version), and nothing is written.
Applied(c) ==
    /\ Answered(c, "accepted")
    /\ call[c].kind = "apply"
    /\ IF Len(revisions) < call[c].version
       THEN /\ revisions' = Append(revisions, call[c].config.template)
            /\ active' = call[c].version
            /\ Rights({"file", "service"})
       ELSE UNCHANGED <<revisions, active, doubts>>
    /\ UNCHANGED <<rendered, devices, host, faults>>

\* The job of the outbox is completed: the device is active, or is not any more.
Provisioned(c) ==
    /\ Answered(c, "accepted")
    /\ call[c].kind # "apply"
    /\ devices' = IF call[c].kind = "add" THEN devices \cup {call[c].device}
                                          ELSE devices \ {call[c].device}
    /\ Rights({"file"})
    /\ UNCHANGED <<rendered, revisions, active, host, faults>>

\* An error for the owner, or a job that stays open for a retry.
Refused(c) ==
    /\ Answered(c, "refused")
    /\ doubts' = IF call[c].kind = "apply" THEN doubts ELSE doubts \cup {"file", "service"}
    /\ UNCHANGED <<rendered, rows, host, faults>>

\* callAgent() times out, or the control plane dies: the goroutine goes on.
Abandon(c) ==
    /\ Fault
    /\ call[c].awaited
    /\ call' = [call EXCEPT ![c] =
           IF @.stage \in {"accepted", "refused"} THEN Idle ELSE [@ EXCEPT !.awaited = FALSE]]
    /\ doubts' = doubts \cup {"file", "service"}
    /\ UNCHANGED <<rendered, rows, host>>

-----------------------------------------------------------------------------
(* The agent *)

\* A goroutine takes its next step; one that has ended with nobody waiting is gone.
Goes(c, stage) ==
    call' = [call EXCEPT ![c] =
        IF ~@.awaited /\ stage \in {"accepted", "refused"} THEN Idle
        ELSE [@ EXCEPT !.stage = stage]]

At(c, stage, kinds) == call[c].stage = stage /\ call[c].kind \in kinds
Provisioning == {"add", "revoke"}

\* apply-config: xray run -test on the rendered file.
Test(c) ==
    /\ At(c, "received", {"apply"})
    /\ Goes(c, IF call[c].config.template \in Invalid THEN "refused" ELSE "tested")
    /\ UNCHANGED <<rendered, rows, host, doubts, faults>>

\* The backup taken once, before the first config ever.
Bug_SaveOnce(c) ==
    /\ At(c, "tested", {"apply"})
    /\ Goes(c, "saved")
    /\ UNCHANGED <<rendered, rows, host, doubts, faults>>

\* cp -a of the target to .previous.
Save(c) ==
    /\ At(c, "tested", {"apply"})
    /\ previous' = file
    /\ Goes(c, "saved")
    /\ UNCHANGED <<rendered, rows, file, service, doubts, faults>>

\* mv of the new file over the target: the script's own source, or in install()
\* the shared one as it is by now.
Install(c) ==
    /\ call[c].stage = IF call[c].kind = "apply" THEN "saved" ELSE "received"
    /\ file' = IF call[c].kind = "apply" THEN call[c].config ELSE rendered
    /\ Goes(c, "installed")
    /\ UNCHANGED <<rendered, rows, previous, service, doubts, faults>>

\* What the service runs after a restart.
Loaded(config) == IF config.template \in Unfit THEN Down ELSE config

\* apply-config that installs and does not restart.
Bug_RestartForgotten(c) ==
    /\ At(c, "installed", {"apply"})
    /\ Goes(c, "restarted")
    /\ UNCHANGED <<rendered, rows, host, doubts, faults>>

\* systemctl restart.
RestartService(c) ==
    /\ At(c, "installed", {"apply"})
    /\ service' = Loaded(file)
    /\ Goes(c, "restarted")
    /\ UNCHANGED <<rendered, rows, file, previous, doubts, faults>>

\* systemctl is-active.  The unit is Type=simple: a service about to die may
\* still be seen alive.
Check(c) ==
    /\ At(c, "restarted", {"apply"})
    /\ \/ Goes(c, "accepted")
       \/ service = Down /\ Goes(c, "restoring")
    /\ UNCHANGED <<rendered, rows, host, doubts, faults>>

\* systemctl restart fails although the config is good.
RestartFails(c) ==
    /\ Fault
    /\ At(c, "installed", {"apply"})
    /\ service' = Down
    /\ Goes(c, "restoring")
    /\ UNCHANGED <<rendered, rows, file, previous, doubts>>

\* The previous file again, and one more restart.
Restore(c) ==
    /\ At(c, "restoring", {"apply"})
    /\ file' = previous
    /\ service' = Loaded(previous)
    /\ Goes(c, "refused")
    /\ UNCHANGED <<rendered, rows, previous, doubts, faults>>

\* xray api adu / rmu changes the users of the running service; when the API does
\* not answer, a restart loads the installed file.
ChangeUsers(c) ==
    /\ At(c, "installed", Provisioning)
    /\ \/ /\ service # Down
          /\ service' = [service EXCEPT !.users =
                 IF call[c].kind = "add" THEN @ \cup {call[c].device}
                                         ELSE @ \ {call[c].device}]
          /\ UNCHANGED faults
       \/ /\ IF service = Down THEN UNCHANGED faults ELSE Fault
          /\ service' = Loaded(file)
    /\ Goes(c, "accepted")
    /\ UNCHANGED <<rendered, rows, file, previous, doubts>>

\* The agent cannot do what the step asks for: nothing is changed by it.
AgentFails(c) ==
    /\ Fault
    /\ \/ call[c].stage = "received"
       \/ call[c].stage \in {"tested", "saved"}
       \/ At(c, "installed", Provisioning)
    /\ Goes(c, "refused")
    /\ UNCHANGED <<rendered, rows, host, doubts>>

-----------------------------------------------------------------------------

Next ==
    \E c \in Calls :
        \/ \E t \in Templates : Apply(c, t)
        \/ Rollback(c)
        \/ \E d \in Devices : Add(c, d) \/ Revoke(c, d)
        \/ Applied(c)
        \/ Provisioned(c)
        \/ Refused(c)
        \/ Abandon(c)
        \/ Test(c)
        \/ Save(c)
        \/ Install(c)
        \/ RestartService(c)
        \/ Check(c)
        \/ RestartFails(c)
        \/ Restore(c)
        \/ ChangeUsers(c)
        \/ AgentFails(c)

Spec == Init /\ [][Next]_vars

-----------------------------------------------------------------------------
(* Properties *)

Quiet == \A c \in Calls : call[c] = Idle

\* What the file has to be: the active revision with the active devices.
Settled == [template |-> ActiveTemplate, users |-> devices]

\* With no call under way the installed file is the active revision with the active devices,
\* and the service, if it runs, runs it.  Calls that overlap, a call that is abandoned and a
\* provisioning that is refused leave both in doubt; a call that runs alone and succeeds
\* rights the file, and an apply() the service too.
ActiveIsInstalled ==
    Quiet =>
        /\ "file" \notin doubts => file = Settled
        /\ "service" \notin doubts /\ service # Down => service = file

\* A config the agent has refused leaves the file as it was before the call, unless another
\* call was under way.
RefusalRestores ==
    "call" \notin doubts => \A c \in Calls : At(c, "refused", {"apply"}) => file = call[c].before

\* SQLite is the source of truth for devices and configuration revisions, and a device stays
\* invited until the recovery config with it has been applied (ARCHITECTURE.md): with no call
\* under way the installed file is what the rows say.
DatabaseIsTruth == Quiet => file = Settled

\* A template the engine rejects is never the installed file, the one kept to
\* fall back on, or the active revision, however many calls there are.
InvalidStaysOut ==
    /\ file.template \notin Invalid
    /\ previous.template \notin Invalid
    /\ service.template \notin Invalid
    /\ ActiveTemplate \notin Invalid

=============================================================================
