-------------------------- MODULE OperationsProofs --------------------------
(***************************************************************************)
(* Proofs about Operations for every value of its constants: the types,    *)
(* that a confirmation starts one operation and an operation is decided    *)
(* once, and, for one update at a time, that "current" names a whole       *)
(* version and the recorded version is the installed one.                  *)
(***************************************************************************)
EXTENDS Operations, FiniteSetTheorems, TLAPS

Ended == {"none", "ok", "error"}

\* A goroutine works on a row of the table; only that of an update goes through the script.
ScriptsServe ==
    \A o \in Ids :
        /\ script[o].stage # "none" =>
              /\ o \in 1..Len(operations)
              /\ script[o].version = operations[o].request.version
        /\ script[o].stage \in Forward \cup Backward => script[o].version \in Versions

\* What is awaited is undecided.
AwaitedRun == \A o \in awaited : operations[o].status = "running"

\* The confirmations of operations are used.
Used ==
    \A o \in 1..Len(operations) :
        LET c == operations[o].confirmation
        IN  /\ c \in 1..Len(confirmations)
            /\ confirmations[c].state = "used"
            /\ confirmations[c].request = operations[o].request
            /\ \A p \in 1..Len(operations) : operations[p].confirmation = c => p = o

Basic == TypeOK /\ ScriptsServe /\ AwaitedRun /\ Used

\* A request is for an update if and only if it names a version.
LEMMA RequestVersions ==
    /\ \A r \in Requests : r.version \in Versions \cup {NoVersion}
    /\ \A r \in Requests : r.action = "engine.update" <=> r.version # NoVersion
BY OperationsAssumption DEF Requests, Plain, Update

\* A step of a goroutine from one stage to another.
LEMMA StepScript ==
    ASSUME Basic, NEW o \in 1..Len(operations), NEW from, NEW to \in Stage \ {"none"},
           from # "none", Step(o, from, to),
           to \in Forward \cup Backward => script[o].version \in Versions,
           UNCHANGED operations
    PROVE  /\ script' \in [Ids -> Script]
           /\ ScriptsServe'
<1>1. o \in Ids
  BY OperationsAssumption DEF Basic, TypeOK, Ids
<1>2. script[o] \in Script
  BY <1>1 DEF Basic, TypeOK
<1>3. script' = [script EXCEPT ![o] = [script[o] EXCEPT !.stage = to]]
  BY DEF Step
<1>4. /\ [script[o] EXCEPT !.stage = to] \in Script
      /\ [script[o] EXCEPT !.stage = to].stage = to
      /\ [script[o] EXCEPT !.stage = to].version = script[o].version
  BY <1>2 DEF Script
<1>5. script[o].stage = from
  BY DEF Step
<1>. QED BY <1>1, <1>3, <1>4, <1>5 DEF Basic, TypeOK, ScriptsServe

\* The end of one.
LEMMA GoneScript ==
    ASSUME Basic, NEW o \in Ids, script' = [script EXCEPT ![o] = Gone],
           Len(operations') = Len(operations),
           \A p \in 1..Len(operations) : operations'[p].request = operations[p].request
    PROVE  /\ script' \in [Ids -> Script]
           /\ ScriptsServe'
<1>1. Gone \in Script /\ Gone.stage = "none" /\ "none" \notin Forward \cup Backward
  BY OperationsAssumption DEF Gone, Script, Stage, Forward, Backward
<1>. QED BY <1>1 DEF Basic, TypeOK, ScriptsServe

\* A decision changes the status of one row.
LEMMA DecideRow ==
    ASSUME Basic, NEW o \in awaited, NEW status \in {"completed", "failed"}, Decide(o, status)
    PROVE  /\ operations' \in Seq(Operation)
           /\ Len(operations') = Len(operations)
           /\ \A p \in 1..Len(operations) :
                 /\ operations'[p].request = operations[p].request
                 /\ operations'[p].confirmation = operations[p].confirmation
                 /\ p # o => operations'[p] = operations[p]
           /\ awaited' \in SUBSET (1..Len(operations'))
           /\ AwaitedRun'
<1>1. o \in 1..Len(operations)
  BY DEF Basic, TypeOK
<1>2. operations[o] \in Operation
  BY <1>1 DEF Basic, TypeOK
<1>3. operations' = [operations EXCEPT ![o] = [operations[o] EXCEPT !.status = status]]
  BY DEF Decide
<1>4. /\ [operations[o] EXCEPT !.status = status] \in Operation
      /\ [operations[o] EXCEPT !.status = status].request = operations[o].request
      /\ [operations[o] EXCEPT !.status = status].confirmation = operations[o].confirmation
  BY <1>2 DEF Operation
<1>5. /\ operations' \in Seq(Operation)
      /\ Len(operations') = Len(operations)
      /\ \A p \in 1..Len(operations) :
            operations'[p] = IF p = o THEN [operations[o] EXCEPT !.status = status]
                             ELSE operations[p]
  BY <1>1, <1>3, <1>4 DEF Basic, TypeOK
<1>. QED BY <1>1, <1>4, <1>5 DEF Basic, TypeOK, AwaitedRun, Decide

\* Confirmations and rows that keep their requests stay tied together.
LEMMA UsedKept ==
    ASSUME Basic, UNCHANGED confirmations, Len(operations') = Len(operations),
           \A p \in 1..Len(operations) :
              /\ operations'[p].request = operations[p].request
              /\ operations'[p].confirmation = operations[p].confirmation
    PROVE  Used'
BY DEF Basic, Used


-----------------------------------------------------------------------------
(* The types and the rows *)

\* The types of what the agent works on.
HostTypes ==
    /\ clock \in Nat
    /\ mtime \in [Versions -> 0..clock]
    /\ complete \in SUBSET Versions
    /\ link \in Versions
    /\ service \in Versions \cup {NoVersion}
    /\ doubts \in SUBSET {"version", "files"}
    /\ faults \in 0..MaxFaults

\* Steps that leave the tables alone.
LEMMA AgentBasic ==
    ASSUME Basic, HostTypes', script' \in [Ids -> Script], ScriptsServe',
           UNCHANGED <<tables, pins>>, awaited' \in {awaited, {}}
    PROVE  Basic'
BY DEF Basic, TypeOK, HostTypes, AwaitedRun, Used, tables

\* A failure keeps the count of them.
LEMMA FaultTypes == ASSUME Basic, Fault PROVE faults' \in 0..MaxFaults
BY OperationsAssumption DEF Basic, TypeOK, Fault

\* The script on the host.
LEMMA ScriptBasic ==
    ASSUME Basic, NEW o \in 1..Len(operations), UpdateEngine(o)
    PROVE  Basic'
<1> USE DEF Basic, TypeOK
<1>1. o \in Ids
  BY OperationsAssumption DEF Ids
<1>2. /\ script[o] \in Script
      /\ script[o].previous \in Versions
      /\ script[o].stage \in Forward \cup Backward => script[o].version \in Versions
      /\ Started \in Versions \cup {NoVersion}
  BY <1>1 DEF Script, Started, ScriptsServe
<1>3. /\ {"relinking", "removing", "reloading", "checked", "unpacking", "unpacked", "linked",
          "restarted", "committed"} = Forward \cup Backward
      /\ Forward \cup Backward \cup {"ok", "error"} \subseteq Stage \ {"none"}
  BY DEF Forward, Backward, Stage
<1>4. UNCHANGED <<tables, awaited, pins>>
  BY DEF UpdateEngine, Begin, DownloadFails, MakeDirectory, MakeDirectoryAnd, Unpack, Link, LinkTo,
         Restart, Check, Prune, PruneFails, Trapped, RestartFails, CheckFails, Relink, Remove,
         Reload, ReloadFails
<1>5. HostTypes'
  <2>1. CASE Begin(o) \/ DownloadFails(o) \/ Check(o) \/ PruneFails(o) \/ Trapped(o) \/ CheckFails(o)
    BY <2>1, FaultTypes
       DEF HostTypes, Begin, DownloadFails, Check, PruneFails, Trapped, CheckFails, engine
  <2>2. CASE MakeDirectory(o)
    <3>1. script[o].version \in Versions
      BY <1>2, <1>3, <2>2 DEF MakeDirectory, MakeDirectoryAnd, Step
    <3>2. \A v \in Versions : mtime[v] \in 0..(clock + 1)
      OBVIOUS
    <3>. QED BY <2>2, <3>1, <3>2 DEF HostTypes, MakeDirectory, MakeDirectoryAnd
  <2>3. CASE Unpack(o) \/ Link(o) \/ Relink(o)
    BY <1>2, <1>3, <2>3 DEF HostTypes, Unpack, Link, Relink, LinkTo, Step
  <2>4. CASE Restart(o) \/ RestartFails(o) \/ Reload(o) \/ ReloadFails(o)
    BY <1>2, <2>4, FaultTypes DEF HostTypes, Restart, RestartFails, Reload, ReloadFails
  <2>5. CASE Prune(o)
    <3>1. mtime' \in [Versions -> 0..clock]
      <4>. HIDE DEF Newest
      <4>. QED BY <2>5 DEF Prune
    <3>. QED BY <2>5, <3>1 DEF HostTypes, Prune
  <2>6. CASE Remove(o)
    <3>1. 0 \in 0..clock
      OBVIOUS
    <3>2. mtime' \in [Versions -> 0..clock]
      BY <2>6, <3>1 DEF Remove
    <3>. QED BY <2>6, <3>2 DEF HostTypes, Remove
  <2>. HIDE DEF Basic, TypeOK
  <2>. QED BY <2>1, <2>2, <2>3, <2>4, <2>5, <2>6 DEF UpdateEngine
<1>6. script' \in [Ids -> Script] /\ ScriptsServe'
  <2>1. CASE Begin(o)
    <3> DEFINE to == IF mtime[link] # 0 /\ mtime[script[o].version] = 0 THEN "checked" ELSE "error"
               s == [script[o] EXCEPT !.stage = to, !.previous = link]
    <3>1. script' = [script EXCEPT ![o] = s]
      BY <2>1 DEF Begin
    <3>2. to \in Stage \ {"none"}
      BY <1>3
    <3>. HIDE DEF to
    <3>3. s \in Script /\ s.version = script[o].version /\ s.stage = to
      BY <1>2, <3>2 DEF Script
    <3>4. script[o].stage # "none" /\ script[o].version \in Versions
      <4>1. script[o].stage = "received" /\ operations[o].request.action = "engine.update"
        BY <2>1 DEF Begin, Requested
      <4>2. operations[o] \in Operation
        OBVIOUS
      <4>3. operations[o].request \in Requests
        BY <4>2 DEF Operation
      <4>. QED BY <1>1, <1>2, <4>1, <4>3, RequestVersions DEF ScriptsServe, Script
    <3>5. operations' = operations
      BY <1>4 DEF tables
    <3>. HIDE DEF s
    <3>. QED BY <1>1, <3>1, <3>2, <3>3, <3>4, <3>5 DEF ScriptsServe
  <2>2. ASSUME NEW from \in Forward \cup Backward, NEW to \in Forward \cup Backward \cup {"ok", "error"},
               Step(o, from, to)
        PROVE  script' \in [Ids -> Script] /\ ScriptsServe'
    <3>1. from # "none" /\ script[o].stage = from
      BY <1>3, <2>2 DEF Step
    <3>2. script[o].version \in Versions
      BY <1>2, <3>1
    <3>3. UNCHANGED operations
      BY <1>4 DEF tables
    <3>. QED BY <1>3, <2>2, <3>1, <3>2, <3>3, StepScript
  <2>3. CASE ~Begin(o)
    BY <1>3, <2>2, <2>3
       DEF UpdateEngine, DownloadFails, MakeDirectory, MakeDirectoryAnd, Unpack, Link, LinkTo,
           Restart, Check, Prune, PruneFails, Trapped, RestartFails, CheckFails, Relink, Remove,
           Reload, ReloadFails
  <2>. QED BY <2>1, <2>3
<1>. QED BY <1>4, <1>5, <1>6, AgentBasic

\* What the goroutine of another operation does, and the end of one.
LEMMA PlainBasic ==
    ASSUME Basic, NEW o \in 1..Len(operations),
           StopService(o) \/ StartService(o) \/ RestartPanel(o) \/ SystemctlFails(o)
    PROVE  Basic'
<1> USE DEF Basic, TypeOK
<1>1. PICK to \in {"ok", "error"} : Step(o, "received", to)
  BY DEF StopService, StartService, RestartPanel, SystemctlFails
<1>2. UNCHANGED <<tables, pins>> /\ awaited' \in {awaited, {}}
  BY DEF StopService, StartService, RestartPanel, SystemctlFails, ProcessEnds
<1>3. script' \in [Ids -> Script] /\ ScriptsServe'
  <2>1. to \in Stage \ {"none"} /\ to \notin Forward \cup Backward /\ UNCHANGED operations
    BY <1>2 DEF Stage, Forward, Backward, tables
  <2>. HIDE DEF Basic, TypeOK
  <2>. QED BY <1>1, <2>1, StepScript
<1>4. Started \in Versions \cup {NoVersion}
  BY DEF Started
<1>5. HostTypes'
  BY <1>4, FaultTypes
     DEF StopService, StartService, RestartPanel, SystemctlFails, ProcessEnds, HostTypes, engine
<1>. HIDE DEF Basic, TypeOK
<1>. QED BY <1>2, <1>3, <1>5, AgentBasic

\* An answer nobody reads, a service that dies, a control plane that does, and a pin.
LEMMA RestBasic ==
    ASSUME Basic,
           \/ \E o \in 1..Len(operations) : Unread(o)
           \/ ServiceDies \/ Crash
           \/ \E v \in Versions : Pin(v)
    PROVE  Basic'
<1>1. ASSUME NEW o \in 1..Len(operations), Unread(o) PROVE Basic'
  <2>1. o \in Ids
    BY OperationsAssumption DEF Basic, TypeOK, Ids
  <2>2. script' \in [Ids -> Script] /\ ScriptsServe'
    BY <1>1, <2>1, GoneScript DEF Unread, tables
  <2>. QED BY <1>1, <2>2, AgentBasic DEF Unread, HostTypes, Basic, TypeOK, engine
<1>2. CASE ServiceDies
  BY <1>2 DEF ServiceDies, Basic, TypeOK, AwaitedRun, Used, ScriptsServe, tables
<1>3. CASE Crash
  BY <1>3, FaultTypes
     DEF Crash, ProcessEnds, Basic, TypeOK, AwaitedRun, Used, ScriptsServe, tables, engine
<1>4. ASSUME NEW v \in Versions, Pin(v) PROVE Basic'
  <2>1. /\ desired' \in Versions
        /\ UNCHANGED <<confirmations, operations, recorded, awaited, script, engine, doubts,
                       faults>>
    BY <1>4 DEF Pin
  <2>2. pins' \in 0..MaxPins
    BY <1>4, OperationsAssumption DEF Pin, Basic, TypeOK
  <2>. QED BY <2>1, <2>2 DEF Basic, TypeOK, AwaitedRun, Used, ScriptsServe, engine
<1>. QED BY <1>1, <1>2, <1>3, <1>4

\* A preview adds a confirmation, and time makes one useless.
LEMMA PreviewBasic ==
    ASSUME Basic,
           \/ \E request \in Requests : Preview(request)
           \/ \E c \in 1..Len(confirmations) : Expire(c)
    PROVE  Basic'
<1>1. ASSUME NEW request \in Requests, Preview(request) PROVE Basic'
  <2> DEFINE new == [request |-> request, state |-> "open"]
  <2>1. new \in Confirmation
    BY DEF Confirmation
  <2>. HIDE DEF new
  <2>2. confirmations' = Append(confirmations, new) /\ Len(confirmations) < MaxPreviews
    BY <1>1 DEF Preview, new
  <2>3. /\ confirmations' \in Seq(Confirmation)
        /\ Len(confirmations') <= MaxPreviews
        /\ \A c \in 1..Len(confirmations) :
              c \in 1..Len(confirmations') /\ confirmations'[c] = confirmations[c]
    BY <2>1, <2>2, OperationsAssumption DEF Basic, TypeOK
  <2>4. UNCHANGED <<operations, desired, recorded, awaited, script, engine, doubts, pins, faults>>
    BY <1>1 DEF Preview
  <2>. QED BY <2>3, <2>4 DEF Basic, TypeOK, ScriptsServe, AwaitedRun, Used, engine
<1>2. ASSUME NEW c \in 1..Len(confirmations), Expire(c) PROVE Basic'
  <2> DEFINE new == [confirmations[c] EXCEPT !.state = "expired"]
  <2>1. new \in Confirmation
    <3>1. confirmations[c] \in Confirmation
      BY DEF Basic, TypeOK
    <3>. QED BY <3>1 DEF Confirmation
  <2>2. confirmations' = [confirmations EXCEPT ![c] = new] /\ confirmations[c].state = "open"
    BY <1>2 DEF Expire
  <2>. HIDE DEF new
  <2>3. /\ confirmations' \in Seq(Confirmation)
        /\ Len(confirmations') = Len(confirmations)
        /\ \A d \in 1..Len(confirmations) : d # c => confirmations'[d] = confirmations[d]
    BY <2>1, <2>2 DEF Basic, TypeOK
  <2>4. UNCHANGED <<operations, desired, recorded, awaited, script, engine, doubts, pins, faults>>
    BY <1>2 DEF Expire
  <2>. QED BY <2>2, <2>3, <2>4 DEF Basic, TypeOK, ScriptsServe, AwaitedRun, Used, engine
<1>. QED BY <1>1, <1>2

\* A confirmation is used by the one operation it starts.
LEMMA ConfirmBasic ==
    ASSUME Basic, NEW c \in 1..Len(confirmations), Confirm(c)
    PROVE  Basic'
<1> DEFINE o == Len(operations) + 1
           request == confirmations[c].request
           used == [confirmations[c] EXCEPT !.state = "used"]
           row == [request |-> request, confirmation |-> c, status |-> "running"]
           received == [stage |-> "received", version |-> request.version, previous |-> link]
<1>1. /\ confirmations[c].state = "open"
      /\ Len(operations) < MaxOperations
      /\ confirmations' = [confirmations EXCEPT ![c] = used]
      /\ operations' = Append(operations, row)
      /\ awaited' = awaited \cup {o}
      /\ script' = [script EXCEPT ![o] = received]
      /\ UNCHANGED <<desired, recorded, engine, doubts, pins, faults>>
  BY DEF Confirm, ConfirmInto
<1>2. confirmations[c] \in Confirmation /\ c \in 1..MaxPreviews
  BY OperationsAssumption DEF Basic, TypeOK
<1>3. /\ used \in Confirmation /\ used.request = request /\ used.state = "used"
      /\ row \in Operation /\ row.request = request /\ row.confirmation = c
      /\ row.status = "running"
  BY <1>2 DEF Confirmation, Operation
<1>4. /\ received \in Script /\ received.version = request.version
      /\ received.stage = "received"
  <2>1. request \in Requests
    BY <1>2 DEF Confirmation
  <2>. QED BY <2>1, RequestVersions DEF Basic, TypeOK, Script, Stage
<1>. HIDE DEF used, row, received
<1>5. o \in Ids /\ o \notin 1..Len(operations) /\ Len(operations) \in Nat
  BY <1>1, OperationsAssumption DEF Basic, TypeOK, Ids
<1>6. /\ confirmations' \in Seq(Confirmation)
      /\ Len(confirmations') = Len(confirmations)
      /\ \A d \in 1..Len(confirmations) :
            confirmations'[d] = IF d = c THEN used ELSE confirmations[d]
  BY <1>1, <1>3 DEF Basic, TypeOK
<1>7. /\ operations' \in Seq(Operation)
      /\ Len(operations') = o
      /\ operations'[o] = row
      /\ \A p \in 1..Len(operations) : operations'[p] = operations[p]
  BY <1>1, <1>3 DEF Basic, TypeOK
<1>8. TypeOK'
  <2>1. script' \in [Ids -> Script] /\ Len(operations') <= MaxOperations
    BY <1>1, <1>4, <1>5, <1>7, OperationsAssumption DEF Basic, TypeOK
  <2>2. awaited' \in SUBSET (1..Len(operations'))
    <3>1. o \in 1..o /\ 1..Len(operations) \subseteq 1..o
      BY <1>5
    <3>2. awaited \subseteq 1..Len(operations)
      BY DEF Basic, TypeOK
    <3>. HIDE DEF o
    <3>. QED BY <1>1, <1>7, <3>1, <3>2
  <2>. QED BY <1>1, <1>6, <1>7, <2>1, <2>2 DEF Basic, TypeOK, engine
<1>9. ScriptsServe'
  <2>1. "received" \notin Forward \cup Backward
    BY DEF Forward, Backward
  <2>. QED BY <1>1, <1>3, <1>4, <1>5, <1>7, <2>1 DEF Basic, TypeOK, ScriptsServe
<1>10. AwaitedRun'
  BY <1>1, <1>3, <1>5, <1>7 DEF Basic, TypeOK, AwaitedRun
<1>11. Used'
  <2>1. \A p \in 1..Len(operations) : operations[p].confirmation # c
    BY <1>1 DEF Basic, Used
  <2>2. \A p \in 1..o : p = o \/ p \in 1..Len(operations)
    BY <1>5
  <2>. QED BY <1>1, <1>3, <1>5, <1>6, <1>7, <2>1, <2>2 DEF Basic, Used
<1>. QED BY <1>8, <1>9, <1>10, <1>11 DEF Basic

\* An await ends with its answer or without one.
LEMMA EndBasic ==
    ASSUME Basic, NEW o \in 1..Len(operations), Completed(o) \/ Failed(o) \/ Timeout(o)
    PROVE  Basic'
<1>1. PICK status \in {"completed", "failed"} : Decide(o, status)
  BY DEF Completed, CompletedAs, Failed, Timeout, GiveUp
<1>2. o \in awaited /\ o \in Ids /\ UNCHANGED <<confirmations, desired, engine, pins, faults>>
  BY OperationsAssumption DEF Completed, CompletedAs, Failed, Timeout, GiveUp, Basic, TypeOK, Ids
<1>3. script[o].version \in Versions \cup {NoVersion} /\ script[o].stage # "none" =>
          script[o].version \in Versions \cup {NoVersion}
  BY <1>2 DEF Basic, TypeOK, Script
<1>4. recorded' \in Versions /\ doubts' \in SUBSET {"version", "files"}
  <2>1. script[o] \in Script
    BY <1>2 DEF Basic, TypeOK
  <2>. QED BY <2>1
         DEF Completed, CompletedAs, Installed, Failed, Timeout, GiveUp, Basic, TypeOK, Script
<1>5. /\ operations' \in Seq(Operation)
      /\ Len(operations') = Len(operations)
      /\ \A p \in 1..Len(operations) :
            /\ operations'[p].request = operations[p].request
            /\ operations'[p].confirmation = operations[p].confirmation
      /\ awaited' \in SUBSET (1..Len(operations'))
      /\ AwaitedRun'
  BY <1>1, <1>2, DecideRow
<1>6. script' \in [Ids -> Script] /\ ScriptsServe'
  <2>1. CASE script' = [script EXCEPT ![o] = Gone]
    BY <1>2, <1>5, <2>1, GoneScript
  <2>2. CASE script' = script
    BY <1>5, <2>2 DEF Basic, TypeOK, ScriptsServe
  <2>. QED BY <2>1, <2>2 DEF Completed, CompletedAs, Failed, Timeout, GiveUp
<1>7. Used'
  BY <1>2, <1>5, UsedKept
<1>. QED BY <1>2, <1>4, <1>5, <1>6, <1>7 DEF Basic, TypeOK, engine

\* The scripts of an agent that dies are gone, and what they were awaited for has failed.
LEMMA AgentDiesBasic == ASSUME Basic, AgentDies PROVE Basic'
<1> DEFINE cut == {o \in Ids : script[o].stage \notin {"none", "ok", "error"}}
           row(o) == IF o \in awaited \cap cut THEN [operations[o] EXCEPT !.status = "failed"]
                     ELSE operations[o]
<1>1. /\ Fault
      /\ operations' = [o \in 1..Len(operations) |-> row(o)]
      /\ awaited' = awaited \ cut
      /\ script' = [o \in Ids |-> IF o \in cut THEN Gone ELSE script[o]]
      /\ doubts' \in SUBSET {"version", "files"}
      /\ UNCHANGED <<confirmations, desired, recorded, engine, pins>>
  BY DEF AgentDies, Basic, TypeOK
<1>2. \A o \in 1..Len(operations) :
          /\ row(o) \in Operation
          /\ row(o).request = operations[o].request
          /\ row(o).confirmation = operations[o].confirmation
          /\ o \notin cut => row(o) = operations[o]
  <2>1. \A o \in 1..Len(operations) : operations[o] \in Operation
    BY DEF Basic, TypeOK
  <2>. HIDE DEF cut
  <2>. QED BY <2>1 DEF Operation
<1>3. Gone \in Script /\ Gone.stage = "none" /\ "none" \notin Forward \cup Backward
  BY OperationsAssumption DEF Gone, Script, Stage, Forward, Backward
<1>. HIDE DEF cut, row
<1>4. Len(operations) \in Nat /\ operations' \in [1..Len(operations) -> Operation]
  BY <1>1, <1>2 DEF Basic, TypeOK
<1>5. /\ operations' \in Seq(Operation)
      /\ Len(operations') = Len(operations)
      /\ \A o \in 1..Len(operations) : operations'[o] = row(o)
  BY <1>1, <1>4
<1>6. TypeOK'
  <2>1. script' \in [Ids -> Script] /\ faults' \in 0..MaxFaults
    BY <1>1, <1>3, FaultTypes DEF Basic, TypeOK
  <2>. QED BY <1>1, <1>5, <2>1 DEF Basic, TypeOK, engine
<1>7. ScriptsServe'
  BY <1>1, <1>2, <1>3, <1>5 DEF Basic, ScriptsServe
<1>8. AwaitedRun'
  BY <1>1, <1>2, <1>5 DEF Basic, TypeOK, AwaitedRun
<1>9. Used'
  BY <1>1, <1>2, <1>5, UsedKept
<1>. QED BY <1>6, <1>7, <1>8, <1>9 DEF Basic

\* Every step keeps the types and the rows.
LEMMA BasicStep == Basic /\ [Next]_vars => Basic'
<1> SUFFICES ASSUME Basic, [Next]_vars PROVE Basic'
  OBVIOUS
<1>1. DOMAIN operations = 1..Len(operations) /\ DOMAIN confirmations = 1..Len(confirmations)
  BY DEF Basic, TypeOK
<1>2. CASE UNCHANGED vars
  BY <1>2 DEF vars, tables, engine, Basic, TypeOK, ScriptsServe, AwaitedRun, Used
<1>3. CASE ControlPlane
  BY <1>1, <1>3, PreviewBasic, ConfirmBasic, EndBasic, RestBasic DEF ControlPlane
<1>4. ASSUME NEW o \in 1..Len(operations), Agent(o) PROVE Basic'
  BY <1>4, PlainBasic, ScriptBasic, RestBasic DEF Agent
<1>. QED BY <1>1, <1>2, <1>3, <1>4, RestBasic, AgentDiesBasic DEF Next

\* They hold at first.
LEMMA BasicInit == Init => Basic
<1> SUFFICES ASSUME Init PROVE Basic
  OBVIOUS
<1>1. Gone \in Script /\ Gone.stage = "none" /\ "none" \notin Forward \cup Backward
  BY OperationsAssumption DEF Gone, Script, Stage, Forward, Backward
<1>2. 1 \in 0..1 /\ 0 \in 0..1
  OBVIOUS
<1>3. TypeOK
  BY <1>1, <1>2, OperationsAssumption DEF Init, TypeOK
<1>. QED BY <1>1, <1>3 DEF Init, Basic, ScriptsServe, AwaitedRun, Used

LEMMA BasicAlways == Spec => []Basic
BY BasicInit, BasicStep, PTL DEF Spec

\* The tables, the goroutines and the directories have their types.
THEOREM TypeCorrect == Spec => []TypeOK
<1>1. Basic => TypeOK
  BY DEF Basic
<1>. QED BY <1>1, BasicAlways, PTL

\* A confirmation starts one operation, of the request that was previewed, for any number
\* of confirmations, operations, failures and restarts: confirm().
THEOREM OperationsConfirmed == Spec => []ConfirmedOnce
<1>1. ASSUME Basic PROVE ConfirmedOnce
  <2>1. DOMAIN operations = 1..Len(operations) /\ DOMAIN confirmations = 1..Len(confirmations)
    BY <1>1 DEF Basic, TypeOK
  <2>2. Used
    BY <1>1 DEF Basic
  <2>. QED BY <2>1, <2>2 DEF Used, ConfirmedOnce
<1>. QED BY <1>1, BasicAlways, PTL

\* No step touches a row that is decided.
DecidedStay == \A o \in DOMAIN operations :
             operations[o].status # "running" => operations'[o] = operations[o]

LEMMA DecidedStep == Basic /\ [Next]_vars => DecidedStay
<1> SUFFICES ASSUME Basic, [Next]_vars PROVE DecidedStay
  OBVIOUS
<1>1. DOMAIN operations = 1..Len(operations) /\ operations \in Seq(Operation)
  BY DEF Basic, TypeOK
<1>2. CASE UNCHANGED operations
  BY <1>2 DEF DecidedStay
<1>3. ASSUME NEW c, Confirm(c) PROVE DecidedStay
  BY <1>1, <1>3 DEF Confirm, ConfirmInto, DecidedStay
<1>4. ASSUME NEW o \in awaited, NEW status, Decide(o, status) PROVE DecidedStay
  BY <1>1, <1>4 DEF Decide, DecidedStay, Basic, AwaitedRun
<1>5. CASE AgentDies
  BY <1>1, <1>5 DEF AgentDies, DecidedStay, Basic, AwaitedRun
<1>6. ASSUME NEW o \in DOMAIN operations, Completed(o) \/ Failed(o) \/ Timeout(o) PROVE DecidedStay
  BY <1>4, <1>6 DEF Completed, CompletedAs, Failed, Timeout, GiveUp
<1>7. ASSUME NEW o \in DOMAIN operations, Agent(o) PROVE DecidedStay
  <2>1. UNCHANGED operations
    BY <1>7
       DEF Agent, StopService, StartService, RestartPanel, ProcessEnds, SystemctlFails, Unread,
           UpdateEngine, Begin, DownloadFails, MakeDirectory, MakeDirectoryAnd, Unpack, Link,
           LinkTo, Restart, Check, Prune, PruneFails, Trapped, RestartFails, CheckFails, Relink,
           Remove, Reload, ReloadFails, tables
  <2>. QED BY <2>1 DEF DecidedStay
<1>8. CASE ControlPlane
  BY <1>2, <1>3, <1>6, <1>8
     DEF ControlPlane, Preview, Expire, Crash, ProcessEnds, Pin, tables
<1>. QED BY <1>2, <1>5, <1>7, <1>8 DEF Next, vars, tables, ServiceDies

\* An operation is decided once, whatever answers come late: execute().
THEOREM OperationsDecidedOnce == Spec => DecidedOnce
<1>1. Basic /\ [Next]_vars => [DecidedStay]_vars
  BY DecidedStep
<1>. QED BY <1>1, BasicAlways, PTL DEF Spec, DecidedOnce, DecidedStay

-----------------------------------------------------------------------------
(* One update at a time *)

Linked == {"linked", "restarted", "committed"}
Before == {"checked", "unpacking", "unpacked"}

\* What the script relies on at each step.  Until the link is set the previous version is
\* current; from then on the new one is complete, and the previous one is there to go back
\* to; the directory of the new one is the newest.
Sound(o) ==
    LET s == script[o]
    IN  /\ s.stage \in Before => s.previous = link /\ s.version # link
        /\ s.stage \in {"unpacking", "unpacked"} \cup Linked => mtime[s.version] = clock
        /\ s.stage \in {"unpacked", "ok"} \cup Linked => s.version \in complete
        /\ s.stage \in {"ok"} \cup Linked => link = s.version
        /\ s.stage \in {"linked", "restarted", "relinking"} =>
              s.previous \in complete /\ mtime[s.previous] # 0 /\ s.previous # s.version
        /\ s.stage = "removing" => link = s.previous /\ link # s.version
        /\ s.stage \in {"restarted", "committed", "ok"} => service \in {link, NoVersion}

\* What the control plane has recorded while it waits and nothing was missed.
Known(o) ==
    LET s == script[o]
    IN  /\ o \in awaited
        /\ s.stage \in Linked \cup {"relinking"} => s.stage = "committed" \/ recorded = s.previous
        /\ s.stage \notin Linked \cup {"relinking", "ok"} => recorded = link
        /\ s.stage \in {"received", "error"} \cup Before => service \in {link, NoVersion}

\* A directory that is not complete is that of the script.
Halves ==
    \A v \in Versions : mtime[v] # 0 /\ v \notin complete =>
        \E o \in Unsettled : /\ script[o].version = v
                             /\ script[o].stage \in {"unpacking", "relinking", "removing"}

OneUpdate == \A o, p \in Unsettled : o = p

UpdateInv ==
    /\ OneUpdate
    /\ LinkIsComplete
    /\ \A o \in Unsettled : Sound(o)
    /\ "version" \notin doubts =>
          /\ \A o \in Unsettled : Known(o)
          /\ Unsettled = {} => recorded = link /\ service \in {link, NoVersion}
    /\ "files" \notin doubts => Halves

IInv == Basic /\ (~Overlap => UpdateInv)

\* With one update there is, the rest of the invariant is about it.
LEMMA AloneInv ==
    ASSUME NEW o, Unsettled' = {o}, LinkIsComplete', Sound(o)',
           ("version" \notin doubts => Known(o))', ("files" \notin doubts => Halves)'
    PROVE  UpdateInv'
BY DEF UpdateInv, OneUpdate

\* A step of the script that works: what it finds, and where it gets.
LEMMA AloneStep ==
    ASSUME Basic, UpdateInv, NEW o \in 1..Len(operations), UpdateEngine(o)
    PROVE  /\ Unsettled = {o} /\ Unsettled' = {o}
           /\ Sound(o) /\ LinkIsComplete
           /\ "version" \notin doubts => Known(o)
           /\ "files" \notin doubts => Halves
           /\ script[o].version \in Versions
           /\ link \in Versions /\ clock \in Nat /\ mtime \in [Versions -> 0..clock]
           /\ complete \subseteq Versions
           /\ script[o].stage \in {"received"} \cup Forward \cup Backward
           /\ script'[o].version = script[o].version
           /\ script[o].stage # "received" => script'[o].previous = script[o].previous
           /\ UNCHANGED <<tables, awaited>>
           /\ \A to : script' = [script EXCEPT ![o].stage = to] => script'[o].stage = to
<1>1. o \in Ids /\ script[o] \in Script
  BY OperationsAssumption DEF Basic, TypeOK, Ids
<1>2. \/ Requested(o, "engine.update")
      \/ script[o].stage \in Forward \cup Backward
  BY DEF UpdateEngine, Begin, DownloadFails, MakeDirectory, MakeDirectoryAnd, Unpack, Link, LinkTo,
         Restart, Check, Prune, PruneFails, Trapped, RestartFails, CheckFails, Relink, Remove,
         Reload, ReloadFails, Step, Forward, Backward
<1>3. "none" \notin {"received"} \cup Forward \cup Backward
  BY DEF Forward, Backward
<1>4. script[o].version \in Versions
  <2>1. CASE Requested(o, "engine.update")
    <3>1. operations[o] \in Operation
      BY DEF Basic, TypeOK
    <3>2. operations[o].request \in Requests
      BY <3>1 DEF Operation
    <3>. QED BY <1>1, <1>3, <2>1, <3>2, RequestVersions DEF Requested, Basic, ScriptsServe
  <2>2. CASE script[o].stage \in Forward \cup Backward
    BY <1>1, <2>2 DEF Basic, ScriptsServe
  <2>. QED BY <1>2, <2>1, <2>2
<1>5. script[o].stage \in {"received"} \cup Forward \cup Backward
  BY <1>2 DEF Requested
<1>6. o \in Unsettled
  BY <1>1, <1>3, <1>4, <1>5, OperationsAssumption DEF Unsettled
<1>7. /\ \A p \in Ids \ {o} : script'[p] = script[p]
      /\ script'[o].stage # "none"
      /\ script'[o].version = script[o].version
      /\ ~Begin(o) => script'[o].previous = script[o].previous
      /\ UNCHANGED <<tables, awaited>>
  <2>1. ASSUME NEW from, NEW to \in Stage \ {"none"}, Step(o, from, to)
        PROVE  /\ \A p \in Ids \ {o} : script'[p] = script[p]
               /\ script'[o].stage # "none"
               /\ script'[o].version = script[o].version
               /\ script'[o].previous = script[o].previous
    BY <1>1, <2>1 DEF Step, Basic, TypeOK, Script
  <2>2. CASE Begin(o)
    BY <1>1, <2>2 DEF Begin, Basic, TypeOK, Script
  <2>3. {"error", "ok", "relinking", "removing", "reloading", "checked", "unpacking", "unpacked",
         "linked", "restarted", "committed"} \subseteq Stage \ {"none"}
    BY DEF Stage, Forward, Backward
  <2>4. CASE ~Begin(o)
    BY <2>1, <2>3, <2>4
       DEF UpdateEngine, DownloadFails, MakeDirectory, MakeDirectoryAnd, Unpack, Link, LinkTo,
           Restart, Check, Prune, PruneFails, Trapped, RestartFails, CheckFails, Relink, Remove,
           Reload, ReloadFails
  <2>. QED BY <2>2, <2>4 DEF Begin
<1>8. Unsettled = {o}
  BY <1>6 DEF UpdateInv, OneUpdate
<1>9. Unsettled' = {o}
  <2>1. \A p \in Ids : p \in Unsettled' <=> p = o
    BY <1>1, <1>4, <1>7, <1>8, OperationsAssumption DEF Unsettled
  <2>. QED BY <1>1, <2>1 DEF Unsettled
<1>10. script[o].stage # "received" => ~Begin(o)
  BY DEF Begin, Requested
<1>. QED BY <1>1, <1>4, <1>5, <1>7, <1>8, <1>9, <1>10 DEF UpdateInv, Basic, TypeOK, Script

\* The script keeps the invariant, step by step.
LEMMA ScriptUpdate ==
    ASSUME Basic, UpdateInv, NEW o \in 1..Len(operations), UpdateEngine(o)
    PROVE  UpdateInv'
<1> DEFINE s == script[o]
           t == script'[o]
<1>1. /\ Unsettled = {o} /\ Unsettled' = {o}
      /\ Sound(o) /\ LinkIsComplete
      /\ "version" \notin doubts => Known(o)
      /\ "files" \notin doubts => Halves
      /\ s.version \in Versions /\ link \in Versions /\ complete \subseteq Versions
      /\ clock \in Nat /\ mtime \in [Versions -> 0..clock]
      /\ t.version = s.version
      /\ s.stage # "received" => t.previous = s.previous
      /\ UNCHANGED <<recorded, awaited>>
      /\ \A to : script' = [script EXCEPT ![o].stage = to] => t.stage = to
  BY AloneStep DEF tables
<1>2. link \in complete /\ mtime[link] # 0 /\ mtime[link] <= clock /\ Started = link
  BY <1>1 DEF LinkIsComplete, Started
<1> USE DEF Sound, Known, Linked, Before
<1>3. CASE Begin(o)
  <2>1. /\ s.stage = "received" /\ t.previous = link
        /\ t.stage = IF mtime[link] # 0 /\ mtime[s.version] = 0 THEN "checked" ELSE "error"
        /\ UNCHANGED <<engine, doubts>>
    BY <1>3, OperationsAssumption DEF Begin, Requested, Basic, TypeOK, Script, Ids
  <2>. QED BY <1>1, <1>2, <2>1, AloneInv DEF engine, LinkIsComplete, Halves
<1>4. CASE DownloadFails(o)
  <2>1. s.stage = "checked" /\ t.stage = "error" /\ UNCHANGED <<engine, doubts>>
    BY <1>1, <1>4 DEF DownloadFails, Step
  <2>. QED BY <1>1, <1>2, <2>1, AloneInv DEF engine, LinkIsComplete, Halves
<1>5. CASE MakeDirectory(o)
  <2>1. /\ s.stage = "checked" /\ t.stage = "unpacking" /\ clock' = clock + 1
        /\ mtime' = [mtime EXCEPT ![s.version] = clock + 1]
        /\ UNCHANGED <<complete, link, service, doubts>>
    BY <1>1, <1>5 DEF MakeDirectory, MakeDirectoryAnd, Step
  <2>2. s.previous = link /\ s.version # link
    BY <1>1, <2>1
  <2>3. mtime'[s.version] = clock' /\ \A v \in Versions \ {s.version} : mtime'[v] = mtime[v]
    BY <1>1, <2>1
  <2>4. ("files" \notin doubts => Halves)'
    BY <1>1, <2>1, <2>3 DEF Halves
  <2>. QED BY <1>1, <1>2, <2>1, <2>2, <2>3, <2>4, AloneInv DEF LinkIsComplete
<1>6. CASE Unpack(o)
  <2>1. /\ s.stage = "unpacking" /\ t.stage = "unpacked"
        /\ complete' = complete \cup {v \in {s.version} : mtime[v] # 0}
        /\ UNCHANGED <<clock, mtime, link, service, doubts>>
    BY <1>1, <1>6 DEF Unpack, Step
  <2>2. mtime[s.version] = clock /\ clock # 0
    BY <1>1, <1>2, <2>1
  <2>3. complete' = complete \cup {s.version}
    BY <2>1, <2>2
  <2>4. ("files" \notin doubts => Halves)'
    BY <1>1, <2>1, <2>3 DEF Halves
  <2>. QED BY <1>1, <1>2, <2>1, <2>2, <2>3, <2>4, AloneInv DEF LinkIsComplete
<1>7. CASE Link(o)
  <2>1. /\ s.stage = "unpacked" /\ t.stage = "linked" /\ link' = s.version
        /\ UNCHANGED <<clock, mtime, complete, service, doubts>>
    BY <1>1, <1>7 DEF Link, LinkTo, Step
  <2>2. mtime[s.version] = clock /\ clock # 0
    BY <1>1, <1>2, <2>1
  <2>. QED BY <1>1, <1>2, <2>1, <2>2, AloneInv DEF LinkIsComplete, Halves
<1>8. CASE Restart(o)
  <2>1. /\ s.stage = "linked" /\ t.stage = "restarted" /\ service' = link
        /\ UNCHANGED <<clock, mtime, complete, link, doubts>>
    BY <1>1, <1>2, <1>8 DEF Restart, Step
  <2>. QED BY <1>1, <1>2, <2>1, AloneInv DEF LinkIsComplete, Halves
<1>9. CASE Check(o)
  <2>1. s.stage = "restarted" /\ t.stage = "committed" /\ UNCHANGED <<engine, doubts>>
    BY <1>1, <1>9 DEF Check, Step
  <2>. QED BY <1>1, <1>2, <2>1, AloneInv DEF engine, LinkIsComplete, Halves
<1>10. CASE Prune(o)
  <2>1. /\ s.stage = "committed" /\ t.stage = "ok"
        /\ mtime' = [v \in Versions |-> IF v \in Newest THEN mtime[v] ELSE 0]
        /\ complete' = complete \cap Newest
        /\ UNCHANGED <<clock, link, service, doubts>>
    BY <1>1, <1>10 DEF Prune, Step
  <2>2. link = s.version /\ mtime[link] = clock
    BY <1>1, <2>1
  <2>3. link \in Newest
    <3>1. {w \in Versions : mtime[w] > mtime[link]} = {}
      BY <1>1, <2>2
    <3>2. Cardinality({w \in Versions : mtime[w] > mtime[link]}) = 0
      BY <3>1, FS_EmptySet
    <3>. QED BY <1>1, <3>2, OperationsAssumption DEF Newest
  <2>4. ("files" \notin doubts => Halves)'
    <3>. HIDE DEF Newest
    <3>. QED BY <1>1, <2>1 DEF Halves
  <2>. HIDE DEF Newest
  <2>. QED BY <1>1, <1>2, <2>1, <2>2, <2>3, <2>4, AloneInv DEF LinkIsComplete
<1>11. CASE PruneFails(o)
  <2>1. /\ s.stage = "committed" /\ t.stage = "error" /\ "version" \in doubts'
        /\ "files" \in doubts => "files" \in doubts'
        /\ UNCHANGED engine
    BY <1>1, <1>11 DEF PruneFails, Step
  <2>. QED BY <1>1, <1>2, <2>1, AloneInv DEF engine, LinkIsComplete, Halves
<1>12. CASE Trapped(o)
  <2>1. /\ s.stage \in {"unpacking", "unpacked"} /\ t.stage = "relinking"
        /\ UNCHANGED <<engine, doubts>>
    BY <1>1, <1>12 DEF Trapped, Step
  <2>. QED BY <1>1, <1>2, <2>1, AloneInv DEF engine, LinkIsComplete, Halves
<1>13. CASE RestartFails(o) \/ CheckFails(o)
  <2>1. /\ s.stage \in {"linked", "restarted"} /\ t.stage = "relinking"
        /\ UNCHANGED <<clock, mtime, complete, link, doubts>>
    BY <1>1, <1>13 DEF RestartFails, CheckFails, Step, engine
  <2>. QED BY <1>1, <1>2, <2>1, AloneInv DEF LinkIsComplete, Halves
<1>14. CASE Relink(o)
  <2>1. /\ s.stage = "relinking" /\ t.stage = "removing" /\ link' = s.previous
        /\ UNCHANGED <<clock, mtime, complete, service, doubts>>
    BY <1>1, <1>14 DEF Relink, LinkTo, Step
  <2>. QED BY <1>1, <1>2, <2>1, AloneInv DEF LinkIsComplete, Halves
<1>15. CASE Remove(o)
  <2>1. /\ s.stage = "removing" /\ t.stage = "reloading"
        /\ mtime' = [mtime EXCEPT ![s.version] = 0] /\ complete' = complete \ {s.version}
        /\ UNCHANGED <<clock, link, service, doubts>>
    BY <1>1, <1>15 DEF Remove, Step
  <2>2. link # s.version
    BY <1>1, <2>1
  <2>3. mtime'[s.version] = 0 /\ \A v \in Versions \ {s.version} : mtime'[v] = mtime[v]
    BY <1>1, <2>1
  <2>4. ("files" \notin doubts => Halves)'
    BY <1>1, <2>1, <2>3 DEF Halves
  <2>. QED BY <1>1, <1>2, <2>1, <2>2, <2>3, <2>4, AloneInv DEF LinkIsComplete
<1>16. CASE Reload(o) \/ ReloadFails(o)
  <2>1. /\ s.stage = "reloading" /\ t.stage = "error" /\ service' \in {link, NoVersion}
        /\ UNCHANGED <<clock, mtime, complete, link, doubts>>
    BY <1>1, <1>2, <1>16 DEF Reload, ReloadFails, Step
  <2>. QED BY <1>1, <1>2, <2>1, AloneInv DEF LinkIsComplete, Halves
<1>. QED
  BY <1>3, <1>4, <1>5, <1>6, <1>7, <1>8, <1>9, <1>10, <1>11, <1>12, <1>13, <1>14, <1>15, <1>16
  DEF UpdateEngine

\* A step that is no update's: the service runs what is current or nothing, and the
\* control plane goes on to wait for the updates or has a doubt.
LEMMA OtherUpdate ==
    ASSUME UpdateInv, UNCHANGED <<clock, mtime, complete, link, recorded>>,
           Unsettled' = Unsettled, \A p \in Unsettled : script'[p] = script[p],
           service' \in {service, link, NoVersion},
           \/ /\ UNCHANGED doubts
              /\ \A p \in Unsettled : p \in awaited => p \in awaited'
           \/ /\ "version" \in doubts'
              /\ "files" \in doubts => "files" \in doubts'
    PROVE  UpdateInv'
BY DEF UpdateInv, OneUpdate, LinkIsComplete, Sound, Known, Halves, Linked, Before

\* The goroutine of a plain operation is no update's.
LEMMA PlainScript ==
    ASSUME Basic, NEW o \in 1..Len(operations), script[o].stage # "none",
           script[o].version = NoVersion, NEW s \in Script, s.version = NoVersion,
           script' = [script EXCEPT ![o] = s]
    PROVE  Unsettled' = Unsettled /\ \A p \in Unsettled : script'[p] = script[p]
BY OperationsAssumption DEF Basic, TypeOK, Unsettled, Ids

\* What the goroutines of plain operations do.
LEMMA PlainUpdate ==
    ASSUME Basic, UpdateInv, NEW o \in 1..Len(operations),
           StopService(o) \/ StartService(o) \/ RestartPanel(o) \/ SystemctlFails(o)
    PROVE  UpdateInv'
<1>1. o \in Ids /\ script[o] \in Script /\ script[o].stage = "received"
  BY OperationsAssumption
     DEF StopService, StartService, RestartPanel, SystemctlFails, Requested, Step, Basic, TypeOK, Ids
<1>2. script[o].version = NoVersion
  <2>1. CASE SystemctlFails(o)
    BY <2>1 DEF SystemctlFails
  <2>2. CASE ~SystemctlFails(o)
    <3>1. operations[o].request.action # "engine.update"
      BY <2>2 DEF StopService, StartService, RestartPanel, Requested
    <3>2. operations[o] \in Operation
      BY DEF Basic, TypeOK
    <3>3. operations[o].request \in Requests
      BY <3>2 DEF Operation
    <3>. QED BY <1>1, <3>1, <3>3, RequestVersions DEF Basic, ScriptsServe
  <2>. QED BY <2>1, <2>2
<1>3. PICK to \in {"ok", "error"} : script' = [script EXCEPT ![o].stage = to]
  BY DEF StopService, StartService, RestartPanel, SystemctlFails, Step
<1>4. /\ [script[o] EXCEPT !.stage = to] \in Script
      /\ [script[o] EXCEPT !.stage = to].version = NoVersion
  BY <1>1, <1>2 DEF Script, Stage
<1>5. Unsettled' = Unsettled /\ \A p \in Unsettled : script'[p] = script[p]
  BY <1>1, <1>2, <1>3, <1>4, PlainScript
<1>6. /\ UNCHANGED <<clock, mtime, complete, link, recorded>>
      /\ service' \in {service, link, NoVersion}
  BY DEF StopService, StartService, RestartPanel, ProcessEnds, SystemctlFails, Started, tables, engine
<1>7. CASE RestartPanel(o)
  <2>1. \/ Unsettled = {} /\ UNCHANGED doubts
        \/ doubts' = doubts \cup {"version"}
    BY <1>7 DEF RestartPanel, ProcessEnds
  <2>. QED BY <1>5, <1>6, <2>1, OtherUpdate
<1>8. CASE ~RestartPanel(o)
  <2>1. UNCHANGED <<doubts, awaited>>
    BY <1>8 DEF StopService, StartService, SystemctlFails
  <2>. QED BY <1>5, <1>6, <2>1, OtherUpdate
<1>. QED BY <1>7, <1>8

\* Steps that touch no goroutine.
LEMMA QuietUpdate ==
    ASSUME Basic, UpdateInv,
           \/ ServiceDies \/ Crash
           \/ \E v \in Versions : Pin(v)
           \/ \E request \in Requests : Preview(request)
           \/ \E c \in 1..Len(confirmations) : Expire(c)
    PROVE  UpdateInv'
<1>1. UNCHANGED script /\ UNCHANGED <<clock, mtime, complete, link, recorded>>
  BY DEF ServiceDies, Crash, ProcessEnds, Pin, Preview, Expire, tables, engine
<1>2. Unsettled' = Unsettled
  BY <1>1 DEF Unsettled
<1>3. service' \in {service, link, NoVersion}
  BY DEF ServiceDies, Crash, ProcessEnds, Pin, Preview, Expire, engine
<1>4. \/ UNCHANGED <<doubts, awaited>>
      \/ Unsettled = {} /\ UNCHANGED doubts
      \/ doubts' = doubts \cup {"version"}
  BY DEF ServiceDies, Crash, ProcessEnds, Pin, Preview, Expire
<1>. QED BY <1>1, <1>2, <1>3, <1>4, OtherUpdate

\* The goroutine of an update that ends.
LEMMA UpdateGone ==
    ASSUME Basic, UpdateInv, NEW o \in Unsettled, script' = [script EXCEPT ![o] = Gone]
    PROVE  Unsettled' = {}
<1>1. Unsettled = {o} /\ o \in Ids
  BY DEF UpdateInv, OneUpdate, Unsettled
<1>2. \A p \in Ids : p \notin Unsettled'
  BY <1>1 DEF Unsettled, Gone, Basic, TypeOK
<1>. QED BY <1>2 DEF Unsettled

\* ... leaves no half of a version behind.
LEMMA NoHalves ==
    ASSUME UpdateInv, "files" \notin doubts,
           \A o \in Unsettled : script[o].stage \in {"ok", "error"}
    PROVE  \A v \in Versions : mtime[v] # 0 => v \in complete
BY DEF UpdateInv, Halves

\* An await that ends, and an answer nobody reads.
LEMMA EndUpdate ==
    ASSUME Basic, UpdateInv, NEW o \in 1..Len(operations),
           Completed(o) \/ Failed(o) \/ Timeout(o) \/ Unread(o)
    PROVE  UpdateInv'
<1>1. o \in Ids /\ script[o] \in Script /\ UNCHANGED engine
  BY OperationsAssumption
     DEF Completed, CompletedAs, Failed, Timeout, GiveUp, Unread, Basic, TypeOK, Ids
<1>2. CASE Timeout(o)
  <2>1. UNCHANGED <<script, recorded>> /\ awaited' = awaited \ {o}
        /\ doubts' = IF script[o].version = NoVersion THEN doubts ELSE doubts \cup {"version"}
    BY <1>2 DEF Timeout, GiveUp, Decide
  <2>2. Unsettled' = Unsettled
    BY <2>1 DEF Unsettled
  <2>3. script[o].version = NoVersion => o \notin Unsettled
    BY DEF Unsettled
  <2>. QED BY <1>1, <2>1, <2>2, <2>3, OtherUpdate DEF engine
<1>3. CASE ~Timeout(o) /\ script[o].version = NoVersion
  <2>1. /\ script[o].stage # "none" /\ script' = [script EXCEPT ![o] = Gone]
        /\ UNCHANGED <<recorded, doubts>> /\ awaited \ {o} \subseteq awaited'
    BY <1>3 DEF Completed, CompletedAs, Installed, Failed, Unread, Decide, tables
  <2>2. Gone \in Script /\ Gone.version = NoVersion
    BY OperationsAssumption DEF Gone, Script, Stage
  <2>3. Unsettled' = Unsettled /\ \A p \in Unsettled : script'[p] = script[p]
    BY <1>1, <1>3, <2>1, <2>2, PlainScript
  <2>4. o \notin Unsettled
    BY <1>3 DEF Unsettled
  <2>. QED BY <1>1, <2>1, <2>3, <2>4, OtherUpdate DEF engine
<1>4. CASE ~Timeout(o) /\ script[o].version # NoVersion
  <2>1. /\ script[o].stage \in {"ok", "error"} /\ script' = [script EXCEPT ![o] = Gone]
    BY <1>4 DEF Completed, CompletedAs, Failed, Unread
  <2>2. o \in Unsettled /\ Unsettled = {o}
    BY <1>1, <1>4, <2>1 DEF Unsettled, UpdateInv, OneUpdate
  <2>3. Unsettled' = {}
    BY <2>1, <2>2, UpdateGone
  <2>4. "files" \notin doubts => \A v \in Versions : mtime[v] # 0 => v \in complete
    BY <2>1, <2>2, NoHalves
  <2>5. "files" \in doubts => "files" \in doubts'
    BY <1>4 DEF Completed, CompletedAs, Failed, Unread
  <2>6. Sound(o) /\ LinkIsComplete /\ ("version" \notin doubts => Known(o))
    BY <2>2 DEF UpdateInv
  <2>7. "version" \notin doubts' => recorded' = link /\ service \in {link, NoVersion}
    <3>1. CASE Completed(o)
      <4>1. script[o].stage = "ok" /\ recorded' = script[o].version
        BY <1>4, <3>1 DEF Completed, CompletedAs, Installed
      <4>. QED BY <2>6, <4>1 DEF Sound
    <3>2. CASE Failed(o)
      <4>1. script[o].stage = "error" /\ UNCHANGED <<recorded, doubts>>
        BY <3>2 DEF Failed
      <4>. QED BY <2>6, <4>1 DEF Known, Linked
    <3>3. CASE Unread(o)
      BY <2>6, <3>3 DEF Unread, Known
    <3>. QED BY <1>4, <3>1, <3>2, <3>3
  <2>. QED BY <1>1, <2>3, <2>4, <2>5, <2>6, <2>7
         DEF UpdateInv, OneUpdate, Halves, LinkIsComplete, engine
<1>. QED BY <1>2, <1>3, <1>4

\* An update starts when there is none.
LEMMA ConfirmUpdate ==
    ASSUME Basic, UpdateInv, ~Overlap, NEW c \in 1..Len(confirmations), Confirm(c)
    PROVE  UpdateInv'
<1> DEFINE o == Len(operations) + 1
           request == confirmations[c].request
           received == [stage |-> "received", version |-> request.version, previous |-> link]
<1>1. /\ request.action = "engine.update" => Unsettled = {}
      /\ awaited' = awaited \cup {o}
      /\ script' = [script EXCEPT ![o] = received]
      /\ Len(operations) < MaxOperations
      /\ UNCHANGED <<recorded, engine, doubts>>
  BY DEF Confirm, ConfirmInto
<1>2. o \in Ids /\ o \notin 1..Len(operations)
  BY <1>1, OperationsAssumption DEF Basic, TypeOK, Ids
<1>3. script[o].stage = "none"
  BY <1>2 DEF Basic, ScriptsServe
<1>4. request \in Requests
  <2>1. confirmations[c] \in Confirmation
    BY DEF Basic, TypeOK
  <2>. QED BY <2>1 DEF Confirmation
<1>5. /\ received.stage = "received" /\ received.version = request.version
      /\ script'[o] = received
      /\ \A p \in Ids \ {o} : script'[p] = script[p]
  BY <1>1, <1>2 DEF Basic, TypeOK
<1>. HIDE DEF o, received
<1>6. CASE request.version = NoVersion
  <2>1. Unsettled' = Unsettled /\ o \notin Unsettled
    <3>1. \A p \in Ids : p \in Unsettled' <=> p \in Unsettled
      BY <1>2, <1>3, <1>5, <1>6 DEF Unsettled
    <3>. QED BY <1>3, <3>1 DEF Unsettled
  <2>2. \A p \in Unsettled : script'[p] = script[p]
    BY <1>5, <2>1 DEF Unsettled
  <2>. QED BY <1>1, <2>1, <2>2, OtherUpdate DEF engine
<1>7. CASE request.version # NoVersion
  <2>1. Unsettled = {}
    BY <1>1, <1>4, <1>7, RequestVersions
  <2>2. Unsettled' = {o}
    <3>1. \A p \in Ids : p \in Unsettled' <=> p = o
      BY <1>2, <1>5, <1>7, <2>1 DEF Unsettled
    <3>. QED BY <1>2, <3>1 DEF Unsettled
  <2>3. /\ LinkIsComplete
        /\ "version" \notin doubts => recorded = link /\ service \in {link, NoVersion}
        /\ "files" \notin doubts => \A v \in Versions : mtime[v] # 0 => v \in complete
    BY <2>1 DEF UpdateInv, Halves
  <2>. QED BY <1>1, <1>5, <2>2, <2>3, AloneInv
         DEF Sound, Known, Halves, Linked, Before, LinkIsComplete, engine
<1>. QED BY <1>6, <1>7

\* Of an agent that dies only answers remain, and if it was at an update, doubts.
LEMMA AgentDiesUpdate == ASSUME Basic, UpdateInv, AgentDies PROVE UpdateInv'
<1> DEFINE cut == {o \in Ids : script[o].stage \notin {"none", "ok", "error"}}
<1>1. /\ awaited' = awaited \ cut
      /\ script' = [o \in Ids |-> IF o \in cut THEN Gone ELSE script[o]]
      /\ doubts' = IF cut \cap Unsettled = {} THEN doubts ELSE {"version", "files"}
      /\ UNCHANGED <<recorded, engine>>
  BY DEF AgentDies
<1>. HIDE DEF cut
<1>2. Unsettled' = Unsettled \ cut
  <2>1. \A p \in Ids : p \in Unsettled' <=> p \in Unsettled /\ p \notin cut
    BY <1>1 DEF Unsettled, Gone
  <2>. QED BY <2>1 DEF Unsettled
<1>3. \A p \in Unsettled \ cut : script'[p] = script[p]
  BY <1>1 DEF Unsettled
<1>4. CASE cut \cap Unsettled = {}
  BY <1>1, <1>2, <1>3, <1>4, OtherUpdate DEF engine
<1>5. CASE cut \cap Unsettled # {}
  <2>1. Unsettled' = {}
    BY <1>2, <1>5 DEF UpdateInv, OneUpdate
  <2>. QED BY <1>1, <1>5, <2>1 DEF UpdateInv, OneUpdate, LinkIsComplete, engine
<1>. QED BY <1>4, <1>5

\* Every step keeps the inductive invariant.
LEMMA IInvStep == IInv /\ [Next]_vars => IInv'
<1> SUFFICES ASSUME IInv, [Next]_vars PROVE IInv'
  OBVIOUS
<1>1. Basic /\ Basic'
  BY BasicStep DEF IInv
<1> SUFFICES ASSUME ~Overlap PROVE UpdateInv'
  BY <1>1 DEF IInv
<1>2. UpdateInv
  BY DEF IInv
<1>3. DOMAIN operations = 1..Len(operations) /\ DOMAIN confirmations = 1..Len(confirmations)
  BY <1>1 DEF Basic, TypeOK
<1>4. CASE UNCHANGED vars
  <2>1. Unsettled' = Unsettled
    BY <1>4 DEF vars, Unsettled
  <2>. QED BY <1>2, <1>4, <2>1, OtherUpdate DEF vars, tables, engine
<1>5. CASE ControlPlane
  BY <1>1, <1>2, <1>3, <1>5, QuietUpdate, ConfirmUpdate, EndUpdate DEF ControlPlane
<1>6. ASSUME NEW o \in 1..Len(operations), Agent(o) PROVE UpdateInv'
  BY <1>1, <1>2, <1>6, PlainUpdate, ScriptUpdate, EndUpdate DEF Agent
<1>. QED BY <1>1, <1>2, <1>3, <1>4, <1>5, <1>6, QuietUpdate, AgentDiesUpdate DEF Next

LEMMA IInvInit == Init => IInv
<1> SUFFICES ASSUME Init PROVE IInv
  OBVIOUS
<1>1. Unsettled = {}
  BY DEF Init, Unsettled, Gone
<1>. QED BY <1>1, BasicInit, OperationsAssumption
       DEF Init, IInv, UpdateInv, OneUpdate, LinkIsComplete, Halves

LEMMA IInvAlways == Spec => []IInv
BY IInvInit, IInvStep, PTL DEF Spec

\* With one update at a time "current" names a whole version, wherever the script fails or
\* is cut off, for any number of versions, updates and failures: update-engine.
THEOREM CurrentIsWhole ==
    ASSUME ~Overlap
    PROVE  Spec => []LinkIsComplete
<1>1. IInv => LinkIsComplete
  BY DEF IInv, UpdateInv
<1>. QED BY <1>1, IInvAlways, PTL

\* ... and the version on record is the installed one, unless the control plane has missed
\* how an update ended: execute() and the trap of update-engine.
THEOREM RecordIsTrue ==
    ASSUME ~Overlap
    PROVE  Spec => []RecordedIsInstalled
<1>1. IInv => RecordedIsInstalled
  BY DEF IInv, UpdateInv, Halves, RecordedIsInstalled
<1>. QED BY <1>1, IInvAlways, PTL

=============================================================================
