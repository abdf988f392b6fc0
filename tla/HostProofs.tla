----------------------------- MODULE HostProofs -----------------------------
(***************************************************************************)
(* Proofs about the two scripts that replace files of the host.            *)
(*                                                                         *)
(* Setup: with one script at a time, wherever its commands fail and        *)
(* whenever the panel or the host ends, what it replaces ends with one     *)
(* name, and that name is given once.                                      *)
(*                                                                         *)
(* Updater: for every set of releases, wherever the script fails, a        *)
(* release and its processes die or the host ends, "current" is a whole    *)
(* release, the release, its environment and its database agree, and a     *)
(* rollback loses no write from before the update.                         *)
(***************************************************************************)
EXTENDS Setup, Updater, FiniteSetTheorems, TLAPS

-----------------------------------------------------------------------------
(* Setup *)

\* Calls whose script may have files to put back, and those past the test of the file.
Holding == Armed \cup {"rollback"}
Past == Holding \cup {"certify", "save"}

\* One call at a time.
Single == \A c, o \in Calls : call[c].step # "idle" /\ call[o].step # "idle" => c = o

\* The files, nginx, its certificate and the engines have one name.
Together ==
    /\ \A f \in File : files[f] = served
    /\ served \in certificates
    /\ engines <=> served # Address

\* What has been given stays, and the panel is restarted only then.
Given ==
    /\ given # NoName => given \in Domains /\ \A f \in File : files[f] = given
    /\ due => given # NoName
    /\ \A c \in Calls : call[c].step \in Past => given = NoName

\* How far the script of a call has come.
Progress(c) ==
    LET step == call[c].step IN
    /\ step # "idle" => call[c].domain \in Domains
    /\ step \in {"certify", "save"} => files["env"] = Address
    /\ step \in {"save"} \cup Armed => call[c].domain \in certificates
    /\ step \in Holding => call[c].saved \in [File -> Names]
    /\ step = "install" =>
          \A i \in 1..4 : i <= call[c].n => files[Files[i]] = call[c].domain
    /\ step \in {"reload", "enable"} =>
          /\ \A f \in File : files[f] = call[c].domain
          /\ served = call[c].domain
    /\ step = "enable" => engines
    /\ step = "rollback" =>
          /\ ~engines
          /\ \A i \in 1..4 : i <= call[c].n => files[Files[i]] = call[c].saved[Files[i]]

\* What a script finds and puts back, unless the host has ended under one before it.
Backed ==
    "host" \notin cut =>
        /\ (\A c \in Calls : call[c].step \notin Holding) => Together
        /\ \A c \in Calls : call[c].step \in Holding =>
              /\ \A f \in File : call[c].saved[f] = Address
              /\ Address \in certificates

\* The mode of the panel is that of its file, or of the copy that would be put back.
Mode ==
    cut = {} /\ ~due =>
        /\ (\A c \in Calls : call[c].step \notin Holding) => panel = files["env"]
        /\ \A c \in Calls : call[c].step \in Holding => panel = call[c].saved["env"]

\* The same for one call, when the others are idle.
GivenBy(c) ==
    /\ given # NoName => given \in Domains /\ \A f \in File : files[f] = given
    /\ due => given # NoName
    /\ call[c].step \in Past => given = NoName

BackedBy(c) ==
    "host" \notin cut =>
        /\ call[c].step \notin Holding => Together
        /\ call[c].step \in Holding =>
              /\ \A f \in File : call[c].saved[f] = Address
              /\ Address \in certificates

ModeBy(c) ==
    cut = {} /\ ~due =>
        panel = IF call[c].step \in Holding THEN call[c].saved["env"] ELSE files["env"]

SetupIInv ==
    /\ SetupTypeOK
    /\ Single
    /\ Given
    /\ \A c \in Calls : Progress(c)
    /\ Backed
    /\ Mode

-----------------------------------------------------------------------------

\* The files, by name.
LEMMA FileNames ==
    /\ File = {"nginx", "env", "hysteria", "xray"}
    /\ \A f \in File : \E i \in 1..4 : Files[i] = f
    /\ \A i \in 1..4 : Files[i] \in File
    /\ Files[2] = "env"
    /\ \A i, j \in 1..4 : Files[i] = Files[j] => i = j
<1>1. /\ Files[1] = "nginx" /\ Files[2] = "env" /\ Files[3] = "hysteria" /\ Files[4] = "xray"
  BY DEF Files
<1>2. \A i \in 1..4 : i = 1 \/ i = 2 \/ i = 3 \/ i = 4
  OBVIOUS
<1>. QED BY <1>1, <1>2 DEF File

\* The steps of a call, apart.
LEMMA StepNames ==
    /\ Armed \subseteq CallSteps
    /\ Past \subseteq CallSteps
    /\ "idle" \notin Past /\ "resolve" \notin Past /\ "check" \notin Past
    /\ "certify" \notin Holding /\ "save" \notin Holding
BY DEF Armed, Past, Holding, CallSteps

\* Nobody's script is at work at first.
LEMMA InitSetup == SetupInit => SetupIInv
<1> SUFFICES ASSUME SetupInit PROVE SetupIInv
  OBVIOUS
<1>1. Idle \in Call /\ Idle.step = "idle"
  BY FileNames DEF Idle, Call, CallSteps, Names
<1>2. \A c \in Calls : call[c] = Idle
  BY DEF SetupInit
<1>3. SetupTypeOK
  <2>1. call \in [Calls -> Call]
    BY <1>1 DEF SetupInit
  <2>2. files \in [File -> Names] /\ faults \in 0..MaxFaults
    BY SetupAssumption DEF SetupInit, Names
  <2>. QED BY <2>1, <2>2 DEF SetupInit, SetupTypeOK, Names
<1>4. Single
  BY <1>1, <1>2 DEF Single
<1>5. Given
  BY <1>1, <1>2, StepNames DEF SetupInit, Given
<1>6. \A c \in Calls : Progress(c)
  BY <1>1, <1>2, StepNames DEF Progress, Past, Holding, Armed
<1>7. Backed /\ Mode
  BY <1>1, <1>2, StepNames, FileNames DEF SetupInit, Backed, Mode, Together, Past
<1>. QED BY <1>3, <1>4, <1>5, <1>6, <1>7 DEF SetupIInv

-----------------------------------------------------------------------------
(* One call moves and the others are idle *)

\* What the invariant says of the call that moves ...
LEMMA OfOne ==
    ASSUME SetupIInv, NEW c \in Calls, \A o \in Calls \ {c} : call[o].step = "idle"
    PROVE  SetupTypeOK /\ GivenBy(c) /\ Progress(c) /\ BackedBy(c) /\ ModeBy(c)
<1>1. \A o \in Calls \ {c} : call[o].step \notin Holding
  BY StepNames DEF Past
<1>2. BackedBy(c)
  BY <1>1 DEF SetupIInv, Backed, BackedBy
<1>3. ModeBy(c)
  BY <1>1 DEF SetupIInv, Mode, ModeBy
<1>. QED BY <1>2, <1>3 DEF SetupIInv, Given, GivenBy

\* ... and what is to be shown of it.
LEMMA ForOne ==
    ASSUME NEW c \in Calls, \A o \in Calls \ {c} : call'[o].step = "idle",
           SetupTypeOK', GivenBy(c)', Progress(c)', BackedBy(c)', ModeBy(c)'
    PROVE  SetupIInv'
<1>1. \A o \in Calls \ {c} : call'[o].step \notin Past
  BY StepNames
<1>2. \A o \in Calls \ {c} : call'[o].step \notin Holding
  BY <1>1 DEF Past
<1>3. Single'
  BY DEF Single
<1>4. Given'
  BY <1>1 DEF Given, GivenBy
<1>5. \A o \in Calls \ {c} : Progress(o)'
  BY <1>1 DEF Progress, Past, Holding, Armed
<1>6. Backed'
  BY <1>2 DEF Backed, BackedBy
<1>7. Mode'
  BY <1>2 DEF Mode, ModeBy
<1>. QED BY <1>3, <1>4, <1>5, <1>6, <1>7 DEF SetupIInv

\* A call that is not idle is alone, before and after a step of its own.
LEMMA Alone ==
    ASSUME SetupIInv, NEW c \in Calls, call[c].step # "idle",
           NEW r, call' = [call EXCEPT ![c] = r]
    PROVE  /\ \A o \in Calls \ {c} : call[o].step = "idle" /\ call'[o].step = "idle"
           /\ call'[c] = r
           /\ call[c] \in Call
           /\ r \in Call => call' \in [Calls -> Call]
BY DEF SetupIInv, Single, SetupTypeOK

\* A step of a call that changes nothing but the call.
LEMMA Ending ==
    ASSUME SetupIInv, NEW c \in Calls, call[c].step \in {"resolve", "check", "certify"},
           call' = [call EXCEPT ![c] = Idle],
           UNCHANGED <<files, served, certificates, engines, panel, due, given, cut, faults>>
    PROVE  SetupIInv'
<1>1. Idle \in Call /\ Idle.step = "idle"
  BY DEF Idle, Call, CallSteps
<1>2. call[c].step # "idle"
  OBVIOUS
<1>3. /\ \A o \in Calls \ {c} : call[o].step = "idle" /\ call'[o].step = "idle"
      /\ call'[c] = Idle
      /\ call' \in [Calls -> Call]
  BY <1>1, <1>2, Alone
<1>4. SetupTypeOK /\ GivenBy(c) /\ BackedBy(c) /\ ModeBy(c)
  BY <1>3, OfOne
<1>5. call[c].step \notin Holding /\ call'[c].step \notin Past /\ call'[c].step \notin Holding
  BY <1>1, <1>3, StepNames DEF Holding, Armed, Past
<1>6. SetupTypeOK'
  BY <1>3, <1>4 DEF SetupTypeOK
<1>7. GivenBy(c)' /\ BackedBy(c)' /\ ModeBy(c)'
  BY <1>4, <1>5 DEF GivenBy, BackedBy, ModeBy, Together
<1>8. Progress(c)'
  BY <1>1, <1>3, <1>5 DEF Progress, Past, Holding, Armed
<1>. QED BY <1>3, <1>6, <1>7, <1>8, ForOne

-----------------------------------------------------------------------------
(* The panel, and the script up to the copies *)

LEMMA FinalizeStep ==
    ASSUME SetupIInv, ~Overlap, NEW c \in Calls, NEW d \in Domains, Finalize(c, d)
    PROVE  SetupIInv'
<1> DEFINE r == [Idle EXCEPT !.step = "resolve", !.domain = d]
<1>1. r \in Call /\ r.step = "resolve" /\ r.domain = d
  <2>1. Idle \in Call
    BY DEF Idle, Call, CallSteps
  <2>. QED BY <2>1 DEF Call, CallSteps
<1>2. call' = [call EXCEPT ![c] = r] /\ \A o \in Calls : call[o].step = "idle"
  BY DEF Finalize
<1>3. UNCHANGED <<files, served, certificates, engines, panel, due, given, cut, faults>>
  BY DEF Finalize
<1>. HIDE DEF r
<1>4. SetupTypeOK /\ GivenBy(c) /\ BackedBy(c) /\ ModeBy(c)
  BY <1>2, OfOne
<1>5. call' \in [Calls -> Call] /\ call'[c] = r /\ \A o \in Calls \ {c} : call'[o] = call[o]
  BY <1>1, <1>2, <1>4 DEF SetupTypeOK
<1>6. SetupTypeOK'
  BY <1>3, <1>4, <1>5 DEF SetupTypeOK
<1>7. /\ call[c].step \notin Holding
      /\ call'[c].step \notin Past /\ call'[c].step \notin Holding
  BY <1>1, <1>2, <1>5, StepNames DEF Past, Holding, Armed
<1>8. GivenBy(c)' /\ BackedBy(c)' /\ ModeBy(c)'
  BY <1>3, <1>4, <1>7 DEF GivenBy, BackedBy, ModeBy, Together
<1>9. Progress(c)'
  BY <1>1, <1>5, <1>7 DEF Progress, Past, Holding, Armed
<1>. QED BY <1>2, <1>5, <1>6, <1>8, <1>9, ForOne

LEMMA ResolvedStep ==
    ASSUME SetupIInv, NEW c \in Calls, Resolved(c)
    PROVE  SetupIInv'
<1>1. CASE Ends(c, "resolve")
  BY <1>1, Ending DEF Resolved, Ends
<1>2. CASE To(c, "resolve", "check")
  <2> DEFINE r == [call[c] EXCEPT !.step = "check"]
  <2>1. call[c].step = "resolve" /\ call' = [call EXCEPT ![c] = r]
    BY <1>2 DEF To, SetupIInv, SetupTypeOK
  <2>2. UNCHANGED <<files, served, certificates, engines, panel, due, given, cut, faults>>
    BY DEF Resolved
  <2>3. call[c] \in Call
    BY DEF SetupIInv, SetupTypeOK
  <2>4. r \in Call /\ r.step = "check" /\ r.domain = call[c].domain
    BY <2>3 DEF Call, CallSteps
  <2>. HIDE DEF r
  <2>5. /\ \A o \in Calls \ {c} : call[o].step = "idle" /\ call'[o].step = "idle"
        /\ call'[c] = r
        /\ call' \in [Calls -> Call]
    BY <2>1, <2>4, Alone
  <2>6. SetupTypeOK /\ GivenBy(c) /\ Progress(c) /\ BackedBy(c) /\ ModeBy(c)
    BY <2>5, OfOne
  <2>7. SetupTypeOK'
    BY <2>2, <2>5, <2>6 DEF SetupTypeOK
  <2>8. /\ call[c].step \notin Holding
        /\ call'[c].step \notin Past /\ call'[c].step \notin Holding
    BY <2>1, <2>4, <2>5, StepNames DEF Past, Holding, Armed
  <2>9. GivenBy(c)' /\ BackedBy(c)' /\ ModeBy(c)'
    BY <2>2, <2>6, <2>8 DEF GivenBy, BackedBy, ModeBy, Together
  <2>10. Progress(c)'
    BY <2>1, <2>4, <2>5, <2>6, <2>8 DEF Progress, Past, Holding, Armed
  <2>. QED BY <2>5, <2>7, <2>9, <2>10, ForOne
<1>. QED BY <1>1, <1>2 DEF Resolved

\* The test of the file: a name that is given is none of setup.
LEMMA CheckStep ==
    ASSUME SetupIInv, NEW c \in Calls, Check(c)
    PROVE  SetupIInv'
<1>1. CASE files["env"] # Address
  BY <1>1, Ending DEF Check, Ends
<1>2. CASE files["env"] = Address
  <2> DEFINE r == [call[c] EXCEPT !.step = "certify"]
  <2>1. call[c].step = "check" /\ call' = [call EXCEPT ![c] = r]
    BY <1>2 DEF Check, To, SetupIInv, SetupTypeOK
  <2>2. UNCHANGED <<files, served, certificates, engines, panel, due, given, cut, faults>>
    BY DEF Check
  <2>3. call[c] \in Call
    BY DEF SetupIInv, SetupTypeOK
  <2>4. r \in Call /\ r.step = "certify" /\ r.domain = call[c].domain
    BY <2>3 DEF Call, CallSteps
  <2>. HIDE DEF r
  <2>5. /\ \A o \in Calls \ {c} : call[o].step = "idle" /\ call'[o].step = "idle"
        /\ call'[c] = r
        /\ call' \in [Calls -> Call]
    BY <2>1, <2>4, Alone
  <2>6. SetupTypeOK /\ GivenBy(c) /\ Progress(c) /\ BackedBy(c) /\ ModeBy(c)
    BY <2>5, OfOne
  <2>7. SetupTypeOK'
    BY <2>2, <2>5, <2>6 DEF SetupTypeOK
  <2>8. call[c].step \notin Holding /\ call'[c].step \notin Holding
    BY <2>1, <2>4, <2>5, StepNames DEF Holding, Armed
  <2>9. given = NoName
    BY <1>2, <2>6, FileNames, SetupAssumption DEF GivenBy
  <2>10. GivenBy(c)' /\ BackedBy(c)' /\ ModeBy(c)'
    BY <2>2, <2>6, <2>8, <2>9 DEF GivenBy, BackedBy, ModeBy, Together
  <2>11. Progress(c)'
    BY <1>2, <2>1, <2>2, <2>4, <2>5, <2>6 DEF Progress, Past, Holding, Armed
  <2>. QED BY <2>5, <2>7, <2>10, <2>11, ForOne
<1>. QED BY <1>1, <1>2

LEMMA CertifyStep ==
    ASSUME SetupIInv, NEW c \in Calls, Certify(c)
    PROVE  SetupIInv'
<1>1. CASE Ends(c, "certify") /\ UNCHANGED certificates
  BY <1>1, Ending DEF Certify, Ends
<1>2. CASE To(c, "certify", "save") /\ certificates' = certificates \cup {call[c].domain}
  <2> DEFINE r == [call[c] EXCEPT !.step = "save"]
  <2>1. call[c].step = "certify" /\ call' = [call EXCEPT ![c] = r]
    BY <1>2 DEF To, SetupIInv, SetupTypeOK
  <2>2. UNCHANGED <<files, served, engines, panel, due, given, cut, faults>>
    BY DEF Certify
  <2>3. call[c] \in Call
    BY DEF SetupIInv, SetupTypeOK
  <2>4. r \in Call /\ r.step = "save" /\ r.domain = call[c].domain
    BY <2>3 DEF Call, CallSteps
  <2>. HIDE DEF r
  <2>5. /\ \A o \in Calls \ {c} : call[o].step = "idle" /\ call'[o].step = "idle"
        /\ call'[c] = r
        /\ call' \in [Calls -> Call]
    BY <2>1, <2>4, Alone
  <2>6. SetupTypeOK /\ GivenBy(c) /\ Progress(c) /\ BackedBy(c) /\ ModeBy(c)
    BY <2>5, OfOne
  <2>7. call[c].domain \in Domains /\ files["env"] = Address
    BY <2>1, <2>6 DEF Progress
  <2>8. SetupTypeOK'
    BY <1>2, <2>2, <2>5, <2>6, <2>7 DEF SetupTypeOK, Names
  <2>9. call[c].step \notin Holding /\ call'[c].step \notin Holding /\ call[c].step \in Past
    BY <2>1, <2>4, <2>5, StepNames DEF Holding, Armed, Past
  <2>10. GivenBy(c)' /\ BackedBy(c)' /\ ModeBy(c)'
    BY <1>2, <2>2, <2>6, <2>9 DEF GivenBy, BackedBy, ModeBy, Together
  <2>11. Progress(c)'
    BY <1>2, <2>2, <2>4, <2>5, <2>7, <2>9 DEF Progress, Holding, Armed
  <2>. QED BY <2>5, <2>8, <2>10, <2>11, ForOne
<1>. QED BY <1>1, <1>2 DEF Certify

\* The copies are of one name, unless the host has ended under a script before.
LEMMA SaveStep ==
    ASSUME SetupIInv, NEW c \in Calls, Save(c)
    PROVE  SetupIInv'
<1> DEFINE r == [call[c] EXCEPT !.step = "install", !.n = 0, !.saved = files]
<1>1. call[c].step = "save" /\ call' = [call EXCEPT ![c] = r]
  BY DEF Save, SetupIInv, SetupTypeOK
<1>2. UNCHANGED <<files, served, certificates, engines, panel, due, given, cut, faults>>
  BY DEF Save
<1>3. call[c] \in Call /\ files \in [File -> Names]
  BY DEF SetupIInv, SetupTypeOK
<1>4. /\ r \in Call /\ r.step = "install" /\ r.domain = call[c].domain
      /\ r.n = 0 /\ r.saved = files
  <2>1. files \in [File -> Names \cup {NoName}] /\ 0 \in 0..4
    BY <1>3
  <2>2. /\ r.step = "install" /\ r.domain = call[c].domain
        /\ r.n = 0 /\ r.saved = files
    BY <1>3 DEF Call
  <2>. QED BY <1>3, <2>1, <2>2 DEF Call, CallSteps, Armed
<1>. HIDE DEF r
<1>5. /\ \A o \in Calls \ {c} : call[o].step = "idle" /\ call'[o].step = "idle"
      /\ call'[c] = r
      /\ call' \in [Calls -> Call]
  BY <1>1, <1>4, Alone
<1>6. SetupTypeOK /\ GivenBy(c) /\ Progress(c) /\ BackedBy(c) /\ ModeBy(c)
  BY <1>5, OfOne
<1>7. /\ call[c].domain \in Domains /\ files["env"] = Address
      /\ call[c].domain \in certificates
  BY <1>1, <1>6 DEF Progress
<1>8. SetupTypeOK'
  BY <1>2, <1>5, <1>6 DEF SetupTypeOK
<1>9. call[c].step \notin Holding /\ call'[c].step \in Holding /\ call[c].step \in Past
  BY <1>1, <1>4, <1>5, StepNames DEF Holding, Armed, Past
<1>10. GivenBy(c)' /\ ModeBy(c)'
  BY <1>2, <1>4, <1>5, <1>6, <1>9 DEF GivenBy, ModeBy
<1>11. BackedBy(c)'
  <2>1. "host" \notin cut => Together
    BY <1>6, <1>9 DEF BackedBy
  <2>. QED BY <1>2, <1>4, <1>5, <1>7, <1>9, <2>1, FileNames DEF BackedBy, Together
<1>12. Progress(c)'
  BY <1>2, <1>3, <1>4, <1>5, <1>7 DEF Progress, Holding, Armed
<1>. QED BY <1>5, <1>8, <1>10, <1>11, <1>12, ForOne

-----------------------------------------------------------------------------
(* The script under its trap *)

LEMMA InstallStep ==
    ASSUME SetupIInv, NEW c \in Calls, Install(c)
    PROVE  SetupIInv'
<1> DEFINE n == call[c].n + 1
           r == [call[c] EXCEPT !.n = n]
           names == [f \in File |-> call[c].domain]
<1>1. call[c].step = "install" /\ call[c].n < 4 /\ call[c] \in Call
  BY DEF Install, Replace, SetupIInv, SetupTypeOK
<1>2. n \in 1..4 /\ n \in 0..4 /\ Files[n] \in File
  BY <1>1, FileNames DEF Call
<1>3. /\ call' = [call EXCEPT ![c] = r]
      /\ files' = [files EXCEPT ![Files[n]] = names[Files[n]]]
  BY DEF Install, Replace, SetupIInv, SetupTypeOK
<1>4. UNCHANGED <<served, certificates, engines, panel, due, given, cut, faults>>
  BY DEF Install
<1>5. /\ r \in Call /\ r.step = "install" /\ r.domain = call[c].domain
      /\ r.n = n /\ r.saved = call[c].saved
  BY <1>1, <1>2 DEF Call
<1>6. files' = [files EXCEPT ![Files[n]] = call[c].domain]
  BY <1>2, <1>3
<1>. HIDE DEF r, names
<1>7. /\ \A o \in Calls \ {c} : call[o].step = "idle" /\ call'[o].step = "idle"
      /\ call'[c] = r
      /\ call' \in [Calls -> Call]
  BY <1>1, <1>3, <1>5, Alone
<1>8. SetupTypeOK /\ GivenBy(c) /\ Progress(c) /\ BackedBy(c) /\ ModeBy(c)
  BY <1>7, OfOne
<1>9. /\ call[c].domain \in Domains /\ call[c].domain \in certificates
      /\ call[c].saved \in [File -> Names]
      /\ \A i \in 1..4 : i <= call[c].n => files[Files[i]] = call[c].domain
  BY <1>1, <1>8 DEF Progress, Holding, Armed
<1>10. SetupTypeOK'
  BY <1>2, <1>4, <1>6, <1>7, <1>8, <1>9 DEF SetupTypeOK, Names
<1>11. call[c].step \in Holding /\ call'[c].step \in Holding /\ call[c].step \in Past
  BY <1>1, <1>5, <1>7 DEF Holding, Armed, Past
<1>12. given = NoName
  BY <1>8, <1>11 DEF GivenBy
<1>13. GivenBy(c)' /\ BackedBy(c)' /\ ModeBy(c)'
  <2>1. GivenBy(c)'
    BY <1>4, <1>8, <1>11, <1>12 DEF GivenBy
  <2>2. BackedBy(c)'
    BY <1>4, <1>5, <1>7, <1>8, <1>11 DEF BackedBy
  <2>3. ModeBy(c)'
    BY <1>4, <1>5, <1>7, <1>8, <1>11 DEF ModeBy
  <2>. QED BY <2>1, <2>2, <2>3
<1>14. \A i \in 1..4 : i <= n => files'[Files[i]] = call[c].domain
  <2>1. \A i \in 1..4 : i <= n => i = n \/ i <= call[c].n
    BY <1>1 DEF Call
  <2>. QED BY <1>2, <1>6, <1>8, <1>9, <2>1, FileNames DEF SetupTypeOK
<1>15. Progress(c)'
  BY <1>4, <1>5, <1>7, <1>9, <1>14 DEF Progress, Holding, Armed
<1>. QED BY <1>7, <1>10, <1>13, <1>15, ForOne

\* All four files are in, and nginx takes the new one.
LEMMA ReloadStep ==
    ASSUME SetupIInv, NEW c \in Calls, Reload(c)
    PROVE  SetupIInv'
<1> DEFINE r == [call[c] EXCEPT !.step = "reload"]
<1>1. call[c].step = "install" /\ call[c].n = 4 /\ call' = [call EXCEPT ![c] = r]
  BY DEF Reload, To, SetupIInv, SetupTypeOK
<1>2. /\ UNCHANGED <<files, certificates, engines, panel, due, given, cut, faults>>
      /\ served' = files["nginx"]
  BY DEF Reload
<1>3. call[c] \in Call
  BY DEF SetupIInv, SetupTypeOK
<1>4. /\ r \in Call /\ r.step = "reload" /\ r.domain = call[c].domain
      /\ r.n = call[c].n /\ r.saved = call[c].saved
  BY <1>3 DEF Call, CallSteps, Armed
<1>. HIDE DEF r
<1>5. /\ \A o \in Calls \ {c} : call[o].step = "idle" /\ call'[o].step = "idle"
      /\ call'[c] = r
      /\ call' \in [Calls -> Call]
  BY <1>1, <1>4, Alone
<1>6. SetupTypeOK /\ GivenBy(c) /\ Progress(c) /\ BackedBy(c) /\ ModeBy(c)
  BY <1>5, OfOne
<1>7. /\ call[c].domain \in Domains /\ call[c].domain \in certificates
      /\ call[c].saved \in [File -> Names]
      /\ \A i \in 1..4 : files[Files[i]] = call[c].domain
  BY <1>1, <1>6 DEF Progress, Holding, Armed
<1>8. \A f \in File : files[f] = call[c].domain
  BY <1>7, FileNames
<1>9. SetupTypeOK'
  BY <1>2, <1>5, <1>6, FileNames DEF SetupTypeOK
<1>10. call[c].step \in Holding /\ call'[c].step \in Holding /\ call[c].step \in Past
  BY <1>1, <1>4, <1>5 DEF Holding, Armed, Past
<1>11. GivenBy(c)'
  BY <1>2, <1>6, <1>10 DEF GivenBy
<1>12. BackedBy(c)' /\ ModeBy(c)'
  BY <1>2, <1>4, <1>5, <1>6, <1>10 DEF BackedBy, ModeBy
<1>13. Progress(c)'
  BY <1>2, <1>4, <1>5, <1>7, <1>8, FileNames DEF Progress, Holding, Armed
<1>. QED BY <1>5, <1>9, <1>11, <1>12, <1>13, ForOne

LEMMA EnableStep ==
    ASSUME SetupIInv, NEW c \in Calls, Enable(c)
    PROVE  SetupIInv'
<1> DEFINE r == [call[c] EXCEPT !.step = "enable"]
<1>1. call[c].step = "reload" /\ call' = [call EXCEPT ![c] = r]
  BY DEF Enable, To, SetupIInv, SetupTypeOK
<1>2. /\ UNCHANGED <<files, served, certificates, panel, due, given, cut, faults>>
      /\ engines' = TRUE
  BY DEF Enable
<1>3. call[c] \in Call
  BY DEF SetupIInv, SetupTypeOK
<1>4. /\ r \in Call /\ r.step = "enable" /\ r.domain = call[c].domain
      /\ r.saved = call[c].saved
  BY <1>3 DEF Call, CallSteps, Armed
<1>. HIDE DEF r
<1>5. /\ \A o \in Calls \ {c} : call[o].step = "idle" /\ call'[o].step = "idle"
      /\ call'[c] = r
      /\ call' \in [Calls -> Call]
  BY <1>1, <1>4, Alone
<1>6. SetupTypeOK /\ GivenBy(c) /\ Progress(c) /\ BackedBy(c) /\ ModeBy(c)
  BY <1>5, OfOne
<1>7. /\ call[c].domain \in Domains /\ call[c].domain \in certificates
      /\ call[c].saved \in [File -> Names]
      /\ \A f \in File : files[f] = call[c].domain
      /\ served = call[c].domain
  BY <1>1, <1>6 DEF Progress, Holding, Armed
<1>8. SetupTypeOK'
  BY <1>2, <1>5, <1>6 DEF SetupTypeOK
<1>9. call[c].step \in Holding /\ call'[c].step \in Holding /\ call[c].step \in Past
  BY <1>1, <1>4, <1>5 DEF Holding, Armed, Past
<1>10. GivenBy(c)'
  BY <1>2, <1>6, <1>9 DEF GivenBy
<1>11. BackedBy(c)' /\ ModeBy(c)'
  BY <1>2, <1>4, <1>5, <1>6, <1>9 DEF BackedBy, ModeBy
<1>12. Progress(c)'
  BY <1>2, <1>4, <1>5, <1>7 DEF Progress, Holding, Armed
<1>. QED BY <1>5, <1>8, <1>10, <1>11, <1>12, ForOne

\* The name is given, and the certificate of the address is no longer needed.
LEMMA FinishStep ==
    ASSUME SetupIInv, NEW c \in Calls, Finish(c)
    PROVE  SetupIInv'
<1>1. Idle \in Call /\ Idle.step = "idle"
  BY DEF Idle, Call, CallSteps
<1>2. /\ call[c].step = "enable" /\ call' = [call EXCEPT ![c] = Idle]
      /\ UNCHANGED <<files, served, engines, panel, faults>>
      /\ certificates' \in {certificates, certificates \ {Address}}
      /\ due' = TRUE /\ cut' = {}
      /\ given' = IF given = NoName THEN call[c].domain ELSE given
  BY DEF Finish, FinishWith, Ends
<1>3. /\ \A o \in Calls \ {c} : call[o].step = "idle" /\ call'[o].step = "idle"
      /\ call'[c] = Idle
      /\ call' \in [Calls -> Call]
  BY <1>1, <1>2, Alone
<1>4. SetupTypeOK /\ GivenBy(c) /\ Progress(c)
  BY <1>3, OfOne
<1>5. call[c].step \in Past /\ call'[c].step \notin Past /\ call'[c].step \notin Holding
  BY <1>1, <1>2, <1>3, StepNames DEF Holding, Armed, Past
<1>6. /\ call[c].domain \in Domains /\ call[c].domain \in certificates
      /\ \A f \in File : files[f] = call[c].domain
      /\ served = call[c].domain
      /\ engines
  BY <1>2, <1>4 DEF Progress, Armed
<1>7. given' = call[c].domain /\ call[c].domain # Address /\ call[c].domain # NoName
  BY <1>2, <1>4, <1>5, <1>6, SetupAssumption DEF GivenBy
<1>8. SetupTypeOK'
  BY <1>2, <1>3, <1>4, <1>6, <1>7 DEF SetupTypeOK, Names
<1>9. GivenBy(c)' /\ ModeBy(c)'
  BY <1>2, <1>5, <1>6, <1>7 DEF GivenBy, ModeBy
<1>10. BackedBy(c)'
  BY <1>2, <1>5, <1>6, <1>7 DEF BackedBy, Together
<1>11. Progress(c)'
  BY <1>1, <1>3, <1>5 DEF Progress, Past, Holding, Armed
<1>. QED BY <1>3, <1>8, <1>9, <1>10, <1>11, ForOne

-----------------------------------------------------------------------------
(* The trap *)

LEMMA FailsStep ==
    ASSUME SetupIInv, NEW c \in Calls, ScriptFails(c)
    PROVE  SetupIInv'
<1> DEFINE r == [call[c] EXCEPT !.step = "rollback", !.n = 0]
<1>1. call[c].step \in Armed /\ call' = [call EXCEPT ![c] = r]
  BY DEF ScriptFails, FailsIn, SetupIInv, SetupTypeOK
<1>2. /\ UNCHANGED <<files, served, certificates, panel, due, given, cut>>
      /\ engines' = FALSE
      /\ faults < MaxFaults /\ faults' = faults + 1
  BY DEF ScriptFails, FailsIn, Fault
<1>3. call[c] \in Call
  BY DEF SetupIInv, SetupTypeOK
<1>4. /\ r \in Call /\ r.step = "rollback" /\ r.domain = call[c].domain
      /\ r.n = 0 /\ r.saved = call[c].saved
  <2>1. 0 \in 0..4 /\ "rollback" \in CallSteps
    BY DEF CallSteps
  <2>2. /\ r.step = "rollback" /\ r.domain = call[c].domain
        /\ r.n = 0 /\ r.saved = call[c].saved
    BY <1>3 DEF Call
  <2>. QED BY <1>3, <2>1, <2>2 DEF Call
<1>. HIDE DEF r
<1>5. /\ \A o \in Calls \ {c} : call[o].step = "idle" /\ call'[o].step = "idle"
      /\ call'[c] = r
      /\ call' \in [Calls -> Call]
  BY <1>1, <1>4, Alone DEF Armed
<1>6. SetupTypeOK /\ GivenBy(c) /\ Progress(c) /\ BackedBy(c) /\ ModeBy(c)
  BY <1>5, OfOne
<1>7. call[c].step \in Holding /\ call'[c].step \in Holding /\ call[c].step \in Past
  BY <1>1, <1>4, <1>5 DEF Holding, Past
<1>8. call[c].domain \in Domains /\ call[c].saved \in [File -> Names]
  BY <1>1, <1>6, <1>7 DEF Progress, Armed
<1>9. SetupTypeOK'
  <2>1. faults' \in 0..MaxFaults
    BY <1>2, <1>6, SetupAssumption DEF SetupTypeOK
  <2>. QED BY <1>2, <1>5, <1>6, <2>1 DEF SetupTypeOK
<1>10. GivenBy(c)'
  BY <1>2, <1>6, <1>7 DEF GivenBy
<1>11. BackedBy(c)' /\ ModeBy(c)'
  BY <1>2, <1>4, <1>5, <1>6, <1>7 DEF BackedBy, ModeBy
<1>12. Progress(c)'
  BY <1>2, <1>4, <1>5, <1>8 DEF Progress, Holding, Armed
<1>. QED BY <1>5, <1>9, <1>10, <1>11, <1>12, ForOne

LEMMA RollbackStep ==
    ASSUME SetupIInv, NEW c \in Calls, Rollback(c)
    PROVE  SetupIInv'
<1> DEFINE n == call[c].n + 1
           r == [call[c] EXCEPT !.n = n]
<1>1. call[c].step = "rollback" /\ call[c].n < 4 /\ call[c] \in Call
  BY DEF Rollback, Replace, SetupIInv, SetupTypeOK
<1>2. n \in 1..4 /\ n \in 0..4 /\ Files[n] \in File
  BY <1>1, FileNames DEF Call
<1>3. /\ call' = [call EXCEPT ![c] = r]
      /\ files' = [files EXCEPT ![Files[n]] = call[c].saved[Files[n]]]
  BY DEF Rollback, Replace, SetupIInv, SetupTypeOK
<1>4. UNCHANGED <<served, certificates, engines, panel, due, given, cut, faults>>
  BY DEF Rollback
<1>5. /\ r \in Call /\ r.step = "rollback" /\ r.domain = call[c].domain
      /\ r.n = n /\ r.saved = call[c].saved
  BY <1>1, <1>2 DEF Call
<1>. HIDE DEF r
<1>6. /\ \A o \in Calls \ {c} : call[o].step = "idle" /\ call'[o].step = "idle"
      /\ call'[c] = r
      /\ call' \in [Calls -> Call]
  BY <1>1, <1>3, <1>5, Alone
<1>7. SetupTypeOK /\ GivenBy(c) /\ Progress(c) /\ BackedBy(c) /\ ModeBy(c)
  BY <1>6, OfOne
<1>8. call[c].step \in Holding /\ call'[c].step \in Holding /\ call[c].step \in Past
  BY <1>1, <1>5, <1>6 DEF Holding, Past
<1>9. /\ call[c].domain \in Domains
      /\ call[c].saved \in [File -> Names]
      /\ ~engines
      /\ \A i \in 1..4 : i <= call[c].n => files[Files[i]] = call[c].saved[Files[i]]
  BY <1>1, <1>7, <1>8 DEF Progress
<1>10. SetupTypeOK'
  BY <1>2, <1>3, <1>4, <1>6, <1>7, <1>9 DEF SetupTypeOK
<1>11. given = NoName
  BY <1>7, <1>8 DEF GivenBy
<1>12. GivenBy(c)'
  BY <1>4, <1>7, <1>11 DEF GivenBy
<1>13. BackedBy(c)' /\ ModeBy(c)'
  BY <1>4, <1>5, <1>6, <1>7, <1>8 DEF BackedBy, ModeBy
<1>14. \A i \in 1..4 : i <= n => files'[Files[i]] = call[c].saved[Files[i]]
  <2>1. \A i \in 1..4 : i <= n => i = n \/ i <= call[c].n
    BY <1>1 DEF Call
  <2>. QED BY <1>2, <1>3, <1>7, <1>9, <2>1, FileNames DEF SetupTypeOK
<1>15. Progress(c)'
  BY <1>4, <1>5, <1>6, <1>9, <1>14 DEF Progress, Holding, Armed
<1>. QED BY <1>6, <1>10, <1>12, <1>13, <1>15, ForOne

\* Every file is back, the certificate of the address still there, and nginx takes it.
LEMMA ReloadPreviousStep ==
    ASSUME SetupIInv, NEW c \in Calls, ReloadPrevious(c)
    PROVE  SetupIInv'
<1>1. Idle \in Call /\ Idle.step = "idle"
  BY DEF Idle, Call, CallSteps
<1>2. /\ call[c].step = "rollback" /\ call[c].n = 4 /\ call' = [call EXCEPT ![c] = Idle]
      /\ UNCHANGED <<files, certificates, engines, panel, due, given, cut, faults>>
      /\ served' = IF files["nginx"] \in certificates THEN files["nginx"] ELSE served
  BY DEF ReloadPrevious, Ends
<1>3. /\ \A o \in Calls \ {c} : call[o].step = "idle" /\ call'[o].step = "idle"
      /\ call'[c] = Idle
      /\ call' \in [Calls -> Call]
  BY <1>1, <1>2, Alone
<1>4. SetupTypeOK /\ GivenBy(c) /\ Progress(c) /\ BackedBy(c) /\ ModeBy(c)
  BY <1>3, OfOne
<1>5. /\ call[c].step \in Past /\ call[c].step \in Holding
      /\ call'[c].step \notin Past /\ call'[c].step \notin Holding
  BY <1>1, <1>2, <1>3, StepNames DEF Holding, Armed, Past
<1>6. ~engines /\ \A i \in 1..4 : files[Files[i]] = call[c].saved[Files[i]]
  BY <1>2, <1>4 DEF Progress
<1>7. \A f \in File : files[f] = call[c].saved[f]
  BY <1>6, FileNames
<1>8. SetupTypeOK'
  BY <1>2, <1>3, <1>4, FileNames DEF SetupTypeOK
<1>9. GivenBy(c)'
  BY <1>2, <1>4, <1>5 DEF GivenBy
<1>10. ModeBy(c)'
  BY <1>2, <1>4, <1>5, <1>7, FileNames DEF ModeBy
<1>11. BackedBy(c)'
  BY <1>2, <1>4, <1>5, <1>6, <1>7, FileNames DEF BackedBy, Together
<1>12. Progress(c)'
  BY <1>1, <1>3, <1>5 DEF Progress, Past, Holding, Armed
<1>. QED BY <1>3, <1>8, <1>9, <1>10, <1>11, <1>12, ForOne

-----------------------------------------------------------------------------
(* Restarts *)

\* Requests end with the process; scripts are units of their own.
LEMMA Forgetting ==
    ASSUME SetupIInv, call' = Forgotten
    PROVE  /\ call' \in [Calls -> Call]
           /\ \A c \in Calls : call'[c] = IF AtWork(c) THEN call[c] ELSE Idle
           /\ \A c \in Calls : call[c].step \in Holding => call'[c].step \in Holding
           /\ \A c \in Calls : call'[c].step # "idle" => call'[c] = call[c]
           /\ Single'
           /\ \A c \in Calls :
                 Progress(c) /\ UNCHANGED <<files, served, certificates, engines>> => Progress(c)'
<1>1. Idle \in Call /\ Idle.step = "idle"
  BY DEF Idle, Call, CallSteps
<1>2. call \in [Calls -> Call]
  BY DEF SetupIInv, SetupTypeOK
<1>3. \A c \in Calls : call'[c] = IF AtWork(c) THEN call[c] ELSE Idle
  BY DEF Forgotten
<1>4. call' \in [Calls -> Call]
  BY <1>1, <1>2 DEF Forgotten
<1>5. \A c \in Calls : call[c].step \in Holding => call'[c].step \in Holding
  BY <1>3 DEF AtWork, Holding, Armed
<1>6. \A c \in Calls : call'[c].step # "idle" => call'[c] = call[c]
  BY <1>1, <1>3
<1>7. Single'
  BY <1>1, <1>6 DEF SetupIInv, Single
<1>8. \A c \in Calls :
         Progress(c) /\ UNCHANGED <<files, served, certificates, engines>> => Progress(c)'
  <2> SUFFICES ASSUME NEW c \in Calls, Progress(c),
                      UNCHANGED <<files, served, certificates, engines>>
               PROVE  Progress(c)'
    OBVIOUS
  <2>1. CASE call'[c].step = "idle"
    BY <2>1 DEF Progress, Holding, Armed
  <2>2. CASE call'[c].step # "idle"
    <3>1. call'[c] = call[c]
      BY <1>6, <2>2
    <3>. QED BY <3>1 DEF Progress
  <2>. QED BY <2>1, <2>2
<1>. QED BY <1>3, <1>4, <1>5, <1>6, <1>7, <1>8

\* The scheduled restart: the name is given, and no script gets past the test any more.
LEMMA RestartStep ==
    ASSUME SetupIInv, RestartPanel
    PROVE  SetupIInv'
<1>1. /\ due /\ due' = FALSE /\ panel' = files["env"] /\ call' = Forgotten
      /\ UNCHANGED <<files, served, certificates, engines, given, cut, faults>>
  BY DEF RestartPanel
<1>2. SetupTypeOK /\ Given /\ Backed /\ \A c \in Calls : Progress(c)
  BY DEF SetupIInv
<1>3. given # NoName /\ \A c \in Calls : call[c].step \notin Past
  BY <1>1, <1>2 DEF Given
<1>4. \A c \in Calls : call'[c].step \notin Past /\ call'[c].step \notin Holding
  BY <1>1, <1>3, Forgetting, StepNames DEF Past
<1>5. SetupTypeOK'
  BY <1>1, <1>2, Forgetting, FileNames DEF SetupTypeOK
<1>6. Given'
  BY <1>1, <1>2, <1>4 DEF Given
<1>7. \A c \in Calls : Progress(c)'
  BY <1>1, <1>2, Forgetting
<1>8. Backed'
  <2>1. \A c \in Calls : call[c].step \notin Holding
    BY <1>3 DEF Past
  <2>2. "host" \notin cut => Together
    BY <1>2, <2>1 DEF Backed
  <2>. QED BY <1>1, <1>4, <2>2 DEF Backed, Together
<1>9. Mode'
  BY <1>1, <1>4 DEF Mode
<1>. QED BY <1>1, <1>5, <1>6, <1>7, <1>8, <1>9, Forgetting DEF SetupIInv

\* A fault is spent.
LEMMA FaultSpent ==
    ASSUME SetupIInv, Fault PROVE faults' \in 0..MaxFaults
BY SetupAssumption DEF Fault, SetupIInv, SetupTypeOK

\* The panel may read a file that is about to be put back: that is what cut remembers.
LEMMA PanelEndsStep ==
    ASSUME SetupIInv, PanelEnds
    PROVE  SetupIInv'
<1>1. /\ Fault /\ panel' = files["env"] /\ call' = Forgotten
      /\ cut' = IF \E c \in Calls : AtWork(c) THEN cut \cup {"panel"} ELSE cut
      /\ UNCHANGED <<files, served, certificates, engines, due, given>>
  BY DEF PanelEnds
<1>2. SetupTypeOK /\ Given /\ Backed /\ \A c \in Calls : Progress(c)
  BY DEF SetupIInv
<1>3. SetupTypeOK'
  <2>1. panel' \in Names
    BY <1>1, <1>2, FileNames DEF SetupTypeOK
  <2>2. cut' \subseteq {"panel", "host"}
    BY <1>1, <1>2 DEF SetupTypeOK
  <2>. QED BY <1>1, <1>2, <2>1, <2>2, Forgetting, FaultSpent DEF SetupTypeOK
<1>4. \A c \in Calls : call'[c].step \in Past => call[c].step \in Past
  BY <1>1, Forgetting, StepNames
<1>5. Given'
  BY <1>1, <1>2, <1>4 DEF Given
<1>6. \A c \in Calls : Progress(c)'
  BY <1>1, <1>2, Forgetting
<1>7. \A c \in Calls : call'[c].step \in Holding =>
         call[c].step \in Holding /\ call'[c].saved = call[c].saved
  BY <1>1, Forgetting, StepNames DEF Past
<1>8. \A c \in Calls : call[c].step \in Holding => call'[c].step \in Holding
  BY <1>1, Forgetting
<1>9. Backed'
  <2>1. "host" \notin cut' => "host" \notin cut
    BY <1>1
  <2>2. ASSUME "host" \notin cut, \A c \in Calls : call'[c].step \notin Holding
        PROVE  Together'
    <3>1. Together
      BY <1>2, <1>8, <2>2 DEF Backed
    <3>. QED BY <1>1, <3>1 DEF Together
  <2>3. ASSUME "host" \notin cut, NEW c \in Calls, call'[c].step \in Holding
        PROVE  (\A f \in File : call'[c].saved[f] = Address) /\ Address \in certificates'
    BY <1>1, <1>2, <1>7, <2>3 DEF Backed
  <2>. QED BY <2>1, <2>2, <2>3 DEF Backed
<1>10. Mode'
  <2> SUFFICES ASSUME cut' = {}
               PROVE  (\A c \in Calls : call'[c].step \notin Holding) /\ panel' = files'["env"]
    BY DEF Mode
  <2>1. \A c \in Calls : ~AtWork(c)
    BY <1>1
  <2>2. \A c \in Calls : call[c].step \notin Holding
    BY <2>1 DEF AtWork, Holding, Armed
  <2>. QED BY <1>1, <1>7, <2>2
<1>. QED BY <1>1, <1>3, <1>5, <1>6, <1>9, <1>10, Forgetting DEF SetupIInv

LEMMA HostEndsStep ==
    ASSUME SetupIInv, HostEnds
    PROVE  SetupIInv'
<1>1. /\ Fault /\ panel' = files["env"]
      /\ call' = [c \in Calls |-> Idle]
      /\ served' = IF files["nginx"] \in certificates THEN files["nginx"] ELSE served
      /\ due' = FALSE
      /\ cut' = IF \E c \in Calls : AtWork(c) THEN cut \cup {"host"} ELSE cut
      /\ UNCHANGED <<files, certificates, engines, given>>
  BY DEF HostEnds
<1>2. SetupTypeOK /\ Given /\ Backed
  BY DEF SetupIInv
<1>3. Idle \in Call /\ Idle.step = "idle"
  BY DEF Idle, Call, CallSteps
<1>4. \A c \in Calls : call'[c].step = "idle"
  BY <1>1, <1>3
<1>5. \A c \in Calls : call'[c].step \notin Past /\ call'[c].step \notin Holding
  BY <1>4, StepNames DEF Past
<1>6. SetupTypeOK'
  <2>1. panel' \in Names /\ served' \in Names
    BY <1>1, <1>2, FileNames DEF SetupTypeOK
  <2>2. cut' \subseteq {"panel", "host"}
    BY <1>1, <1>2 DEF SetupTypeOK
  <2>. QED BY <1>1, <1>2, <1>3, <2>1, <2>2, FaultSpent DEF SetupTypeOK
<1>7. Single' /\ Mode'
  BY <1>1, <1>4, <1>5 DEF Single, Mode
<1>8. Given'
  BY <1>1, <1>2, <1>5 DEF Given
<1>9. \A c \in Calls : Progress(c)'
  BY <1>4, <1>5 DEF Progress, Holding, Armed
<1>10. Backed'
  <2> SUFFICES ASSUME "host" \notin cut' PROVE Together'
    BY <1>5 DEF Backed
  <2>1. "host" \notin cut /\ \A c \in Calls : ~AtWork(c)
    BY <1>1
  <2>2. \A c \in Calls : call[c].step \notin Holding
    BY <2>1 DEF AtWork, Holding, Armed
  <2>3. Together
    BY <1>2, <2>1, <2>2 DEF Backed
  <2>. QED BY <1>1, <2>3, FileNames DEF Together
<1>. QED BY <1>6, <1>7, <1>8, <1>9, <1>10 DEF SetupIInv

-----------------------------------------------------------------------------
(* The theorems *)

LEMMA StepSetup ==
    ASSUME ~Overlap, SetupIInv, [SetupNext]_setupVars PROVE SetupIInv'
<1>1. ASSUME NEW c \in Calls, NEW d \in Domains, Finalize(c, d) PROVE SetupIInv'
  BY <1>1, FinalizeStep
<1>2. ASSUME NEW c \in Calls, Resolved(c) PROVE SetupIInv'
  BY <1>2, ResolvedStep
<1>3. ASSUME NEW c \in Calls, ScriptGoesOn(c) PROVE SetupIInv'
  <2>1. CASE Check(c) \/ Certify(c) \/ Save(c)
    BY <2>1, CheckStep, CertifyStep, SaveStep
  <2>2. CASE Install(c) \/ Reload(c) \/ Enable(c) \/ Finish(c)
    BY <2>2, InstallStep, ReloadStep, EnableStep, FinishStep
  <2>3. CASE Rollback(c) \/ ReloadPrevious(c)
    BY <2>3, RollbackStep, ReloadPreviousStep
  <2>. QED BY <1>3, <2>1, <2>2, <2>3 DEF ScriptGoesOn
<1>4. ASSUME NEW c \in Calls, ScriptFails(c) PROVE SetupIInv'
  BY <1>4, FailsStep
<1>5. CASE RestartPanel \/ PanelEnds \/ HostEnds
  BY <1>5, RestartStep, PanelEndsStep, HostEndsStep
<1>6. CASE UNCHANGED setupVars
  BY <1>6 DEF setupVars, SetupIInv, SetupTypeOK, Single, Given, Progress, Backed, Mode, Together
<1>. QED BY <1>1, <1>2, <1>3, <1>4, <1>5, <1>6 DEF SetupNext

\* What the invariant says of a server at which no script is at work.
LEMMA Outcome ==
    SetupIInv => DomainTogether /\ NameIsGivenOnce
<1> SUFFICES ASSUME SetupIInv PROVE DomainTogether /\ NameIsGivenOnce
  OBVIOUS
<1>1. NameIsGivenOnce
  BY DEF SetupIInv, Given, NameIsGivenOnce
<1>2. ASSUME Quiet PROVE \A c \in Calls : call[c].step \notin Holding
  BY <1>2 DEF Quiet, AtWork, Holding, Armed
<1>3. DomainTogether
  BY <1>2 DEF SetupIInv, Backed, Mode, Together, DomainTogether
<1>. QED BY <1>1, <1>3

\* The state of the setup always has its type.
THEOREM SetupTypeCorrect ==
    ASSUME ~Overlap PROVE SetupSpec => []SetupTypeOK
<1>1. SetupIInv => SetupTypeOK
  BY DEF SetupIInv
<1>. QED BY <1>1, InitSetup, StepSetup, PTL DEF SetupSpec

\* However many calls, faults and restarts: whichever command of finalize-domain fails, the
\* four files, nginx, its certificate and the engines end with one name, and the panel in
\* the mode of its environment.
THEOREM DomainsTogether ==
    ASSUME ~Overlap PROVE SetupSpec => []DomainTogether
BY InitSetup, StepSetup, Outcome, PTL DEF SetupSpec

\* The name that the first script has finished with stays in every file.
THEOREM GivenOnce ==
    ASSUME ~Overlap PROVE SetupSpec => []NameIsGivenOnce
BY InitSetup, StepSetup, Outcome, PTL DEF SetupSpec

-----------------------------------------------------------------------------
(* Updater *)

Script == update \in [step : Steps, next : Releases, previous : Releases]

\* Between the stop and the start.
Closed == {"stopped", "armed", "migrated", "linked", "configured"}

\* While the snapshot is the database to go back to.
Guarded == Tried \cup {"relink", "restore"}

\* The directories: the newest is the one of the update, and the previous one is there.
Dirs ==
    LET step == update.step IN
    /\ current \in whole
    /\ step # "none" => update.previous \in whole
    /\ step = "copy" => halves = {update.next}
    /\ step \notin {"none", "copy"} => halves = {} /\ update.next \in whole
    /\ step # "none" => \A w \in whole : w \leq update.next
    /\ step \in {"linked", "configured", "started", "ready"} => current = update.next

\* A process is there when systemd wants one and has a log; whose it is, and where nobody
\* runs and nothing is in a log.
Still ==
    /\ runs # NoRelease => wanted
    /\ wanted => log # "none"
    /\ update.step \in Closed => runs = NoRelease /\ ~wanted /\ log = "none"
    /\ log = "other" => update.step \in {"revert", "restart"} \/ "log" \in unsure
    /\ log = "own" => update.step \notin {"revert", "restart"} \/ "log" \in unsure

\* Which release each part has come to.
Reached ==
    LET step == update.step IN
    unsure = {} =>
        /\ step \in {"none", "copy", "copied"} =>
              /\ runs \in {current, NoRelease} /\ env = current /\ database.schema = current
              /\ current \notin Broken
        /\ step \notin {"none", "ready"} => update.previous \notin Broken
        /\ step \in {"copy", "copied", "stopped", "armed", "migrated"} =>
              current = update.previous /\ env = update.previous
        /\ step \in {"stopped", "armed"} => database.schema = update.previous
        /\ step \in Guarded => snapshot.schema = update.previous
        /\ step \in {"linked", "configured", "started", "ready"} => current = update.next
        /\ step \in {"migrated", "linked", "configured", "started", "ready"} =>
              database.schema = update.next
        /\ step \in {"configured", "started", "ready"} => env = update.next
        /\ step = "started" => runs \in {update.next, NoRelease}
        /\ step = "ready" => runs \in {update.next, NoRelease} /\ update.next \notin Broken
        /\ step \in {"restore", "revert", "restart"} => current = update.previous
        /\ step \in {"revert", "restart"} => database.schema = update.previous
        /\ step = "restart" => env = update.previous

\* Where the writes are that have to last.
Counted ==
    LET step == update.step IN
    /\ lasting \leq database.writes
    /\ step \in Guarded => lasting \leq snapshot.writes
    /\ "log" \notin unsure =>
          /\ step \in Closed \cup {"none", "copy", "copied", "ready", "revert", "restart"} =>
                database.writes = lasting
          /\ step \in Guarded => snapshot.writes = lasting

UpdaterIInv == UpdaterTypeOK /\ Still /\ Counted /\ Reached

-----------------------------------------------------------------------------

LEMMA InitUpdater == UpdaterInit => UpdaterIInv /\ Dirs
<1> SUFFICES ASSUME UpdaterInit PROVE UpdaterIInv /\ Dirs
  OBVIOUS
<1> USE UpdaterAssumption
<1>1. UpdaterTypeOK
  BY DEF UpdaterInit, UpdaterTypeOK, Database, Steps
<1>2. Still /\ Counted
  BY DEF UpdaterInit, Still, Counted, Closed, Guarded, Tried
<1>3. Reached
  BY DEF UpdaterInit, Reached, Guarded, Tried
<1>4. Dirs
  BY DEF UpdaterInit, Dirs
<1>. QED BY <1>1, <1>2, <1>3, <1>4 DEF UpdaterIInv

\* A mishap is spent.
LEMMA MishapSpent ==
    ASSUME UpdaterTypeOK, Mishap PROVE mishaps' \in 0..MaxMishaps
BY UpdaterAssumption DEF UpdaterTypeOK, Mishap

\* Every step that is not of a copy, by name.
LEMMA ByName ==
    ASSUME UpdaterNext
    PROVE  \/ \E v \in Releases : Copy(v) \/ RemoveHalf(v)
           \/ Copied \/ Stop \/ TakeSnapshot \/ Migrate \/ LinkNext \/ Configure
           \/ StartNext \/ Ready \/ Prune \/ Relink \/ Restore \/ Revert \/ Restart
           \/ MigrateFails \/ Fails \/ Halts \/ Write \/ Dies \/ Revives \/ Reboot
BY DEF UpdaterNext, ScriptStep

\* Where the script is.
LEMMA ScriptTyped ==
    ASSUME UpdaterTypeOK, [UpdaterNext]_updaterVars
    PROVE  Script'
<1> USE UpdaterAssumption DEF UpdaterTypeOK, Script, Steps, Tried, Undone
<1>1. ASSUME NEW v \in Releases, Copy(v) PROVE Script'
  BY <1>1 DEF Copy, CopyOf, Present
<1>2. ASSUME NEW v \in Releases, RemoveHalf(v) PROVE Script'
  BY <1>2 DEF RemoveHalf
<1>3. CASE Copied
  BY <1>3 DEF Copied, Go
<1>4. CASE Stop
  BY <1>4 DEF Stop, StopInto, Go, Opened, Found
<1>5. CASE TakeSnapshot
  BY <1>5 DEF TakeSnapshot, Go
<1>6. CASE Migrate
  BY <1>6 DEF Migrate, Go
<1>7. CASE LinkNext
  BY <1>7 DEF LinkNext, Go
<1>8. CASE Configure
  BY <1>8 DEF Configure, Go
<1>9. CASE StartNext
  BY <1>9 DEF StartNext, Go, Starts, Opened, Found
<1>10. CASE Ready
  BY <1>10 DEF Ready, Go
<1>11. CASE Prune
  BY <1>11 DEF Prune, Go
<1>12. CASE Relink
  BY <1>12 DEF Relink, Go
<1>13. CASE Restore
  BY <1>13 DEF Restore, Go
<1>14. CASE Revert
  BY <1>14 DEF Revert, RevertTo, Go
<1>15. CASE Restart
  BY <1>15 DEF Restart, Go, Starts, Opened, Found
<1>16. CASE MigrateFails
  BY <1>16 DEF MigrateFails, Go
<1>17. CASE Halts
  BY <1>17 DEF Halts, CutOff, HalfDone, Found, Harmless
<1>18. CASE Fails
  BY <1>18 DEF Fails, FailsInto, Go
<1>19. CASE Write
  BY <1>19 DEF Write
<1>20. CASE Dies
  BY <1>20 DEF Dies
<1>21. CASE Revives
  BY <1>21 DEF Revives, Starts, Opened, Found
<1>22. CASE Reboot
  BY <1>22 DEF Reboot, CutOff, HalfDone, Starts, Opened, Found, Harmless
<1>23. CASE UNCHANGED updaterVars
  BY <1>23 DEF updaterVars, dirs
<1>. QED
  BY <1>1, <1>2, <1>3, <1>4, <1>5, <1>6, <1>7, <1>8, <1>9, <1>10, <1>11, <1>12, <1>13,
  <1>14, <1>15, <1>16, <1>17, <1>18, <1>19, <1>20, <1>21, <1>22, <1>23, ByName

\* Types.
LEMMA TypeStep ==
    ASSUME UpdaterTypeOK, Counted, [UpdaterNext]_updaterVars
    PROVE  UpdaterTypeOK'
<1> USE UpdaterAssumption DEF UpdaterTypeOK, Database, Script, dirs
<1>1. ASSUME NEW v \in Releases, Copy(v) PROVE UpdaterTypeOK'
  BY <1>1, MishapSpent, ScriptTyped DEF Copy, CopyOf, Present
<1>2. ASSUME NEW v \in Releases, RemoveHalf(v) PROVE UpdaterTypeOK'
  BY <1>2, MishapSpent, ScriptTyped DEF RemoveHalf
<1>3. CASE Copied
  BY <1>3, MishapSpent, ScriptTyped DEF Copied, Go
<1>4. CASE Stop
  BY <1>4, MishapSpent, ScriptTyped DEF Stop, StopInto, Go, Opened, Found
<1>5. CASE TakeSnapshot
  BY <1>5, MishapSpent, ScriptTyped DEF TakeSnapshot, Go
<1>6. CASE Migrate
  BY <1>6, MishapSpent, ScriptTyped DEF Migrate, Go
<1>7. CASE LinkNext
  BY <1>7, MishapSpent, ScriptTyped DEF LinkNext, Go
<1>8. CASE Configure
  BY <1>8, MishapSpent, ScriptTyped DEF Configure, Go
<1>9. CASE StartNext
  BY <1>9, MishapSpent, ScriptTyped DEF StartNext, Go, Starts, Opened, Found
<1>10. CASE Ready
  BY <1>10, MishapSpent, ScriptTyped DEF Ready, Go
<1>11. CASE Prune
  BY <1>11, MishapSpent, ScriptTyped DEF Prune, Go
<1>12. CASE Relink
  BY <1>12, MishapSpent, ScriptTyped DEF Relink, Go
<1>13. CASE Restore
  BY <1>13, MishapSpent, ScriptTyped DEF Restore, Go
<1>14. CASE Revert
  BY <1>14, MishapSpent, ScriptTyped DEF Revert, RevertTo, Go
<1>15. CASE Restart
  BY <1>15, MishapSpent, ScriptTyped DEF Restart, Go, Starts, Opened, Found
<1>16. CASE MigrateFails
  BY <1>16, MishapSpent, ScriptTyped DEF MigrateFails, Go
<1>17. CASE Halts
  BY <1>17, MishapSpent, ScriptTyped DEF Halts, CutOff, HalfDone, Found, Harmless
<1>18. CASE Fails
  BY <1>18, MishapSpent, ScriptTyped DEF Fails, FailsInto, Go
<1>19. CASE Write
  <2>1. database' \in Database /\ lasting' \in 0..MaxWrites
    <3>1. database.writes + 1 \in 0..MaxWrites /\ lasting + 1 \in 0..MaxWrites
      BY <1>19 DEF Write, Counted
    <3>2. database' = [database EXCEPT !.writes = database.writes + 1]
      BY <1>19 DEF Write
    <3>3. lasting' \in {lasting, lasting + 1}
      BY <1>19 DEF Write
    <3>. QED BY <3>1, <3>2, <3>3
  <2>. QED BY <1>19, <2>1, ScriptTyped DEF Write
<1>20. CASE Dies
  BY <1>20, MishapSpent, ScriptTyped DEF Dies
<1>21. CASE Revives
  BY <1>21, MishapSpent, ScriptTyped DEF Revives, Starts, Opened, Found
<1>22. CASE Reboot
  BY <1>22, MishapSpent, ScriptTyped DEF Reboot, CutOff, HalfDone, Starts, Opened, Found, Harmless
<1>23. CASE UNCHANGED updaterVars
  BY <1>23, MishapSpent, ScriptTyped DEF updaterVars, dirs
<1>. QED
  BY <1>1, <1>2, <1>3, <1>4, <1>5, <1>6, <1>7, <1>8, <1>9, <1>10, <1>11, <1>12, <1>13,
  <1>14, <1>15, <1>16, <1>17, <1>18, <1>19, <1>20, <1>21, <1>22, <1>23, ByName

\* The service that the script has stopped stays stopped.
LEMMA StillStep ==
    ASSUME UpdaterTypeOK, Still, [UpdaterNext]_updaterVars
    PROVE  Still'
<1> USE UpdaterAssumption DEF UpdaterTypeOK, Still, Closed, dirs
<1>1. ASSUME NEW v \in Releases, Copy(v) PROVE Still'
  BY <1>1 DEF Copy, CopyOf, Present
<1>2. ASSUME NEW v \in Releases, RemoveHalf(v) PROVE Still'
  BY <1>2 DEF RemoveHalf
<1>3. CASE Copied
  BY <1>3 DEF Copied, Go
<1>4. CASE Stop
  BY <1>4 DEF Stop, StopInto, Go, Opened, Found
<1>5. CASE TakeSnapshot
  BY <1>5 DEF TakeSnapshot, Go
<1>6. CASE Migrate
  BY <1>6 DEF Migrate, Go
<1>7. CASE LinkNext
  BY <1>7 DEF LinkNext, Go
<1>8. CASE Configure
  BY <1>8 DEF Configure, Go
<1>9. CASE StartNext
  BY <1>9 DEF StartNext, Go, Starts, Opened, Found
<1>10. CASE Ready
  BY <1>10 DEF Ready, Go
<1>11. CASE Prune
  BY <1>11 DEF Prune, Go
<1>12. CASE Relink
  BY <1>12 DEF Relink, Go
<1>13. CASE Restore
  BY <1>13 DEF Restore, Go
<1>14. CASE Revert
  BY <1>14 DEF Revert, RevertTo, Go
<1>15. CASE Restart
  BY <1>15 DEF Restart, Go, Starts, Opened, Found
<1>16. CASE MigrateFails
  BY <1>16 DEF MigrateFails, Go
<1>17. CASE Halts
  BY <1>17 DEF Halts, CutOff, HalfDone, Found, Harmless
<1>18. CASE Fails
  BY <1>18 DEF Fails, FailsInto, Go, Tried
<1>19. CASE Write
  BY <1>19 DEF Write
<1>20. CASE Dies
  BY <1>20 DEF Dies
<1>21. CASE Revives
  BY <1>21 DEF Revives, Starts, Opened, Found
<1>22. CASE Reboot
  BY <1>22 DEF Reboot, CutOff, HalfDone, Starts, Opened, Found, Harmless
<1>23. CASE UNCHANGED updaterVars
  BY <1>23 DEF updaterVars, dirs
<1>. QED
  BY <1>1, <1>2, <1>3, <1>4, <1>5, <1>6, <1>7, <1>8, <1>9, <1>10, <1>11, <1>12, <1>13,
  <1>14, <1>15, <1>16, <1>17, <1>18, <1>19, <1>20, <1>21, <1>22, <1>23, ByName

\* Writes.
LEMMA CountedStep ==
    ASSUME UpdaterTypeOK, Still, Counted, [UpdaterNext]_updaterVars
    PROVE  Counted'
<1> USE UpdaterAssumption DEF UpdaterTypeOK, Still, Counted, Database, Closed, Guarded, Tried, Undone, Mixed, dirs
<1>1. ASSUME NEW v \in Releases, Copy(v) PROVE Counted'
  BY <1>1 DEF Copy, CopyOf, Present
<1>2. ASSUME NEW v \in Releases, RemoveHalf(v) PROVE Counted'
  BY <1>2 DEF RemoveHalf
<1>3. CASE Copied
  BY <1>3 DEF Copied, Go
<1>4. CASE Stop
  BY <1>4 DEF Stop, StopInto, Go, Opened, Found
<1>5. CASE TakeSnapshot
  BY <1>5 DEF TakeSnapshot, Go
<1>6. CASE Migrate
  BY <1>6 DEF Migrate, Go
<1>7. CASE LinkNext
  BY <1>7 DEF LinkNext, Go
<1>8. CASE Configure
  BY <1>8 DEF Configure, Go
<1>9. CASE StartNext
  BY <1>9 DEF StartNext, Go, Starts, Opened, Found
<1>10. CASE Ready
  BY <1>10 DEF Ready, Go
<1>11. CASE Prune
  BY <1>11 DEF Prune, Go
<1>12. CASE Relink
  BY <1>12 DEF Relink, Go
<1>13. CASE Restore
  BY <1>13 DEF Restore, Go
<1>14. CASE Revert
  BY <1>14 DEF Revert, RevertTo, Go
<1>15. CASE Restart
  BY <1>15 DEF Restart, Go, Starts, Opened, Found
<1>16. CASE MigrateFails
  BY <1>16 DEF MigrateFails, Go
<1>17. CASE Halts
  BY <1>17 DEF Halts, CutOff, HalfDone, Found, Harmless
<1>18. CASE Fails
  BY <1>18 DEF Fails, FailsInto, Go
<1>19. CASE Write
  BY <1>19 DEF Write
<1>20. CASE Dies
  BY <1>20 DEF Dies
<1>21. CASE Revives
  BY <1>21 DEF Revives, Starts, Opened, Found
<1>22. CASE Reboot
  BY <1>22 DEF Reboot, CutOff, HalfDone, Starts, Opened, Found, Harmless
<1>23. CASE UNCHANGED updaterVars
  BY <1>23 DEF updaterVars, dirs
<1>. QED
  BY <1>1, <1>2, <1>3, <1>4, <1>5, <1>6, <1>7, <1>8, <1>9, <1>10, <1>11, <1>12, <1>13,
  <1>14, <1>15, <1>16, <1>17, <1>18, <1>19, <1>20, <1>21, <1>22, <1>23, ByName

\* Releases.
LEMMA ReachedStep ==
    ASSUME UpdaterTypeOK, Still, Reached, [UpdaterNext]_updaterVars
    PROVE  Reached'
<1> USE UpdaterAssumption DEF UpdaterTypeOK, Still, Reached, Database, Closed, Guarded, Tried, Undone, Mixed, dirs
<1>1. ASSUME NEW v \in Releases, Copy(v) PROVE Reached'
  BY <1>1 DEF Copy, CopyOf, Present
<1>2. ASSUME NEW v \in Releases, RemoveHalf(v) PROVE Reached'
  BY <1>2 DEF RemoveHalf
<1>3. CASE Copied
  BY <1>3 DEF Copied, Go
<1>4. CASE Stop
  BY <1>4 DEF Stop, StopInto, Go, Opened, Found
<1>5. CASE TakeSnapshot
  BY <1>5 DEF TakeSnapshot, Go
<1>6. CASE Migrate
  BY <1>6 DEF Migrate, Go
<1>7. CASE LinkNext
  BY <1>7 DEF LinkNext, Go
<1>8. CASE Configure
  BY <1>8 DEF Configure, Go
<1>9. CASE StartNext
  BY <1>9 DEF StartNext, Go, Starts, Opened, Found
<1>10. CASE Ready
  BY <1>10 DEF Ready, Go
<1>11. CASE Prune
  BY <1>11 DEF Prune, Go
<1>12. CASE Relink
  BY <1>12 DEF Relink, Go
<1>13. CASE Restore
  BY <1>13 DEF Restore, Go
<1>14. CASE Revert
  BY <1>14 DEF Revert, RevertTo, Go
<1>15. CASE Restart
  BY <1>15 DEF Restart, Go, Starts, Opened, Found
<1>16. CASE MigrateFails
  BY <1>16 DEF MigrateFails, Go
<1>17. CASE Halts
  BY <1>17 DEF Halts, CutOff, HalfDone, Found, Harmless
<1>18. CASE Fails
  BY <1>18 DEF Fails, FailsInto, Go
<1>19. CASE Write
  BY <1>19 DEF Write
<1>20. CASE Dies
  BY <1>20 DEF Dies
<1>21. CASE Revives
  BY <1>21 DEF Revives, Starts, Opened, Found
<1>22. CASE Reboot
  BY <1>22 DEF Reboot, CutOff, HalfDone, Starts, Opened, Found, Harmless
<1>23. CASE UNCHANGED updaterVars
  BY <1>23 DEF updaterVars, dirs
<1>. QED
  BY <1>1, <1>2, <1>3, <1>4, <1>5, <1>6, <1>7, <1>8, <1>9, <1>10, <1>11, <1>12, <1>13,
  <1>14, <1>15, <1>16, <1>17, <1>18, <1>19, <1>20, <1>21, <1>22, <1>23, ByName

\* Directories.
LEMMA DirsStep ==
    ASSUME InOrder, UpdaterTypeOK, Dirs, [UpdaterNext]_updaterVars
    PROVE  Dirs'
<1> USE UpdaterAssumption DEF UpdaterTypeOK, Dirs, Tried, dirs
<1>1. ASSUME NEW v \in Releases, Copy(v) PROVE Dirs'
  BY <1>1 DEF Copy, CopyOf, Present
<1>2. ASSUME NEW v \in Releases, RemoveHalf(v) PROVE Dirs'
  BY <1>2 DEF RemoveHalf
<1>3. CASE Copied
  BY <1>3 DEF Copied, Go
<1>4. CASE Stop
  BY <1>4 DEF Stop, StopInto, Go, Opened, Found
<1>5. CASE TakeSnapshot
  BY <1>5 DEF TakeSnapshot, Go
<1>6. CASE Migrate
  BY <1>6 DEF Migrate, Go
<1>7. CASE LinkNext
  BY <1>7 DEF LinkNext, Go
<1>8. CASE Configure
  BY <1>8 DEF Configure, Go
<1>9. CASE StartNext
  BY <1>9 DEF StartNext, Go, Starts, Opened, Found
<1>10. CASE Ready
  BY <1>10 DEF Ready, Go
<1>11. CASE Prune
  <2>1. /\ halves = {} /\ update.next \in whole /\ current = update.next
        /\ \A w \in whole : w \leq update.next
    BY <1>11 DEF Prune, Go
  <2>2. current \in Newest
    <3> DEFINE Newer(v, w) == \/ v \in halves /\ w \in whole
                              \/ (v \in halves <=> w \in halves) /\ v > w
               ahead == {v \in whole \cup halves : Newer(v, current)}
    <3>1. ahead = {}
      BY <2>1
    <3>2. Cardinality(ahead) = 0
      BY <3>1, FS_EmptySet
    <3>. QED BY <2>1, <3>2 DEF Newest
  <2>. QED BY <1>11, <2>1, <2>2 DEF Prune, Go
<1>12. CASE Relink
  BY <1>12 DEF Relink, Go
<1>13. CASE Restore
  BY <1>13 DEF Restore, Go
<1>14. CASE Revert
  BY <1>14 DEF Revert, RevertTo, Go
<1>15. CASE Restart
  BY <1>15 DEF Restart, Go, Starts, Opened, Found
<1>16. CASE MigrateFails
  BY <1>16 DEF MigrateFails, Go
<1>17. CASE Halts
  BY <1>17 DEF Halts, CutOff, HalfDone, Found, Harmless
<1>18. CASE Fails
  BY <1>18 DEF Fails, FailsInto, Go
<1>19. CASE Write
  BY <1>19 DEF Write
<1>20. CASE Dies
  BY <1>20 DEF Dies
<1>21. CASE Revives
  BY <1>21 DEF Revives, Starts, Opened, Found
<1>22. CASE Reboot
  BY <1>22 DEF Reboot, CutOff, HalfDone, Starts, Opened, Found, Harmless
<1>23. CASE UNCHANGED updaterVars
  BY <1>23 DEF updaterVars, dirs
<1>. QED
  BY <1>1, <1>2, <1>3, <1>4, <1>5, <1>6, <1>7, <1>8, <1>9, <1>10, <1>11, <1>12, <1>13,
  <1>14, <1>15, <1>16, <1>17, <1>18, <1>19, <1>20, <1>21, <1>22, <1>23, ByName

-----------------------------------------------------------------------------
(* The theorems *)

LEMMA StepUpdater ==
    ASSUME UpdaterIInv, [UpdaterNext]_updaterVars PROVE UpdaterIInv'
BY TypeStep, StillStep, CountedStep, ReachedStep DEF UpdaterIInv

\* What the invariant says when no script is at work.
LEMMA AtRest == UpdaterIInv => ReleaseTogether /\ WritesKept
BY DEF UpdaterIInv, Reached, Counted, ReleaseTogether, WritesKept

\* The state of the updater always has its type.
THEOREM UpdaterTypeCorrect == UpdaterSpec => []UpdaterTypeOK
<1>1. UpdaterIInv => UpdaterTypeOK
  BY DEF UpdaterIInv
<1>. QED BY <1>1, InitUpdater, StepUpdater, PTL DEF UpdaterSpec

\* Whatever releases are installed, whichever command of apply-update fails and whenever a
\* process ends: the release that runs, the environment and the schema of the database are
\* those of "current", with the two exceptions the property names.
THEOREM ReleasesTogether == UpdaterSpec => []ReleaseTogether
BY InitUpdater, StepUpdater, AtRest, PTL DEF UpdaterSpec

\* No update and no rollback takes back a write from before the update.
THEOREM WritesStay == UpdaterSpec => []WritesKept
BY InitUpdater, StepUpdater, AtRest, PTL DEF UpdaterSpec

\* As long as releases are installed in their order, "current" names a whole directory: the
\* test for the directory and the order of the newest ones protect it together.
THEOREM CurrentStaysWhole ==
    ASSUME InOrder PROVE UpdaterSpec => []CurrentIsWhole
<1>1. UpdaterIInv /\ Dirs /\ [UpdaterNext]_updaterVars => (UpdaterIInv /\ Dirs)'
  <2>1. UpdaterIInv => UpdaterTypeOK
    BY DEF UpdaterIInv
  <2>. QED BY <2>1, StepUpdater, DirsStep
<1>2. Dirs => CurrentIsWhole
  BY DEF Dirs, CurrentIsWhole
<1>. QED BY <1>1, <1>2, InitUpdater, PTL DEF UpdaterSpec

=============================================================================
