------------------------------- MODULE Setup -------------------------------
(***************************************************************************)
(* The first setup: a server that was installed under its address gets its *)
(* domain.  The panel (SetupService.finalize) checks the token and the DNS *)
(* and asks the agent, which starts infra/scripts/finalize-domain as a     *)
(* unit of its own: the script survives the panel and the panel's          *)
(* patience.  It replaces four files under an EXIT trap, and restarts the  *)
(* panel, which has read its mode from one of them, two seconds later.     *)
(***************************************************************************)
EXTENDS Naturals

CONSTANTS
    Calls,          \* POST /setup/domain
    Domains,
    Address,        \* the name the server was installed under; setup lasts while it has it
    NoName,
    Overlap,        \* whether setup is tried again while a script is still at work
    MaxFaults       \* bound: failing commands, and ends of the panel and of the host

ASSUME SetupAssumption ==
    /\ Address \notin Domains
    /\ NoName \notin Domains \cup {Address}
    /\ Overlap \in BOOLEAN
    /\ MaxFaults \in Nat

VARIABLES
    files,          \* the name in each of the four files
    served,         \* the name nginx has loaded
    certificates,
    engines,        \* whether both are enabled and started
    panel,          \* the name the process has read from the environment
    due,            \* a restart of the panel is scheduled
    call,           \* a request and, later, its script
    given,          \* history: the name the first script has finished with
    cut,            \* history: who ended while a script was replacing files
    faults          \* spent so far

setupVars == <<files, served, certificates, engines, panel, due, call, given, cut, faults>>

Names == Domains \cup {Address}

\* In the order they are installed and restored.
Files == <<"nginx", "env", "hysteria", "xray">>
File == {Files[i] : i \in 1..4}

Armed == {"install", "reload", "enable"}
CallSteps == {"idle", "resolve", "check", "certify", "save", "rollback"} \cup Armed
Call == [step : CallSteps, domain : Domains \cup {NoName}, n : 0..4,
         saved : [File -> Names \cup {NoName}]]
Idle == [step |-> "idle", domain |-> NoName, n |-> 0, saved |-> [f \in File |-> NoName]]

SetupTypeOK ==
    /\ files \in [File -> Names]
    /\ served \in Names
    /\ certificates \subseteq Names
    /\ engines \in BOOLEAN
    /\ panel \in Names
    /\ due \in BOOLEAN
    /\ call \in [Calls -> Call]
    /\ given \in Names \cup {NoName}
    /\ cut \subseteq {"panel", "host"}
    /\ faults \in 0..MaxFaults

SetupInit ==
    /\ files = [f \in File |-> Address]
    /\ served = Address
    /\ certificates = {Address}
    /\ engines = FALSE
    /\ panel = Address
    /\ due = FALSE
    /\ call = [c \in Calls |-> Idle]
    /\ given = NoName
    /\ cut = {}
    /\ faults = 0

Fault ==
    /\ faults < MaxFaults
    /\ faults' = faults + 1

AtWork(c) == call[c].step \notin {"idle", "resolve"}

To(c, from, to) ==
    /\ call[c].step = from
    /\ call' = [call EXCEPT ![c].step = to]

Ends(c, from) ==
    /\ call[c].step = from
    /\ call' = [call EXCEPT ![c] = Idle]

-----------------------------------------------------------------------------
(* The panel *)

\* requireSetup, the token, and the DNS that is awaited.
Finalize(c, d) ==
    /\ call[c].step = "idle"
    /\ panel = Address
    /\ Overlap \/ \A other \in Calls : call[other].step = "idle"
    /\ call' = [call EXCEPT ![c] = [Idle EXCEPT !.step = "resolve", !.domain = d]]
    /\ UNCHANGED <<files, served, certificates, engines, panel, due, given, cut, faults>>

\* The answer names this server, and the agent starts the script; or it does not.
Resolved(c) ==
    /\ To(c, "resolve", "check") \/ Ends(c, "resolve")
    /\ UNCHANGED <<files, served, certificates, engines, panel, due, given, cut, faults>>

-----------------------------------------------------------------------------
(* The script *)

\* MATRESHKA_SETUP of the file, which the process may no longer know.
Bug_CheckNot(c) ==
    /\ To(c, "check", "certify")
    /\ UNCHANGED <<files, served, certificates, engines, panel, due, given, cut, faults>>

Check(c) ==
    /\ IF files["env"] = Address THEN To(c, "check", "certify") ELSE Ends(c, "check")
    /\ UNCHANGED <<files, served, certificates, engines, panel, due, given, cut, faults>>

\* certbot certonly obtains a certificate, or fails.
Certify(c) ==
    /\ \/ /\ To(c, "certify", "save")
          /\ certificates' = certificates \cup {call[c].domain}
       \/ /\ Ends(c, "certify")
          /\ UNCHANGED certificates
    /\ UNCHANGED <<files, served, engines, panel, due, given, cut, faults>>

\* Copies of the four files; from here on the trap is armed.
Save(c) ==
    /\ call[c].step = "save"
    /\ call' = [call EXCEPT ![c].step = "install", ![c].n = 0, ![c].saved = files]
    /\ UNCHANGED <<files, served, certificates, engines, panel, due, given, cut, faults>>

Replace(c, names) ==
    /\ call[c].n < 4
    /\ LET n == call[c].n + 1 IN
          /\ files' = [files EXCEPT ![Files[n]] = names[Files[n]]]
          /\ call' = [call EXCEPT ![c].n = n]

Install(c) ==
    /\ call[c].step = "install"
    /\ Replace(c, [f \in File |-> call[c].domain])
    /\ UNCHANGED <<served, certificates, engines, panel, due, given, cut, faults>>

\* nginx -t and the reload.
Reload(c) ==
    /\ call[c].n = 4
    /\ To(c, "install", "reload")
    /\ files["nginx"] \in certificates
    /\ served' = files["nginx"]
    /\ UNCHANGED <<files, certificates, engines, panel, due, given, cut, faults>>

Enable(c) ==
    /\ To(c, "reload", "enable")
    /\ engines' = TRUE
    /\ UNCHANGED <<files, served, certificates, panel, due, given, cut, faults>>

\* The trap is disarmed, the certificate of the address deleted if that works.
FinishWith(c, scheduled) ==
    /\ Ends(c, "enable")
    /\ certificates' \in {certificates, certificates \ {Address}}
    /\ due' = scheduled
    /\ given' = IF given = NoName THEN call[c].domain ELSE given
    /\ cut' = {}
    /\ UNCHANGED <<files, served, engines, panel, faults>>

\* The panel is not restarted.
Bug_FinishNoRestart(c) == FinishWith(c, due)

Finish(c) == FinishWith(c, TRUE)

FailsIn(c, steps, to) ==
    /\ call[c].step \in steps
    /\ Fault
    /\ call' = [call EXCEPT ![c].step = to, ![c].n = 0]
    /\ UNCHANGED <<files, served, certificates, panel, due, given, cut>>

\* The trap only cleans up.
Bug_FailsUnarmed(c) ==
    FailsIn(c, Armed, "idle") /\ UNCHANGED engines

\* A command fails, or nginx -t refuses; the rollback disables the engines first.
ScriptFails(c) ==
    FailsIn(c, Armed, "rollback") /\ engines' = FALSE

Rollback(c) ==
    /\ call[c].step = "rollback"
    /\ Replace(c, call[c].saved)
    /\ UNCHANGED <<served, certificates, engines, panel, due, given, cut, faults>>

\* nginx -t decides whether nginx is reloaded.
ReloadPrevious(c) ==
    /\ call[c].n = 4
    /\ Ends(c, "rollback")
    /\ served' = IF files["nginx"] \in certificates THEN files["nginx"] ELSE served
    /\ UNCHANGED <<files, certificates, engines, panel, due, given, cut, faults>>

-----------------------------------------------------------------------------
(* Restarts *)

Forgotten == [c \in Calls |-> IF AtWork(c) THEN call[c] ELSE Idle]

\* The restart the script has scheduled.
RestartPanel ==
    /\ due
    /\ due' = FALSE
    /\ panel' = files["env"]
    /\ call' = Forgotten
    /\ UNCHANGED <<files, served, certificates, engines, given, cut, faults>>

\* The process ends and systemd starts it again; scripts go on.
PanelEnds ==
    /\ Fault
    /\ panel' = files["env"]
    /\ call' = Forgotten
    /\ cut' = IF \E c \in Calls : AtWork(c) THEN cut \cup {"panel"} ELSE cut
    /\ UNCHANGED <<files, served, certificates, engines, due, given>>

HostEnds ==
    /\ Fault
    /\ panel' = files["env"]
    /\ served' = IF files["nginx"] \in certificates THEN files["nginx"] ELSE served
    /\ call' = [c \in Calls |-> Idle]
    /\ due' = FALSE
    /\ cut' = IF \E c \in Calls : AtWork(c) THEN cut \cup {"host"} ELSE cut
    /\ UNCHANGED <<files, certificates, engines, given>>

ScriptGoesOn(c) ==
    \/ Check(c) \/ Certify(c) \/ Save(c)
    \/ Install(c) \/ Reload(c) \/ Enable(c) \/ Finish(c)
    \/ Rollback(c) \/ ReloadPrevious(c)

SetupNext ==
    \/ \E c \in Calls :
          \/ \E d \in Domains : Finalize(c, d)
          \/ Resolved(c) \/ ScriptGoesOn(c) \/ ScriptFails(c)
    \/ RestartPanel \/ PanelEnds \/ HostEnds

\* Commands end, and systemd runs what was scheduled.
SetupFairness ==
    /\ \A c \in Calls : WF_setupVars(ScriptGoesOn(c))
    /\ WF_setupVars(RestartPanel)

SetupSpec == SetupInit /\ [][SetupNext]_setupVars /\ SetupFairness

-----------------------------------------------------------------------------
(* Properties *)

Quiet == \A c \in Calls : ~AtWork(c)

\* Whichever command of finalize-domain fails, the four files, nginx and its certificate
\* end with one name, and the engines are on exactly if it is a domain, unless the host
\* ended in the middle; and once the scheduled restart is done the panel works in the mode
\* of its environment, unless it was started anew between the files and their rollback.
DomainTogether ==
    Quiet =>
        /\ "host" \notin cut =>
              /\ \A f \in File : files[f] = served
              /\ served \in certificates
              /\ engines <=> served # Address
        /\ ~due /\ cut = {} => panel = files["env"]

\* The name is given once: what a script is asked while the panel still believes in the
\* setup changes no file any more (requireSetup asks the process, the script the file).
NameIsGivenOnce ==
    given # NoName => \A f \in File : files[f] = given

\* After the setup the panel leaves the setup mode, so that the owner can register.
SetupEnds ==
    (files["env"] # Address /\ Quiet) ~> (panel # Address)

=============================================================================
