------------------------------ MODULE Updater ------------------------------
(***************************************************************************)
(* Updates of the control plane itself (infra/scripts/apply-update): the   *)
(* script copies a release, stops the service, takes a snapshot of the     *)
(* database, and from there on an ERR trap undoes what a failing command   *)
(* leaves.  The environment, the database and the link "current" have to   *)
(* name the same release when the service runs.                            *)
(*                                                                         *)
(* The script is a child of the agent (agent/cmd/matreshka-agent/main.go)  *)
(* and ends with it, without the trap.  One update is at work at a time,   *)
(* which nothing in the code enforces, and what a single command of the    *)
(* script does is one step.                                                *)
(*                                                                         *)
(* SQLite keeps what a process has written in a log beside the database    *)
(* until the process closes it; who opens the database finds the log.      *)
(***************************************************************************)
EXTENDS Naturals, FiniteSets

CONSTANTS
    Releases,       \* numbered as they were built, which dates their directories
    Installed,      \* the one the server was installed with
    Broken,         \* releases that do not become ready, or whose process dies
    Kept,           \* directories a successful update keeps; 3 in the script
    InOrder,        \* whether releases are installed as they were built, and what a failed
                    \* copy has left is removed before the next update
    NoRelease,
    MaxWrites,      \* bound: writes of the service
    MaxMishaps      \* bound: failing commands, ends of processes and of the host

ASSUME UpdaterAssumption ==
    /\ Installed \in Releases \ Broken
    /\ Releases \subseteq Nat
    /\ IsFiniteSet(Releases)
    /\ Kept \in Nat \ {0}
    /\ InOrder \in BOOLEAN
    /\ NoRelease \notin Releases
    /\ MaxWrites \in Nat
    /\ MaxMishaps \in Nat

VARIABLES
    whole,          \* directories with all the files of a release
    halves,         \* directories that a copy has not completed
    current,        \* where the symbolic link points
    env,            \* the release the environment names
    database,       \* the release of its schema and the writes in it
    log,            \* whose log may lie beside the database: "other" after a Restore
    snapshot,       \* the database as it was before the update
    runs,           \* the release the service runs; NoRelease when stopped or dead
    wanted,         \* whether systemd has been told to run the service
    update,         \* the step of the script, its release and what was current
    lasting,        \* history: the writes nobody expects to lose
    unsure,         \* history: what the script cannot answer for
    mishaps         \* spent so far

dirs == <<whole, halves>>
updaterVars == <<dirs, current, env, database, log, snapshot, runs, wanted, update, lasting,
                 unsure, mishaps>>

\* From "armed" to "started" under the trap, which goes on with "relink".
Tried == {"armed", "migrated", "linked", "configured", "started"}
Undone == {"relink", "restore", "revert", "restart"}
Steps == {"none", "copy", "copied", "stopped", "ready"} \cup Tried \cup Undone

\* Where the script may end without leaving anything half done but a directory.
Harmless == {"none", "copy", "copied", "ready"}

\* The schema of no release: of a database with the log of another, or migrated in part.
Mixed == NoRelease
Database == [schema : Releases \cup {Mixed}, writes : 0..MaxWrites]

UpdaterTypeOK ==
    /\ whole \subseteq Releases
    /\ halves \subseteq Releases
    /\ current \in Releases
    /\ env \in Releases
    /\ database \in Database
    /\ log \in {"none", "own", "other"}
    /\ snapshot \in Database
    /\ runs \in Releases \cup {NoRelease}
    /\ wanted \in BOOLEAN
    /\ update \in [step : Steps, next : Releases, previous : Releases]
    /\ lasting \in 0..MaxWrites
    /\ unsure \subseteq {"cut", "log"}
    /\ mishaps \in 0..MaxMishaps

UpdaterInit ==
    /\ whole = {Installed}
    /\ halves = {}
    /\ current = Installed
    /\ env = Installed
    /\ database = [schema |-> Installed, writes |-> 0]
    /\ log = "own"
    /\ snapshot = database
    /\ runs = Installed
    /\ wanted = TRUE
    /\ update = [step |-> "none", next |-> Installed, previous |-> Installed]
    /\ lasting = 0
    /\ unsure = {}
    /\ mishaps = 0

Mishap ==
    /\ mishaps < MaxMishaps
    /\ mishaps' = mishaps + 1

Go(from, to) ==
    /\ update.step = from
    /\ update' = [update EXCEPT !.step = to]

\* Who opens the database finds the log, whosever it is.
Opened == IF log = "other" THEN [database EXCEPT !.schema = Mixed] ELSE database
Found == IF log = "other" THEN {"log"} ELSE {}

\* A process of the service is started.
Starts(besides) ==
    /\ database' = Opened
    /\ log' = "own"
    /\ runs' = current
    /\ wanted' = TRUE
    /\ unsure' = unsure \cup besides \cup Found

-----------------------------------------------------------------------------
(* The script, up to the trap *)

Present(v) == v \in whole \cup halves

CopyOf(v) ==
    /\ update.step = "none"
    /\ InOrder => halves = {} /\ \A w \in whole : w \leq v
    /\ update' = [step |-> "copy", next |-> v, previous |-> current]
    /\ halves' = halves \cup {v}
    /\ whole' = whole \ {v}
    /\ UNCHANGED <<current, env, database, log, snapshot, runs, wanted, lasting, unsure, mishaps>>

\* The test for the directory is missing.
Bug_CopyOver(v) == CopyOf(v)

\* Signature, environment and checksums have been seen to; the directory must be new.
Copy(v) ==
    /\ ~Present(v)
    /\ CopyOf(v)

Copied ==
    /\ Go("copy", "copied")
    /\ whole' = whole \cup {update.next}
    /\ halves' = halves \ {update.next}
    /\ UNCHANGED <<current, env, database, log, snapshot, runs, wanted, lasting, unsure, mishaps>>

\* The administrator removes it, so that the release can be installed.
RemoveHalf(v) ==
    /\ update.step = "none"
    /\ v \in halves
    /\ halves' = halves \ {v}
    /\ UNCHANGED <<whole, current, env, database, log, snapshot, runs, wanted, update, lasting,
                   unsure, mishaps>>

StopInto(service, leaves) ==
    /\ Go("copied", "stopped")
    /\ runs' = service
    /\ wanted' = FALSE
    /\ log' = leaves
    /\ database' = Opened
    /\ unsure' = unsure \cup Found
    /\ UNCHANGED <<dirs, current, env, snapshot, lasting, mishaps>>

\* The snapshot is taken from a service at work.
Bug_StopNot == StopInto(runs, log)

\* The process closes its database; the checkpoint sees to the log of one that had died.
Stop == StopInto(NoRelease, "none")

TakeSnapshot ==
    /\ Go("stopped", "armed")
    /\ snapshot' = database
    /\ UNCHANGED <<dirs, current, env, database, log, runs, wanted, lasting, unsure, mishaps>>

-----------------------------------------------------------------------------
(* Under the trap *)

Migrate ==
    /\ Go("armed", "migrated")
    /\ database' = [database EXCEPT !.schema = update.next]
    /\ UNCHANGED <<dirs, current, env, log, snapshot, runs, wanted, lasting, unsure, mishaps>>

LinkNext ==
    /\ Go("migrated", "linked")
    /\ current' = update.next
    /\ UNCHANGED <<dirs, env, database, log, snapshot, runs, wanted, lasting, unsure, mishaps>>

Configure ==
    /\ Go("linked", "configured")
    /\ env' = update.next
    /\ UNCHANGED <<dirs, current, database, log, snapshot, runs, wanted, lasting, unsure, mishaps>>

\* The unit files, daemon-reload and systemctl start.
StartNext ==
    /\ Go("configured", "started")
    /\ Starts({})
    /\ UNCHANGED <<dirs, current, env, snapshot, lasting, mishaps>>

\* readyz answers, and the trap is taken off.
Ready ==
    /\ Go("started", "ready")
    /\ runs \notin Broken \cup {NoRelease}
    /\ lasting' = database.writes
    /\ UNCHANGED <<dirs, current, env, database, log, snapshot, runs, wanted, unsure, mishaps>>

\* The constructor throws between two migrations, and the connection stays open to the end
\* of the command, which may leave a log.
MigrateFails ==
    /\ Go("armed", "relink")
    /\ Mishap
    /\ \E schema \in {database.schema, update.next, Mixed} :
          database' = [database EXCEPT !.schema = schema]
    /\ log' \in {"none", "own"}
    /\ UNCHANGED <<dirs, current, env, snapshot, runs, wanted, lasting, unsure>>

\* Another command fails, or readyz does not answer for thirty seconds.
FailsInto(step) ==
    /\ update.step \in Tried \ {"armed"}
    /\ Go(update.step, step)
    /\ IF update.step = "started" /\ runs \in Broken \cup {NoRelease} THEN UNCHANGED mishaps
       ELSE Mishap
    /\ UNCHANGED <<dirs, current, env, database, log, snapshot, runs, wanted, lasting, unsure>>

\* There is no trap.
Bug_FailsUntrapped == FailsInto("none")

Fails == FailsInto("relink")

Relink ==
    /\ Go("relink", "restore")
    /\ current' = update.previous
    /\ UNCHANGED <<dirs, env, database, log, snapshot, runs, wanted, lasting, unsure, mishaps>>

\* The log is not touched, and a process that runs keeps the file it has opened.
Restore ==
    /\ Go("restore", "revert")
    /\ database' = snapshot
    /\ log' = IF log = "none" THEN "none" ELSE "other"
    /\ UNCHANGED <<dirs, current, env, snapshot, runs, wanted, lasting, unsure, mishaps>>

RevertTo(version) ==
    /\ Go("revert", "restart")
    /\ env' = version
    /\ UNCHANGED <<dirs, current, database, log, snapshot, runs, wanted, lasting, unsure, mishaps>>

\* The environment is not part of the rollback.
Bug_RevertNot == RevertTo(env)

Revert == RevertTo(update.previous)

\* systemctl restart.  A process that is there is asked to end and may take its log along.
Restart ==
    /\ Go("restart", "none")
    /\ \/ Starts({})
       \/ /\ runs # NoRelease
          /\ log' = "own"
          /\ runs' = current
          /\ wanted' = TRUE
          /\ UNCHANGED <<database, unsure>>
    /\ UNCHANGED <<dirs, current, env, snapshot, lasting, mishaps>>

\* The newest of all directories; what a failed copy has left is dated by the failure.
Newest ==
    LET Newer(v, w) == \/ v \in halves /\ w \in whole
                       \/ (v \in halves <=> w \in halves) /\ v > w
    IN  {w \in whole \cup halves :
            Cardinality({v \in whole \cup halves : Newer(v, w)}) < Kept}

Prune ==
    /\ Go("ready", "none")
    /\ whole' = whole \cap Newest
    /\ halves' = halves \cap Newest
    /\ UNCHANGED <<current, env, database, log, snapshot, runs, wanted, lasting, unsure, mishaps>>

-----------------------------------------------------------------------------
(* The host *)

\* A process writes.  What it writes to a file that has been replaced goes with the file.
Write ==
    /\ runs # NoRelease
    /\ log # "other"
    /\ database.writes < MaxWrites
    /\ database' = [database EXCEPT !.writes = @ + 1]
    /\ lasting' = IF update.step \in {"started"} \cup Undone THEN lasting ELSE lasting + 1
    /\ UNCHANGED <<dirs, current, env, log, snapshot, runs, wanted, update, unsure, mishaps>>

\* A process ends and leaves its log.
Dies ==
    /\ runs # NoRelease
    /\ IF runs \in Broken THEN UNCHANGED mishaps ELSE Mishap
    /\ runs' = NoRelease
    /\ UNCHANGED <<dirs, current, env, database, log, snapshot, wanted, update, lasting, unsure>>

\* Restart=always (matreshka.service): a process that has died is started again, one that
\* was stopped is not.
Revives ==
    /\ runs = NoRelease
    /\ wanted
    /\ Starts({})
    /\ UNCHANGED <<dirs, current, env, snapshot, update, lasting, mishaps>>

\* The script is gone, wherever it was, and undoes nothing.
CutOff ==
    /\ Mishap
    /\ update' = [update EXCEPT !.step = "none"]
    /\ lasting' = database.writes
    /\ UNCHANGED <<dirs, current, env, snapshot>>

HalfDone == IF update.step \in Harmless THEN {} ELSE {"cut"}

\* A command fails before the trap is set, within the rollback or after the trap, or the
\* script ends with the agent: a service that was stopped stays stopped.
Halts ==
    /\ update.step # "none"
    /\ CutOff
    /\ unsure' = unsure \cup HalfDone \cup Found
    /\ UNCHANGED <<database, log, runs, wanted>>

\* The host ends and starts again, with the service that is installed.
Reboot ==
    /\ CutOff
    /\ Starts(HalfDone)

ScriptStep ==
    \/ Copied \/ Stop \/ TakeSnapshot
    \/ Migrate \/ LinkNext \/ Configure \/ StartNext \/ Ready \/ Prune
    \/ Relink \/ Restore \/ Revert \/ Restart

UpdaterNext ==
    \/ \E v \in Releases : Copy(v) \/ RemoveHalf(v)
    \/ ScriptStep
    \/ MigrateFails \/ Fails \/ Halts
    \/ Write \/ Dies \/ Revives \/ Reboot

\* A script that is neither cut off nor halted goes on, and its wait for readyz is limited.
UpdaterFairness ==
    /\ WF_updaterVars(ScriptStep \/ (update.step = "started" /\ Fails))
    /\ WF_updaterVars(Revives)

UpdaterSpec == UpdaterInit /\ [][UpdaterNext]_updaterVars /\ UpdaterFairness

-----------------------------------------------------------------------------
(* Properties *)

\* Wherever the script fails or the host ends, "current" names a directory with all its
\* files, which the next start of the service needs (apply-update).
CurrentIsWhole == current \in whole

\* After an update or its rollback, the release that runs, the one the environment names
\* and the one the database was migrated for are "current": unless a script was cut off
\* between its commands, or the rollback has put the database of before the update under
\* the log of another.
ReleaseTogether ==
    update.step = "none" /\ unsure = {} =>
        /\ runs \in {current, NoRelease}
        /\ env = current
        /\ database.schema = current

\* Neither the rollback nor a cut-off script takes back what was written before the update,
\* and what was written during one that is not rolled back stays.
WritesKept ==
    update.step = "none" /\ "log" \notin unsure => database.writes = lasting

\* A service that is stopped or has died comes back, by the update, its rollback or systemd,
\* unless a script was cut off after it had stopped the service.
ServiceComesBack ==
    (runs = NoRelease) ~>
        \/ runs # NoRelease
        \/ update.step = "none" /\ ~wanted /\ "cut" \in unsure

\* "After an unsuccessful readiness the code link and the snapshot of the database from
\* before the migration are restored" (DEPLOYMENT.md): the old release finds the old schema.
RollbackRestores ==
    update.step = "none" /\ unsure \subseteq {"log"} => database.schema = current

=============================================================================
