------------------------------- MODULE MCHost -------------------------------
(***************************************************************************)
(* An instance of Setup and Updater for TLC.  Both scripts replace the     *)
(* environment, but an update is asked for by the owner, and there is none *)
(* before the setup has ended; so a behaviour here moves one of them and   *)
(* leaves the other as it began.                                           *)
(***************************************************************************)
EXTENDS Setup, Updater

CONSTANTS c1, c2, d1, d2     \* model values

VARIABLE part       \* the one that moves

hostVars == <<setupVars, updaterVars, part>>

HostInit ==
    /\ SetupInit
    /\ UpdaterInit
    /\ part \in {"setup", "update"}

HostNext ==
    /\ \/ part = "setup" /\ SetupNext /\ UNCHANGED updaterVars
       \/ part = "update" /\ UpdaterNext /\ UNCHANGED setupVars
    /\ UNCHANGED part

HostSpec == HostInit /\ [][HostNext]_hostVars /\ SetupFairness /\ UpdaterFairness

=============================================================================
