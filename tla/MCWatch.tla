------------------------------ MODULE MCWatch ------------------------------
(***************************************************************************)
(* An instance of Presence and Monitoring for TLC.  They share the form of *)
(* their rows and no row, so every behaviour of both is one of each side   *)
(* by side; a behaviour here moves one of them and leaves the other as it  *)
(* began.                                                                  *)
(***************************************************************************)
EXTENDS Presence, Monitoring

CONSTANTS d1, p1

VARIABLE part       \* the one that moves

WatchInit ==
    /\ PresenceInit
    /\ MonitoringInit
    /\ part \in {"presence", "monitoring"}

WatchNext ==
    /\ \/ part = "presence" /\ PresenceNext /\ UNCHANGED monitoringVars
       \/ part = "monitoring" /\ MonitoringNext /\ UNCHANGED presenceVars
    /\ UNCHANGED part

WatchSpec == WatchInit /\ [][WatchNext]_<<presenceVars, monitoringVars, part>>

=============================================================================
