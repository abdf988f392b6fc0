------------------------------ MODULE MCPanel ------------------------------
(***************************************************************************)
(* An instance of Owner, Routes and Journal for TLC.  They are tables of   *)
(* the panel and share none, so a behaviour here moves one of them and     *)
(* leaves the others as they began.                                        *)
(***************************************************************************)
EXTENDS Owner, Routes, Journal

CONSTANTS kindA, kindB, c1, c2, c3, k1, k2, s1, s2, r1, r2, r3, r4    \* model values

VARIABLE part       \* the one that moves

PanelInit ==
    /\ OwnerInit
    /\ RoutesInit
    /\ JournalInit
    /\ part \in {"owner", "routes", "journal"}
    /\ part # "journal" => events = <<>>

PanelNext ==
    /\ \/ part = "owner" /\ OwnerNext /\ UNCHANGED <<routesVars, journalVars>>
       \/ part = "routes" /\ RoutesNext /\ UNCHANGED <<ownerVars, journalVars>>
       \/ part = "journal" /\ JournalNext /\ UNCHANGED <<ownerVars, routesVars>>
    /\ UNCHANGED part

PanelSpec == PanelInit /\ [][PanelNext]_<<ownerVars, routesVars, journalVars, part>>

=============================================================================
