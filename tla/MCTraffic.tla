------------------------------ MODULE MCTraffic ------------------------------
(* Instances of Traffic for TLC. *)
EXTENDS Traffic

OneEngine == <<"xray">>
BothEngines == <<"hysteria", "xray">>

\* Enough for a delta of two on one engine, with another engine beside it.
FewBytes == [e \in {"hysteria", "xray"} |-> IF e = "xray" THEN 2 ELSE 1]

=============================================================================
