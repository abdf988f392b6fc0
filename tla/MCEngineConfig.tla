--------------------------- MODULE MCEngineConfig ---------------------------
(* Instances of EngineConfig for TLC. *)
EXTENDS EngineConfig, TLC

CONSTANTS default, rejected, crashing

\* Calls are alike: no action and no invariant names one.
Alike == Permutations(Calls)

=============================================================================
