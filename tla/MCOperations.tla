---------------------------- MODULE MCOperations ----------------------------
(* An instance of Operations for TLC. *)
EXTENDS Operations

CONSTANTS v1, v2, v3

=============================================================================
