------------------------------- MODULE Lists -------------------------------
(***************************************************************************)
(* Rows listed in an order, as by a query that has an ORDER BY.            *)
(***************************************************************************)
EXTENDS Naturals, FiniteSets

\* The list of the rows of a set in which each stands behind those before it.
Listed(rows, before) ==
    CHOOSE list \in [1..Cardinality(rows) -> rows] :
        \A i, j \in 1..Cardinality(rows) : i < j => <<list[i], list[j]>> \in before

=============================================================================
