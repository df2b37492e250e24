------------------------------ MODULE Listings ------------------------------
(***************************************************************************)
(* Lists of distinct rows.                                                 *)
(***************************************************************************)
EXTENDS Integers, Sequences, FiniteSets

Elems(s) == {s[i] : i \in DOMAIN s}

\* Sequences that list every element of S once: the row orders a SELECT
\* without ORDER BY may return, and the batches a request may build.
Orderings(S) ==
    {s \in [1..Cardinality(S) -> S] :
        \A i, j \in 1..Cardinality(S) : i # j => s[i] # s[j]}

BatchesOf(S) == UNION {Orderings(T) : T \in SUBSET S}
=============================================================================
