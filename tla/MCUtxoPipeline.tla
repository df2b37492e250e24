--------------------------- MODULE MCUtxoPipeline ---------------------------
(* Small instances of UtxoPipeline: a1 and a3 are two users' rows for the    *)
(* same address, and so are a2 and a4.                                       *)
EXTENDS UtxoPipeline

CONSTANTS a1, a2, a3, a4, s1, s2

MCAddr == {a1, a2, a3}
MCAddrFour == {a1, a2, a3, a4}
MCHash == [a \in MCAddr |-> IF a = a2 THEN s2 ELSE s1]
MCHashFour == [a \in MCAddrFour |-> IF a \in {a2, a4} THEN s2 ELSE s1]
MCStoredOne == {a1}
MCStoredTwo == {a1, a2}
=============================================================================
