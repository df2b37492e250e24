------------------------- MODULE MCEmailVerification -------------------------
(* Two addresses; i1 and i3 are two rows of one, created one after the other. *)
EXTENDS EmailVerification, TLC

CONSTANTS i1, i2, i3, m1, m2, r1, r2

MCMailboxOf == [i \in {i1, i2, i3} |-> IF i = i2 THEN m2 ELSE m1]
MCReq == {r1, r2}

Symmetry == Permutations({i1, i3}) \cup Permutations(MCReq)
=============================================================================
