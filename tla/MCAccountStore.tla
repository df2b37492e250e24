---------------------------- MODULE MCAccountStore ----------------------------
(* u1 may have two xpubs, of which x2 has a key that does not parse.         *)
EXTENDS AccountStore, TLC

CONSTANTS u1, u2, x1, x2, a1, a2

MCPubkey == [x \in {x1, x2} |-> IF x = x1 THEN "key1" ELSE "key2"]
MCPubkeyOne == [x \in {x1} |-> "key1"]
MCXpubOwner == [x \in {x1, x2} |-> u1]
MCXpubOwnerOne == [x \in {x1} |-> u1]
MCAddrOwner == [a \in {a1, a2} |-> u1]
MCSymmetry == Permutations(Req)
=============================================================================
