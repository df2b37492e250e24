----------------------------- MODULE MCTxMonitor -----------------------------
(* Both transactions have an output without an address and one that pays a1, *)
(* which r1 and r2, rows of two users, have; t2 spends what t1 paid.  In     *)
(* MCOutsAway t2 pays nobody who is watched.                                 *)
EXTENDS TxMonitor

CONSTANTS t1, t2, a1, r1, r2, w1, e1, webhook, email

MCAddressOf == [r \in {r1, r2} |-> a1]
MCAddressOfOne == [r \in {r1} |-> a1]

MCOuts == [t \in {t1, t2} |-> <<NoAddr, a1>>]
MCOutsAway == [t \in {t1, t2} |-> IF t = t1 THEN <<NoAddr, a1>> ELSE <<NoAddr>>]
MCIns == [t \in {t1, t2} |-> IF t = t2 THEN <<[tx |-> t1, addr |-> a1]>> ELSE <<>>]

MCEndpoints ==
    [n \in {webhook, email} |-> [r \in {r1, r2} |-> IF n = email THEN {e1} ELSE {w1}]]

\* At the start t1 is in a block.  Either its spend comes, into the mempool and
\* into a block, while one row is added and deleted; or the spend is in the
\* mempool, and one row is watched while another comes and goes.
MCInit ==
    /\ Init
    /\ \/ /\ status = [t \in Tx |-> IF t = t1 THEN "mined" ELSE "unseen"]
          /\ row = [r \in Row |-> IF r = r1 THEN "none" ELSE "deleted"]
       \/ /\ status = [t \in Tx |-> IF t = t1 THEN "mined" ELSE "mempool"]
          /\ row = [r \in Row |-> IF r = r1 THEN "watched" ELSE "none"]
MCSpec == MCInit /\ [][Next]_vars /\ Fairness
=============================================================================
