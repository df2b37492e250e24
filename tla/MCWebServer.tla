------------------------------ MODULE MCWebServer ------------------------------
(* WebServer for TLC: two accounts of one name, the first of them an admin.  *)
EXTENDS WebServer, TLC

CONSTANTS a1, a2, b1, b2, s1, s2

MCAccount == {a1, a2}
MCNameOf == [a \in MCAccount |-> "satoshi"]
MCAdmin == {a1}
MCBrowser == {b1, b2}
MCSlot == {s1, s2}

\* A key, and one that does not parse; an address; descriptors that can be
\* watched, and one with each reason not to watch it.
Watchable == [kind |-> "descriptor", range |-> TRUE, solvable |-> TRUE,
              private |-> FALSE, checksum |-> FALSE, answers |-> 2]
MCForm == Key \cup Text \cup
          {Watchable, [Watchable EXCEPT !.range = FALSE, !.checksum = TRUE],
           [Watchable EXCEPT !.solvable = FALSE], [Watchable EXCEPT !.private = TRUE],
           [Watchable EXCEPT !.answers = 1]}

Symmetry == Permutations(MCBrowser) \cup Permutations(MCSlot)
=============================================================================
