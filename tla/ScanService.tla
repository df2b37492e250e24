----------------------------- MODULE ScanService -----------------------------
(***************************************************************************)
(* What the unspent-output cache promises, without goroutines, channels or *)
(* locks: a registry of watched addresses and one queue of scans.  Every   *)
(* registration queues one scan per address, in order; scans are delivered *)
(* one at a time, oldest first, each exactly once, to every address that   *)
(* is registered under the script hash at that moment; and a delivered     *)
(* result is one the Electrum server has given for that script hash since  *)
(* the process started, or NoUtxos for a call that failed.                 *)
(*                                                                         *)
(* UtxoPipeline implements it.                                             *)
(***************************************************************************)
EXTENDS Listings

CONSTANTS Addr, ScriptHash, Hash, NoUtxos

VARIABLES
    chain,     \* Electrum server: version of each unspent set
    watched,   \* registered addresses
    utxos,     \* last result of each address
    pending    \* script hashes to scan, oldest first

vars == <<chain, watched, utxos, pending>>

HashesOf(ids) == [i \in 1..Len(ids) |-> Hash[ids[i]]]

Init ==
    /\ chain = [s \in ScriptHash |-> 0]
    /\ watched = {}
    /\ utxos = [a \in Addr |-> NoUtxos]
    /\ pending = <<>>

\* The start of a process, after a crash or not: nothing is registered.
Restart ==
    /\ watched' = {} /\ utxos' = [a \in Addr |-> NoUtxos] /\ pending' = <<>>
    /\ UNCHANGED chain

\* The stored addresses are queued at start, before they are registered ...
Load ==
    /\ watched = {} /\ pending = <<>>
    /\ \E ids \in BatchesOf(Addr) : pending' = HashesOf(ids)
    /\ UNCHANGED <<chain, watched, utxos>>

\* ... and registered later, once.
Publish ==
    /\ watched = {}
    /\ \E S \in SUBSET Addr : watched' = S
    /\ UNCHANGED <<chain, utxos, pending>>

\* New addresses are registered and queued at once.
Register ==
    /\ \E ids \in BatchesOf(Addr) :
          /\ ids # <<>> /\ Elems(ids) \cap watched = {}
          /\ watched' = watched \cup Elems(ids)
          /\ pending' = pending \o HashesOf(ids)
    /\ UNCHANGED <<chain, utxos>>

Unregister ==
    /\ \E a \in Addr :
          /\ watched' = watched \ {a}
          /\ utxos' = [utxos EXCEPT ![a] = NoUtxos]
    /\ UNCHANGED <<chain, pending>>

Deliver ==
    /\ pending # <<>>
    /\ \E result \in (0..chain[Head(pending)]) \cup {NoUtxos} :
          utxos' = [a \in Addr |-> IF a \in watched /\ Hash[a] = Head(pending)
                                   THEN result ELSE utxos[a]]
    /\ pending' = Tail(pending)
    /\ UNCHANGED <<chain, watched>>

UnspentChanges ==
    /\ \E s \in ScriptHash : chain' = [chain EXCEPT ![s] = @ + 1]
    /\ UNCHANGED <<watched, utxos, pending>>

Next == Restart \/ Load \/ Publish \/ Register \/ Unregister \/ Deliver \/ UnspentChanges

Spec == Init /\ [][Next]_vars
=============================================================================
