------------------------------ MODULE AddressForm ------------------------------
(***************************************************************************)
(* What the address form makes of what was typed into it                   *)
(* (handlers_address.go Create): the batch of rows handed to CreateAddress *)
(* for an extended public key (lib/xpub.go), a descriptor                  *)
(* (clients/bitcoin.go GetAddressesFromDescriptor) or an address.          *)
(*                                                                         *)
(* An address is what determines it under one key: the chain and the       *)
(* index.  The version bytes of a key choose one of three functions, which *)
(* differ in the script only.  Bitcoin Core's two calls are external.      *)
(***************************************************************************)
EXTENDS Naturals, Sequences, SequencesExt

CONSTANTS
    Gap,        \* GAP: addresses derived on each chain
    Form        \* what is typed into the form

ASSUME GapAssumption == Gap \in Nat

Key == [kind : {"key"}, parses : BOOLEAN]
Descriptor == [kind : {"descriptor"}, range : BOOLEAN, solvable : BOOLEAN,
               private : BOOLEAN, checksum : BOOLEAN,
               answers : 0..2]  \* how many of its calls Bitcoin Core answers
Text == [kind : {"text"}]

ASSUME FormAssumption == Form \subseteq Key \cup Descriptor \cup Text

Row(address, external, index) ==
    [address |-> address, external |-> external, index |-> index]
Nothing == <<>>     \* the request ends with an error

-----------------------------------------------------------------------------
(* lib/xpub.go.                                                              *)

ChainZero(external) == 0
Chain(external) == IF external THEN 0 ELSE 1

GetAddressFromExtPubKey(external, i) == [chain |-> Chain(external), index |-> i]

\* Position 2i is external, 2i + 1 is change.
KeyRows(key) ==
    IF ~key.parses THEN Nothing
    ELSE [p \in 1..(2 * Gap) |->
             LET external == p % 2 = 1
                 i == (p - 1) \div 2
             IN  Row(GetAddressFromExtPubKey(external, i), external, i)]

-----------------------------------------------------------------------------
(* clients/bitcoin.go.                                                       *)

\* One call; the error of the transport, of the JSON or of Bitcoin Core is the
\* error of the request.
Request(answered, result) == IF answered THEN result ELSE Nothing

\* deriveaddresses: a checksum is needed, a range if and only if the
\* descriptor has one; a single number n stands for the range from 0 to n.
NoRange == <<>>
DeriveAddresses(descriptor, range) ==
    IF ~descriptor.checksum \/ (descriptor.range <=> range = NoRange) THEN Nothing
    ELSE LET last == IF range = NoRange THEN 0 ELSE range[1] IN
         [p \in 1..(last + 1) |-> [chain |-> 0, index |-> p - 1]]

\* getdescriptorinfo, then deriveaddresses with the checksum of the first.
GetAddressesFromDescriptor(descriptor) ==
    LET info == Request(descriptor.answers > 0, <<descriptor>>) IN
    IF info = Nothing \/ ~descriptor.solvable \/ descriptor.private THEN Nothing
    ELSE Request(descriptor.answers > 1,
                 DeriveAddresses([descriptor EXCEPT !.checksum = TRUE],
                                 IF descriptor.range THEN <<Gap>> ELSE NoRange))

\* The rows of a descriptor carry no chain and no index.
DescriptorRows(descriptor) ==
    [p \in DOMAIN GetAddressesFromDescriptor(descriptor) |->
        Row(GetAddressesFromDescriptor(descriptor)[p], FALSE, 0)]

-----------------------------------------------------------------------------
Typed == [chain |-> 0, index |-> 0]

Rows(input) ==
    CASE input.kind = "key" -> KeyRows(input)
      [] input.kind = "descriptor" -> DescriptorRows(input)
      [] input.kind = "text" -> <<Row(Typed, FALSE, 0)>>

-----------------------------------------------------------------------------
(* What the batch should be.                                                 *)

\* For a key: both chains, each index below the gap, each once, and every row
\* says where its address comes from.
KeyCovered(key, rows) ==
    /\ {rows[p].address : p \in DOMAIN rows} =
          IF key.parses THEN [chain : {0, 1}, index : 0..(Gap - 1)] ELSE {}
    /\ IsInjective(rows)
    /\ \A p \in DOMAIN rows :
          /\ rows[p].external <=> rows[p].address.chain = 0
          /\ rows[p].index = rows[p].address.index

\* For a descriptor that can be watched: the first addresses, at least as many
\* as the gap asks for; for another one, or a failed call, nothing.
DescriptorCovered(d, rows) ==
    /\ rows = Nothing <=> ~d.solvable \/ d.private \/ d.answers < 2
    /\ rows # Nothing =>
          {rows[p].address.index : p \in DOMAIN rows} = IF d.range THEN 0..Gap ELSE {0}
    /\ IsInjective(rows)

Covered(input, rows) ==
    CASE input.kind = "key" -> KeyCovered(input, rows)
      [] input.kind = "descriptor" -> DescriptorCovered(input, rows)
      [] input.kind = "text" -> Len(rows) = 1
=============================================================================
