------------------------- MODULE AccountStoreProofs -------------------------
(***************************************************************************)
(* Theorems about AccountStore for every set of users, xpubs, addresses    *)
(* and concurrent requests, with failing statements, statements that       *)
(* commit and lose their answer, and restarts.                             *)
(***************************************************************************)
EXTENDS AccountStore, TLAPS

(* What a running request knows of the rows its locals name: they exist,     *)
(* they are its user's, and those of its addresses are its xpub's.           *)
LocalsOwned ==
    \A r \in Req :
        /\ xpub[r] # NoXpub =>
              /\ XpubOwner[xpub[r]] = user[r] /\ xpubs[xpub[r]] # "none"
              /\ pc[r] \in {"derive", "append", "remove", "loop"}
        /\ \A a \in todo[r] :
              /\ AddrOwner[a] = user[r] /\ rows[a] # "none" /\ parent[a] = xpub[r]
              /\ pc[r] \in {"append", "remove", "loop"}
        /\ cur[r] # NoAddr => AddrOwner[cur[r]] = user[r] /\ rows[cur[r]] = "deleted"
        /\ pc[r] \in {"xpubs", "addresses", "emails", "webhooks"} => user[r] \notin users

(* An address belongs to the user of its xpub; what is watched has a row.    *)
RowsOwned ==
    /\ \A a \in Addr : parent[a] # NoXpub => XpubOwner[parent[a]] = AddrOwner[a]
    /\ \A a \in mem : rows[a] # "none"

(* An address about to be appended is nowhere else, so nothing can delete    *)
(* it but the deletion of its user's account, which then splits it.          *)
AppendsApart ==
    \A r \in Req : pc[r] = "append" => \A a \in todo[r] :
        /\ a \notin mem
        /\ AddrOwner[a] \in users \/ a \notin split => rows[a] = "live"
        /\ \A s \in Req \ {r} : a \notin todo[s] /\ cur[s] # a

(* A request that deletes an xpub has before it every address of the xpub    *)
(* that is not gone yet, if the xpub was complete when it began.             *)
DeletionCovers ==
    /\ \A r \in Req : pc[r] \in {"loop", "remove"} /\ xpub[r] # NoXpub /\ xpub[r] \notin early =>
          /\ ~BeingCreated(xpub[r])
          /\ \A a \in Addr : parent[a] = xpub[r] =>
                a \in todo[r] \/ a = cur[r] \/ (rows[a] # "live" /\ a \notin mem)
    /\ \A x \in Xpub : xpubs[x] = "deleted" /\ x \notin early => ~BeingCreated(x)

Ownership == TypeOK /\ LocalsOwned /\ RowsOwned
Watching == AppendsApart /\ StoredAreWatched /\ WatchedAreStored
Deletion == DeletionCovers /\ XpubTakesItsAddresses

-----------------------------------------------------------------------------
(* The last statement of DeleteXpub, as the proofs use it.                   *)
LEMMA BlankXpubEnds ==
    ASSUME NEW r \in Req, BlankXpub(r)
    PROVE  /\ pc[r] = "loop" /\ todo[r] = {} /\ End(r)
           /\ UNCHANGED <<users, rows, parent, contacts, mem, early, split, crashes>>
           /\ \/ xpubs' = xpubs
              \/ xpubs[xpub[r]] # "purged" /\ xpubs' = [xpubs EXCEPT ![xpub[r]] = "deleted"]
<1>1. xpubs' = IF xpubs[xpub[r]] = "purged" \/ KeyTaken(xpub[r], "") THEN xpubs
               ELSE [xpubs EXCEPT ![xpub[r]] = "deleted"]
  BY Zenon DEF BlankXpub
<1>2. /\ pc[r] = "loop" /\ todo[r] = {} /\ End(r)
      /\ UNCHANGED <<users, rows, parent, contacts, mem, early, split, crashes>>
  BY Zenon DEF BlankXpub, AllDeleted
<1> QED BY <1>1, <1>2

(* Three kinds of steps change the list in memory.                           *)
LEMMA ListChanges ==
    ASSUME [Next]_vars
    PROVE  \/ \E r \in Req : AppendAddresses(r) \/ RemoveAddress(r)
           \/ CrashAndRestart \/ UNCHANGED mem
<1>1. ASSUME NEW r \in Req, Request(r), ~AppendAddresses(r), ~RemoveAddress(r) PROVE UNCHANGED mem
  BY <1>1 DEF Request, Authorize, StatementFails, AnswerLost, CreateXpub, DeriveFails,
     InsertAddresses,
     DeleteAddress, DeleteXpub, DeleteNextAddress, BlankXpub, SoftDeleteUser, DeleteUserXpubs,
     DeleteAddresses, DeleteEmails, DeleteWebhooks, CreateContact
<1> QED BY <1>1 DEF Next, vars

(* The loop of DeleteXpub goes on after it dropped an address.               *)
LEMMA LoopTypes ==
    ASSUME TypeOK, NEW r \in Req, pc[r] = "remove", xpub[r] # NoXpub,
           mem' = mem \ {cur[r]}, cur' = [cur EXCEPT ![r] = NoAddr],
           pc' = [pc EXCEPT ![r] = "loop"], split' = split \ {cur[r]},
           UNCHANGED <<dbVars, user, xpub, todo, early, crashes>>
    PROVE  TypeOK'
<1>1. /\ pc' \in [Req -> {"idle", "authorized", "derive", "append", "remove", "loop",
                          "xpubs", "addresses", "emails", "webhooks"}]
      /\ cur' \in [Req -> Addr \cup {NoAddr}] /\ mem' \subseteq Addr /\ split' \subseteq Addr
  BY DEF TypeOK
<1>2. ASSUME NEW s \in Req
      PROVE  /\ pc'[s] = "idle" <=> user'[s] = NoUser
             /\ pc'[s] = "remove" <=> cur'[s] # NoAddr
             /\ pc'[s] \in {"derive", "loop"} => xpub'[s] # NoXpub
  <2>1. CASE s = r
    BY <2>1 DEF TypeOK
  <2>2. CASE s # r
    BY <2>2 DEF TypeOK
  <2> QED BY <2>1, <2>2
<1>3. UNCHANGED <<users, xpubs, rows, parent, contacts, user, xpub, todo, early, crashes>>
  BY DEF dbVars
<1> QED BY <1>1, <1>2, <1>3 DEF TypeOK

(* The types and who owns what.                                              *)
LEMMA OwnershipHolds == Spec => []Ownership
<1>1. Init => Ownership
  BY OwnerAssumption, NoneAssumption, BoundAssumption
  DEF Init, Ownership, TypeOK, LocalsOwned, RowsOwned
<1>2. Ownership /\ [Next]_vars => Ownership'
  <2> SUFFICES ASSUME Ownership, [Next]_vars PROVE Ownership'
    OBVIOUS
  <2> USE OwnerAssumption, NoneAssumption, BoundAssumption
      DEF Ownership, TypeOK, LocalsOwned, RowsOwned
  <2>1. ASSUME NEW r \in Req, Authorize(r) PROVE Ownership'
    BY <2>1 DEF Authorize, Goto, dbVars
  <2>2. ASSUME NEW r \in Req, StatementFails(r) PROVE Ownership'
    BY <2>2 DEF StatementFails, End, dbVars
  <2>3. ASSUME NEW r \in Req, CreateXpub(r) PROVE Ownership'
    <3>1. PICK x \in XpubsOf(user[r]) :
             /\ xpubs[x] = "none"
             /\ \/ End(r) /\ UNCHANGED xpubs
                \/ /\ xpubs' = [xpubs EXCEPT ![x] = "live"]
                   /\ xpub' = [xpub EXCEPT ![r] = x]
                   /\ Goto(r, "derive") /\ UNCHANGED <<user, todo, cur>>
      BY <2>3 DEF CreateXpub
    <3>2. x \in Xpub /\ XpubOwner[x] = user[r]
      BY DEF XpubsOf
    <3>3. UNCHANGED <<users, rows, parent, contacts, mem, early, split, crashes>>
      BY <2>3 DEF CreateXpub
    <3>4. CASE End(r) /\ UNCHANGED xpubs
      BY <3>3, <3>4 DEF End
    <3>5. CASE xpubs' = [xpubs EXCEPT ![x] = "live"] /\ xpub' = [xpub EXCEPT ![r] = x]
               /\ Goto(r, "derive") /\ UNCHANGED <<user, todo, cur>>
      <4>1. pc[r] = "authorized" /\ todo[r] = {} /\ cur[r] = NoAddr
        BY <2>3 DEF CreateXpub
      <4>2. TypeOK'
        BY <3>2, <3>3, <3>5, <4>1 DEF Goto
      <4>3. LocalsOwned'
        BY <3>1, <3>2, <3>3, <3>5, <4>1 DEF Goto
      <4> QED BY <3>3, <4>2, <4>3
    <3> QED BY <3>1, <3>4, <3>5
  <2>4. ASSUME NEW r \in Req, DeriveFails(r) PROVE Ownership'
    BY <2>4 DEF DeriveFails, End, dbVars
  <2>5. ASSUME NEW r \in Req, InsertAddresses(r) PROVE Ownership'
    <3> DEFINE Inserted(batch) ==
                 /\ rows' = [a \in Addr |-> IF a \in batch THEN "live" ELSE rows[a]]
                 /\ parent' = [a \in Addr |-> IF a \in batch THEN xpub[r] ELSE parent[a]]
                 /\ todo' = [todo EXCEPT ![r] = batch]
                 /\ Goto(r, "append") /\ UNCHANGED <<user, xpub, cur>>
    <3>1. PICK batch \in (SUBSET Fresh(user[r])) \ {{}} :
             IF xpub[r] # NoXpub /\ xpubs[xpub[r]] = "purged"
             THEN End(r) /\ UNCHANGED <<rows, parent>> ELSE Inserted(batch)
      BY <2>5, Zenon DEF InsertAddresses
    <3>2. UNCHANGED <<users, xpubs, contacts, mem, early, split, crashes>>
      BY <2>5 DEF InsertAddresses
    <3>3. CASE End(r) /\ UNCHANGED <<rows, parent>>
      BY <3>2, <3>3 DEF End
    <3>4. CASE (xpub[r] = NoXpub \/ xpubs[xpub[r]] # "purged") /\ Inserted(batch)
      <4>1. /\ batch \subseteq Addr
            /\ \A a \in batch : AddrOwner[a] = user[r] /\ rows[a] = "none"
        BY DEF Fresh, AddrsOf
      <4>2. pc[r] \in {"derive", "authorized"} /\ cur[r] = NoAddr /\ user[r] # NoUser
        BY <2>5 DEF InsertAddresses
      <4>3. xpub[r] # NoXpub => /\ xpub[r] \in Xpub /\ xpubs[xpub[r]] \in {"live", "deleted"}
                                /\ XpubOwner[xpub[r]] = user[r]
        BY <3>4
      <4>4. /\ rows' = [a \in Addr |-> IF a \in batch THEN "live" ELSE rows[a]]
            /\ parent' = [a \in Addr |-> IF a \in batch THEN xpub[r] ELSE parent[a]]
        BY <3>4
      <4>5. /\ todo' = [todo EXCEPT ![r] = batch] /\ pc' = [pc EXCEPT ![r] = "append"]
            /\ UNCHANGED <<user, xpub, cur>>
        BY <3>4 DEF Goto
      <4> HIDE DEF Inserted
      <4>6. TypeOK'
        BY <3>2, <4>1, <4>2, <4>3, <4>4, <4>5
      <4>7. LocalsOwned'
        BY <3>2, <4>1, <4>2, <4>3, <4>4, <4>5
      <4>8. RowsOwned'
        BY <3>2, <4>1, <4>3, <4>4
      <4> QED BY <4>6, <4>7, <4>8
    <3> QED BY <3>1, <3>3, <3>4
  <2>6. ASSUME NEW r \in Req, AppendAddresses(r) PROVE Ownership'
    BY <2>6 DEF AppendAddresses, End, dbVars
  <2>7. ASSUME NEW r \in Req, DeleteAddress(r) PROVE Ownership'
    BY <2>7 DEF DeleteAddress, Goto, BlankRow, AddrsOf
  <2>8. ASSUME NEW r \in Req, RemoveAddress(r) PROVE Ownership'
    <3>1. CASE xpub[r] = NoXpub
      <4>1. /\ End(r) /\ mem' = mem \ {cur[r]} /\ split' = split \ {cur[r]}
            /\ UNCHANGED <<dbVars, early, crashes>>
        BY <2>8, <3>1 DEF RemoveAddress, Forget
      <4>2. TypeOK'
        BY <4>1 DEF End, dbVars
      <4>3. LocalsOwned' /\ RowsOwned'
        BY <4>1 DEF End, dbVars
      <4> QED BY <4>2, <4>3
    <3>2. CASE xpub[r] # NoXpub
      <4>1. /\ pc[r] = "remove" /\ mem' = mem \ {cur[r]} /\ cur' = [cur EXCEPT ![r] = NoAddr]
            /\ pc' = [pc EXCEPT ![r] = "loop"] /\ split' = split \ {cur[r]}
            /\ UNCHANGED <<dbVars, user, xpub, todo, early, crashes>>
        BY <2>8, <3>2 DEF RemoveAddress, Forget, Goto
      <4>2. TypeOK'
        BY <3>2, <4>1, LoopTypes
      <4>3. LocalsOwned'
        BY <3>2, <4>1 DEF dbVars
      <4>4. RowsOwned'
        BY <4>1 DEF dbVars
      <4> QED BY <4>2, <4>3, <4>4
    <3> QED BY <3>1, <3>2
  <2>9. ASSUME NEW r \in Req, DeleteXpub(r) PROVE Ownership'
    BY <2>9 DEF DeleteXpub, Goto, XpubsOf, AddressesForXpub, AddrsOf, dbVars
  <2>10. ASSUME NEW r \in Req, DeleteNextAddress(r) PROVE Ownership'
    BY <2>10 DEF DeleteNextAddress, Goto, BlankRow
  <2>11. ASSUME NEW r \in Req, BlankXpub(r) PROVE Ownership'
    <3>1. xpub[r] \in Xpub /\ xpubs[xpub[r]] # "none"
      BY <2>11, BlankXpubEnds
    <3>2. \/ xpubs' = xpubs
          \/ xpubs[xpub[r]] # "purged" /\ xpubs' = [xpubs EXCEPT ![xpub[r]] = "deleted"]
      BY <2>11, BlankXpubEnds
    <3>3. /\ xpubs' \in [Xpub -> {"none", "live", "deleted", "purged"}]
          /\ \A x \in Xpub : /\ xpubs[x] # "none" => xpubs'[x] # "none"
                             /\ xpubs[x] \in {"live", "deleted"} =>
                                   xpubs'[x] \in {"live", "deleted"}
      BY <3>1, <3>2
    <3>4. End(r) /\ UNCHANGED <<users, rows, parent, contacts, mem, early, split, crashes>>
      BY <2>11, BlankXpubEnds
    <3>5. TypeOK'
      BY <3>3, <3>4 DEF End
    <3>6. LocalsOwned' /\ RowsOwned'
      BY <3>3, <3>4 DEF End
    <3> QED BY <3>5, <3>6
  <2>12. ASSUME NEW r \in Req, SoftDeleteUser(r) PROVE Ownership'
    BY <2>12 DEF SoftDeleteUser, Goto
  <2>13. ASSUME NEW r \in Req, DeleteUserXpubs(r) PROVE Ownership'
    <3>1. CASE End(r) /\ UNCHANGED xpubs
      BY <2>13, <3>1 DEF DeleteUserXpubs, End
    <3>2. CASE /\ xpubs' = [x \in Xpub |-> IF x \in XpubsOf(user[r]) /\ xpubs[x] # "none"
                                          THEN "purged" ELSE xpubs[x]]
               /\ Goto(r, "addresses") /\ UNCHANGED <<user, xpub, todo, cur>>
      BY <2>13, <3>2 DEF DeleteUserXpubs, Goto, Referenced, XpubsOf
    <3> QED BY <2>13, <3>1, <3>2 DEF DeleteUserXpubs
  <2>14. ASSUME NEW r \in Req, DeleteAddresses(r) PROVE Ownership'
    BY <2>14 DEF DeleteAddresses, Goto, RowsOf, AddrsOf
  <2>15. ASSUME NEW r \in Req, DeleteEmails(r) PROVE Ownership'
    BY <2>15 DEF DeleteEmails, Goto
  <2>16. ASSUME NEW r \in Req, DeleteWebhooks(r) PROVE Ownership'
    BY <2>16 DEF DeleteWebhooks, End
  <2>17. ASSUME NEW r \in Req, CreateContact(r) PROVE Ownership'
    BY <2>17 DEF CreateContact, End
  <2>18. CASE CrashAndRestart
    BY <2>18 DEF CrashAndRestart, Load, IdleRequests, dbVars
  <2>19. CASE UNCHANGED vars
    BY <2>19 DEF vars
  <2>20. ASSUME NEW r \in Req, AnswerLost(r) PROVE Ownership'
    BY <2>20 DEF AnswerLost, End, dbVars
  <2> QED
    BY <2>1, <2>2, <2>3, <2>4, <2>5, <2>6, <2>7, <2>8, <2>9, <2>10, <2>11, <2>12, <2>13,
       <2>14, <2>15, <2>16, <2>17, <2>18, <2>19, <2>20 DEF Next, Request
<1> QED BY <1>1, <1>2, PTL DEF Spec

-----------------------------------------------------------------------------
(* The list in memory and the table.                                         *)
LEMMA WatchingHolds == Spec => []Watching
<1>1. Init => Watching
  BY DEF Init, Watching, AppendsApart, StoredAreWatched, WatchedAreStored
<1>2. Ownership /\ Watching /\ [Next]_vars => Watching'
  <2> SUFFICES ASSUME Ownership, Watching, [Next]_vars PROVE Watching'
    OBVIOUS
  <2> USE DEF Ownership, TypeOK, LocalsOwned, RowsOwned
  <2> USE NoneAssumption
  <2>1. ASSUME NEW r \in Req, Authorize(r) PROVE Watching'
    <3>1. AppendsApart'
      BY <2>1 DEF Authorize, Goto, dbVars, Watching, AppendsApart
    <3>2. StoredAreWatched'
      BY <2>1 DEF Authorize, Goto, dbVars, Watching, StoredAreWatched
    <3>3. WatchedAreStored'
      BY <2>1 DEF Authorize, Goto, dbVars, Watching, WatchedAreStored
    <3> QED BY <3>1, <3>2, <3>3 DEF Watching
  <2>2. ASSUME NEW r \in Req, StatementFails(r) PROVE Watching'
    <3>1. AppendsApart'
      BY <2>2 DEF StatementFails, End, dbVars, Watching, AppendsApart
    <3>2. StoredAreWatched'
      BY <2>2 DEF StatementFails, End, dbVars, Watching, StoredAreWatched
    <3>3. WatchedAreStored'
      BY <2>2 DEF StatementFails, End, dbVars, Watching, WatchedAreStored
    <3> QED BY <3>1, <3>2, <3>3 DEF Watching
  <2>3. ASSUME NEW r \in Req, CreateXpub(r) PROVE Watching'
    <3>1. AppendsApart'
      BY <2>3 DEF CreateXpub, End, Goto, Watching, AppendsApart
    <3>2. StoredAreWatched'
      BY <2>3 DEF CreateXpub, End, Goto, Watching, StoredAreWatched
    <3>3. WatchedAreStored'
      BY <2>3 DEF CreateXpub, End, Goto, Watching, WatchedAreStored
    <3> QED BY <3>1, <3>2, <3>3 DEF Watching
  <2>4. ASSUME NEW r \in Req, DeriveFails(r) PROVE Watching'
    <3>1. AppendsApart'
      BY <2>4 DEF DeriveFails, End, dbVars, Watching, AppendsApart
    <3>2. StoredAreWatched'
      BY <2>4 DEF DeriveFails, End, dbVars, Watching, StoredAreWatched
    <3>3. WatchedAreStored'
      BY <2>4 DEF DeriveFails, End, dbVars, Watching, WatchedAreStored
    <3> QED BY <3>1, <3>2, <3>3 DEF Watching
  <2>5. ASSUME NEW r \in Req, InsertAddresses(r) PROVE Watching'
    <3>1. AppendsApart'
      BY <2>5 DEF InsertAddresses, End, Goto, Fresh, AddrsOf, Watching, AppendsApart
    <3>2. StoredAreWatched'
      <4>1. PICK batch \in (SUBSET Fresh(user[r])) \ {{}} :
               \/ End(r) /\ UNCHANGED <<rows, parent>>
               \/ /\ rows' = [a \in Addr |-> IF a \in batch THEN "live" ELSE rows[a]]
                  /\ todo' = [todo EXCEPT ![r] = batch]
                  /\ Goto(r, "append")
        BY <2>5 DEF InsertAddresses
      <4>2. mem' = mem /\ split' = split /\ pc[r] # "append"
        BY <2>5 DEF InsertAddresses
      <4>3. CASE End(r) /\ UNCHANGED <<rows, parent>>
        BY <4>2, <4>3 DEF End, Watching, StoredAreWatched
      <4>4. CASE /\ rows' = [a \in Addr |-> IF a \in batch THEN "live" ELSE rows[a]]
                 /\ todo' = [todo EXCEPT ![r] = batch]
                 /\ Goto(r, "append")
        BY <4>2, <4>4 DEF Goto, Watching, StoredAreWatched
      <4> QED BY <4>1, <4>3, <4>4
    <3>3. WatchedAreStored'
      BY <2>5 DEF InsertAddresses, End, Goto, Fresh, AddrsOf, Watching, WatchedAreStored
    <3> QED BY <3>1, <3>2, <3>3 DEF Watching
  <2>6. ASSUME NEW r \in Req, AppendAddresses(r) PROVE Watching'
    <3>1. AppendsApart'
      BY <2>6 DEF AppendAddresses, End, dbVars, Watching, AppendsApart
    <3>2. StoredAreWatched'
      BY <2>6 DEF AppendAddresses, End, dbVars, Watching, StoredAreWatched
    <3>3. WatchedAreStored'
      BY <2>6 DEF AppendAddresses, End, dbVars, Watching, AppendsApart, WatchedAreStored
    <3> QED BY <3>1, <3>2, <3>3 DEF Watching
  <2>7. ASSUME NEW r \in Req, DeleteAddress(r) PROVE Watching'
    <3>1. AppendsApart'
      BY <2>7 DEF DeleteAddress, Goto, BlankRow, AddrsOf, Watching, AppendsApart
    <3>2. StoredAreWatched'
      BY <2>7 DEF DeleteAddress, Goto, BlankRow, AddrsOf, Watching, StoredAreWatched
    <3>3. WatchedAreStored'
      BY <2>7 DEF DeleteAddress, Goto, BlankRow, AddrsOf, Watching, WatchedAreStored
    <3> QED BY <3>1, <3>2, <3>3 DEF Watching
  <2>8. ASSUME NEW r \in Req, RemoveAddress(r) PROVE Watching'
    <3>1. AppendsApart'
      BY <2>8 DEF RemoveAddress, Forget, End, Goto, dbVars, Watching, AppendsApart
    <3>2. StoredAreWatched'
      BY <2>8 DEF RemoveAddress, Forget, End, Goto, dbVars, Watching, StoredAreWatched
    <3>3. WatchedAreStored'
      BY <2>8 DEF RemoveAddress, Forget, End, Goto, dbVars, Watching, WatchedAreStored
    <3> QED BY <3>1, <3>2, <3>3 DEF Watching
  <2>9. ASSUME NEW r \in Req, DeleteXpub(r) PROVE Watching'
    <3>1. AppendsApart'
      BY <2>9 DEF DeleteXpub, Goto, AddressesForXpub, AddrsOf, dbVars, Watching,
         AppendsApart
    <3>2. StoredAreWatched'
      BY <2>9 DEF DeleteXpub, Goto, AddressesForXpub, AddrsOf, dbVars, Watching,
         StoredAreWatched
    <3>3. WatchedAreStored'
      BY <2>9 DEF DeleteXpub, Goto, AddressesForXpub, AddrsOf, dbVars, Watching,
         WatchedAreStored
    <3> QED BY <3>1, <3>2, <3>3 DEF Watching
  <2>10. ASSUME NEW r \in Req, DeleteNextAddress(r) PROVE Watching'
    <3>1. AppendsApart'
      BY <2>10 DEF DeleteNextAddress, Goto, BlankRow, Watching, AppendsApart
    <3>2. StoredAreWatched'
      BY <2>10 DEF DeleteNextAddress, Goto, BlankRow, Watching, StoredAreWatched
    <3>3. WatchedAreStored'
      BY <2>10 DEF DeleteNextAddress, Goto, BlankRow, Watching, WatchedAreStored
    <3> QED BY <3>1, <3>2, <3>3 DEF Watching
  <2>11. ASSUME NEW r \in Req, BlankXpub(r) PROVE Watching'
    <3>1. AppendsApart'
      BY <2>11, BlankXpubEnds DEF End, Watching, AppendsApart
    <3>2. StoredAreWatched'
      BY <2>11, BlankXpubEnds DEF End, Watching, StoredAreWatched
    <3>3. WatchedAreStored'
      BY <2>11, BlankXpubEnds DEF End, Watching, WatchedAreStored
    <3> QED BY <3>1, <3>2, <3>3 DEF Watching
  <2>12. ASSUME NEW r \in Req, SoftDeleteUser(r) PROVE Watching'
    <3>1. AppendsApart'
      BY <2>12 DEF SoftDeleteUser, Goto, Watching, AppendsApart
    <3>2. StoredAreWatched'
      BY <2>12 DEF SoftDeleteUser, Goto, Watching, StoredAreWatched
    <3>3. WatchedAreStored'
      BY <2>12 DEF SoftDeleteUser, Goto, Watching, WatchedAreStored
    <3> QED BY <3>1, <3>2, <3>3 DEF Watching
  <2>13. ASSUME NEW r \in Req, DeleteUserXpubs(r) PROVE Watching'
    <3>1. AppendsApart'
      BY <2>13 DEF DeleteUserXpubs, End, Goto, Watching, AppendsApart
    <3>2. StoredAreWatched'
      BY <2>13 DEF DeleteUserXpubs, End, Goto, Watching, StoredAreWatched
    <3>3. WatchedAreStored'
      BY <2>13 DEF DeleteUserXpubs, End, Goto, Watching, WatchedAreStored
    <3> QED BY <3>1, <3>2, <3>3 DEF Watching
  <2>14. ASSUME NEW r \in Req, DeleteAddresses(r) PROVE Watching'
    <3>1. AppendsApart'
      BY <2>14 DEF DeleteAddresses, Goto, RowsOf, AddrsOf, Watching, AppendsApart
    <3>2. StoredAreWatched'
      BY <2>14 DEF DeleteAddresses, Goto, RowsOf, AddrsOf, Watching, StoredAreWatched
    <3>3. WatchedAreStored'
      BY <2>14 DEF DeleteAddresses, Goto, RowsOf, AddrsOf, Watching, WatchedAreStored
    <3> QED BY <3>1, <3>2, <3>3 DEF Watching
  <2>15. ASSUME NEW r \in Req, DeleteEmails(r) PROVE Watching'
    <3>1. AppendsApart'
      BY <2>15 DEF DeleteEmails, Goto, Watching, AppendsApart
    <3>2. StoredAreWatched'
      BY <2>15 DEF DeleteEmails, Goto, Watching, StoredAreWatched
    <3>3. WatchedAreStored'
      BY <2>15 DEF DeleteEmails, Goto, Watching, WatchedAreStored
    <3> QED BY <3>1, <3>2, <3>3 DEF Watching
  <2>16. ASSUME NEW r \in Req, DeleteWebhooks(r) PROVE Watching'
    <3>1. AppendsApart'
      BY <2>16 DEF DeleteWebhooks, End, Watching, AppendsApart
    <3>2. StoredAreWatched'
      BY <2>16 DEF DeleteWebhooks, End, Watching, StoredAreWatched
    <3>3. WatchedAreStored'
      BY <2>16 DEF DeleteWebhooks, End, Watching, WatchedAreStored
    <3> QED BY <3>1, <3>2, <3>3 DEF Watching
  <2>17. ASSUME NEW r \in Req, CreateContact(r) PROVE Watching'
    <3>1. AppendsApart'
      BY <2>17 DEF CreateContact, End, Watching, AppendsApart
    <3>2. StoredAreWatched'
      BY <2>17 DEF CreateContact, End, Watching, StoredAreWatched
    <3>3. WatchedAreStored'
      BY <2>17 DEF CreateContact, End, Watching, WatchedAreStored
    <3> QED BY <3>1, <3>2, <3>3 DEF Watching
  <2>18. CASE CrashAndRestart
    BY <2>18 DEF CrashAndRestart, Load, IdleRequests, dbVars, Watching, AppendsApart,
                 StoredAreWatched, WatchedAreStored
  <2>19. CASE UNCHANGED vars
    BY <2>19 DEF vars, Watching, AppendsApart, StoredAreWatched, WatchedAreStored
  <2>20. ASSUME NEW r \in Req, AnswerLost(r) PROVE Watching'
    <3>1. AppendsApart'
      BY <2>20 DEF AnswerLost, End, dbVars, Watching, AppendsApart
    <3>2. StoredAreWatched'
      BY <2>20 DEF AnswerLost, End, dbVars, Watching, StoredAreWatched
    <3>3. WatchedAreStored'
      BY <2>20 DEF AnswerLost, End, dbVars, Watching, WatchedAreStored
    <3> QED BY <3>1, <3>2, <3>3 DEF Watching
  <2> QED
    BY <2>1, <2>2, <2>3, <2>4, <2>5, <2>6, <2>7, <2>8, <2>9, <2>10, <2>11, <2>12, <2>13,
       <2>14, <2>15, <2>16, <2>17, <2>18, <2>19, <2>20 DEF Next, Request
<1> QED BY <1>1, <1>2, OwnershipHolds, PTL DEF Spec

-----------------------------------------------------------------------------
(* The deletion of an xpub, which is a loop of statements.                   *)
LEMMA DeletionHolds == Spec => []Deletion
<1>1. Init => Deletion
  BY NoneAssumption DEF Init, Deletion, DeletionCovers, XpubTakesItsAddresses
<1>2. Ownership /\ Ownership' /\ Watching /\ Deletion /\ [Next]_vars => Deletion'
  <2> SUFFICES ASSUME Ownership, Ownership', Watching, Deletion, [Next]_vars PROVE Deletion'
    OBVIOUS
  <2> USE DEF Ownership, TypeOK, LocalsOwned, RowsOwned
  <2> USE NoneAssumption
  <2>1. ASSUME NEW r \in Req, Authorize(r) PROVE Deletion'
    <3>1. DeletionCovers'
      BY <2>1 DEF Authorize, Goto, dbVars, Deletion, DeletionCovers, BeingCreated
    <3>2. XpubTakesItsAddresses'
      BY <2>1 DEF Authorize, Goto, dbVars, Deletion, DeletionCovers, BeingCreated,
         XpubTakesItsAddresses
    <3> QED BY <3>1, <3>2 DEF Deletion
  <2>2. ASSUME NEW r \in Req, StatementFails(r) PROVE Deletion'
    <3>1. DeletionCovers'
      BY <2>2 DEF StatementFails, End, dbVars, Deletion, DeletionCovers, BeingCreated
    <3>2. XpubTakesItsAddresses'
      BY <2>2 DEF StatementFails, End, dbVars, Deletion, DeletionCovers, BeingCreated,
         XpubTakesItsAddresses
    <3> QED BY <3>1, <3>2 DEF Deletion
  <2>3. ASSUME NEW r \in Req, CreateXpub(r) PROVE Deletion'
    <3>1. DeletionCovers'
      BY <2>3 DEF CreateXpub, End, Goto, Deletion, DeletionCovers, BeingCreated
    <3>2. XpubTakesItsAddresses'
      BY <2>3 DEF CreateXpub, End, Goto, Deletion, DeletionCovers, BeingCreated,
         XpubTakesItsAddresses
    <3> QED BY <3>1, <3>2 DEF Deletion
  <2>4. ASSUME NEW r \in Req, DeriveFails(r) PROVE Deletion'
    <3>1. DeletionCovers'
      BY <2>4 DEF DeriveFails, End, dbVars, Deletion, DeletionCovers, BeingCreated
    <3>2. XpubTakesItsAddresses'
      BY <2>4 DEF DeriveFails, End, dbVars, Deletion, DeletionCovers, BeingCreated,
         XpubTakesItsAddresses
    <3> QED BY <3>1, <3>2 DEF Deletion
  <2>5. ASSUME NEW r \in Req, InsertAddresses(r) PROVE Deletion'
    <3>1. DeletionCovers'
      BY <2>5 DEF InsertAddresses, End, Goto, Fresh, AddrsOf, Deletion, DeletionCovers,
         BeingCreated
    <3>2. XpubTakesItsAddresses'
      BY <2>5 DEF InsertAddresses, End, Goto, Fresh, AddrsOf, Deletion, DeletionCovers,
         BeingCreated, XpubTakesItsAddresses
    <3> QED BY <3>1, <3>2 DEF Deletion
  <2>6. ASSUME NEW r \in Req, AppendAddresses(r) PROVE Deletion'
    <3>1. DeletionCovers'
      BY <2>6 DEF AppendAddresses, End, dbVars, Deletion, DeletionCovers, BeingCreated
    <3>2. XpubTakesItsAddresses'
      BY <2>6 DEF AppendAddresses, End, dbVars, Deletion, DeletionCovers, BeingCreated,
         XpubTakesItsAddresses
    <3> QED BY <3>1, <3>2 DEF Deletion
  <2>7. ASSUME NEW r \in Req, DeleteAddress(r) PROVE Deletion'
    <3>1. DeletionCovers'
      BY <2>7 DEF DeleteAddress, Goto, BlankRow, AddrsOf, Deletion, DeletionCovers,
         BeingCreated
    <3>2. XpubTakesItsAddresses'
      BY <2>7 DEF DeleteAddress, Goto, BlankRow, AddrsOf, Deletion, DeletionCovers,
         BeingCreated, XpubTakesItsAddresses
    <3> QED BY <3>1, <3>2 DEF Deletion
  <2>8. ASSUME NEW r \in Req, RemoveAddress(r) PROVE Deletion'
    <3>1. DeletionCovers'
      <4>1. UNCHANGED <<rows, parent, xpubs, early>> /\ mem' = mem \ {cur[r]} /\ pc[r] = "remove"
        BY <2>8 DEF RemoveAddress, Forget, dbVars
      <4>2. CASE xpub[r] = NoXpub
        BY <2>8, <4>1, <4>2 DEF RemoveAddress, End, Deletion, DeletionCovers, BeingCreated
      <4>3. CASE xpub[r] # NoXpub
        BY <2>8, <4>1, <4>3 DEF RemoveAddress, Goto, Deletion, DeletionCovers, BeingCreated
      <4> QED BY <4>2, <4>3
    <3>2. XpubTakesItsAddresses'
      BY <2>8 DEF RemoveAddress, Forget, End, Goto, dbVars, Deletion, DeletionCovers,
         BeingCreated, XpubTakesItsAddresses
    <3> QED BY <3>1, <3>2 DEF Deletion
  <2>9. ASSUME NEW r \in Req, DeleteXpub(r) PROVE Deletion'
    <3>1. DeletionCovers'
      <4>1. PICK x \in XpubsOf(user[r]) :
               /\ xpubs[x] = "live"
               /\ xpub' = [xpub EXCEPT ![r] = x]
               /\ todo' = [todo EXCEPT ![r] = AddressesForXpub(x)]
               /\ early' = IF BeingCreated(x) \/ Unlisted(x) THEN early \cup {x} ELSE early
        BY <2>9 DEF DeleteXpub
      <4>2. /\ pc[r] = "authorized" /\ pc' = [pc EXCEPT ![r] = "loop"]
            /\ UNCHANGED <<users, xpubs, rows, parent, mem, user, cur>>
        BY <2>9 DEF DeleteXpub, Goto, dbVars
      <4>3. /\ x \in Xpub /\ early \subseteq early'
            /\ BeingCreated(x) \/ Unlisted(x) => x \in early'
        BY <4>1 DEF XpubsOf
      <4>4. \A y \in Xpub : BeingCreated(y)' => BeingCreated(y)
        BY <4>1, <4>2 DEF BeingCreated
      <4>5. ASSUME NEW a \in Addr, parent[a] = x, ~Unlisted(x)
            PROVE  a \in AddressesForXpub(x) \/ (rows[a] # "live" /\ a \notin mem)
        <5>1. XpubOwner[x] = AddrOwner[a]
          BY <4>3, <4>5
        <5>2. a \in mem => a \in AddressesForXpub(x)
          BY <4>5, <5>1 DEF AddressesForXpub, AddrsOf
        <5>3. rows[a] = "live" => a \in mem
          BY <4>5 DEF Unlisted
        <5> QED BY <5>2, <5>3
      <4>6. ASSUME NEW t \in Req, NEW z \in Xpub, pc'[t] \in {"loop", "remove"}, xpub'[t] = z,
                   z \notin early'
            PROVE  /\ ~BeingCreated(z)'
                   /\ \A a \in Addr : parent'[a] = z =>
                         a \in todo'[t] \/ a = cur'[t] \/ (rows'[a] # "live" /\ a \notin mem')
        <5>1. CASE t = r
          <6>1. z = x /\ ~BeingCreated(x) /\ ~Unlisted(x)
            BY <4>1, <4>3, <4>6, <5>1
          <6>2. todo'[t] = AddressesForXpub(x)
            BY <4>1, <5>1
          <6> QED BY <4>2, <4>4, <4>5, <6>1, <6>2
        <5>2. CASE t # r
          <6>1. /\ pc[t] = pc'[t] /\ xpub[t] = z /\ todo[t] = todo'[t] /\ cur[t] = cur'[t]
                /\ z \notin early
            BY <4>1, <4>2, <4>3, <4>6, <5>2
          <6>2. /\ ~BeingCreated(z)
                /\ \A a \in Addr : parent[a] = z =>
                      a \in todo[t] \/ a = cur[t] \/ (rows[a] # "live" /\ a \notin mem)
            BY <4>6, <6>1 DEF Deletion, DeletionCovers
          <6> QED BY <4>2, <4>4, <6>1, <6>2
        <5> QED BY <5>1, <5>2
      <4>7. ASSUME NEW y \in Xpub, xpubs'[y] = "deleted", y \notin early'
            PROVE  ~BeingCreated(y)'
        BY <4>2, <4>3, <4>4, <4>7 DEF Deletion, DeletionCovers
      <4> QED BY <4>6, <4>7 DEF DeletionCovers, BeingCreated
    <3>2. XpubTakesItsAddresses'
      BY <2>9 DEF DeleteXpub, Goto, AddressesForXpub, AddrsOf, dbVars, Deletion,
         DeletionCovers, BeingCreated, XpubTakesItsAddresses
    <3> QED BY <3>1, <3>2 DEF Deletion
  <2>10. ASSUME NEW r \in Req, DeleteNextAddress(r) PROVE Deletion'
    <3>1. DeletionCovers'
      BY <2>10 DEF DeleteNextAddress, Goto, BlankRow, Deletion, DeletionCovers, BeingCreated
    <3>2. XpubTakesItsAddresses'
      BY <2>10 DEF DeleteNextAddress, Goto, BlankRow, Deletion, DeletionCovers,
         BeingCreated, XpubTakesItsAddresses
    <3> QED BY <3>1, <3>2 DEF Deletion
  <2>11. ASSUME NEW r \in Req, BlankXpub(r) PROVE Deletion'
    <3>1. DeletionCovers'
      <4>1. /\ pc' = [pc EXCEPT ![r] = "idle"] /\ xpub' = [xpub EXCEPT ![r] = NoXpub]
            /\ todo' = [todo EXCEPT ![r] = {}] /\ cur' = [cur EXCEPT ![r] = NoAddr]
            /\ UNCHANGED <<rows, parent, mem, early>> /\ pc[r] = "loop"
        BY <2>11, BlankXpubEnds DEF End
      <4>2. \A x \in Xpub : BeingCreated(x)' => BeingCreated(x)
        BY <4>1 DEF BeingCreated
      <4>3. \A x \in Xpub : xpubs'[x] = "deleted" => xpubs[x] = "deleted" \/ x = xpub[r]
        BY <2>11, BlankXpubEnds
      <4>4. \A x \in Xpub : xpubs'[x] = "deleted" /\ x \notin early' => ~BeingCreated(x)'
        BY <4>1, <4>2, <4>3 DEF Deletion, DeletionCovers
      <4>5. \A t \in Req : pc'[t] \in {"loop", "remove"} =>
               /\ pc'[t] = pc[t] /\ xpub'[t] = xpub[t] /\ todo'[t] = todo[t] /\ cur'[t] = cur[t]
        BY <4>1
      <4>6. ASSUME NEW t \in Req, NEW z \in Xpub, pc'[t] \in {"loop", "remove"}, xpub'[t] = z,
                   z \notin early'
            PROVE  /\ ~BeingCreated(z)'
                   /\ \A a \in Addr : parent'[a] = z =>
                         a \in todo'[t] \/ a = cur'[t] \/ (rows'[a] # "live" /\ a \notin mem')
        <5>1. xpub[t] = z /\ z \notin early
          BY <4>1, <4>5, <4>6
        <5>2. /\ ~BeingCreated(z)
              /\ \A a \in Addr : parent[a] = z =>
                    a \in todo[t] \/ a = cur[t] \/ (rows[a] # "live" /\ a \notin mem)
          BY <4>5, <4>6, <5>1 DEF Deletion, DeletionCovers
        <5> QED BY <4>1, <4>2, <4>5, <4>6, <5>1, <5>2
      <4> QED BY <4>4, <4>6 DEF DeletionCovers, BeingCreated
    <3>2. XpubTakesItsAddresses'
      <4>1. /\ pc[r] = "loop" /\ todo[r] = {} /\ UNCHANGED <<rows, parent, mem, early>>
            /\ \/ xpubs' = xpubs
               \/ xpubs' = [xpubs EXCEPT ![xpub[r]] = "deleted"]
        BY <2>11, BlankXpubEnds
      <4>2. xpub[r] \in Xpub /\ cur[r] = NoAddr
        BY <4>1
      <4>3. xpub[r] \notin early => \A a \in Addr : parent[a] = xpub[r] =>
                                       rows[a] # "live" /\ a \notin mem
        BY <4>1, <4>2 DEF Deletion, DeletionCovers
      <4> QED BY <4>1, <4>2, <4>3 DEF Deletion, XpubTakesItsAddresses
    <3> QED BY <3>1, <3>2 DEF Deletion
  <2>12. ASSUME NEW r \in Req, SoftDeleteUser(r) PROVE Deletion'
    <3>1. DeletionCovers'
      BY <2>12 DEF SoftDeleteUser, Goto, Deletion, DeletionCovers, BeingCreated
    <3>2. XpubTakesItsAddresses'
      BY <2>12 DEF SoftDeleteUser, Goto, Deletion, DeletionCovers, BeingCreated,
         XpubTakesItsAddresses
    <3> QED BY <3>1, <3>2 DEF Deletion
  <2>13. ASSUME NEW r \in Req, DeleteUserXpubs(r) PROVE Deletion'
    <3>1. DeletionCovers'
      BY <2>13 DEF DeleteUserXpubs, End, Goto, Deletion, DeletionCovers, BeingCreated
    <3>2. XpubTakesItsAddresses'
      BY <2>13 DEF DeleteUserXpubs, End, Goto, Deletion, DeletionCovers, BeingCreated,
         XpubTakesItsAddresses
    <3> QED BY <3>1, <3>2 DEF Deletion
  <2>14. ASSUME NEW r \in Req, DeleteAddresses(r) PROVE Deletion'
    <3>1. DeletionCovers'
      BY <2>14 DEF DeleteAddresses, Goto, RowsOf, AddrsOf, Deletion, DeletionCovers,
         BeingCreated
    <3>2. XpubTakesItsAddresses'
      BY <2>14 DEF DeleteAddresses, Goto, RowsOf, AddrsOf, Deletion, DeletionCovers,
         BeingCreated, XpubTakesItsAddresses
    <3> QED BY <3>1, <3>2 DEF Deletion
  <2>15. ASSUME NEW r \in Req, DeleteEmails(r) PROVE Deletion'
    <3>1. DeletionCovers'
      BY <2>15 DEF DeleteEmails, Goto, Deletion, DeletionCovers, BeingCreated
    <3>2. XpubTakesItsAddresses'
      BY <2>15 DEF DeleteEmails, Goto, Deletion, DeletionCovers, BeingCreated,
         XpubTakesItsAddresses
    <3> QED BY <3>1, <3>2 DEF Deletion
  <2>16. ASSUME NEW r \in Req, DeleteWebhooks(r) PROVE Deletion'
    <3>1. DeletionCovers'
      BY <2>16 DEF DeleteWebhooks, End, Deletion, DeletionCovers, BeingCreated
    <3>2. XpubTakesItsAddresses'
      BY <2>16 DEF DeleteWebhooks, End, Deletion, DeletionCovers, BeingCreated,
         XpubTakesItsAddresses
    <3> QED BY <3>1, <3>2 DEF Deletion
  <2>17. ASSUME NEW r \in Req, CreateContact(r) PROVE Deletion'
    <3>1. DeletionCovers'
      BY <2>17 DEF CreateContact, End, Deletion, DeletionCovers, BeingCreated
    <3>2. XpubTakesItsAddresses'
      BY <2>17 DEF CreateContact, End, Deletion, DeletionCovers, BeingCreated,
         XpubTakesItsAddresses
    <3> QED BY <3>1, <3>2 DEF Deletion
  <2>18. CASE CrashAndRestart
    BY <2>18 DEF CrashAndRestart, Load, IdleRequests, dbVars, Deletion, DeletionCovers,
                 BeingCreated, XpubTakesItsAddresses
  <2>19. CASE UNCHANGED vars
    BY <2>19 DEF vars, Deletion, DeletionCovers, BeingCreated, XpubTakesItsAddresses
  <2>20. ASSUME NEW r \in Req, AnswerLost(r) PROVE Deletion'
    <3>1. DeletionCovers'
      BY <2>20 DEF AnswerLost, End, dbVars, Deletion, DeletionCovers, BeingCreated
    <3>2. XpubTakesItsAddresses'
      BY <2>20 DEF AnswerLost, End, dbVars, Deletion, DeletionCovers, BeingCreated,
         XpubTakesItsAddresses
    <3> QED BY <3>1, <3>2 DEF Deletion
  <2> QED
    BY <2>1, <2>2, <2>3, <2>4, <2>5, <2>6, <2>7, <2>8, <2>9, <2>10, <2>11, <2>12, <2>13,
       <2>14, <2>15, <2>16, <2>17, <2>18, <2>19, <2>20 DEF Next, Request
<1> QED BY <1>1, <1>2, OwnershipHolds, WatchingHolds, PTL DEF Spec

-----------------------------------------------------------------------------
(* Every variable has its type, addresses refer to xpubs that exist, and a   *)
(* request has the locals that go with where it is.                          *)
THEOREM TypeCorrect == Spec => []TypeOK
BY OwnershipHolds, PTL DEF Ownership

(* Neither failing statements nor concurrent requests nor restarts separate  *)
(* what CreateAddress stored from the list it appends to; only an INSERT     *)
(* whose answer was lost does, until the next start.                         *)
THEOREM StoredStayWatched == Spec => []StoredAreWatched
BY WatchingHolds, PTL DEF Watching

(* A watched address is stored, or its DeleteAddress is between the          *)
(* statement and the list or lost the answer of its statement, or its        *)
(* owner's account was deleted since the process started.                    *)
THEOREM WatchedStayStored == Spec => []WatchedAreStored
BY WatchingHolds, PTL DEF Watching

(* DeleteXpub, a loop of statements that may fail, lose their answer or      *)
(* race, leaves none of the addresses of an xpub whose addresses were all in *)
(* the list when it began.                                                   *)
THEOREM XpubsTakeTheirAddresses == Spec => []XpubTakesItsAddresses
BY DeletionHolds, PTL DEF Deletion

(* The second half of DeleteAddress, the append of a concurrent              *)
(* CreateAddress and a restart never bring a deleted address back.           *)
THEOREM DeletedAddressesStayDeleted == Spec => DeletedStayDeleted
<1>1. Ownership /\ Watching /\ [Next]_vars =>
        [\A a \in Addr : (rows[a] = "deleted" /\ a \notin mem /\ AddrOwner[a] \in users)
                             => a \notin mem']_vars
  <2> SUFFICES ASSUME Ownership, Watching, [Next]_vars,
                      NEW a \in Addr, rows[a] = "deleted", a \notin mem, AddrOwner[a] \in users
               PROVE  a \notin mem'
    OBVIOUS
  <2>1. ASSUME NEW r \in Req, AppendAddresses(r) PROVE a \notin todo[r]
    BY <2>1 DEF AppendAddresses, Watching, AppendsApart
  <2>2. ASSUME NEW r \in Req, AppendAddresses(r) PROVE a \notin mem'
    BY <2>1, <2>2 DEF AppendAddresses
  <2>3. ASSUME NEW r \in Req, RemoveAddress(r) PROVE a \notin mem'
    BY <2>3 DEF RemoveAddress, Forget
  <2>4. CASE CrashAndRestart
    BY <2>4 DEF CrashAndRestart, Load
  <2>5. CASE UNCHANGED mem
    BY <2>5
  <2> QED
    BY <2>2, <2>3, <2>4, <2>5, ListChanges
<1> QED BY <1>1, OwnershipHolds, WatchingHolds, PTL DEF Spec, DeletedStayDeleted

(* Of each statement, loop and list operation: it changes only what belongs  *)
(* to the user of the request that executes it.                              *)
THEOREM OthersStayUntouched == Spec => OthersUntouched
<1> DEFINE Kept(u) == /\ mem' \cap AddrsOf(u) = mem \cap AddrsOf(u)
                      /\ \A a \in AddrsOf(u) : rows'[a] = rows[a]
                      /\ \A x \in XpubsOf(u) : xpubs'[x] = xpubs[x]
                      /\ contacts'[u] = contacts[u]
<1>1. Ownership /\ [Next]_vars =>
        [\A u \in User : ~Working(u) /\ crashes' = crashes => Kept(u)]_vars
  <2> SUFFICES ASSUME Ownership, [Next]_vars, NEW u \in User, ~Working(u), crashes' = crashes
               PROVE  Kept(u)
    OBVIOUS
  <2>0. \A r \in Req : user[r] # u
    BY DEF Working
  <2> USE <2>0 DEF Ownership, TypeOK, LocalsOwned, RowsOwned, AddrsOf, XpubsOf
  <2> USE NoneAssumption
  <2>1. ASSUME NEW r \in Req, Authorize(r) PROVE Kept(u)
    BY <2>1 DEF Authorize, dbVars
  <2>2. ASSUME NEW r \in Req, StatementFails(r) PROVE Kept(u)
    BY <2>2 DEF StatementFails, dbVars
  <2>3. ASSUME NEW r \in Req, CreateXpub(r) PROVE Kept(u)
    BY <2>3 DEF CreateXpub
  <2>4. ASSUME NEW r \in Req, DeriveFails(r) PROVE Kept(u)
    BY <2>4 DEF DeriveFails, dbVars
  <2>5. ASSUME NEW r \in Req, InsertAddresses(r) PROVE Kept(u)
    BY <2>5 DEF InsertAddresses, Fresh
  <2>6. ASSUME NEW r \in Req, AppendAddresses(r) PROVE Kept(u)
    BY <2>6 DEF AppendAddresses, dbVars
  <2>7. ASSUME NEW r \in Req, DeleteAddress(r) PROVE Kept(u)
    BY <2>7 DEF DeleteAddress, BlankRow
  <2>8. ASSUME NEW r \in Req, RemoveAddress(r) PROVE Kept(u)
    BY <2>8 DEF RemoveAddress, Forget, dbVars
  <2>9. ASSUME NEW r \in Req, DeleteXpub(r) PROVE Kept(u)
    BY <2>9 DEF DeleteXpub, dbVars
  <2>10. ASSUME NEW r \in Req, DeleteNextAddress(r) PROVE Kept(u)
    BY <2>10 DEF DeleteNextAddress, BlankRow
  <2>11. ASSUME NEW r \in Req, BlankXpub(r) PROVE Kept(u)
    BY <2>11, BlankXpubEnds
  <2>12. ASSUME NEW r \in Req, SoftDeleteUser(r) PROVE Kept(u)
    BY <2>12 DEF SoftDeleteUser
  <2>13. ASSUME NEW r \in Req, DeleteUserXpubs(r) PROVE Kept(u)
    BY <2>13 DEF DeleteUserXpubs
  <2>14. ASSUME NEW r \in Req, DeleteAddresses(r) PROVE Kept(u)
    BY <2>14 DEF DeleteAddresses, RowsOf
  <2>15. ASSUME NEW r \in Req, DeleteEmails(r) PROVE Kept(u)
    BY <2>15 DEF DeleteEmails
  <2>16. ASSUME NEW r \in Req, DeleteWebhooks(r) PROVE Kept(u)
    BY <2>16 DEF DeleteWebhooks
  <2>17. ASSUME NEW r \in Req, CreateContact(r) PROVE Kept(u)
    BY <2>17 DEF CreateContact
  <2>18. CASE CrashAndRestart
    BY <2>18, BoundAssumption DEF CrashAndRestart
  <2>19. CASE UNCHANGED vars
    BY <2>19 DEF vars
  <2>20. ASSUME NEW r \in Req, AnswerLost(r) PROVE Kept(u)
    BY <2>20 DEF AnswerLost, dbVars
  <2> QED
    BY <2>1, <2>2, <2>3, <2>4, <2>5, <2>6, <2>7, <2>8, <2>9, <2>10, <2>11, <2>12, <2>13,
       <2>14, <2>15, <2>16, <2>17, <2>18, <2>19, <2>20 DEF Next, Request
<1> QED BY <1>1, OwnershipHolds, PTL DEF Spec, OthersUntouched
=============================================================================
