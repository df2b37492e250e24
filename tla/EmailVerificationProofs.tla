---------------------- MODULE EmailVerificationProofs ----------------------
(***************************************************************************)
(* Theorems about EmailVerification for every set of rows, addresses and   *)
(* concurrent requests and any number of codes.                            *)
(***************************************************************************)
EXTENDS EmailVerification, TLAPS

(* The types; a mail that is about to be sent carries a code.                *)
RowTypes ==
    /\ rows \subseteq usedIds /\ usedIds \subseteq Id /\ drawn \in 0..MaxCode
    /\ verified \in [Id -> BOOLEAN] /\ expired \in [Id -> BOOLEAN]
    /\ code \in [Id -> 0..drawn]
    /\ \A i \in rows : code[i] # NoCode
    /\ key \in [Id -> Key] /\ edited \subseteq rows
    /\ \A i \in Id \ rows : ~verified[i] /\ ~expired[i] /\ code[i] = NoCode /\ key[i] = "none"
    /\ \A i, j \in rows : MailboxOf[i] = MailboxOf[j] => i = j
ReqTypes ==
    /\ pc \in [Req -> {"idle", "lookup", "send", "reset", "verify", "mark"}]
    /\ id \in [Req -> Id \cup {NoId}] /\ email \in [Req -> [code : 0..drawn, key : Key]]
    /\ \A r \in Req : /\ pc[r] # "idle" => id[r] \in usedIds
                      /\ pc[r] = "send" => email[r].code # NoCode
MailTypes == mailed \subseteq [id : usedIds, code : 1..drawn] /\ lost \subseteq 1..drawn
Types == RowTypes /\ ReqTypes /\ MailTypes

(* Where a code that was drawn for a row may be: in the row, in a mail about *)
(* to be sent, in a mailbox.  No code is drawn for two rows.                 *)
DrawnFor(c, i) ==
    \/ i \in rows /\ code[i] = c
    \/ \E r \in Req : pc[r] = "send" /\ id[r] = i /\ email[r].code = c
    \/ \E link \in mailed : link.id = i /\ link.code = c
CodesUnique == \A c \in 1..drawn, i, j \in Id : DrawnFor(c, i) /\ DrawnFor(c, j) => i = j

(* The key a request has read is that of the row, which is gone or edited    *)
(* otherwise; so a row a code was mailed for has a key that encrypts.        *)
KeysEncrypt ==
    /\ \A r \in Req : pc[r] \in {"reset", "send"} /\ id[r] \in rows =>
          email[r].key = key[id[r]] \/ id[r] \in edited
    /\ \A link \in mailed : link.id \in rows =>
          key[link.id] # "poor" \/ link.id \in edited

(* The code of a verification was mailed, and from the moment it is accepted *)
(* it is one that was mailed for the row.                                    *)
CodesMailed ==
    /\ \A r \in Req : pc[r] = "verify" => \E link \in mailed : link.code = email[r].code
    /\ \A r \in Req : pc[r] = "mark" => \E link \in mailed : link.id = id[r]
    /\ \A i \in rows : verified[i] => \E link \in mailed : link.id = i

-----------------------------------------------------------------------------
(* The type invariant.                                                       *)

(* A request that goes on, with a row that exists or existed and a copy.     *)
LEMMA GotoTypes ==
    ASSUME Types, drawn' \in Nat, drawn <= drawn', usedIds \subseteq usedIds',
           usedIds' \subseteq Id,
           NEW r \in Req, NEW next \in {"idle", "lookup", "send", "reset", "verify", "mark"},
           NEW i \in Id \cup {NoId}, NEW copy \in [code : 0..drawn', key : Key],
           Goto(r, next, i, copy),
           next # "idle" => i \in usedIds', next = "send" => copy.code # NoCode
    PROVE  ReqTypes'
<1>1. drawn \in Nat
  BY BoundAssumption DEF Types, RowTypes
<1>2. pc' \in [Req -> {"idle", "lookup", "send", "reset", "verify", "mark"}]
  BY DEF Types, ReqTypes, Goto
<1>3. id' \in [Req -> Id \cup {NoId}]
  BY DEF Types, ReqTypes, Goto
<1>4. email' \in [Req -> [code : 0..drawn', key : Key]]
  <2>1. \A e \in [code : 0..drawn, key : Key] : e \in [code : 0..drawn', key : Key]
    BY <1>1
  <2>2. \A s \in Req : email'[s] \in [code : 0..drawn', key : Key]
    BY <2>1 DEF Types, ReqTypes, Goto
  <2> QED BY <2>2 DEF Types, ReqTypes, Goto
<1>5. ASSUME NEW s \in Req
      PROVE  /\ pc'[s] # "idle" => id'[s] \in usedIds'
             /\ pc'[s] = "send" => email'[s].code # NoCode
  BY DEF Types, ReqTypes, Goto
<1> QED BY <1>2, <1>3, <1>4, <1>5 DEF ReqTypes

\* A request that ends.
LEMMA EndTypes ==
    ASSUME Types, drawn' = drawn, usedIds' = usedIds, NEW r \in Req, End(r)
    PROVE  ReqTypes'
<1>1. NoCopy \in [code : 0..drawn', key : Key] /\ drawn' \in Nat
  BY BoundAssumption DEF Types, RowTypes, NoCopy, NoCode, Key
<1>2. Goto(r, "idle", NoId, NoCopy)
  BY DEF End
<1>3. usedIds \subseteq Id /\ drawn <= drawn'
  BY <1>1 DEF Types, RowTypes
<1> QED BY <1>1, <1>2, <1>3, GotoTypes

(* The copy of a row has the type of a copy.                                 *)
LEMMA CopyTypes ==
    ASSUME Types, NEW i \in rows
    PROVE  Copy(i) \in [code : 0..drawn, key : Key] /\ Copy(i).code # NoCode /\ i \in usedIds
BY DEF Types, RowTypes, Copy

\* Every step keeps the types.
LEMMA TypesHold == Spec => []Types
<1>1. Init => Types
  BY BoundAssumption
  DEF Init, Types, RowTypes, ReqTypes, MailTypes, NoCopy, Key, NoCode
<1>2. Types /\ [Next]_vars => Types'
  <2> SUFFICES ASSUME Types, [Next]_vars PROVE Types'
    OBVIOUS
  <2>0. /\ drawn \in Nat /\ usedIds \subseteq Id
        /\ UNCHANGED dbVars => RowTypes'
        /\ UNCHANGED <<reqVars, drawn, usedIds>> => ReqTypes'
        /\ UNCHANGED <<drawn, usedIds, mailed, lost>> => MailTypes'
    <3>1. drawn \in Nat /\ usedIds \subseteq Id
      BY BoundAssumption DEF Types, RowTypes
    <3>2. UNCHANGED dbVars => RowTypes'
      BY DEF Types, RowTypes, dbVars
    <3>3. UNCHANGED <<reqVars, drawn, usedIds>> => ReqTypes'
      BY DEF Types, ReqTypes, reqVars
    <3>4. UNCHANGED <<drawn, usedIds, mailed, lost>> => MailTypes'
      BY DEF Types, MailTypes
    <3> QED BY <3>1, <3>2, <3>3, <3>4
  <2>1. ASSUME NEW r \in Req, CreateEmail(r) PROVE Types'
    <3>1. PICK i \in Id \ usedIds, typed \in {"none"} \cup Parses :
             /\ UniqueEmail(i)
             /\ rows' = rows \cup {i} /\ usedIds' = usedIds \cup {i}
             /\ code' = [code EXCEPT ![i] = drawn + 1]
             /\ key' = [key EXCEPT ![i] = typed]
             /\ Goto(r, "lookup", i, NoCopy)
      BY <2>1 DEF CreateEmail
    <3>2. drawn' = drawn + 1 /\ drawn < MaxCode
          /\ UNCHANGED <<verified, expired, edited, mailed, lost>>
      BY <2>1 DEF CreateEmail
    <3>3. RowTypes'
      BY <2>0, <3>1, <3>2, BoundAssumption DEF Types, RowTypes, UniqueEmail, Parses,
         Key, NoCode
    <3>4. NoCopy \in [code : 0..drawn', key : Key]
      BY <2>0, <3>2 DEF NoCopy, NoCode, Key
    <3>5. ReqTypes'
      BY <2>0, <3>1, <3>2, <3>4, GotoTypes
    <3>6. MailTypes'
      BY <2>0, <3>1, <3>2 DEF Types, MailTypes
    <3> QED BY <3>3, <3>5, <3>6 DEF Types
  <2>2. ASSUME NEW r \in Req, GetEmailByAddress(r) PROVE Types'
    <3> DEFINE found == {i \in rows : MailboxOf[i] = MailboxOf[id[r]]}
    <3>1. UNCHANGED <<dbVars, mailed>> /\ UNCHANGED <<drawn, usedIds>>
      BY <2>2 DEF GetEmailByAddress, dbVars
    <3>2. CASE End(r) /\ lost' = lost \cup {code[i] : i \in found}
      <4>1. {code[i] : i \in found} \subseteq 1..drawn
        BY <2>0 DEF Types, RowTypes, NoCode
      <4>2. MailTypes'
        BY <3>1, <3>2, <4>1 DEF Types, MailTypes
      <4> QED BY <2>0, <3>1, <3>2, <4>2, EndTypes DEF Types
    <3>3. ASSUME NEW i \in found, Goto(r, "send", i, Copy(i)), UNCHANGED lost PROVE Types'
      <4>1. ReqTypes'
        BY <2>0, <3>1, <3>3, CopyTypes, GotoTypes
      <4> QED BY <2>0, <3>1, <3>3, <4>1 DEF Types
    <3> QED BY <2>2, <3>2, <3>3 DEF GetEmailByAddress
  <2>3. ASSUME NEW r \in Req, SendVerification(r) PROVE Types'
    <3>1. UNCHANGED dbVars /\ UNCHANGED <<drawn, usedIds>> /\ End(r) /\ pc[r] = "send"
      BY <2>3 DEF SendVerification, dbVars
    <3>2. id[r] \in usedIds /\ email[r].code \in 1..drawn
      BY <2>0, <3>1 DEF Types, ReqTypes, NoCode
    <3>3. MailTypes'
      <4>1. /\ mailed' \subseteq mailed \cup {[id |-> id[r], code |-> email[r].code]}
            /\ lost' \subseteq lost \cup {email[r].code}
        BY <2>3 DEF SendVerification
      <4>2. [id |-> id[r], code |-> email[r].code] \in [id : usedIds, code : 1..drawn]
        BY <3>2
      <4> QED BY <3>1, <3>2, <4>1, <4>2 DEF Types, MailTypes
    <3> QED BY <2>0, <3>1, <3>3, EndTypes DEF Types
  <2>4. ASSUME NEW r \in Req, ResetRead(r) PROVE Types'
    <3>1. UNCHANGED dbVars /\ UNCHANGED <<drawn, usedIds, mailed, lost>>
      BY <2>4 DEF ResetRead, dbVars
    <3>2. PICK i \in rows : Goto(r, "reset", i, Copy(i))
      BY <2>4 DEF ResetRead
    <3>3. ReqTypes'
      BY <2>0, <3>1, <3>2, CopyTypes, GotoTypes
    <3> QED BY <2>0, <3>1, <3>3 DEF Types
  <2>5. ASSUME NEW r \in Req, ResetWrite(r) PROVE Types'
    <3> DEFINE i == id[r]
               copy == [email[r] EXCEPT !.code = CodeDrawn(r)]
    <3>1. /\ pc[r] = "reset" /\ drawn < MaxCode /\ drawn' = drawn + 1
          /\ Goto(r, "send", i, copy)
          /\ UNCHANGED <<rows, key, usedIds, edited, mailed, lost>>
      BY <2>5 DEF ResetWrite
    <3>2. i \in usedIds /\ email[r] \in [code : 0..drawn, key : Key]
      BY <3>1 DEF Types, ReqTypes
    <3>3. copy \in [code : 0..drawn', key : Key] /\ copy.code # NoCode
      BY <2>0, <3>1, <3>2 DEF CodeDrawn, NoCode
    <3>4. RowTypes'
      <4>1. CASE i \notin rows /\ UNCHANGED <<verified, code, expired>>
        BY <2>0, <3>1, <4>1, BoundAssumption DEF Types, RowTypes
      <4>2. CASE /\ i \in rows /\ verified' = [verified EXCEPT ![i] = FALSE]
                 /\ code' = [code EXCEPT ![i] = drawn + 1]
                 /\ expired' = [expired EXCEPT ![i] = FALSE]
        BY <2>0, <3>1, <4>2, BoundAssumption DEF Types, RowTypes, NoCode
      <4> QED BY <2>5, <4>1, <4>2 DEF ResetWrite
    <3>5. ReqTypes'
      <4> HIDE DEF copy, i
      <4> QED BY <2>0, <3>1, <3>2, <3>3, GotoTypes
    <3>6. MailTypes'
      BY <2>0, <3>1 DEF Types, MailTypes
    <3> QED BY <3>4, <3>5, <3>6 DEF Types
  <2>6. ASSUME NEW r \in Req, ResetFails(r) PROVE Types'
    <3>1. UNCHANGED dbVars /\ UNCHANGED <<drawn, usedIds, mailed, lost>> /\ End(r)
      BY <2>6 DEF ResetFails, dbVars
    <3> QED BY <2>0, <3>1, EndTypes DEF Types
  <2>7. ASSUME NEW r \in Req, Verify(r) PROVE Types'
    <3>1. UNCHANGED dbVars /\ UNCHANGED <<drawn, usedIds, mailed, lost>>
      BY <2>7 DEF Verify, dbVars
    <3>2. PICK link \in mailed, i \in rows
              : Goto(r, "verify", i, [NoCopy EXCEPT !.code = link.code])
      BY <2>7 DEF Verify
    <3>3. /\ [NoCopy EXCEPT !.code = link.code] \in [code : 0..drawn', key : Key]
          /\ i \in usedIds
      BY <2>0, <3>1 DEF Types, RowTypes, MailTypes, NoCopy, NoCode, Key
    <3>4. ReqTypes'
      BY <2>0, <3>1, <3>2, <3>3, GotoTypes
    <3> QED BY <2>0, <3>1, <3>4 DEF Types
  <2>8. ASSUME NEW r \in Req, VerifyRead(r) PROVE Types'
    <3>1. UNCHANGED dbVars /\ UNCHANGED <<drawn, usedIds, mailed, lost>> /\ pc[r] = "verify"
      BY <2>8 DEF VerifyRead, dbVars
    <3>2. id[r] \in usedIds /\ email[r] \in [code : 0..drawn, key : Key]
      BY <3>1 DEF Types, ReqTypes
    <3>3. CASE Goto(r, "mark", id[r], email[r])
      <4>1. ReqTypes'
        BY <2>0, <3>1, <3>2, <3>3, GotoTypes
      <4> QED BY <2>0, <3>1, <4>1 DEF Types
    <3>4. CASE End(r)
      BY <2>0, <3>1, <3>4, EndTypes DEF Types
    <3> QED BY <2>8, <3>3, <3>4 DEF VerifyRead
  <2>9. ASSUME NEW r \in Req, VerifyWrite(r) PROVE Types'
    <3>1. /\ UNCHANGED <<rows, code, expired, key, drawn, usedIds, edited, mailed, lost>> /\ End(r)
          /\ \/ id[r] \in rows /\ verified' = [verified EXCEPT ![id[r]] = TRUE]
             \/ UNCHANGED verified
      BY <2>9 DEF VerifyWrite
    <3>2. RowTypes'
      BY <3>1 DEF Types, RowTypes
    <3> QED BY <2>0, <3>1, <3>2, EndTypes DEF Types
  <2>10. ASSUME NEW r \in Req, UpdateEmailPubkey(r) PROVE Types'
    <3>1. RowTypes'
      BY <2>10 DEF UpdateEmailPubkey, Parses, Types, RowTypes, Key
    <3> QED BY <2>0, <2>10, <3>1 DEF UpdateEmailPubkey, Types
  <2>11. ASSUME NEW r \in Req, DeleteEmail(r) PROVE Types'
    <3>1. RowTypes'
      BY <2>0, <2>11 DEF DeleteEmail, Types, RowTypes, Key, NoCode
    <3> QED BY <2>0, <2>11, <3>1 DEF DeleteEmail, Types
  <2>12. ASSUME NEW i \in Id, Expire(i) PROVE Types'
    <3>1. RowTypes'
      BY <2>12 DEF Expire, Types, RowTypes
    <3> QED BY <2>0, <2>12, <3>1 DEF Expire, Types
  <2>13. CASE UNCHANGED vars
    <3>1. UNCHANGED <<dbVars, reqVars, drawn, usedIds, mailed, lost>>
      BY <2>13 DEF vars, dbVars
    <3> QED BY <2>0, <3>1 DEF Types
  <2> QED
    BY <2>1, <2>2, <2>3, <2>4, <2>5, <2>6, <2>7, <2>8, <2>9, <2>10, <2>11, <2>12, <2>13
       DEF Next, Finish
<1> QED BY <1>1, <1>2, PTL DEF Spec

(* Every variable has its type, each address has one row at most, and a      *)
(* deleted row leaves nothing behind.                                        *)
THEOREM TypeCorrect == Spec => []TypeOK
<1>1. Types => TypeOK
  BY DEF Types, RowTypes, ReqTypes, MailTypes, TypeOK, Copy, NoCopy
<1> QED BY <1>1, TypesHold, PTL

-----------------------------------------------------------------------------
(* Codes.                                                                    *)

(* A request that goes on sends the code it has, or has had.                 *)
LEMMA GotoCodes ==
    ASSUME Types, NEW r \in Req, NEW next, NEW j, NEW copy, Goto(r, next, j, copy),
           NEW c, NEW i, DrawnFor(c, i)'
    PROVE  \/ i \in rows' /\ code'[i] = c
           \/ next = "send" /\ j = i /\ copy.code = c
           \/ \E s \in Req : pc[s] = "send" /\ id[s] = i /\ email[s].code = c
           \/ \E link \in mailed' : link.id = i /\ link.code = c
BY DEF Goto, DrawnFor, Types, ReqTypes

(* Most steps only move codes about ...                                      *)
LEMMA CodesMove ==
    ASSUME Types, [Next]_vars, ~(\E r \in Req : CreateEmail(r) \/ ResetWrite(r)),
           NEW c \in 1..drawn, NEW i \in Id, DrawnFor(c, i)'
    PROVE  drawn' = drawn /\ DrawnFor(c, i)
<1>1. ASSUME NEW r \in Req, GetEmailByAddress(r) PROVE drawn' = drawn /\ DrawnFor(c, i)
  <2>1. UNCHANGED <<dbVars, mailed>>
    BY <1>1 DEF GetEmailByAddress
  <2>2. CASE End(r)
    <3>1. Goto(r, "idle", NoId, NoCopy) /\ rows' = rows /\ code' = code
          /\ drawn' = drawn /\ mailed' = mailed
      BY <2>1, <2>2 DEF End, dbVars
    <3>2. \/ i \in rows' /\ code'[i] = c
          \/ \E s \in Req : pc[s] = "send" /\ id[s] = i /\ email[s].code = c
          \/ \E link \in mailed' : link.id = i /\ link.code = c
      BY <3>1, GotoCodes
    <3> QED BY <3>1, <3>2 DEF DrawnFor
  <2>3. ASSUME NEW j \in rows, Goto(r, "send", j, Copy(j)) PROVE drawn' = drawn /\ DrawnFor(c, i)
    <3>1. /\ rows' = rows /\ code' = code /\ drawn' = drawn /\ mailed' = mailed
          /\ Copy(j).code = code[j]
      BY <2>1 DEF dbVars, Copy
    <3>2. \/ i \in rows' /\ code'[i] = c
          \/ j = i /\ Copy(j).code = c
          \/ \E s \in Req : pc[s] = "send" /\ id[s] = i /\ email[s].code = c
          \/ \E link \in mailed' : link.id = i /\ link.code = c
      BY <2>3, GotoCodes
    <3> QED BY <2>3, <3>1, <3>2 DEF DrawnFor
  <2> QED BY <1>1, <2>2, <2>3 DEF GetEmailByAddress
<1>2. ASSUME NEW r \in Req, SendVerification(r) PROVE drawn' = drawn /\ DrawnFor(c, i)
  <2>1. UNCHANGED dbVars /\ End(r) /\ pc[r] = "send"
        /\ mailed' \subseteq mailed \cup {[id |-> id[r], code |-> email[r].code]}
    BY <1>2 DEF SendVerification
  <2>2. Goto(r, "idle", NoId, NoCopy) /\ rows' = rows /\ code' = code /\ drawn' = drawn
    BY <2>1 DEF End, dbVars
  <2>3. \/ i \in rows' /\ code'[i] = c
        \/ \E s \in Req : pc[s] = "send" /\ id[s] = i /\ email[s].code = c
        \/ \E link \in mailed' : link.id = i /\ link.code = c
    BY <2>2, GotoCodes
  <2>4. \A link \in mailed' : link \in mailed \/ (link.id = id[r] /\ link.code = email[r].code)
    BY <2>1
  <2> QED BY <2>1, <2>2, <2>3, <2>4 DEF DrawnFor
<1>3. ASSUME NEW r \in Req, ResetRead(r) \/ ResetFails(r) \/ Verify(r) \/ VerifyRead(r)
      PROVE  drawn' = drawn /\ DrawnFor(c, i)
  <2>1. UNCHANGED <<dbVars, mailed>>
    BY <1>3 DEF ResetRead, ResetFails, Verify, VerifyRead
  <2>2. PICK next, j, copy : Goto(r, next, j, copy) /\ next # "send"
    <3>1. CASE ResetRead(r)
      <4>1. \E j \in rows : Goto(r, "reset", j, Copy(j))
        BY <3>1 DEF ResetRead
      <4> QED BY <4>1
    <3>2. CASE ResetFails(r)
      <4>1. Goto(r, "idle", NoId, NoCopy)
        BY <3>2 DEF ResetFails, End
      <4> QED BY <4>1
    <3>3. CASE Verify(r)
      <4>1. \E link \in mailed, j \in rows
              : Goto(r, "verify", j, [NoCopy EXCEPT !.code = link.code])
        BY <3>3 DEF Verify
      <4> QED BY <4>1
    <3>4. CASE VerifyRead(r)
      <4>1. Goto(r, "mark", id[r], email[r]) \/ Goto(r, "idle", NoId, NoCopy)
        BY <3>4 DEF VerifyRead, End
      <4> QED BY <4>1
    <3> QED BY <1>3, <3>1, <3>2, <3>3, <3>4
  <2>3. \/ i \in rows' /\ code'[i] = c
        \/ \E s \in Req : pc[s] = "send" /\ id[s] = i /\ email[s].code = c
        \/ \E link \in mailed' : link.id = i /\ link.code = c
    BY <2>2, GotoCodes
  <2> QED BY <2>1, <2>3 DEF DrawnFor, dbVars
<1>4. ASSUME NEW r \in Req, VerifyWrite(r) PROVE drawn' = drawn /\ DrawnFor(c, i)
  <2>1. Goto(r, "idle", NoId, NoCopy)
    BY <1>4 DEF VerifyWrite, End
  <2>2. \/ i \in rows' /\ code'[i] = c
        \/ \E s \in Req : pc[s] = "send" /\ id[s] = i /\ email[s].code = c
        \/ \E link \in mailed' : link.id = i /\ link.code = c
    BY <2>1, GotoCodes
  <2> QED BY <1>4, <2>2 DEF VerifyWrite, DrawnFor
<1>5. ASSUME NEW r \in Req, UpdateEmailPubkey(r) \/ DeleteEmail(r)
      PROVE  drawn' = drawn /\ DrawnFor(c, i)
  BY <1>5 DEF UpdateEmailPubkey, DeleteEmail, DrawnFor, reqVars, Types, RowTypes
<1>6. ASSUME NEW j \in Id, Expire(j) PROVE drawn' = drawn /\ DrawnFor(c, i)
  BY <1>6 DEF Expire, DrawnFor, reqVars
<1>7. CASE UNCHANGED vars
  BY <1>7 DEF DrawnFor, vars, dbVars, reqVars
<1> QED BY <1>1, <1>2, <1>3, <1>4, <1>5, <1>6, <1>7 DEF Next, Finish

(* ... and two draw one, for one row.                                        *)
LEMMA CodesDraw ==
    ASSUME Types, NEW r \in Req, CreateEmail(r) \/ ResetWrite(r)
    PROVE  /\ drawn' = drawn + 1
           /\ \E x \in Id : \A c \in 1..(drawn + 1), i \in Id :
                 DrawnFor(c, i)' => DrawnFor(c, i) \/ (c = drawn + 1 /\ i = x)
<1>1. CASE CreateEmail(r)
  <2>1. PICK x \in Id \ usedIds :
           /\ rows' = rows \cup {x} /\ code' = [code EXCEPT ![x] = drawn + 1]
           /\ Goto(r, "lookup", x, NoCopy)
    BY <1>1 DEF CreateEmail
  <2>2. drawn' = drawn + 1 /\ mailed' = mailed
    BY <1>1 DEF CreateEmail
  <2>3. ASSUME NEW c \in 1..(drawn + 1), NEW i \in Id, DrawnFor(c, i)'
        PROVE  DrawnFor(c, i) \/ (c = drawn + 1 /\ i = x)
    <3>0. Goto(r, "lookup", x, NoCopy)
      BY <2>1
    <3>1. (i \in rows' /\ code'[i] = c) \/ DrawnFor(c, i)
      <4>1. \/ i \in rows' /\ code'[i] = c
            \/ \E s \in Req : pc[s] = "send" /\ id[s] = i /\ email[s].code = c
            \/ \E link \in mailed' : link.id = i /\ link.code = c
        BY <3>0, <2>3, GotoCodes
      <4> QED BY <4>1, <2>2 DEF DrawnFor
    <3>2. i \in rows' /\ code'[i] = c => (i \in rows /\ code[i] = c) \/ (c = drawn + 1 /\ i = x)
      BY <2>1 DEF Types, RowTypes
    <3> QED BY <3>1, <3>2 DEF DrawnFor
  <2> QED BY <2>2, <2>3
<1>2. CASE ResetWrite(r)
  <2> DEFINE x == id[r]
             copy == [email[r] EXCEPT !.code = CodeDrawn(r)]
  <2>1. /\ pc[r] = "reset" /\ drawn' = drawn + 1 /\ mailed' = mailed /\ rows' = rows
        /\ code' = code \/ code' = [code EXCEPT ![x] = drawn + 1]
        /\ Goto(r, "send", x, copy)
    BY <1>2 DEF ResetWrite
  <2>2. x \in Id /\ email[r] \in [code : 0..drawn, key : Key]
    BY <2>1 DEF Types, ReqTypes, RowTypes
  <2>3. copy.code = drawn + 1
    BY <2>2 DEF CodeDrawn
  <2> HIDE DEF x, copy
  <2>4. ASSUME NEW c \in 1..(drawn + 1), NEW i \in Id, DrawnFor(c, i)'
        PROVE  DrawnFor(c, i) \/ (c = drawn + 1 /\ i = x)
    <3>1. (i \in rows' /\ code'[i] = c) \/ (x = i /\ copy.code = c) \/ DrawnFor(c, i)
      <4>1. Goto(r, "send", x, copy) /\ mailed' = mailed
        BY <2>1
      <4>2. \/ i \in rows' /\ code'[i] = c
            \/ x = i /\ copy.code = c
            \/ \E s \in Req : pc[s] = "send" /\ id[s] = i /\ email[s].code = c
            \/ \E link \in mailed' : link.id = i /\ link.code = c
        BY <2>4, <4>1, GotoCodes
      <4> QED BY <4>1, <4>2 DEF DrawnFor
    <3>2. i \in rows' /\ code'[i] = c => (i \in rows /\ code[i] = c) \/ (c = drawn + 1 /\ i = x)
      BY <2>1 DEF Types, RowTypes
    <3> QED BY <2>3, <3>1, <3>2 DEF DrawnFor
  <2> QED BY <2>1, <2>2, <2>4
<1> QED BY <1>1, <1>2

\* Only CreateEmail and ResetVerificationCode draw codes.
LEMMA DrawnUnchanged ==
    ASSUME [Next]_vars, ~(\E r \in Req : CreateEmail(r) \/ ResetWrite(r))
    PROVE  drawn' = drawn
BY DEF Next, Finish, GetEmailByAddress, SendVerification, ResetRead, ResetFails, Verify,
   VerifyRead, VerifyWrite, UpdateEmailPubkey, DeleteEmail, Expire, dbVars, vars

\* No code is drawn for two rows.
LEMMA CodesStayUnique == Spec => []CodesUnique
<1>1. Init => CodesUnique
  BY DEF Init, CodesUnique
<1>2. Types /\ CodesUnique /\ [Next]_vars => CodesUnique'
  <2> SUFFICES ASSUME Types, CodesUnique, [Next]_vars,
                      NEW c \in 1..drawn', NEW i \in Id, NEW j \in Id,
                      DrawnFor(c, i)', DrawnFor(c, j)'
               PROVE  i = j
    BY DEF CodesUnique, DrawnFor
  <2>0. drawn \in Nat
    BY BoundAssumption DEF Types, RowTypes
  <2>1. CASE \E r \in Req : CreateEmail(r) \/ ResetWrite(r)
    <3>1. drawn' = drawn + 1
      BY <2>1, CodesDraw
    <3>2. PICK x \in Id : \A d \in 1..(drawn + 1), k \in Id :
             DrawnFor(d, k)' => DrawnFor(d, k) \/ (d = drawn + 1 /\ k = x)
      BY <2>1, CodesDraw
    <3>3. /\ DrawnFor(c, i) \/ (c = drawn + 1 /\ i = x)
          /\ DrawnFor(c, j) \/ (c = drawn + 1 /\ j = x)
      BY <3>1, <3>2
    <3>4. \A k \in Id : ~DrawnFor(drawn + 1, k)
      BY <2>0 DEF DrawnFor, Types, RowTypes, ReqTypes, MailTypes
    <3>5. CASE c = drawn + 1
      BY <3>3, <3>4, <3>5
    <3>6. CASE c \in 1..drawn
      BY <2>0, <3>3, <3>6 DEF CodesUnique
    <3> QED BY <2>0, <3>1, <3>5, <3>6
  <2>2. CASE ~(\E r \in Req : CreateEmail(r) \/ ResetWrite(r))
    <3>1. drawn' = drawn
      BY <2>2, DrawnUnchanged
    <3>2. DrawnFor(c, i) /\ DrawnFor(c, j)
      BY <2>2, <3>1, CodesMove
    <3> QED BY <3>1, <3>2 DEF CodesUnique
  <2> QED BY <2>1, <2>2
<1> QED BY <1>1, <1>2, TypesHold, PTL DEF Spec

\* A row that a code was mailed for has a key that encrypts.
LEMMA KeysStayGood == Spec => []KeysEncrypt
<1>1. Init => KeysEncrypt
  BY DEF Init, KeysEncrypt
<1>2. Types /\ KeysEncrypt /\ [Next]_vars => KeysEncrypt'
  <2> SUFFICES ASSUME Types, KeysEncrypt, [Next]_vars PROVE KeysEncrypt'
    OBVIOUS
  <2> USE DEF Types, RowTypes, ReqTypes, MailTypes, KeysEncrypt
  <2>1. ASSUME NEW r \in Req, CreateEmail(r) PROVE KeysEncrypt'
    BY <2>1 DEF CreateEmail, UniqueEmail, Parses, Goto
  <2>2. ASSUME NEW r \in Req, GetEmailByAddress(r) PROVE KeysEncrypt'
    BY <2>2 DEF GetEmailByAddress, Goto, End, dbVars, Copy
  <2>3. ASSUME NEW r \in Req, SendVerification(r) PROVE KeysEncrypt'
    BY <2>3 DEF SendVerification, Goto, End, dbVars, Encrypts
  <2>4. ASSUME NEW r \in Req, ResetRead(r) PROVE KeysEncrypt'
    BY <2>4 DEF ResetRead, Goto, dbVars, Copy
  <2>5. ASSUME NEW r \in Req, ResetWrite(r) PROVE KeysEncrypt'
    BY <2>5 DEF ResetWrite, Goto, CodeDrawn
  <2>6. ASSUME NEW r \in Req, ResetFails(r) PROVE KeysEncrypt'
    BY <2>6 DEF ResetFails, Goto, End, dbVars
  <2>7. ASSUME NEW r \in Req, Verify(r) PROVE KeysEncrypt'
    BY <2>7 DEF Verify, Goto, dbVars, NoCopy
  <2>8. ASSUME NEW r \in Req, VerifyRead(r) PROVE KeysEncrypt'
    BY <2>8 DEF VerifyRead, Goto, End, dbVars
  <2>9. ASSUME NEW r \in Req, VerifyWrite(r) PROVE KeysEncrypt'
    BY <2>9 DEF VerifyWrite, Goto, End
  <2>10. ASSUME NEW r \in Req, UpdateEmailPubkey(r) PROVE KeysEncrypt'
    BY <2>10 DEF UpdateEmailPubkey, Parses, reqVars
  <2>11. ASSUME NEW r \in Req, DeleteEmail(r) PROVE KeysEncrypt'
    BY <2>11 DEF DeleteEmail, reqVars
  <2>12. ASSUME NEW i \in Id, Expire(i) PROVE KeysEncrypt'
    BY <2>12 DEF Expire, reqVars
  <2>13. CASE UNCHANGED vars
    BY <2>13 DEF vars, dbVars, reqVars
  <2> QED
    BY <2>1, <2>2, <2>3, <2>4, <2>5, <2>6, <2>7, <2>8, <2>9, <2>10, <2>11, <2>12, <2>13 DEF
       Next, Finish
<1> QED BY <1>1, <1>2, TypesHold, PTL DEF Spec

\* What verifies a row was mailed for it.
LEMMA CodesStayMailed == Spec => []CodesMailed
<1>1. Init => CodesMailed
  BY DEF Init, CodesMailed
<1>2. Types /\ CodesUnique /\ CodesMailed /\ [Next]_vars => CodesMailed'
  <2> SUFFICES ASSUME Types, CodesUnique, CodesMailed, [Next]_vars PROVE CodesMailed'
    OBVIOUS
  <2> USE DEF Types, RowTypes, ReqTypes, MailTypes, CodesMailed
  <2>1. ASSUME NEW r \in Req, CreateEmail(r) PROVE CodesMailed'
    BY <2>1 DEF CreateEmail, UniqueEmail, Parses, Goto
  <2>2. ASSUME NEW r \in Req, GetEmailByAddress(r) PROVE CodesMailed'
    <3>1. UNCHANGED <<dbVars, mailed>> /\ pc[r] = "lookup"
      BY <2>2 DEF GetEmailByAddress
    <3>2. PICK next, j, copy : Goto(r, next, j, copy) /\ next \in {"send", "idle"}
      <4>1. \/ \E j \in rows : Goto(r, "send", j, Copy(j))
            \/ Goto(r, "idle", NoId, NoCopy)
        BY <2>2 DEF GetEmailByAddress, End
      <4> QED BY <4>1
    <3> QED BY <3>1, <3>2 DEF Goto, dbVars
  <2>3. ASSUME NEW r \in Req, SendVerification(r) PROVE CodesMailed'
    BY <2>3 DEF SendVerification, Goto, End, dbVars, Encrypts
  <2>4. ASSUME NEW r \in Req, ResetRead(r) PROVE CodesMailed'
    BY <2>4 DEF ResetRead, Goto, dbVars, Copy
  <2>5. ASSUME NEW r \in Req, ResetWrite(r) PROVE CodesMailed'
    BY <2>5 DEF ResetWrite, Goto, CodeDrawn
  <2>6. ASSUME NEW r \in Req, ResetFails(r) PROVE CodesMailed'
    BY <2>6 DEF ResetFails, Goto, End, dbVars
  <2>7. ASSUME NEW r \in Req, Verify(r) PROVE CodesMailed'
    BY <2>7 DEF Verify, Goto, dbVars, NoCopy
  <2>8. ASSUME NEW r \in Req, VerifyRead(r) PROVE CodesMailed'
    <3>1. UNCHANGED <<dbVars, mailed>> /\ pc[r] = "verify"
      BY <2>8 DEF VerifyRead
    <3>2. CASE End(r)
      BY <3>1, <3>2 DEF Goto, End, dbVars
    <3>3. CASE /\ id[r] \in rows /\ code[id[r]] = email[r].code
               /\ Goto(r, "mark", id[r], email[r])
      <4>1. PICK link \in mailed : link.code = email[r].code
        BY <3>1
      <4>2. link.id \in Id /\ link.code \in 1..drawn /\ id[r] \in Id
        BY <3>3
      <4>3. DrawnFor(link.code, link.id) /\ DrawnFor(link.code, id[r])
        BY <3>3, <4>1 DEF DrawnFor
      <4>4. link.id = id[r]
        BY <4>2, <4>3 DEF CodesUnique
      <4> QED BY <3>1, <3>3, <4>4 DEF Goto, dbVars
    <3> QED BY <2>8, <3>2, <3>3 DEF VerifyRead, Accepts
  <2>9. ASSUME NEW r \in Req, VerifyWrite(r) PROVE CodesMailed'
    BY <2>9 DEF VerifyWrite, Goto, End
  <2>10. ASSUME NEW r \in Req, UpdateEmailPubkey(r) PROVE CodesMailed'
    BY <2>10 DEF UpdateEmailPubkey, Parses, reqVars
  <2>11. ASSUME NEW r \in Req, DeleteEmail(r) PROVE CodesMailed'
    BY <2>11 DEF DeleteEmail, reqVars
  <2>12. ASSUME NEW i \in Id, Expire(i) PROVE CodesMailed'
    BY <2>12 DEF Expire, reqVars
  <2>13. CASE UNCHANGED vars
    BY <2>13 DEF vars, dbVars, reqVars
  <2> QED
    BY <2>1, <2>2, <2>3, <2>4, <2>5, <2>6, <2>7, <2>8, <2>9, <2>10, <2>11, <2>12, <2>13 DEF
       Next, Finish
<1> QED BY <1>1, <1>2, TypesHold, CodesStayUnique, PTL DEF Spec

(* A verified row was verified with a code that was mailed to its address,   *)
(* with the key it has unless that was replaced: no interleaving of resets,  *)
(* deletions and other verifications gets around it.                         *)
THEOREM OnlyOwnersVerify == Spec => []VerifiedByOwner
<1>1. Types /\ KeysEncrypt /\ CodesMailed => VerifiedByOwner
  <2> SUFFICES ASSUME Types, KeysEncrypt, CodesMailed, NEW i \in rows, verified[i]
               PROVE  /\ \E link \in mailed : MailboxOf[link.id] = MailboxOf[i]
                      /\ key[i] # "poor" \/ i \in edited
    BY DEF VerifiedByOwner
  <2>1. PICK link \in mailed : link.id = i
    BY DEF CodesMailed
  <2> QED BY <2>1 DEF KeysEncrypt
<1> QED BY <1>1, TypesHold, KeysStayGood, CodesStayMailed, PTL

-----------------------------------------------------------------------------
(* The code in a row is on its way, has arrived, or its mail failed: no      *)
(* request replaces the code of a row without mailing the one it drew, and   *)
(* no mail carries a code of another row.                                    *)
THEOREM EveryCodeGetsOut == Spec => []CodeGetsOut
<1>1. Init => CodeGetsOut
  BY DEF Init, CodeGetsOut
<1>2. Types /\ Types' /\ CodesUnique /\ CodeGetsOut /\ [Next]_vars => CodeGetsOut'
  <2> SUFFICES ASSUME Types, Types', CodesUnique, CodeGetsOut, [Next]_vars, NEW i \in rows'
               PROVE  CodeReaches(i)'
    BY DEF CodeGetsOut, CodeReaches
  <2> USE DEF CodeReaches
  <2>1. ASSUME NEW r \in Req, CreateEmail(r) PROVE CodeReaches(i)'
    <3>1. PICK x \in Id \ usedIds :
             /\ rows' = rows \cup {x} /\ code' = [code EXCEPT ![x] = drawn + 1]
             /\ Goto(r, "lookup", x, NoCopy)
      BY <2>1 DEF CreateEmail
    <3>2. UNCHANGED <<mailed, lost>> /\ pc[r] = "idle"
      BY <2>1 DEF CreateEmail
    <3>3. pc'[r] = "lookup" /\ id'[r] = x
      BY <3>1 DEF Goto, Types, ReqTypes
    <3>4. CASE i = x
      BY <3>3, <3>4
    <3>5. CASE i # x
      <4>1. CodeReaches(i) /\ code'[i] = code[i]
        BY <3>1, <3>5 DEF CodeGetsOut, Types, RowTypes
      <4> QED BY <3>1, <3>2, <4>1 DEF Goto, Types, ReqTypes
    <3> QED BY <3>4, <3>5
  <2>2. ASSUME NEW r \in Req, GetEmailByAddress(r) PROVE CodeReaches(i)'
    <3> DEFINE found == {j \in rows : MailboxOf[j] = MailboxOf[id[r]]}
    <3>1. UNCHANGED <<rows, code, mailed>> /\ pc[r] = "lookup" /\ lost \subseteq lost'
      BY <2>2 DEF GetEmailByAddress, dbVars
    <3>2. CodeReaches(i) /\ i \in rows
      BY <3>1 DEF CodeGetsOut
    <3>3. CASE MailboxOf[id[r]] = MailboxOf[i]
      <4>1. CASE lost' = lost \cup {code[j] : j \in found}
        <5>1. i \in found
          BY <3>2, <3>3
        <5> QED BY <3>1, <4>1, <5>1
      <4>2. ASSUME NEW j \in found, Goto(r, "send", j, Copy(j)) PROVE CodeReaches(i)'
        <5>1. j = i
          BY <3>2, <3>3 DEF Types, RowTypes
        <5>2. pc'[r] = "send" /\ email'[r].code = code[i]
          BY <4>2, <5>1 DEF Goto, Copy, Types, ReqTypes
        <5> QED BY <3>1, <5>2
      <4> QED BY <2>2, <4>1, <4>2 DEF GetEmailByAddress
    <3>4. CASE MailboxOf[id[r]] # MailboxOf[i]
      <4>1. PICK next, j, copy : Goto(r, next, j, copy)
        <5>1. \/ \E j \in rows : Goto(r, "send", j, Copy(j))
              \/ Goto(r, "idle", NoId, NoCopy)
          BY <2>2 DEF GetEmailByAddress, End
        <5> QED BY <5>1
      <4> QED BY <3>1, <3>2, <3>4, <4>1 DEF Goto, Types, ReqTypes
    <3> QED BY <3>3, <3>4
  <2>3. ASSUME NEW r \in Req, SendVerification(r) PROVE CodeReaches(i)'
    <3>1. UNCHANGED <<rows, code>> /\ pc[r] = "send" /\ Goto(r, "idle", NoId, NoCopy)
      BY <2>3 DEF SendVerification, End, dbVars
    <3>2. CodeReaches(i) /\ i \in rows
      BY <3>1 DEF CodeGetsOut
    <3>3. mailed \subseteq mailed' /\ lost \subseteq lost'
      BY <2>3 DEF SendVerification
    <3>4. CASE email[r].code = code[i]
      <4>1. id[r] = i
        <5>1. code[i] \in 1..drawn /\ id[r] \in Id /\ i \in Id
          BY <3>1, <3>2 DEF Types, RowTypes, ReqTypes, NoCode
        <5>2. DrawnFor(code[i], i) /\ DrawnFor(code[i], id[r])
          BY <3>1, <3>2, <3>4 DEF DrawnFor
        <5> QED BY <5>1, <5>2 DEF CodesUnique
      <4>2. [id |-> i, code |-> code[i]] \in mailed' \/ code[i] \in lost'
        BY <2>3, <3>4, <4>1 DEF SendVerification
      <4> QED BY <3>1, <4>2
    <3>5. CASE email[r].code # code[i]
      BY <3>1, <3>2, <3>3, <3>5 DEF Goto, Types, ReqTypes
    <3> QED BY <3>4, <3>5
  <2>4. ASSUME NEW r \in Req, ResetWrite(r) PROVE CodeReaches(i)'
    <3> DEFINE copy == [email[r] EXCEPT !.code = CodeDrawn(r)]
    <3>1. /\ UNCHANGED <<rows, mailed, lost>> /\ pc[r] = "reset" /\ Goto(r, "send", id[r], copy)
          /\ code' = code \/ code' = [code EXCEPT ![id[r]] = drawn + 1]
      BY <2>4 DEF ResetWrite
    <3>2. copy.code = drawn + 1
      BY DEF CodeDrawn, Types, ReqTypes
    <3>3. CodeReaches(i) /\ i \in rows
      BY <3>1 DEF CodeGetsOut
    <3>4. CASE code'[i] = drawn + 1
      BY <3>1, <3>2, <3>4 DEF Goto, Types, ReqTypes
    <3>5. CASE code'[i] = code[i]
      BY <3>1, <3>3, <3>5 DEF Goto, Types, ReqTypes
    <3> QED BY <3>1, <3>4, <3>5 DEF Types, RowTypes
  <2>5. ASSUME NEW r \in Req, NEW next, NEW j, NEW copy, Goto(r, next, j, copy),
               UNCHANGED <<rows, code, mailed, lost>>, pc[r] \notin {"lookup", "send"}
        PROVE  CodeReaches(i)'
    BY <2>5 DEF CodeGetsOut, Goto, Types, ReqTypes
  <2>6. ASSUME NEW r \in Req, ResetRead(r) \/ ResetFails(r) \/ Verify(r) \/ VerifyRead(r)
                              \/ VerifyWrite(r)
        PROVE  CodeReaches(i)'
    <3>1. UNCHANGED <<rows, code, mailed, lost>> /\ pc[r] \notin {"lookup", "send"}
      BY <2>6 DEF ResetRead, ResetFails, Verify, VerifyRead, VerifyWrite, dbVars
    <3>2. CASE ResetRead(r)
      BY <2>5, <3>1, <3>2 DEF ResetRead
    <3>3. CASE ResetFails(r)
      BY <2>5, <3>1, <3>3 DEF ResetFails, End
    <3>4. CASE Verify(r)
      BY <2>5, <3>1, <3>4 DEF Verify
    <3>5. CASE VerifyRead(r)
      BY <2>5, <3>1, <3>5 DEF VerifyRead, End
    <3>6. CASE VerifyWrite(r)
      BY <2>5, <3>1, <3>6 DEF VerifyWrite, End
    <3> QED BY <2>6, <3>2, <3>3, <3>4, <3>5, <3>6
  <2>7. ASSUME NEW r \in Req, UpdateEmailPubkey(r) PROVE CodeReaches(i)'
    BY <2>7 DEF UpdateEmailPubkey, reqVars, CodeGetsOut
  <2>8. ASSUME NEW r \in Req, DeleteEmail(r) PROVE CodeReaches(i)'
    BY <2>8 DEF DeleteEmail, reqVars, CodeGetsOut, Types, RowTypes
  <2>9. ASSUME NEW j \in Id, Expire(j) PROVE CodeReaches(i)'
    BY <2>9 DEF Expire, reqVars, CodeGetsOut
  <2>10. CASE UNCHANGED vars
    BY <2>10 DEF vars, dbVars, reqVars, CodeGetsOut
  <2> QED
    BY <2>1, <2>2, <2>3, <2>4, <2>6, <2>7, <2>8, <2>9, <2>10 DEF Next, Finish
<1> QED BY <1>1, <1>2, TypesHold, CodesStayUnique, PTL DEF Spec
=============================================================================
