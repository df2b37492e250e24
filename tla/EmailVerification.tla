--------------------------- MODULE EmailVerification ---------------------------
(***************************************************************************)
(* The email addresses of one user and their verification: api/email.go    *)
(* (CreateEmail, ResetVerificationCode, VerifyEmail, UpdateEmailPubkey,    *)
(* DeleteEmail) as http/handlers_notification.go calls them (CreateEmail,  *)
(* ResetVerification, Verify, UpdateEmail, DeleteEmail).  Each request     *)
(* reads the row, decides, and writes in a statement of its own, so two    *)
(* requests of the user's browser and mail reader interleave between the   *)
(* read and the write.                                                     *)
(*                                                                         *)
(* Codes are UUIDs: drawn from a counter here, never guessed.  A link in a *)
(* mail carries the id of the row and a code.  A PGP key may parse and yet *)
(* not encrypt (it has no subkey for it, or that has expired).             *)
(***************************************************************************)
EXTENDS Integers, FiniteSets

CONSTANTS
    Id,         \* ids of rows of table emails
    Mailbox,    \* email addresses
    MailboxOf,  \* the address the row of each id is created for
    Req,        \* concurrent requests
    MaxCode     \* bound: verification codes drawn

ASSUME MailboxAssumption == MailboxOf \in [Id -> Mailbox]
ASSUME BoundAssumption == MaxCode \in Nat

NoId == "noid"
NoCode == 0
Key == {"none", "good", "poor"}     \* what column pgp_pubkey may hold
ASSUME NoIdAssumption == NoId \notin Id

VARIABLES
    rows,       \* ids of the rows of table emails
    verified, code, expired,    \* is_verified, verification_code, _expires
    key,        \* pgp_pubkey: none, one that encrypts, one that only parses
    drawn,      \* codes drawn so far
    pc, id, email,  \* of each request: where it is, the id it is about, its
                    \* copy of the row
    mailed,     \* history: [id, code] of the verifications delivered
    lost,       \* history: codes whose mail failed
    edited,     \* history: ids whose key was changed
    usedIds     \* history: ids drawn so far

dbVars == <<rows, verified, code, expired, key, drawn, usedIds, edited>>
reqVars == <<pc, id, email>>
vars == <<dbVars, reqVars, mailed, lost>>

Code == 1..MaxCode
NoCopy == [code |-> NoCode, key |-> "none"]
Copy(i) == [code |-> code[i], key |-> key[i]]

Init ==
    /\ rows = {} /\ usedIds = {} /\ drawn = 0
    /\ verified = [i \in Id |-> FALSE] /\ code = [i \in Id |-> NoCode]
    /\ expired = [i \in Id |-> FALSE]
    /\ pc = [r \in Req |-> "idle"] /\ id = [r \in Req |-> NoId]
    /\ key = [i \in Id |-> "none"] /\ edited = {}
    /\ email = [r \in Req |-> NoCopy]
    /\ mailed = {} /\ lost = {}

Goto(r, next, i, copy) ==
    /\ pc' = [pc EXCEPT ![r] = next]
    /\ id' = [id EXCEPT ![r] = i]
    /\ email' = [email EXCEPT ![r] = copy]
End(r) == Goto(r, "idle", NoId, NoCopy)

-----------------------------------------------------------------------------
(* Handler CreateEmail: insert, read back by address, send.                  *)

\* UNIQUE (user_id, email).
UniqueId(i) == i \notin rows
UniqueEmail(i) == \A other \in rows : MailboxOf[other] # MailboxOf[i]

\* What isPubkeyValid lets through: it parses the key and nothing more.
Parses == {"good", "poor"}

\* verification_code DEFAULT gen_random_uuid().
CreateEmail(r) ==
    /\ pc[r] = "idle" /\ drawn < MaxCode
    /\ \E i \in Id \ usedIds, typed \in {"none"} \cup Parses :
          /\ UniqueEmail(i)
          /\ rows' = rows \cup {i} /\ usedIds' = usedIds \cup {i}
          /\ code' = [code EXCEPT ![i] = drawn + 1]
          /\ key' = [key EXCEPT ![i] = typed]
          /\ Goto(r, "lookup", i, NoCopy)
    /\ drawn' = drawn + 1
    /\ UNCHANGED <<verified, expired, edited, mailed, lost>>

\* GetEmailByAddress: the row of the same address, which need not be the row
\* that was inserted.
GetEmailByAddress(r) ==
    LET found == {i \in rows : MailboxOf[i] = MailboxOf[id[r]]} IN
    /\ pc[r] = "lookup"
    /\ \/ \E i \in found : Goto(r, "send", i, Copy(i)) /\ UNCHANGED lost
       \/ End(r) /\ lost' = lost \cup {code[i] : i \in found}  \* none, or it fails
    /\ UNCHANGED <<dbVars, mailed>>

\* encryptWithPGP: a key that does not encrypt ends in a nil pointer, and
\* middleware.Recover answers 500.
SentInTheClear(k) == TRUE
Encrypts(k) == k # "poor"

\* Delivered or failed.  (The failure of a mail without a key is logged only;
\* the request then answers as if it had been sent.)
SendVerification(r) ==
    /\ pc[r] = "send"
    /\ \/ /\ Encrypts(email[r].key) /\ UNCHANGED lost
          /\ mailed' = mailed \cup {[id |-> id[r], code |-> email[r].code]}
       \/ lost' = lost \cup {email[r].code} /\ UNCHANGED mailed
    /\ End(r)
    /\ UNCHANGED dbVars

-----------------------------------------------------------------------------
(* ResetVerificationCode.                                                    *)

ResetRead(r) ==
    /\ pc[r] = "idle"
    /\ \E i \in rows : ~verified[i] /\ Goto(r, "reset", i, Copy(i))
    /\ UNCHANGED <<dbVars, mailed, lost>>

\* The copy of the row that is returned, and mailed, has the new code.
CodeRead(r) == email[r].code
CodeDrawn(r) == drawn + 1

ResetWrite(r) ==
    LET i == id[r] IN
    /\ pc[r] = "reset" /\ drawn < MaxCode
    /\ drawn' = drawn + 1
    /\ IF i \in rows
       THEN /\ verified' = [verified EXCEPT ![i] = FALSE]
            /\ code' = [code EXCEPT ![i] = drawn + 1]
            /\ expired' = [expired EXCEPT ![i] = FALSE]
       ELSE UNCHANGED <<verified, code, expired>>
    /\ Goto(r, "send", i, [email[r] EXCEPT !.code = CodeDrawn(r)])
    /\ UNCHANGED <<rows, key, usedIds, edited, mailed, lost>>

\* The statement fails: its error is returned and nothing is mailed.
ResetFails(r) ==
    /\ pc[r] = "reset"
    /\ End(r)
    /\ UNCHANGED <<dbVars, mailed, lost>>

-----------------------------------------------------------------------------
(* Verify, with a code somebody received: the handler reads the row, and     *)
(* VerifyEmail reads it again.                                               *)

\* Whether the row that was read accepts the code of the request.
AcceptsUnexpired(i, c) == ~expired[i]
Accepts(i, c) == code[i] = c /\ ~expired[i]

Verify(r) ==
    /\ pc[r] = "idle"
    /\ \E link \in mailed, i \in rows :
          Goto(r, "verify", i, [NoCopy EXCEPT !.code = link.code])
    /\ UNCHANGED <<dbVars, mailed, lost>>

VerifyRead(r) ==
    LET i == id[r] IN
    /\ pc[r] = "verify"
    /\ IF i \in rows /\ ~verified[i] /\ Accepts(i, email[r].code)
       THEN Goto(r, "mark", i, email[r]) ELSE End(r)
    /\ UNCHANGED <<dbVars, mailed, lost>>

VerifyWrite(r) ==
    /\ pc[r] = "mark"
    /\ \/ id[r] \in rows /\ verified' = [verified EXCEPT ![id[r]] = TRUE]
       \/ UNCHANGED verified   \* no row matches, or the statement fails
    /\ End(r)
    /\ UNCHANGED <<rows, code, expired, key, drawn, usedIds, edited, mailed, lost>>

-----------------------------------------------------------------------------
\* UpdateEmail; an empty field leaves the column as it is, so a key is
\* replaced and never removed.
UpdateEmailPubkey(r) ==
    /\ pc[r] = "idle"
    /\ \E i \in rows, typed \in Parses :
          key' = [key EXCEPT ![i] = typed] /\ edited' = edited \cup {i}
    /\ UNCHANGED <<rows, verified, code, expired, drawn, usedIds, reqVars, mailed, lost>>

\* DELETE FROM emails.  (What the columns held is forgotten.)
DeleteEmail(r) ==
    /\ pc[r] = "idle"
    /\ \E i \in rows :
          /\ rows' = rows \ {i}
          /\ verified' = [verified EXCEPT ![i] = FALSE]
          /\ code' = [code EXCEPT ![i] = NoCode]
          /\ expired' = [expired EXCEPT ![i] = FALSE]
          /\ key' = [key EXCEPT ![i] = "none"]
          /\ edited' = edited \ {i}
    /\ UNCHANGED <<drawn, usedIds, reqVars, mailed, lost>>

\* 24 hours pass since the code was drawn.
Expire(i) ==
    /\ i \in rows /\ ~expired[i]
    /\ expired' = [expired EXCEPT ![i] = TRUE]
    /\ UNCHANGED <<rows, verified, code, key, drawn, usedIds, edited, reqVars, mailed, lost>>

-----------------------------------------------------------------------------
Finish(r) == GetEmailByAddress(r) \/ SendVerification(r) \/ ResetWrite(r)
             \/ ResetFails(r) \/ VerifyRead(r) \/ VerifyWrite(r)

Next == (\E r \in Req : CreateEmail(r) \/ ResetRead(r) \/ Verify(r)
                        \/ UpdateEmailPubkey(r) \/ DeleteEmail(r) \/ Finish(r))
        \/ (\E i \in Id : Expire(i))

Spec == Init /\ [][Next]_vars

-----------------------------------------------------------------------------
(* Properties.                                                               *)

\* The types; one row for each address; and what a deleted row leaves.
TypeOK ==
    /\ rows \subseteq usedIds /\ usedIds \subseteq Id /\ drawn \in 0..MaxCode
    /\ verified \in [Id -> BOOLEAN] /\ expired \in [Id -> BOOLEAN]
    /\ code \in [Id -> 0..drawn]
    /\ \A i \in rows : code[i] # NoCode
    /\ key \in [Id -> Key] /\ edited \subseteq rows
    /\ \A i \in Id \ rows : ~verified[i] /\ ~expired[i] /\ Copy(i) = NoCopy
    /\ \A i, j \in rows : MailboxOf[i] = MailboxOf[j] => i = j
    /\ pc \in [Req -> {"idle", "lookup", "send", "reset", "verify", "mark"}]
    /\ id \in [Req -> Id \cup {NoId}] /\ email \in [Req -> [code : 0..drawn, key : Key]]
    /\ \A r \in Req : pc[r] # "idle" => id[r] \in usedIds
    /\ mailed \subseteq [id : usedIds, code : 1..drawn] /\ lost \subseteq 1..drawn

\* A row is verified only through a code that was delivered to its own
\* address, whatever resets, deletions and second verifications ran between
\* the read and the write; so the key it was created with does encrypt, and
\* the notifications to it do not end in the nil pointer either - unless the
\* user has replaced the key.
VerifiedByOwner ==
    \A i \in rows : verified[i] =>
        /\ \E link \in mailed : MailboxOf[link.id] = MailboxOf[i]
        /\ key[i] # "poor" \/ i \in edited

\* The code in an unverified row is on its way to its address, has arrived
\* there, or its mail failed: no interleaving leaves a row that only a code
\* that was never mailed can verify.
CodeReaches(i) ==
    \/ [id |-> i, code |-> code[i]] \in mailed
    \/ code[i] \in lost
    \/ \E r \in Req : /\ pc[r] = "send" /\ email[r].code = code[i]
    \/ \E r \in Req : /\ pc[r] = "lookup" /\ MailboxOf[id[r]] = MailboxOf[i]
CodeGetsOut == \A i \in rows : CodeReaches(i)
=============================================================================
