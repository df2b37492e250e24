----------------------------- MODULE AccountStore -----------------------------
(***************************************************************************)
(* What a user keeps: the tables users, xpubs, addresses, emails and       *)
(* webhooks with their constraints (db/migrations), the list of watched    *)
(* addresses in memory (api.addresses), and the HTTP requests that change  *)
(* both, one statement at a time and none in a transaction:                *)
(*   handlers_address.go   Create, Delete                                  *)
(*   handlers_xpub.go      Delete         (xpub.go DeleteXpub)             *)
(*   handlers_settings.go  DeleteAccount                                   *)
(*   handlers_notification.go  CreateEmail, CreateWebhook (the row only)   *)
(* The scans a new address triggers are in UtxoPipeline.                   *)
(***************************************************************************)
EXTENDS FiniteSets, Naturals

CONSTANTS
    User,
    Xpub,           \* ids of xpub rows
    Pubkey,         \* the key the row of each id is created with
    XpubOwner,      \* the user each xpub id is drawn for
    Unparsable,     \* keys that have a valid prefix and do not parse
    Addr,           \* ids of address rows
    AddrOwner,      \* the user each address id is drawn for
    Contact,        \* kinds of contacts users add: "email", "webhook"
    Req,            \* concurrent HTTP requests
    MayFail,        \* whether a statement may fail for a reason of its own
    MaxCrashes      \* bound: restarts of the process

ASSUME OwnerAssumption == XpubOwner \in [Xpub -> User] /\ AddrOwner \in [Addr -> User]
ASSUME PubkeyAssumption == DOMAIN Pubkey = Xpub
ASSUME BoundAssumption == MayFail \in BOOLEAN /\ MaxCrashes \in Nat

\* What a request's locals hold before they are set.
NoUser == "nouser"
NoXpub == "noxpub"
NoAddr == "noaddr"
ASSUME NoneAssumption == NoUser \notin User /\ NoXpub \notin Xpub /\ NoAddr \notin Addr

VARIABLES
    users,      \* users that are not soft-deleted
    xpubs,      \* of each id: none, live, deleted (blanked) or purged
    rows,       \* of each address id: none, live or deleted (blanked)
    parent,     \* addresses.xpub_id
    contacts,   \* kinds of rows each user has in emails and webhooks
    mem,        \* ids in api.addresses
    pc, user, xpub, todo, cur,  \* of each request: where it is, and its locals
    early,      \* history: xpubs whose deletion began when some of their
                \* addresses were not in the list yet
    split,      \* history: addresses that the table and the list may disagree
                \* on since the process started
    crashes

dbVars == <<users, xpubs, rows, parent, contacts>>
reqVars == <<pc, user, xpub, todo, cur>>
vars == <<users, xpubs, rows, parent, contacts, mem, pc, user, xpub, todo, cur,
          early, split, crashes>>

AddrsOf(u) == {a \in Addr : AddrOwner[a] = u}
XpubsOf(u) == {x \in Xpub : XpubOwner[x] = u}

IdleRequests ==
    /\ pc' = [r \in Req |-> "idle"]
    /\ user' = [r \in Req |-> NoUser] /\ xpub' = [r \in Req |-> NoXpub]
    /\ todo' = [r \in Req |-> {}] /\ cur' = [r \in Req |-> NoAddr]

Init ==
    /\ users = User /\ xpubs = [x \in Xpub |-> "none"]
    /\ rows = [a \in Addr |-> "none"] /\ parent = [a \in Addr |-> NoXpub]
    /\ contacts = [u \in User |-> {}] /\ mem = {}
    /\ pc = [r \in Req |-> "idle"] /\ user = [r \in Req |-> NoUser]
    /\ xpub = [r \in Req |-> NoXpub] /\ todo = [r \in Req |-> {}]
    /\ cur = [r \in Req |-> NoAddr]
    /\ early = {} /\ split = {} /\ crashes = 0

-----------------------------------------------------------------------------
(* A request ends: its answer, success or error, changes nothing more.       *)

End(r) ==
    /\ pc' = [pc EXCEPT ![r] = "idle"]
    /\ user' = [user EXCEPT ![r] = NoUser] /\ xpub' = [xpub EXCEPT ![r] = NoXpub]
    /\ todo' = [todo EXCEPT ![r] = {}] /\ cur' = [cur EXCEPT ![r] = NoAddr]

Goto(r, next) == pc' = [pc EXCEPT ![r] = next]

\* A statement that fails ends the request with an error.  Here it changes
\* nothing, or it is the one before that committed and lost its answer: but
\* for the two below, no request does anything but its statements.
StatementFails(r) ==
    /\ MayFail /\ pc[r] \notin {"idle", "append", "remove"}
    /\ End(r)
    /\ UNCHANGED <<dbVars, mem, early, split, crashes>>

\* The answer of a committed INSERT or UPDATE of addresses is lost: Close and
\* Exec give an error, and the list is not changed.
AnswerLost(r) ==
    /\ MayFail /\ pc[r] \in {"append", "remove"}
    /\ split' = split \cup (IF pc[r] = "append" THEN todo[r] ELSE {cur[r]})
    /\ End(r)
    /\ UNCHANGED <<dbVars, mem, early, crashes>>

\* authMiddleware reads the user; the handler runs after it.
Authorize(r) ==
    /\ pc[r] = "idle"
    /\ \E u \in users : user' = [user EXCEPT ![r] = u]
    /\ Goto(r, "authorized")
    /\ UNCHANGED <<dbVars, mem, xpub, todo, cur, early, split, crashes>>

-----------------------------------------------------------------------------
(* handlers_address.go Create.                                               *)

\* UNIQUE (user_id, pubkey).  A deleted row keeps its place with the key ''.
KeyTaken(x, key) ==
    \E other \in XpubsOf(XpubOwner[x]) \ {x} :
        \/ xpubs[other] = "live" /\ Pubkey[other] = key
        \/ xpubs[other] = "deleted" /\ key = ""

CreateXpub(r) ==
    /\ pc[r] = "authorized"
    /\ \E x \in XpubsOf(user[r]) :
          /\ xpubs[x] = "none"
          /\ IF KeyTaken(x, Pubkey[x])
             THEN End(r) /\ UNCHANGED xpubs
             ELSE /\ xpubs' = [xpubs EXCEPT ![x] = "live"]
                  /\ xpub' = [xpub EXCEPT ![r] = x]
                  /\ Goto(r, "derive") /\ UNCHANGED <<user, todo, cur>>
    /\ UNCHANGED <<users, rows, parent, contacts, mem, early, split, crashes>>

\* GetAddressFromExtPubKey fails: the xpub row stays.
DeriveFails(r) ==
    /\ pc[r] = "derive" /\ Pubkey[xpub[r]] \in Unparsable
    /\ End(r)
    /\ UNCHANGED <<dbVars, mem, early, split, crashes>>

\* CreateAddress up to SendBatch: all rows or none, none when the xpub they
\* refer to has been purged.
Fresh(u) == {a \in AddrsOf(u) : rows[a] = "none"}

InsertAddresses(r) ==
    /\ \/ pc[r] = "derive" /\ Pubkey[xpub[r]] \notin Unparsable
       \/ pc[r] = "authorized"          \* an address or a descriptor
    /\ \E batch \in (SUBSET Fresh(user[r])) \ {{}} :
          IF xpub[r] # NoXpub /\ xpubs[xpub[r]] = "purged"
          THEN End(r) /\ UNCHANGED <<rows, parent>>
          ELSE /\ rows' = [a \in Addr |-> IF a \in batch THEN "live" ELSE rows[a]]
               /\ parent' = [a \in Addr |-> IF a \in batch THEN xpub[r] ELSE parent[a]]
               /\ todo' = [todo EXCEPT ![r] = batch]
               /\ Goto(r, "append") /\ UNCHANGED <<user, xpub, cur>>
    /\ UNCHANGED <<users, xpubs, contacts, mem, early, split, crashes>>

\* CreateAddress under the mutex.
AppendAddresses(r) ==
    /\ pc[r] = "append"
    /\ mem' = mem \cup todo[r]
    /\ End(r)
    /\ UNCHANGED <<dbVars, early, split, crashes>>

-----------------------------------------------------------------------------
(* DeleteAddress, called by the Delete handler and by DeleteXpub.            *)

\* UPDATE addresses SET deleted_at, address = '', scripthash = ''.
BlankRow(a) == rows' = [rows EXCEPT ![a] = "deleted"]

DeleteAddress(r) ==
    /\ pc[r] = "authorized"
    /\ \E a \in mem \cap AddrsOf(user[r]) : BlankRow(a) /\ cur' = [cur EXCEPT ![r] = a]
    /\ Goto(r, "remove")
    /\ UNCHANGED <<users, xpubs, parent, contacts, mem, user, xpub, todo, early, split, crashes>>

\* slices.DeleteFunc under the mutex; DeleteXpub goes on with its loop.
ForgetUnlessXpub(a) == mem' = IF parent[a] = NoXpub THEN mem \ {a} ELSE mem
Forget(a) == mem' = mem \ {a}

RemoveAddress(r) ==
    /\ pc[r] = "remove"
    /\ Forget(cur[r])
    /\ IF xpub[r] = NoXpub THEN End(r)
       ELSE /\ cur' = [cur EXCEPT ![r] = NoAddr]
            /\ Goto(r, "loop") /\ UNCHANGED <<user, xpub, todo>>
    /\ split' = split \ {cur[r]}
    /\ UNCHANGED <<dbVars, early, crashes>>

-----------------------------------------------------------------------------
(* DeleteXpub.                                                               *)

AddressesForXpub(x) == {a \in mem \cap AddrsOf(XpubOwner[x]) : parent[a] = x}
BeingCreated(x) == \E r \in Req : xpub[r] = x /\ pc[r] \in {"derive", "append"}
Unlisted(x) == \E a \in Addr \ mem : parent[a] = x /\ rows[a] = "live"

DeleteXpub(r) ==
    /\ pc[r] = "authorized"
    /\ \E x \in XpubsOf(user[r]) :
          /\ xpubs[x] = "live"
          /\ xpub' = [xpub EXCEPT ![r] = x]
          /\ todo' = [todo EXCEPT ![r] = AddressesForXpub(x)]
          /\ early' = IF BeingCreated(x) \/ Unlisted(x) THEN early \cup {x} ELSE early
    /\ Goto(r, "loop")
    /\ UNCHANGED <<dbVars, mem, user, cur, split, crashes>>

DeleteNextAddress(r) ==
    /\ pc[r] = "loop"
    /\ \E a \in todo[r] :
          /\ BlankRow(a) /\ cur' = [cur EXCEPT ![r] = a]
          /\ todo' = [todo EXCEPT ![r] = @ \ {a}]
    /\ Goto(r, "remove")
    /\ UNCHANGED <<users, xpubs, parent, contacts, mem, user, xpub, early, split, crashes>>

\* UPDATE xpubs SET pubkey = '', deleted_at: refused by UNIQUE when the user
\* has another row with that key.  No row matches after DeleteUserXpubs.
AnyTime(r) == cur[r] = NoAddr
AllDeleted(r) == todo[r] = {}

BlankXpub(r) ==
    /\ pc[r] = "loop" /\ AllDeleted(r)
    /\ xpubs' = IF xpubs[xpub[r]] = "purged" \/ KeyTaken(xpub[r], "") THEN xpubs
                ELSE [xpubs EXCEPT ![xpub[r]] = "deleted"]
    /\ End(r)
    /\ UNCHANGED <<users, rows, parent, contacts, mem, early, split, crashes>>

-----------------------------------------------------------------------------
(* DeleteAccount: five statements; the first that fails ends it.             *)

SoftDeleteUser(r) ==
    /\ pc[r] = "authorized"
    /\ users' = users \ {user[r]}
    /\ Goto(r, "xpubs")
    /\ UNCHANGED <<xpubs, rows, parent, contacts, mem, user, xpub, todo, cur, early, split, crashes>>

\* DELETE FROM xpubs: refused while any address row, deleted or not, refers
\* to one of them.
ReferencedByLive(u) == \E a \in Addr : rows[a] = "live" /\ parent[a] \in XpubsOf(u)
Referenced(u) == \E a \in Addr : rows[a] # "none" /\ parent[a] \in XpubsOf(u)

DeleteUserXpubs(r) ==
    /\ pc[r] = "xpubs"
    /\ IF Referenced(user[r]) THEN End(r) /\ UNCHANGED xpubs
       ELSE /\ xpubs' = [x \in Xpub |-> IF x \in XpubsOf(user[r]) /\ xpubs[x] # "none"
                                        THEN "purged" ELSE xpubs[x]]
            /\ Goto(r, "addresses") /\ UNCHANGED <<user, xpub, todo, cur>>
    /\ UNCHANGED <<users, rows, parent, contacts, mem, early, split, crashes>>

\* WHERE user_id = $1.
EveryRow(u) == Addr
RowsOf(u) == AddrsOf(u)

DeleteAddresses(r) ==
    /\ pc[r] = "addresses"
    /\ rows' = [a \in Addr |-> IF a \in RowsOf(user[r]) /\ rows[a] # "none"
                               THEN "deleted" ELSE rows[a]]
    /\ split' = split \cup {a \in AddrsOf(user[r]) : rows[a] = "live"}
    /\ Goto(r, "emails")
    /\ UNCHANGED <<users, xpubs, parent, contacts, mem, user, xpub, todo, cur, early, crashes>>

DeleteEmails(r) ==
    /\ pc[r] = "emails"
    /\ contacts' = [contacts EXCEPT ![user[r]] = @ \ {"email"}]
    /\ Goto(r, "webhooks")
    /\ UNCHANGED <<users, xpubs, rows, parent, mem, user, xpub, todo, cur, early, split, crashes>>

DeleteWebhooks(r) ==
    /\ pc[r] = "webhooks"
    /\ contacts' = [contacts EXCEPT ![user[r]] = @ \ {"webhook"}]
    /\ End(r)
    /\ UNCHANGED <<users, xpubs, rows, parent, mem, early, split, crashes>>

\* INSERT INTO emails or webhooks.
CreateContact(r) ==
    /\ pc[r] = "authorized"
    /\ \E kind \in Contact : contacts' = [contacts EXCEPT ![user[r]] = @ \cup {kind}]
    /\ End(r)
    /\ UNCHANGED <<users, xpubs, rows, parent, mem, early, split, crashes>>

-----------------------------------------------------------------------------
\* The process dies and starts again: Init selects the rows that are not
\* deleted.
LoadAll == {a \in Addr : rows[a] # "none"}
LoadWithoutXpub == {a \in Addr : rows[a] = "live" /\ parent[a] = NoXpub}
Load == {a \in Addr : rows[a] = "live"}

CrashAndRestart ==
    /\ crashes < MaxCrashes /\ crashes' = crashes + 1
    /\ mem' = Load /\ split' = {}
    /\ IdleRequests
    /\ UNCHANGED <<dbVars, early>>

-----------------------------------------------------------------------------
Request(r) ==
    \/ Authorize(r) \/ StatementFails(r) \/ AnswerLost(r)
    \/ CreateXpub(r) \/ DeriveFails(r) \/ InsertAddresses(r) \/ AppendAddresses(r)
    \/ DeleteAddress(r) \/ RemoveAddress(r)
    \/ DeleteXpub(r) \/ DeleteNextAddress(r) \/ BlankXpub(r)
    \/ SoftDeleteUser(r) \/ DeleteUserXpubs(r) \/ DeleteAddresses(r)
    \/ DeleteEmails(r) \/ DeleteWebhooks(r)
    \/ CreateContact(r)

Next == (\E r \in Req : Request(r)) \/ CrashAndRestart

Spec == Init /\ [][Next]_vars
-----------------------------------------------------------------------------
(* Properties.                                                               *)

\* The types, the references of addresses to xpubs that exist, and the locals
\* a request has at each point.
TypeOK ==
    /\ users \subseteq User
    /\ xpubs \in [Xpub -> {"none", "live", "deleted", "purged"}]
    /\ rows \in [Addr -> {"none", "live", "deleted"}]
    /\ parent \in [Addr -> Xpub \cup {NoXpub}]
    /\ contacts \in [User -> SUBSET Contact] /\ mem \subseteq Addr
    /\ pc \in [Req -> {"idle", "authorized", "derive", "append", "remove", "loop",
                       "xpubs", "addresses", "emails", "webhooks"}]
    /\ user \in [Req -> User \cup {NoUser}] /\ xpub \in [Req -> Xpub \cup {NoXpub}]
    /\ todo \in [Req -> SUBSET Addr] /\ cur \in [Req -> Addr \cup {NoAddr}]
    /\ early \subseteq Xpub /\ split \subseteq Addr /\ crashes \in 0..MaxCrashes
    /\ \A a \in Addr : parent[a] # NoXpub =>
          rows[a] # "none" /\ xpubs[parent[a]] \in {"live", "deleted"}
    /\ \A r \in Req : /\ pc[r] = "idle" <=> user[r] = NoUser
                      /\ pc[r] = "remove" <=> cur[r] # NoAddr
                      /\ pc[r] \in {"derive", "loop"} => xpub[r] # NoXpub

\* Every address that is stored is watched, or is about to be: no concurrent
\* request, no crash and no failure separates the table from the list, but for
\* an INSERT whose answer was lost, and that only until the next start.
StoredAreWatched ==
    \A a \in Addr : rows[a] = "live" =>
        \/ a \in mem \/ a \in split
        \/ \E r \in Req : pc[r] = "append" /\ a \in todo[r]

\* Every address that is watched is stored, or is about to be dropped.  What
\* an UPDATE left in the list whose answer was lost stays until its deletion is
\* tried again, what DeleteAccount left until the next start.
WatchedAreStored ==
    \A a \in mem :
        \/ rows[a] = "live" \/ a \in split
        \/ \E r \in Req : pc[r] = "remove" /\ cur[r] = a

\* An address that its owner deleted is never watched again, whatever happens
\* between the two halves of DeleteAddress.
DeletedStayDeleted ==
    [][\A a \in Addr : (rows[a] = "deleted" /\ a \notin mem /\ AddrOwner[a] \in users)
                           => a \notin mem']_vars

Working(u) == \E r \in Req : user[r] = u

\* What a user has changes only while a request of that user is running, or at
\* a restart: the statements and loops over all users' rows pick those of one.
OthersUntouched ==
    [][\A u \in User : ~Working(u) /\ crashes' = crashes =>
          /\ mem' \cap AddrsOf(u) = mem \cap AddrsOf(u)
          /\ \A a \in AddrsOf(u) : rows'[a] = rows[a]
          /\ \A x \in XpubsOf(u) : xpubs'[x] = xpubs[x]
          /\ contacts'[u] = contacts[u]]_vars

\* A deleted xpub leaves no address behind, although its deletion is a loop
\* of statements that may fail half way or commit without an answer - if its
\* addresses were all in the list when the deletion began.
XpubTakesItsAddresses ==
    \A x \in Xpub : xpubs[x] = "deleted" /\ x \notin early =>
        \A a \in Addr : parent[a] = x => rows[a] # "live" /\ a \notin mem

\* page.settings.templ:104: deleting an account deletes all associated data
\* including addresses, xpubs, and notifications.
AccountErased ==
    \A u \in User \ users : ~Working(u) =>
        /\ \A a \in AddrsOf(u) : rows[a] # "live"
        /\ \A x \in XpubsOf(u) : xpubs[x] # "live"
        /\ contacts[u] = {}
=============================================================================
