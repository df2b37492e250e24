------------------------------- MODULE Sessions -------------------------------
(***************************************************************************)
(* Who a request acts for: table users, the cookie of each browser, the    *)
(* middleware of http/auth.go, the handlers Login, Logout, DeleteAccount   *)
(* and those of webhooks, and the command that creates users               *)
(* (cmd/user/create).  A soft-deleted user keeps its row, and its name may *)
(* be given to a new one (users_username_unique).                          *)
(*                                                                         *)
(* Slots are the goroutines of the server.  The cookie holds the id of a   *)
(* user, signed; with it is kept, as history, the account whose password   *)
(* was typed to obtain it.  Passwords of accounts differ.                  *)
(***************************************************************************)
EXTENDS Naturals, Sequences, FiniteSets

CONSTANTS
    Account,    \* ids of users
    NameOf,     \* the username of each
    Admin,      \* the accounts created with -admin
    Browser,
    Slot        \* goroutines of the server: requests and mails under way

ASSUME NameAssumption == DOMAIN NameOf = Account
ASSUME AdminAssumption == Admin \subseteq Account

NoAccount == "noaccount"
NoBrowser == "nobrowser"
NoForm == <<>>
ASSUME NoneAssumption == NoAccount \notin Account /\ NoBrowser \notin Browser

VARIABLES
    users,      \* of each account: none, live or deleted
    cookie,     \* of each browser: a session
    hook,       \* a row of table webhooks: its user_id, and who wrote it
    job         \* of each slot: where it is, for which browser and session,
                \* and what it works on

NoSession == [user |-> NoAccount, typed |-> NoAccount]
NoHook == [owner |-> NoAccount, by |-> NoAccount]
Idle == [at |-> "idle", browser |-> NoBrowser, as |-> NoSession, form |-> NoForm]

SessionInit ==
    /\ users = [a \in Account |-> "none"]
    /\ cookie = [b \in Browser |-> NoSession]
    /\ hook = NoHook
    /\ job = [s \in Slot |-> Idle]

At(s, where) == job[s].at = where
User(s) == job[s].as.user
Goto(s, next) == job' = [job EXCEPT ![s].at = next]
\* The answer will leave the browser's cookie as it is.
Work(s, next, form) ==
    job' = [job EXCEPT ![s] = [at |-> next, browser |-> NoBrowser,
                               as |-> job[s].as, form |-> form]]
End(s) == job' = [job EXCEPT ![s] = Idle]

-----------------------------------------------------------------------------
(* api/user.go and the command that creates users.                           *)

GetUserByUsername(name) == {u \in Account : users[u] = "live" /\ NameOf[u] = name}

GetUserNamed(id) == {u \in Account : id \in Account /\ u \in GetUserByUsername(NameOf[id])}
GetUser(id) == {u \in Account : users[u] = "live" /\ u = id}

\* INSERT; a name that is taken changes nothing, with or without -idempotent.
CreateUser(a) ==
    /\ users[a] = "none" /\ GetUserByUsername(NameOf[a]) = {}
    /\ users' = [users EXCEPT ![a] = "live"]
    /\ UNCHANGED <<cookie, hook, job>>

-----------------------------------------------------------------------------
(* Login, Logout and the middleware.                                         *)

\* Name and password of an account are typed; bcrypt compares with the live
\* user of that name.
Login(s) ==
    /\ job[s] = Idle
    /\ \E b \in Browser, typed \in Account : \E u \in GetUserByUsername(NameOf[typed]) :
          /\ u = typed
          /\ job' = [job EXCEPT ![s] = [at |-> "greet", browser |-> b,
                                        as |-> [user |-> u, typed |-> typed],
                                        form |-> NoForm]]
    /\ UNCHANGED <<users, cookie, hook>>

\* The answer with the cookie arrives.
SaveSession(s) ==
    /\ At(s, "greet")
    /\ cookie' = [cookie EXCEPT ![job[s].browser] = job[s].as]
    /\ End(s)
    /\ UNCHANGED <<users, hook>>

Logout(b) ==
    /\ cookie' = [cookie EXCEPT ![b] = NoSession]
    /\ UNCHANGED <<users, hook, job>>

\* authMiddleware: the handler runs with the user as read here.
Authorize(s) ==
    /\ job[s] = Idle
    /\ \E b \in Browser : \E u \in GetUser(cookie[b].user) :
          job' = [job EXCEPT ![s] = [at |-> "handler", browser |-> b,
                                     as |-> [cookie[b] EXCEPT !.user = u],
                                     form |-> NoForm]]
    /\ UNCHANGED <<users, cookie, hook>>

\* Other pages, refused forms and failed statements, and pages that are
\* rendered, answer and change nothing.
Answer(s) ==
    /\ job[s].at \in {"handler", "page"}
    /\ End(s)
    /\ UNCHANGED <<users, cookie, hook>>

-----------------------------------------------------------------------------
(* DeleteAccount; its statements on other tables are in AccountStore.        *)

SoftDeleteUser(s) ==
    /\ At(s, "handler")
    /\ users' = [users EXCEPT ![User(s)] = "deleted"]
    /\ Goto(s, "erase")
    /\ UNCHANGED <<cookie, hook>>

\* One of them fails, or the last one, DeleteWebhooks, succeeds.
EraseFails(s) ==
    /\ At(s, "erase")
    /\ End(s)
    /\ UNCHANGED <<users, cookie, hook>>

DeleteWebhooks(s) ==
    /\ At(s, "erase")
    /\ hook' = IF hook.owner = User(s) THEN NoHook ELSE hook
    /\ Goto(s, "leave")
    /\ UNCHANGED <<users, cookie>>

DropSession(s) ==
    /\ At(s, "leave")
    /\ cookie' = [cookie EXCEPT ![job[s].browser] = NoSession]
    /\ End(s)
    /\ UNCHANGED <<users, hook>>

-----------------------------------------------------------------------------
(* Webhooks: one statement each.                                             *)

CreateWebhook(s) ==
    /\ At(s, "handler") /\ hook = NoHook
    /\ hook' = [owner |-> User(s), by |-> job[s].as.typed]
    /\ End(s)
    /\ UNCHANGED <<users, cookie>>

\* WHERE user_id = $1 AND id = $2.
GetAnyWebhook(s) == hook # NoHook
GetWebhook(s) == hook.owner = User(s)

\* The settings page and the form to edit a webhook read it first.
ShowWebhook(s) ==
    /\ At(s, "handler") /\ GetWebhook(s)
    /\ Work(s, "page", hook)
    /\ UNCHANGED <<users, cookie, hook>>

UpdateWebhook(s) ==
    /\ At(s, "handler")
    /\ hook' = IF GetWebhook(s) THEN [hook EXCEPT !.by = job[s].as.typed] ELSE hook
    /\ End(s)
    /\ UNCHANGED <<users, cookie>>

DeleteWebhook(s) ==
    /\ At(s, "handler")
    /\ hook' = IF GetWebhook(s) THEN NoHook ELSE hook
    /\ End(s)
    /\ UNCHANGED <<users, cookie>>

SessionStep(s) ==
    \/ Login(s) \/ SaveSession(s) \/ Authorize(s) \/ Answer(s)
    \/ SoftDeleteUser(s) \/ EraseFails(s) \/ DeleteWebhooks(s) \/ DropSession(s)
    \/ CreateWebhook(s) \/ ShowWebhook(s) \/ UpdateWebhook(s) \/ DeleteWebhook(s)
=============================================================================
