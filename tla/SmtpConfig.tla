------------------------------ MODULE SmtpConfig ------------------------------
(***************************************************************************)
(* The settings of the mail server: fields of configs.Config in memory     *)
(* behind a read-write mutex, the one row of table config, and what the    *)
(* environment sets.  An admin saves new ones (handlers_smtp.go Update,    *)
(* configs.go UpdateSMTPConfig) while mails (clients/mail.go) read the     *)
(* sender without the mutex and the rest with it; a restart loads them     *)
(* (InitConifg).                                                           *)
(*                                                                         *)
(* A configuration is three fields, which are assigned one by one: the     *)
(* server (host and port), the login (user and password) and the sender.   *)
(* Configurations are numbered in the order in which they take the mutex.  *)
(***************************************************************************)
EXTENDS Sessions, Integers

CONSTANTS
    MaxSaves,       \* bound: configurations submitted
    Senderless      \* bound: which of them may come without a sender

ASSUME SavesAssumption == MaxSaves \in Nat

Unset == 0          \* "", 0 or NULL
Env == -1           \* a value of the environment
Configuration(server, sender) == [server |-> server, login |-> server, from |-> sender]
NoConfig == Configuration(Unset, Unset)
NoSlot == "noslot"
ASSUME NoSlotAssumption == NoSlot \notin Slot

VARIABLES
    env,        \* the SMTP_ variables: none, the four the README lists, all
    table,      \* table config
    mem,        \* the fields of configs.Config
    writer,     \* the slot that holds Config.mu
    saves,      \* configurations numbered so far
    unsure      \* history: an answer of the database about the row was lost

smtpVars == <<env, table, mem, writer, saves, unsure>>

SmtpInit ==
    /\ env \in {NoConfig, Configuration(Env, Unset), Configuration(Env, Env)}
    /\ table = NoConfig /\ mem = env    \* merged with an empty row
    /\ writer = NoSlot /\ saves = 0 /\ unsure = FALSE

-----------------------------------------------------------------------------
(* InitConifg.                                                               *)

IsSMTPConfigured(c) == Unset \notin {c.server, c.login, c.from}

ReadDBConfig == [f \in DOMAIN env |-> IF env[f] = Unset THEN table[f] ELSE env[f]]

\* A failure to read the row is only a warning.
InitConfig(answered) ==
    IF IsSMTPConfigured(env) \/ ~answered THEN env ELSE ReadDBConfig

Restart ==
    /\ \E answered \in BOOLEAN :
          /\ mem' = InitConfig(answered)
          /\ unsure' = (~answered /\ ~IsSMTPConfigured(env))
    /\ writer' = NoSlot /\ job' = [s \in Slot |-> Idle]
    /\ UNCHANGED <<users, cookie, hook, env, table, saves>>

-----------------------------------------------------------------------------
(* SMTPController.Update and UpdateSMTPConfig.                               *)

\* requireAdminMiddleware; others are answered 401 (Answer).
RequireAdmin(s) == User(s) \in Admin

\* The submitted server is tried out; nothing is tried of the sender.
TestConnection(s) ==
    /\ At(s, "handler") /\ RequireAdmin(s)
    /\ Work(s, "test", NoForm)
    /\ UNCHANGED smtpVars

TestFails(s) ==
    /\ At(s, "test")
    /\ End(s)
    /\ UNCHANGED smtpVars

\* mu.Lock waits for writers; readers hold it for one step.
LockFree == writer = NoSlot

Lock(s) ==
    /\ At(s, "test") /\ LockFree /\ saves < MaxSaves
    /\ saves' = saves + 1 /\ writer' = s
    /\ \E sender \in {saves + 1} \cup {Unset : n \in {saves + 1} \cap Senderless} :
          Work(s, "statement", Configuration(saves + 1, sender))
    /\ UNCHANGED <<env, table, mem, unsure>>

SaveFailsLocked(s) ==
    /\ At(s, "statement")
    /\ End(s)
    /\ UNCHANGED <<env, table, mem, writer, saves, unsure>>

\* The database, connected to and asked with the mutex held, refuses.
SaveFails(s) ==
    /\ At(s, "statement")
    /\ writer' = NoSlot
    /\ End(s)
    /\ UNCHANGED <<env, table, mem, saves, unsure>>

\* It commits, and the connection breaks before its answer.
SaveUnanswered(s) ==
    /\ At(s, "statement")
    /\ table' = job[s].form /\ unsure' = TRUE /\ writer' = NoSlot
    /\ End(s)
    /\ UNCHANGED <<env, mem, saves>>

SaveUnlocked(s) ==
    /\ At(s, "statement")
    /\ table' = job[s].form
    /\ writer' = NoSlot
    /\ Goto(s, "server")
    /\ UNCHANGED <<env, mem, saves, unsure>>

Save(s) ==
    /\ At(s, "statement")
    /\ table' = job[s].form
    /\ Goto(s, "server")
    /\ UNCHANGED <<env, mem, writer, saves, unsure>>

Assign(field, s) == mem' = [mem EXCEPT ![field] = job[s].form[field]]

AssignServer(s) ==
    /\ At(s, "server") /\ Assign("server", s)
    /\ Goto(s, "login")
    /\ UNCHANGED <<env, table, writer, saves, unsure>>

AssignLogin(s) ==
    /\ At(s, "login") /\ Assign("login", s)
    /\ Goto(s, "from")
    /\ UNCHANGED <<env, table, writer, saves, unsure>>

\* The last one; the mutex is unlocked.
AssignFrom(s) ==
    /\ At(s, "from") /\ Assign("from", s)
    /\ writer' = NoSlot /\ unsure' = FALSE
    /\ End(s)
    /\ UNCHANGED <<env, table, saves>>

-----------------------------------------------------------------------------
(* A mail, in the request of SendVerification or the goroutine of a notifier. *)

\* config.SmtpFrom, without the mutex.
ReadSender(s) ==
    /\ job[s] = Idle
    /\ Work(s, "mail", [NoConfig EXCEPT !.from = mem.from])
    /\ UNCHANGED smtpVars

\* RLock.
ReadAnyTime == TRUE
CanRead == LockFree

GetSMTPConfig(s) ==
    /\ At(s, "mail") /\ CanRead
    /\ Work(s, "send", [mem EXCEPT !.from = job[s].form.from])
    /\ UNCHANGED smtpVars

DialAndSend(s) ==
    /\ At(s, "send")
    /\ End(s)
    /\ UNCHANGED smtpVars

SmtpStep(s) ==
    \/ TestConnection(s) \/ TestFails(s) \/ Lock(s)
    \/ SaveFails(s) \/ SaveUnanswered(s) \/ Save(s)
    \/ AssignServer(s) \/ AssignLogin(s) \/ AssignFrom(s)
    \/ ReadSender(s) \/ GetSMTPConfig(s) \/ DialAndSend(s)
=============================================================================
