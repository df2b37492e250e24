------------------------------- MODULE WebServer -------------------------------
(***************************************************************************)
(* The web server as a whole (http/handlers.go): requests of several       *)
(* browsers log in, are authorised, and then save mail settings, change    *)
(* webhooks, delete the account or submit the address form, while mails    *)
(* are sent, accounts are created from the command line and the process is *)
(* restarted.  Sessions, SmtpConfig and AddressForm hold the steps; each   *)
(* leaves the variables of the others alone.                               *)
(***************************************************************************)
EXTENDS SmtpConfig, AddressForm

sessionVars == <<users, cookie, hook>>
vars == <<sessionVars, job, smtpVars>>

Init == SessionInit /\ SmtpInit

\* POST /app/addresses/create, up to the call of CreateAddress.  (Which
\* account the rows are for is AccountStore's concern.)
SubmitAddress(s) ==
    /\ At(s, "handler")
    /\ \E input \in Form :
          job' = [job EXCEPT ![s] = [at |-> "rows", browser |-> NoBrowser, as |-> NoSession,
                                     form |-> [input |-> input, rows |-> Rows(input)]]]

CreateAddress(s) ==
    /\ At(s, "rows")
    /\ End(s)

AddressStep(s) == (SubmitAddress(s) \/ CreateAddress(s)) /\ UNCHANGED <<sessionVars, smtpVars>>

Next ==
    \/ \E s \in Slot : SessionStep(s) /\ UNCHANGED smtpVars
    \/ \E s \in Slot : SmtpStep(s) /\ UNCHANGED sessionVars
    \/ \E s \in Slot : AddressStep(s)
    \/ \E a \in Account : CreateUser(a) /\ UNCHANGED smtpVars
    \/ \E b \in Browser : Logout(b) /\ UNCHANGED smtpVars
    \/ Restart

Spec == Init /\ [][Next]_vars

-----------------------------------------------------------------------------
(* Properties.                                                               *)

Field == {Env} \cup 0..saves
Config == [server : Field, login : Field, from : Field]
Session == [user : Account, typed : Account] \cup {NoSession}
Saving == {"test", "statement", "server", "login", "from"}
Locked == {"statement", "server", "login", "from"}

\* The types; one live user for each name; who holds the mutex.
TypeOK ==
    /\ users \in [Account -> {"none", "live", "deleted"}]
    /\ \A a, b \in Account : users[a] = "live" /\ users[b] = "live" /\ NameOf[a] = NameOf[b] => a = b
    /\ cookie \in [Browser -> Session]
    /\ hook = NoHook \/ hook \in [owner : Account, by : Account]
    /\ {table, mem, env} \subseteq Config /\ saves \in 0..MaxSaves /\ unsure \in BOOLEAN
    /\ \A s \in Slot : /\ writer = s <=> job[s].at \in Locked
                       /\ job[s].at \in Locked \cup {"mail", "send"} => job[s].form \in Config
                       /\ job[s].at = "idle" <=> job[s] = Idle

\* Everything that is done is done by a browser into which the password of
\* the right account was typed: a handler runs for the account it was typed
\* for, a webhook is written by its owner and shown to nobody else, mail
\* settings are saved by an admin - although accounts are deleted, their names are given to others,
\* and cookies outlive both.
ActsForOwner ==
    /\ \A s \in Slot : At(s, "handler") => job[s].as.typed = User(s)
    /\ \A s \in Slot : job[s].at \in Saving => job[s].as.typed \in Admin
    /\ hook.by = hook.owner
    /\ \A s \in Slot : At(s, "page") => job[s].form.by = job[s].as.typed

\* A mail logs in at a server with the login that was saved with it, and its
\* sender is not newer: it was read before.
MailServerAtomic ==
    \A s \in Slot : At(s, "send") =>
        LET used == job[s].form IN
        /\ used.server = used.login
        /\ used.server > 0 /\ used.from > 0 => used.from <= used.server

\* When nobody is saving, the settings in use are the ones in the table, or
\* what a restart makes of them and the environment - after saves that waited
\* for each other, failed or were interrupted, if no answer of the database
\* was lost.
InUseIsStored ==
    (\A s \in Slot : job[s].at \notin Locked) /\ ~unsure => mem \in {table, InitConfig(TRUE)}

\* The address form hands over exactly the addresses the input stands for.
RowsCoverInput ==
    \A s \in Slot : At(s, "rows") => Covered(job[s].form.input, job[s].form.rows)
=============================================================================
