------------------------------ MODULE AlertLimit ------------------------------
(***************************************************************************)
(* The daily limit on alert mails: clients/mail.go (SendNotification,      *)
(* sendEmail) and api/email.go (GetDailyEmailCount, LogAlertEmail), for    *)
(* one address of one user.  The count, the mail and the log entry are     *)
(* three steps.  One email notifier runs in production, two in             *)
(* development (main.go), and they share the log.                          *)
(***************************************************************************)
EXTENDS Integers, Sequences, FiniteSets

CONSTANTS
    Notifier,
    MAX_EMAIL_PER_ADDRESS_PER_DAY,
    QueryMayFail,   \* whether a statement on email_log may fail
    MaxEntries      \* bound: alerts asked for

ASSUME LimitAssumption ==
    /\ MAX_EMAIL_PER_ADDRESS_PER_DAY \in Nat
    /\ IsFiniteSet(Notifier) /\ QueryMayFail \in BOOLEAN /\ MaxEntries \in Nat

VARIABLES
    alerts,     \* alerts dealt with, oldest first, [error, delivered, stored]: the
                \* stored ones are the rows of table email_log
    old,        \* how many of them are older than 24 hours
    pc, count,  \* of each notifier: where it is in SendNotification, and count
    sent,       \* of each notifier: what became of its mail, [error, delivered]
    asked,      \* alerts asked for so far
    failures,   \* history: counts that failed
    unseen      \* history: mails delivered that no count will see

vars == <<alerts, old, pc, count, sent, asked, failures, unseen>>

Mail == [error : BOOLEAN, delivered : BOOLEAN]
NotSent == [error |-> TRUE, delivered |-> FALSE]
Alert == [error : BOOLEAN, delivered : BOOLEAN, stored : BOOLEAN]

Init ==
    /\ alerts = <<>> /\ old = 0 /\ asked = 0 /\ failures = 0 /\ unseen = 0
    /\ pc = [n \in Notifier |-> "idle"] /\ count = [n \in Notifier |-> 0]
    /\ sent = [n \in Notifier |-> NotSent]

\* The alerts of the last 24 hours.
Recent == {i \in DOMAIN alerts : i > old}

-----------------------------------------------------------------------------
\* GetDailyEmailCount: rows with created_at in the last 24 hours and error = ''.
\* When the query fails, count is 0 and SendNotification goes on.
Counted == {i \in Recent : alerts[i].stored /\ ~alerts[i].error}
CountWithThisOne == Cardinality(Counted) + 1
DailyEmailCount == Cardinality(Counted)

GetDailyEmailCount(n) ==
    /\ pc[n] = "idle" /\ asked < MaxEntries
    /\ asked' = asked + 1
    /\ \/ count' = [count EXCEPT ![n] = DailyEmailCount] /\ UNCHANGED failures
       \/ QueryMayFail /\ count' = [count EXCEPT ![n] = 0] /\ failures' = failures + 1
    /\ pc' = [pc EXCEPT ![n] = "check"]
    /\ UNCHANGED <<alerts, old, sent, unseen>>

\* The guard.  (The remaining alerts a mail announces are the maximum minus
\* this count.)
OverOneMore(c) == c > MAX_EMAIL_PER_ADDRESS_PER_DAY + 1
OverLimit(c) == c > MAX_EMAIL_PER_ADDRESS_PER_DAY

\* Over the limit: logged with the error "rate limit", not sent.
Suppress(n) ==
    /\ pc[n] = "check" /\ OverLimit(count[n])
    /\ sent' = [sent EXCEPT ![n] = NotSent]
    /\ pc' = [pc EXCEPT ![n] = "log"]
    /\ UNCHANGED <<alerts, old, count, asked, failures, unseen>>

\* sendEmail.  A mail that is encrypted returns the error of any of its steps,
\* also of those after the server took the mail (the end of DATA, QUIT).  One
\* that is not returns nil when sending it failed.
SendEmail(n) ==
    /\ pc[n] = "check" /\ ~OverLimit(count[n])
    /\ \E outcome \in Mail :
          /\ sent' = [sent EXCEPT ![n] = outcome]
          /\ unseen' = unseen + (IF outcome.delivered /\ outcome.error THEN 1 ELSE 0)
    /\ pc' = [pc EXCEPT ![n] = "log"]
    /\ UNCHANGED <<alerts, old, count, asked, failures>>

\* LogAlertEmail.  When it fails there is no row.
LogAlertEmail(n) ==
    /\ pc[n] = "log"
    /\ \E stored \in {TRUE, ~QueryMayFail} :
          /\ alerts' = Append(alerts, [error |-> sent[n].error,
                                       delivered |-> sent[n].delivered, stored |-> stored])
          /\ unseen' = unseen + (IF ~stored /\ sent[n].delivered /\ ~sent[n].error
                                 THEN 1 ELSE 0)
    /\ pc' = [pc EXCEPT ![n] = "idle"] /\ sent' = [sent EXCEPT ![n] = NotSent]
    /\ UNCHANGED <<old, count, asked, failures>>

\* Time passes: the oldest alert leaves the window.
Age ==
    /\ old < Len(alerts)
    /\ old' = old + 1
    /\ UNCHANGED <<alerts, pc, count, sent, asked, failures, unseen>>

Next == Age \/ \E n \in Notifier :
            GetDailyEmailCount(n) \/ Suppress(n) \/ SendEmail(n) \/ LogAlertEmail(n)

Spec == Init /\ [][Next]_vars
-----------------------------------------------------------------------------
(* Properties.                                                               *)

TypeOK ==
    /\ alerts \in Seq(Alert) /\ old \in 0..Len(alerts) /\ asked \in 0..MaxEntries
    /\ failures \in 0..asked /\ unseen \in Nat
    /\ pc \in [Notifier -> {"idle", "check", "log"}]
    /\ count \in [Notifier -> 0..Len(alerts)] /\ sent \in [Notifier -> Mail]

\* Mails delivered in the last 24 hours, whatever the log says of them.
Delivered ==
    Cardinality({i \in Recent : alerts[i].delivered})
    + Cardinality({n \in Notifier : pc[n] = "log" /\ sent[n].delivered})

\* The limit that is kept.  Every notifier may exceed the maximum by one, since
\* each compares with > a count that the others' mails are not in yet; every
\* count that failed lets one more through, and so does every mail that was
\* delivered and then reported as failed or not logged (mail.go sendEmail,
\* LogAlertEmail).
DeliveredBounded ==
    Delivered <= MAX_EMAIL_PER_ADDRESS_PER_DAY + Cardinality(Notifier) + failures + unseen
=============================================================================
