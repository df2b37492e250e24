---------------------------- MODULE AlertLimitProofs ----------------------------
(***************************************************************************)
(* Proof that the limit on alert mails is exceeded by no more than one     *)
(* mail for each notifier, one for each count that failed and one for each *)
(* delivered mail that the log does not show, for any number of notifiers  *)
(* and any maximum: DeliveredBounded of AlertLimit.                        *)
(*                                                                         *)
(* That property is not inductive: a notifier that has counted and not yet *)
(* sent may add a mail whatever was delivered since.  Each such notifier   *)
(* is charged for its mail when it counts.  There is room for that: what   *)
(* it counted is below the limit, and the notifiers that have counted and  *)
(* those whose mail is not yet in the log are different ones.  The mails   *)
(* that no count sees are kept apart: each was charged when it was lost to *)
(* the log, and leaves the window like the others.                         *)
(***************************************************************************)
EXTENDS AlertLimit, FiniteSetTheorems, SequenceTheorems, TLAPS

Logged == {i \in Counted : alerts[i].delivered}
Pending == {n \in Notifier : pc[n] = "log" /\ sent[n].delivered /\ ~sent[n].error}
Ready == {n \in Notifier : pc[n] = "check" /\ ~OverLimit(count[n])}

\* Every mail delivered and counted, or still to come, is accounted for.
Budget ==
    Cardinality(Logged) + Cardinality(Pending) + Cardinality(Ready)
        <= MAX_EMAIL_PER_ADDRESS_PER_DAY + Cardinality(Notifier) + failures

\* Delivered mails that no count sees, in the log and on their way there.
Missed == {i \in Recent : alerts[i].delivered /\ i \notin Counted}
Denied == {n \in Notifier : pc[n] = "log" /\ sent[n].delivered /\ sent[n].error}

\* They were all charged.
Charged == Cardinality(Missed) + Cardinality(Denied) <= unseen

AInv == TypeOK /\ Budget /\ Charged

-----------------------------------------------------------------------------
\* The sets that are counted are finite.
LEMMA CountsFinite ==
    ASSUME alerts \in Seq(Alert), NEW S \in SUBSET Recent
    PROVE  /\ IsFiniteSet(S) /\ Cardinality(S) \in Nat
           /\ Cardinality(S) <= Len(alerts)
<1>1. Len(alerts) \in Nat /\ DOMAIN alerts = 1..Len(alerts)
    BY LenProperties
<1>2. 1 \in Int /\ Len(alerts) \in Int
    BY <1>1
<1>3. IsFiniteSet(1..Len(alerts)) /\ Cardinality(1..Len(alerts)) = Len(alerts)
  <2>1. \A a, b \in Int : /\ IsFiniteSet(a..b)
                          /\ Cardinality(a..b) = IF a > b THEN 0 ELSE b - a + 1
    BY FS_Interval
  <2>2. /\ IsFiniteSet(1..Len(alerts))
        /\ Cardinality(1..Len(alerts)) = IF 1 > Len(alerts) THEN 0 ELSE Len(alerts) - 1 + 1
    BY <1>2, <2>1
  <2> QED BY <1>1, <2>2
<1>4. S \in SUBSET (1..Len(alerts))
    BY <1>1 DEF Recent
<1> QED
    BY <1>3, <1>4, FS_Subset, FS_CardinalityType

\* Sets of notifiers are finite and no larger than the set of all.
LEMMA NotifiersFinite ==
    ASSUME NEW S \in SUBSET Notifier
    PROVE  IsFiniteSet(S) /\ Cardinality(S) \in Nat /\ Cardinality(S) <= Cardinality(Notifier)
BY LimitAssumption, FS_Subset, FS_CardinalityType

\* A start with an empty log is within the budget.
LEMMA InitAInv == Init => AInv
<1> SUFFICES ASSUME Init PROVE AInv
    OBVIOUS
<1>1. alerts = <<>> /\ old = 0 /\ asked = 0 /\ failures = 0 /\ unseen = 0
    BY DEF Init
<1>2. Len(alerts) = 0 /\ DOMAIN alerts = {} /\ alerts \in Seq(Alert)
    BY <1>1
<1>3. TypeOK
    <2>1. NotSent \in Mail
        BY DEF NotSent, Mail
    <2>2. /\ pc \in [Notifier -> {"idle", "check", "log"}] /\ sent \in [Notifier -> Mail]
          /\ count \in [Notifier -> 0..Len(alerts)]
        BY <1>2, <2>1 DEF Init
    <2> QED
        BY <1>1, <1>2, <2>2, LimitAssumption DEF TypeOK
<1>4. /\ Cardinality(Logged) = 0 /\ Cardinality(Pending) = 0 /\ Cardinality(Ready) = 0
      /\ Cardinality(Missed) = 0 /\ Cardinality(Denied) = 0
    <2>1. Logged = {} /\ Pending = {} /\ Ready = {} /\ Missed = {} /\ Denied = {}
        BY <1>2 DEF Init, Logged, Counted, Recent, Pending, Ready, Missed, Denied
    <2> QED
        BY <2>1, FS_EmptySet
<1>5. Cardinality(Notifier) \in Nat
    BY NotifiersFinite
<1> QED
    BY <1>1, <1>3, <1>4, <1>5, LimitAssumption DEF AInv, Budget, Charged

-----------------------------------------------------------------------------
\* Every step keeps the types.
LEMMA NextTypes == AInv /\ [Next]_vars => TypeOK'
<1> SUFFICES ASSUME AInv, [Next]_vars PROVE TypeOK'
    OBVIOUS
<1> USE DEF AInv, TypeOK
<1>0. /\ Len(alerts) \in Nat /\ DOMAIN alerts = 1..Len(alerts)
      /\ NotSent \in Mail
    BY LenProperties DEF NotSent, Mail
<1>1. ASSUME NEW n \in Notifier, GetDailyEmailCount(n) PROVE TypeOK'
    <2>1. DailyEmailCount \in 0..Len(alerts)
        <3>1. Counted \in SUBSET Recent
            BY DEF Counted
        <3> QED
            BY <1>0, <3>1, CountsFinite DEF DailyEmailCount
    <2>2. PICK c \in 0..Len(alerts) : count' = [count EXCEPT ![n] = c]
        BY <1>0, <1>1, <2>1 DEF GetDailyEmailCount
    <2>3. asked' \in 0..MaxEntries /\ failures' \in 0..asked'
        BY <1>1, LimitAssumption DEF GetDailyEmailCount
    <2>4. pc' \in [Notifier -> {"idle", "check", "log"}] /\ UNCHANGED <<alerts, old, sent, unseen>>
        BY <1>1 DEF GetDailyEmailCount
    <2>5. count' \in [Notifier -> 0..Len(alerts)]
        BY <2>2
    <2> QED
        BY <2>3, <2>4, <2>5
<1>2. ASSUME NEW n \in Notifier, Suppress(n) PROVE TypeOK'
    <2>1. /\ pc' \in [Notifier -> {"idle", "check", "log"}]
          /\ sent' = [sent EXCEPT ![n] = NotSent]
          /\ UNCHANGED <<alerts, old, count, asked, failures, unseen>>
        BY <1>2 DEF Suppress
    <2>2. sent' \in [Notifier -> Mail]
        BY <1>0, <2>1
    <2> QED
        BY <2>1, <2>2
<1>3. ASSUME NEW n \in Notifier, SendEmail(n) PROVE TypeOK'
    <2>1. PICK outcome \in Mail :
              /\ sent' = [sent EXCEPT ![n] = outcome]
              /\ unseen' = unseen + (IF outcome.delivered /\ outcome.error THEN 1 ELSE 0)
        BY <1>3 DEF SendEmail
    <2>2. /\ pc' \in [Notifier -> {"idle", "check", "log"}]
          /\ UNCHANGED <<alerts, old, count, asked, failures>>
        BY <1>3 DEF SendEmail
    <2>3. sent' \in [Notifier -> Mail] /\ unseen' \in Nat
        BY <2>1
    <2> QED
        BY <2>2, <2>3
<1>4. ASSUME NEW n \in Notifier, LogAlertEmail(n) PROVE TypeOK'
    <2>1. /\ pc' \in [Notifier -> {"idle", "check", "log"}]
          /\ sent' = [sent EXCEPT ![n] = NotSent]
          /\ UNCHANGED <<old, count, asked, failures>>
        BY <1>4 DEF LogAlertEmail
    <2>2. sent' \in [Notifier -> Mail]
        BY <1>0, <2>1
    <2>3. PICK stored \in BOOLEAN :
              /\ alerts' = Append(alerts, [error |-> sent[n].error,
                                           delivered |-> sent[n].delivered, stored |-> stored])
              /\ unseen' = unseen + (IF ~stored /\ sent[n].delivered /\ ~sent[n].error
                                     THEN 1 ELSE 0)
        BY <1>4, LimitAssumption DEF LogAlertEmail
    <2>4. [error |-> sent[n].error, delivered |-> sent[n].delivered, stored |-> stored] \in Alert
        BY DEF Mail, Alert
    <2>5. alerts' \in Seq(Alert) /\ Len(alerts') = Len(alerts) + 1
        BY <2>3, <2>4, AppendProperties
    <2>6. old' \in 0..Len(alerts') /\ count' \in [Notifier -> 0..Len(alerts')]
        BY <1>0, <2>1, <2>5
    <2>7. unseen' \in Nat
        BY <2>3
    <2> QED
        BY <2>1, <2>2, <2>5, <2>6, <2>7
<1>5. CASE Age
    BY <1>0, <1>5 DEF Age
<1>6. CASE UNCHANGED vars
    BY <1>6 DEF vars
<1> QED
    BY <1>1, <1>2, <1>3, <1>4, <1>5, <1>6 DEF Next

\* What a step adds to the three sets and to failures leaves the budget kept.
LEMMA BudgetKept ==
    ASSUME AInv, TypeOK', UNCHANGED <<Logged, Pending>>, failures <= failures',
           Cardinality(Ready') <= Cardinality(Ready) + (failures' - failures)
    PROVE  Budget'
<1>1. Logged \in SUBSET Recent /\ Pending \in SUBSET Notifier
      /\ Ready \in SUBSET Notifier /\ Ready' \in SUBSET Notifier
    BY DEF Logged, Counted, Pending, Ready
<1>2. /\ Cardinality(Logged) \in Nat /\ Cardinality(Pending) \in Nat
      /\ Cardinality(Ready) \in Nat /\ Cardinality(Ready') \in Nat
      /\ Cardinality(Notifier) \in Nat
    BY <1>1, CountsFinite, NotifiersFinite DEF AInv, TypeOK
<1>3. failures \in Nat /\ failures' \in Nat
    BY DEF AInv, TypeOK
<1>4. Cardinality(Logged') = Cardinality(Logged) /\ Cardinality(Pending') = Cardinality(Pending)
    OBVIOUS
<1> QED
    BY <1>2, <1>3, <1>4, LimitAssumption DEF Budget, AInv

\* A count makes its notifier ready only below the maximum, or is charged as a
\* failure.
LEMMA CountKeepsBudget ==
    ASSUME AInv, TypeOK', NEW n \in Notifier, GetDailyEmailCount(n)
    PROVE  Budget'
<1> USE DEF AInv
<1>1. /\ pc[n] = "idle" /\ pc' = [pc EXCEPT ![n] = "check"]
      /\ UNCHANGED <<alerts, old, sent, unseen>>
      /\ \/ count' = [count EXCEPT ![n] = DailyEmailCount] /\ failures' = failures
         \/ count' = [count EXCEPT ![n] = 0] /\ failures' = failures + 1
    BY DEF GetDailyEmailCount
<1>2. \A m \in Notifier : pc'[m] = IF m = n THEN "check" ELSE pc[m]
    BY <1>1 DEF TypeOK
<1>3. Logged' = Logged
    BY <1>1 DEF Logged, Counted, Recent
<1>4. Pending' = Pending
    BY <1>1, <1>2 DEF Pending
<1>5. \A m \in Notifier \ {n} : count'[m] = count[m]
    BY <1>1 DEF TypeOK
<1>6. Ready' \in SUBSET (Ready \cup {n}) /\ Ready \in SUBSET Notifier /\ n \notin Ready
    BY <1>1, <1>2, <1>5 DEF Ready, OverLimit
<1>7. IsFiniteSet(Ready) /\ Cardinality(Ready) \in Nat
    BY <1>6, NotifiersFinite
<1>8. Cardinality(Ready') <= Cardinality(Ready) + 1
    <2>1. IsFiniteSet(Ready \cup {n}) /\ Cardinality(Ready \cup {n}) = Cardinality(Ready) + 1
        BY <1>6, <1>7, FS_AddElement
    <2> QED
        BY <1>6, <2>1, FS_Subset
<1>9. failures \in Nat
    BY DEF TypeOK
<1>10. CASE failures' = failures + 1
    BY <1>3, <1>4, <1>8, <1>9, <1>10, BudgetKept
<1>11. CASE n \notin Ready' /\ failures' = failures
    <2>1. Ready' \in SUBSET Ready
        BY <1>6, <1>11
    <2>2. Cardinality(Ready') <= Cardinality(Ready)
        BY <1>7, <2>1, FS_Subset
    <2>3. Cardinality(Ready) + (failures' - failures) = Cardinality(Ready)
          /\ failures <= failures'
        BY <1>7, <1>9, <1>11
    <2> QED
        BY <1>3, <1>4, <2>2, <2>3, BudgetKept
<1>12. CASE n \in Ready' /\ failures' = failures
    <2>1. count' = [count EXCEPT ![n] = DailyEmailCount]
        BY <1>1, <1>9, <1>12
    <2>2. DailyEmailCount <= MAX_EMAIL_PER_ADDRESS_PER_DAY
        <3>1. count'[n] = DailyEmailCount
            BY <2>1 DEF TypeOK
        <3>2. DailyEmailCount \in Nat
            BY CountsFinite DEF DailyEmailCount, Counted, TypeOK
        <3> QED
            BY <1>12, <3>1, <3>2, LimitAssumption DEF Ready, OverLimit
    <2>3. Logged \in SUBSET Counted
        BY DEF Logged
    <2>4. Cardinality(Logged) <= DailyEmailCount /\ DailyEmailCount \in Nat
          /\ Cardinality(Logged) \in Nat
        <3>1. Counted \in SUBSET Recent /\ Logged \in SUBSET Recent
            BY DEF Logged, Counted
        <3>2. IsFiniteSet(Counted) /\ Cardinality(Counted) \in Nat /\ Cardinality(Logged) \in Nat
            BY <3>1, CountsFinite DEF TypeOK
        <3> QED
            BY <2>3, <3>2, FS_Subset DEF DailyEmailCount
    <2>5. Cardinality(Pending) + Cardinality(Ready') <= Cardinality(Notifier)
          /\ Cardinality(Pending) \in Nat /\ Cardinality(Ready') \in Nat
          /\ Cardinality(Notifier) \in Nat
        <3>1. Pending \in SUBSET Notifier /\ Ready' \in SUBSET Notifier
              /\ Pending \cup Ready' \in SUBSET Notifier
            BY DEF Pending, Ready
        <3>2. Pending \cap Ready' = {}
            BY <1>4 DEF Pending, Ready
        <3>3. IsFiniteSet(Pending) /\ IsFiniteSet(Ready')
              /\ Cardinality(Pending) \in Nat /\ Cardinality(Ready') \in Nat
              /\ Cardinality(Pending \cup Ready') <= Cardinality(Notifier)
              /\ Cardinality(Notifier) \in Nat
            BY <3>1, NotifiersFinite
        <3>4. Cardinality(Pending \cup Ready') = Cardinality(Pending) + Cardinality(Ready') - 0
            BY <3>2, <3>3, FS_Union, FS_EmptySet
        <3> QED
            BY <3>3, <3>4
    <2>6. Cardinality(Logged') = Cardinality(Logged) /\ Cardinality(Pending') = Cardinality(Pending)
        BY <1>3, <1>4
    <2> QED
        BY <1>9, <1>12, <2>2, <2>4, <2>5, <2>6, LimitAssumption DEF Budget
<1> QED
    BY <1>1, <1>10, <1>11, <1>12

\* A mail moves from Ready to Pending, or to neither.
LEMMA SendKeepsBudget ==
    ASSUME AInv, TypeOK', NEW n \in Notifier, Suppress(n) \/ SendEmail(n)
    PROVE  Budget'
<1> USE DEF AInv
<1>1. /\ pc[n] = "check" /\ pc' = [pc EXCEPT ![n] = "log"]
      /\ UNCHANGED <<alerts, old, count, failures>>
      /\ \A m \in Notifier \ {n} : sent'[m] = sent[m]
    BY DEF Suppress, SendEmail, TypeOK
<1>2. \A m \in Notifier : pc'[m] = IF m = n THEN "log" ELSE pc[m]
    BY <1>1 DEF TypeOK
<1>3. Cardinality(Logged') = Cardinality(Logged) /\ Cardinality(Logged) \in Nat
    <2>1. Logged' = Logged /\ Logged \in SUBSET Recent
        BY <1>1 DEF Logged, Counted, Recent
    <2> QED
        BY <2>1, CountsFinite DEF TypeOK
<1>4. /\ Ready \in SUBSET Notifier /\ Pending \in SUBSET Notifier
      /\ Ready' = Ready \ {n} /\ Pending' \in SUBSET (Pending \cup {n})
    BY <1>1, <1>2 DEF Ready, Pending, OverLimit
<1>5. /\ IsFiniteSet(Ready) /\ Cardinality(Ready) \in Nat
      /\ IsFiniteSet(Pending) /\ Cardinality(Pending) \in Nat
      /\ Cardinality(Notifier) \in Nat
    BY <1>4, NotifiersFinite
<1>6. /\ IsFiniteSet(Ready') /\ IsFiniteSet(Pending')
      /\ Cardinality(Ready') \in Nat /\ Cardinality(Pending') \in Nat
    BY <1>4, <1>5, NotifiersFinite
<1>7. Cardinality(Ready') + Cardinality(Pending') <= Cardinality(Ready) + Cardinality(Pending)
    <2>1. CASE n \in Ready
        <3>1. Cardinality(Ready') = Cardinality(Ready) - 1
            BY <1>4, <1>5, <2>1, FS_RemoveElement
        <3>2. Cardinality(Pending') <= Cardinality(Pending) + 1
            <4>0. /\ IsFiniteSet(Pending \cup {n})
                  /\ Cardinality(Pending \cup {n})
                        = IF n \in Pending THEN Cardinality(Pending) ELSE Cardinality(Pending) + 1
                BY <1>5, FS_AddElement
            <4>1. /\ IsFiniteSet(Pending \cup {n})
                  /\ Cardinality(Pending \cup {n}) <= Cardinality(Pending) + 1
                BY <1>5, <4>0
            <4>2. Cardinality(Pending') <= Cardinality(Pending \cup {n})
                BY <1>4, <4>1, FS_Subset
            <4>3. Cardinality(Pending \cup {n}) \in Nat
                BY <4>1, FS_CardinalityType
            <4> QED
                BY <1>5, <1>6, <4>1, <4>2, <4>3
        <3> QED
            BY <1>5, <1>6, <3>1, <3>2
    <2>2. CASE n \notin Ready
        <3>1. Suppress(n)
            BY <1>1, <2>2 DEF SendEmail, Ready
        <3>2. sent'[n] = NotSent
            BY <3>1 DEF Suppress, TypeOK
        <3>3. n \notin Pending'
            BY <3>2 DEF Pending, NotSent
        <3>4. Pending' \in SUBSET Pending /\ Ready' = Ready
            BY <1>4, <2>2, <3>3
        <3>5. Cardinality(Pending') <= Cardinality(Pending)
            BY <1>5, <3>4, FS_Subset
        <3> QED
            BY <1>5, <1>6, <3>4, <3>5
    <2> QED
        BY <2>1, <2>2
<1>8. failures' = failures /\ failures \in Nat
    BY <1>1 DEF TypeOK
<1> QED
    BY <1>3, <1>5, <1>6, <1>7, <1>8, LimitAssumption DEF Budget

\* What LogAlertEmail adds.
LEMMA AppendedAlert ==
    ASSUME TypeOK, NEW n \in Notifier, LogAlertEmail(n)
    PROVE  /\ DOMAIN alerts = 1..Len(alerts) /\ Len(alerts) \in Nat
           /\ DOMAIN alerts' = 1..(Len(alerts) + 1)
           /\ \A i \in 1..Len(alerts) : alerts'[i] = alerts[i]
           /\ alerts'[Len(alerts) + 1].error = sent[n].error
           /\ alerts'[Len(alerts) + 1].delivered = sent[n].delivered
           /\ unseen' = unseen + (IF ~alerts'[Len(alerts) + 1].stored /\ sent[n].delivered
                                     /\ ~sent[n].error THEN 1 ELSE 0)
<1>1. PICK stored \in BOOLEAN :
          /\ alerts' = Append(alerts, [error |-> sent[n].error,
                                       delivered |-> sent[n].delivered, stored |-> stored])
          /\ unseen' = unseen + (IF ~stored /\ sent[n].delivered /\ ~sent[n].error
                                 THEN 1 ELSE 0)
    BY LimitAssumption DEF LogAlertEmail
<1>2. alerts \in Seq(Alert)
    BY DEF TypeOK
<1> DEFINE new == [error |-> sent[n].error, delivered |-> sent[n].delivered, stored |-> stored]
<1>3. new \in Alert
    BY DEF TypeOK, Mail, Alert
<1>4. /\ alerts' \in Seq(Alert) /\ Len(alerts') = Len(alerts) + 1
      /\ \A i \in 1..Len(alerts) : alerts'[i] = alerts[i]
      /\ alerts'[Len(alerts) + 1] = new
    BY <1>1, <1>2, <1>3, AppendProperties
<1> QED
    BY <1>1, <1>2, <1>4, LenProperties

\* A mail that was delivered moves from Pending into the log.
LEMMA LogKeepsBudget ==
    ASSUME AInv, TypeOK', NEW n \in Notifier, LogAlertEmail(n)
    PROVE  Budget'
<1> USE DEF AInv
<1> DEFINE next == Len(alerts) + 1
<1>1. /\ pc[n] = "log" /\ pc' = [pc EXCEPT ![n] = "idle"]
      /\ UNCHANGED <<old, count, failures>>
      /\ \A m \in Notifier \ {n} : sent'[m] = sent[m]
      /\ \E stored \in BOOLEAN :
            alerts' = Append(alerts, [error |-> sent[n].error,
                                      delivered |-> sent[n].delivered, stored |-> stored])
    BY LimitAssumption DEF LogAlertEmail, TypeOK
<1>2. \A m \in Notifier : pc'[m] = IF m = n THEN "idle" ELSE pc[m]
    BY <1>1 DEF TypeOK
<1>3. Ready' = Ready
    BY <1>1, <1>2 DEF Ready, OverLimit
<1>4. Pending' = Pending \ {n} /\ Pending \in SUBSET Notifier /\ Ready \in SUBSET Notifier
    BY <1>1, <1>2 DEF Pending, Ready
<1>5. /\ IsFiniteSet(Pending) /\ Cardinality(Pending) \in Nat
      /\ Cardinality(Ready) \in Nat /\ Cardinality(Notifier) \in Nat
    BY <1>4, NotifiersFinite DEF Ready
<1>6. Cardinality(Pending') = IF n \in Pending THEN Cardinality(Pending) - 1
                              ELSE Cardinality(Pending)
    BY <1>4, <1>5, FS_RemoveElement
<1>7. Logged \in SUBSET Recent
    BY DEF Logged, Counted
<1>8. IsFiniteSet(Logged) /\ Cardinality(Logged) \in Nat
    BY <1>7, CountsFinite DEF TypeOK
<1>9. Logged' \in SUBSET (Logged \cup {next}) /\ (n \notin Pending => Logged' \in SUBSET Logged)
    <2>1. /\ DOMAIN alerts = 1..Len(alerts) /\ Len(alerts) \in Nat
          /\ DOMAIN alerts' = 1..next
          /\ \A i \in 1..Len(alerts) : alerts'[i] = alerts[i]
          /\ alerts'[next].error = sent[n].error
          /\ alerts'[next].delivered = sent[n].delivered
        BY AppendedAlert
    <2>2. ASSUME NEW i \in Logged', i # next PROVE i \in Logged
        <3>1. i \in 1..next /\ i > old
            BY <1>1, <2>1, <2>2 DEF Logged, Counted, Recent
        <3>2. i \in 1..Len(alerts)
            BY <2>1, <2>2, <3>1
        <3> QED
            BY <2>1, <2>2, <3>1, <3>2 DEF Logged, Counted, Recent
    <2>3. next \in Logged' => n \in Pending
        BY <1>1, <2>1 DEF Logged, Counted, Pending
    <2> QED
        BY <2>2, <2>3
<1>10. Cardinality(Logged') <= Cardinality(Logged) + (IF n \in Pending THEN 1 ELSE 0)
       /\ Cardinality(Logged') \in Nat
    <2>1. CASE n \in Pending
        <3>1. /\ IsFiniteSet(Logged \cup {next})
              /\ Cardinality(Logged \cup {next})
                    = IF next \in Logged THEN Cardinality(Logged) ELSE Cardinality(Logged) + 1
            BY <1>8, FS_AddElement
        <3>2. IsFiniteSet(Logged') /\ Cardinality(Logged') <= Cardinality(Logged \cup {next})
            BY <1>9, <3>1, FS_Subset
        <3>3. Cardinality(Logged') \in Nat
            BY <3>2, FS_CardinalityType
        <3> QED
            BY <1>8, <2>1, <3>1, <3>2, <3>3
    <2>2. CASE n \notin Pending
        <3>1. IsFiniteSet(Logged') /\ Cardinality(Logged') <= Cardinality(Logged)
            BY <1>8, <1>9, <2>2, FS_Subset
        <3>2. Cardinality(Logged') \in Nat
            BY <3>1, FS_CardinalityType
        <3> QED
            BY <1>8, <2>2, <3>1, <3>2
    <2> QED
        BY <2>1, <2>2
<1>11. Cardinality(Ready') = Cardinality(Ready) /\ failures' = failures /\ failures \in Nat
    BY <1>1, <1>3 DEF TypeOK
<1> QED
    BY <1>5, <1>6, <1>8, <1>10, <1>11, LimitAssumption DEF Budget

\* The window moves on.
LEMMA AgeKeepsBudget ==
    ASSUME AInv, Age
    PROVE  Budget'
<1> USE DEF AInv
<1>1. UNCHANGED <<alerts, pc, count, sent, failures>> /\ old' = old + 1 /\ old \in Nat
    BY LenProperties DEF Age, TypeOK
<1>2. Logged' \in SUBSET Logged /\ Logged \in SUBSET Recent
    <2>1. \A i \in DOMAIN alerts : i \in Nat
        BY LenProperties DEF TypeOK
    <2> QED
        BY <1>1, <2>1 DEF Logged, Counted, Recent
<1>3. /\ IsFiniteSet(Logged) /\ Cardinality(Logged) \in Nat
      /\ IsFiniteSet(Logged') /\ Cardinality(Logged') <= Cardinality(Logged)
    BY <1>2, CountsFinite, FS_Subset DEF TypeOK
<1>4. Cardinality(Logged') \in Nat
    BY <1>3, FS_CardinalityType
<1>5. /\ Cardinality(Pending') = Cardinality(Pending)
      /\ Cardinality(Ready') = Cardinality(Ready)
    <2>1. Pending' = Pending /\ Ready' = Ready
        BY <1>1 DEF Pending, Ready, OverLimit
    <2> QED
        BY <2>1
<1>6. /\ Cardinality(Pending) \in Nat /\ Cardinality(Ready) \in Nat
      /\ Cardinality(Notifier) \in Nat
    <2>1. Pending \in SUBSET Notifier /\ Ready \in SUBSET Notifier
        BY DEF Pending, Ready
    <2> QED
        BY <2>1, NotifiersFinite
<1>7. failures' = failures /\ failures \in Nat
    BY <1>1 DEF TypeOK
<1> QED
    BY <1>3, <1>4, <1>5, <1>6, <1>7, LimitAssumption DEF Budget

\* A set that gains at most one element.
LEMMA AtMostOneMore ==
    ASSUME NEW S, IsFiniteSet(S), NEW x, NEW T \in SUBSET (S \cup {x})
    PROVE  /\ IsFiniteSet(T) /\ Cardinality(T) \in Nat /\ Cardinality(S) \in Nat
           /\ Cardinality(T) <= Cardinality(S) + 1
<1>1. Cardinality(S) \in Nat
    BY FS_CardinalityType
<1>2. /\ IsFiniteSet(S \cup {x})
      /\ Cardinality(S \cup {x}) = IF x \in S THEN Cardinality(S) ELSE Cardinality(S) + 1
    BY FS_AddElement
<1>3. IsFiniteSet(T) /\ Cardinality(T) <= Cardinality(S \cup {x})
    BY <1>2, FS_Subset
<1>4. Cardinality(T) \in Nat
    BY <1>3, FS_CardinalityType
<1> QED
    BY <1>1, <1>2, <1>3, <1>4

\* The mails that no count sees, before a step.
LEMMA MissedFinite ==
    ASSUME TypeOK
    PROVE  /\ IsFiniteSet(Missed) /\ Cardinality(Missed) \in Nat
           /\ IsFiniteSet(Denied) /\ Cardinality(Denied) \in Nat
<1>1. Missed \in SUBSET Recent /\ Denied \in SUBSET Notifier
    BY DEF Missed, Denied
<1> QED
    BY <1>1, CountsFinite, NotifiersFinite DEF TypeOK

\* A mail reported as failed is charged if it was delivered.
LEMMA SendKeepsCharged ==
    ASSUME AInv, TypeOK', NEW n \in Notifier, Suppress(n) \/ SendEmail(n)
    PROVE  Charged'
<1> USE DEF AInv
<1>1. /\ pc[n] = "check" /\ pc' = [pc EXCEPT ![n] = "log"] /\ UNCHANGED <<alerts, old>>
      /\ \E outcome \in Mail :
            /\ sent' = [sent EXCEPT ![n] = outcome]
            /\ unseen' = unseen + (IF outcome.delivered /\ outcome.error THEN 1 ELSE 0)
    <2>1. NotSent \in Mail /\ ~NotSent.delivered
        BY DEF NotSent, Mail
    <2>2. unseen + 0 = unseen
        BY DEF TypeOK
    <2> QED
        BY <2>1, <2>2 DEF Suppress, SendEmail
<1>2. PICK outcome \in Mail :
          /\ sent' = [sent EXCEPT ![n] = outcome]
          /\ unseen' = unseen + (IF outcome.delivered /\ outcome.error THEN 1 ELSE 0)
    BY <1>1
<1>3. \A m \in Notifier : /\ pc'[m] = IF m = n THEN "log" ELSE pc[m]
                          /\ sent'[m] = IF m = n THEN outcome ELSE sent[m]
    BY <1>1, <1>2 DEF TypeOK
<1>4. Missed' = Missed
    BY <1>1 DEF Missed, Counted, Recent
<1>5. Denied' \in SUBSET (Denied \cup {n})
    BY <1>3 DEF Denied
<1>6. CASE outcome.delivered /\ outcome.error
    <2>1. unseen' = unseen + 1
        BY <1>2, <1>6
    <2>2. Cardinality(Denied') <= Cardinality(Denied) + 1 /\ Cardinality(Denied') \in Nat
        BY <1>5, MissedFinite, AtMostOneMore
    <2>3. Cardinality(Missed') = Cardinality(Missed)
        BY <1>4
    <2> QED
        BY <2>1, <2>2, <2>3, MissedFinite DEF Charged, TypeOK
<1>7. CASE ~(outcome.delivered /\ outcome.error)
    <2>1. unseen' = unseen
        BY <1>2, <1>7 DEF TypeOK
    <2>2. Denied' = Denied
        BY <1>1, <1>3, <1>7 DEF Denied
    <2> QED
        BY <1>4, <2>1, <2>2 DEF Charged
<1> QED
    BY <1>6, <1>7

\* A mail that leaves for the log without an entry that counts is charged, now
\* or when it was reported as failed.
LEMMA LogKeepsCharged ==
    ASSUME AInv, TypeOK', NEW n \in Notifier, LogAlertEmail(n)
    PROVE  Charged'
<1> USE DEF AInv
<1> DEFINE next == Len(alerts) + 1
<1>1. /\ pc[n] = "log" /\ pc' = [pc EXCEPT ![n] = "idle"] /\ old' = old
      /\ \A m \in Notifier \ {n} : sent'[m] = sent[m]
    BY DEF LogAlertEmail, TypeOK
<1>2. \A m \in Notifier : pc'[m] = IF m = n THEN "idle" ELSE pc[m]
    BY <1>1 DEF TypeOK
<1>3. /\ DOMAIN alerts = 1..Len(alerts) /\ Len(alerts) \in Nat
      /\ DOMAIN alerts' = 1..next
      /\ \A i \in 1..Len(alerts) : alerts'[i] = alerts[i]
      /\ alerts'[next].error = sent[n].error
      /\ alerts'[next].delivered = sent[n].delivered
      /\ unseen' = unseen + (IF ~alerts'[next].stored /\ sent[n].delivered /\ ~sent[n].error
                             THEN 1 ELSE 0)
    BY AppendedAlert
<1>4. Denied' = Denied \ {n}
    BY <1>1, <1>2 DEF Denied
<1>5. /\ IsFiniteSet(Denied')
      /\ Cardinality(Denied') = IF n \in Denied THEN Cardinality(Denied) - 1
                                ELSE Cardinality(Denied)
    BY <1>4, MissedFinite, FS_RemoveElement
<1>6. ASSUME NEW i \in Missed', i # next PROVE i \in Missed
    <2>1. i \in 1..next /\ i > old
        BY <1>1, <1>3, <1>6 DEF Missed, Recent
    <2>2. i \in 1..Len(alerts)
        BY <1>3, <1>6, <2>1
    <2> QED
        BY <1>1, <1>3, <1>6, <2>1, <2>2 DEF Missed, Counted, Recent
<1>7. Cardinality(Denied') \in Nat /\ unseen \in Nat
    BY <1>5, FS_CardinalityType DEF TypeOK
<1>8. CASE next \notin Missed'
    <2>1. Missed' \in SUBSET Missed
        BY <1>6, <1>8
    <2>2. Cardinality(Missed') <= Cardinality(Missed) /\ Cardinality(Missed') \in Nat
        BY <2>1, MissedFinite, FS_Subset, FS_CardinalityType
    <2>3. unseen <= unseen'
        BY <1>3, <1>7
    <2>4. unseen' \in Nat
        BY DEF TypeOK
    <2> QED
        BY <1>5, <1>7, <2>2, <2>3, <2>4, MissedFinite DEF Charged
<1>9. CASE next \in Missed'
    <2>1. Missed' \in SUBSET (Missed \cup {next})
        BY <1>6
    <2>2. Cardinality(Missed') <= Cardinality(Missed) + 1 /\ Cardinality(Missed') \in Nat
        BY <2>1, MissedFinite, AtMostOneMore
    <2>3. sent[n].delivered /\ (sent[n].error \/ ~alerts'[next].stored)
        BY <1>3, <1>9 DEF Missed, Counted
    <2>4. CASE sent[n].error
        <3>1. n \in Denied
            BY <1>1, <2>3, <2>4 DEF Denied
        <3>2. unseen' = unseen
            BY <1>3, <1>7, <2>4
        <3>3. Cardinality(Denied') = Cardinality(Denied) - 1
            BY <1>5, <3>1
        <3> QED
            BY <1>7, <2>2, <3>2, <3>3, MissedFinite DEF Charged
    <2>5. CASE ~sent[n].error
        <3>1. unseen' = unseen + 1
            BY <1>3, <2>3, <2>5
        <3>2. Cardinality(Denied') <= Cardinality(Denied)
            BY <1>5, MissedFinite
        <3> QED
            BY <1>7, <2>2, <3>1, <3>2, MissedFinite DEF Charged
    <2> QED
        BY <2>4, <2>5
<1> QED
    BY <1>8, <1>9

\* No other step touches what was charged but the clock, which can only take
\* from it.
LEMMA OthersKeepCharged ==
    ASSUME AInv, TypeOK',
           Age \/ UNCHANGED vars \/ \E n \in Notifier : GetDailyEmailCount(n)
    PROVE  Charged'
<1> USE DEF AInv
<1>1. alerts' = alerts /\ sent' = sent /\ unseen' = unseen /\ old' >= old /\ old \in Nat
    <2>1. old \in Nat
        BY LenProperties DEF TypeOK
    <2> QED
        BY <2>1 DEF Age, vars, GetDailyEmailCount
<1>2. Denied' = Denied
    <2>1. CASE pc' = pc
        BY <1>1, <2>1 DEF Denied
    <2>2. CASE \E n \in Notifier : GetDailyEmailCount(n)
        <3>1. PICK n \in Notifier : GetDailyEmailCount(n)
            BY <2>2
        <3>2. pc[n] = "idle" /\ pc' = [pc EXCEPT ![n] = "check"]
            BY <3>1 DEF GetDailyEmailCount
        <3>3. \A m \in Notifier : pc'[m] = IF m = n THEN "check" ELSE pc[m]
            BY <3>2 DEF TypeOK
        <3> QED
            BY <1>1, <3>2, <3>3 DEF Denied
    <2> QED
        BY <2>1, <2>2 DEF Age, vars
<1>3. Missed' \in SUBSET Missed
    <2>1. \A i \in DOMAIN alerts : i \in Nat
        BY LenProperties DEF TypeOK
    <2>2. old' \in Nat
        BY LenProperties DEF TypeOK
    <2> QED
        BY <1>1, <2>1, <2>2 DEF Missed, Counted, Recent
<1>4. Cardinality(Missed') <= Cardinality(Missed) /\ Cardinality(Missed') \in Nat
    BY <1>3, MissedFinite, FS_Subset, FS_CardinalityType
<1>5. Cardinality(Denied') = Cardinality(Denied) /\ unseen \in Nat
    BY <1>2 DEF TypeOK
<1> QED
    BY <1>1, <1>4, <1>5, MissedFinite DEF Charged

\* So every step stays within the budget.
LEMMA NextAInv == AInv /\ [Next]_vars => AInv'
<1> SUFFICES ASSUME AInv, [Next]_vars PROVE AInv'
    OBVIOUS
<1>1. TypeOK'
    BY NextTypes
<1>2. Budget'
    <2>1. CASE UNCHANGED vars
        <3>1. Logged' = Logged /\ Pending' = Pending /\ Ready' = Ready /\ failures' = failures
            BY <2>1 DEF vars, Logged, Counted, Recent, Pending, Ready, OverLimit
        <3> QED
            BY <3>1 DEF Budget, AInv
    <2> QED
        BY <1>1, <2>1, CountKeepsBudget, SendKeepsBudget, LogKeepsBudget, AgeKeepsBudget DEF
           Next
<1>3. Charged'
    BY <1>1, SendKeepsCharged, LogKeepsCharged, OthersKeepCharged DEF Next
<1> QED
    BY <1>1, <1>2, <1>3 DEF AInv

-----------------------------------------------------------------------------
\* The alerts, the window and what each notifier is at keep their types, for
\* every outcome of a mail and of its log entry (mail.go, api/email.go).
THEOREM TypeCorrect == Spec => []TypeOK
<1>1. AInv => TypeOK
    BY DEF AInv
<1> QED
    BY <1>1, InitAInv, NextAInv, PTL DEF Spec

\* In no 24 hours does an address get more mails than the maximum, one for
\* each notifier that shares the log, one for each count that failed and one
\* for each mail that was delivered and then reported as failed or not logged
\* (SendNotification of clients/mail.go, GetDailyEmailCount of api/email.go).
THEOREM DeliveredBoundedAlways == Spec => []DeliveredBounded
<1>1. AInv => DeliveredBounded
    <2> SUFFICES ASSUME AInv PROVE DeliveredBounded
        OBVIOUS
    <2> DEFINE inLog == {i \in Recent : alerts[i].delivered}
               onWay == {n \in Notifier : pc[n] = "log" /\ sent[n].delivered}
    <2>1. /\ Logged \in SUBSET Recent /\ Pending \in SUBSET Notifier
          /\ Ready \in SUBSET Notifier
        BY DEF Logged, Counted, Pending, Ready
    <2>2. /\ IsFiniteSet(Logged) /\ Cardinality(Logged) \in Nat
          /\ IsFiniteSet(Pending) /\ Cardinality(Pending) \in Nat
          /\ Cardinality(Ready) \in Nat /\ Cardinality(Notifier) \in Nat
        BY <2>1, CountsFinite, NotifiersFinite DEF AInv, TypeOK
    <2>3. /\ IsFiniteSet(Missed) /\ Cardinality(Missed) \in Nat
          /\ IsFiniteSet(Denied) /\ Cardinality(Denied) \in Nat
        BY MissedFinite DEF AInv
    <2>4. /\ inLog = Logged \cup Missed /\ Logged \cap Missed = {}
          /\ onWay = Pending \cup Denied /\ Pending \cap Denied = {}
        <3>1. inLog = Logged \cup Missed /\ Logged \cap Missed = {}
            BY DEF Logged, Missed, Counted
        <3>2. onWay = Pending \cup Denied /\ Pending \cap Denied = {}
            <4>1. \A n \in Notifier : sent[n].error \in BOOLEAN /\ sent[n].delivered \in BOOLEAN
                BY DEF AInv, TypeOK, Mail
            <4> QED
                BY <4>1 DEF Pending, Denied
        <3> QED
            BY <3>1, <3>2
    <2>5. /\ Cardinality(inLog) = Cardinality(Logged) + Cardinality(Missed) - 0
          /\ Cardinality(onWay) = Cardinality(Pending) + Cardinality(Denied) - 0
        <3> HIDE DEF inLog, onWay
        <3>1. Cardinality(inLog) = Cardinality(Logged) + Cardinality(Missed)
                                   - Cardinality(Logged \cap Missed)
            BY <2>2, <2>3, <2>4, FS_Union
        <3>2. Cardinality(onWay) = Cardinality(Pending) + Cardinality(Denied)
                                   - Cardinality(Pending \cap Denied)
            BY <2>2, <2>3, <2>4, FS_Union
        <3> QED
            BY <2>4, <3>1, <3>2, FS_EmptySet
    <2>6. Delivered = Cardinality(inLog) + Cardinality(onWay)
        BY DEF Delivered
    <2>7. failures \in Nat /\ unseen \in Nat
        BY DEF AInv, TypeOK
    <2>8. Delivered = Cardinality(Logged) + Cardinality(Missed) + Cardinality(Pending)
                      + Cardinality(Denied)
        <3> HIDE DEF inLog, onWay
        <3> QED
            BY <2>2, <2>3, <2>5, <2>6
    <2> HIDE DEF inLog, onWay
    <2> QED
        BY <2>2, <2>3, <2>7, <2>8, LimitAssumption
           DEF AInv, Budget, Charged, DeliveredBounded
<1> QED
    BY <1>1, InitAInv, NextAInv, PTL DEF Spec
=============================================================================
