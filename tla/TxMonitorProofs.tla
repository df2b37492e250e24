--------------------------- MODULE TxMonitorProofs ---------------------------
(***************************************************************************)
(* Theorems about TxMonitor for every set of transactions, addresses,      *)
(* notifiers and endpoints and every capacity of the feed.                 *)
(***************************************************************************)
EXTENDS TxMonitor, FiniteSetTheorems, SequenceTheorems, TLAPS

(* The types, without the bound on the number of subscribers.                *)
EnvTypes ==
    /\ status \in [Tx -> {"unseen", "mempool", "mined"}]
    /\ feed \in Seq(Tx) /\ Len(feed) <= FeedCap
    /\ row \in [Row -> {"none", "watched", "deleted"}]
    /\ utxos \in [Row -> SUBSET Tx] /\ steady \subseteq watched
ScanTypes == due \in Seq(Address) /\ answers \in Seq(Answer) /\ Len(answers) <= 2
WatchTypes ==
    /\ pc \in {"receive", "outputs", "fanout"} /\ tx \in Tx
    /\ outs \in Seq(Address \cup {NoAddr}) /\ ins \in Seq([tx : Tx, addr : Address])
    /\ matched \in Seq(Row)
FanTypes ==
    /\ mu \in BOOLEAN /\ txStreams \in Seq(Notifier)
    /\ next \in 1..Len(txStreams) + 1
    /\ fanned \in Nat /\ got \in [Notifier -> Seq(Nat)]
    /\ told \in [Tx -> SUBSET Row]
NtfTypes ==
    /\ nPc \in [Notifier -> {"start", "receive", "notify", "stopped", "hung"}]
    /\ job \in [Notifier -> Seq(Row)]
    /\ since \in [Notifier -> Nat]
Types == EnvTypes /\ ScanTypes /\ WatchTypes /\ FanTypes /\ NtfTypes

(* A notifier subscribes once, when it starts.                               *)
SubscribersDistinct ==
    /\ \A i, j \in 1..Len(txStreams) : txStreams[i] = txStreams[j] => i = j
    /\ \A i \in 1..Len(txStreams) : nPc[txStreams[i]] # "start"

(* The notifications a subscriber has had, after a and up to b.              *)
Had(a, b) == [i \in 1..(b - a) |-> a + i]

(* While the mutex is held the last notification is being fanned out, and    *)
(* exactly the subscribers from next on have not had it.                     *)
FanOutProgress ==
    /\ mu => pc = "fanout"
    /\ \A n \in Notifier : since[n] <= fanned /\ (nPc[n] = "start" => got[n] = <<>>)
    /\ \A i \in 1..Len(txStreams) :
          LET n == txStreams[i] IN
          IF mu /\ i >= next
          THEN since[n] < fanned /\ got[n] = Had(since[n], fanned - 1)
          ELSE got[n] = Had(since[n], fanned)

(* The rows watched since the transaction was taken whose addresses it pays  *)
(* are matched, or their addresses are among the outputs still to be matched. *)
MatchingCovers ==
    pc # "receive" =>
        \A r \in steady : AddressOf[r] \in Elems(Outs[tx]) =>
            r \in Elems(matched) \/ AddressOf[r] \in Elems(outs)

-----------------------------------------------------------------------------
(* Lists.                                                                    *)

\* A concatenation holds what its two parts hold.
LEMMA ElemsConcat ==
    ASSUME NEW T, NEW s \in Seq(T), NEW t \in Seq(T)
    PROVE  s \o t \in Seq(T) /\ Elems(s \o t) = Elems(s) \cup Elems(t)
<1>1. /\ s \o t \in Seq(T) /\ Len(s \o t) = Len(s) + Len(t)
      /\ \A i \in 1..(Len(s) + Len(t)) :
            (s \o t)[i] = IF i <= Len(s) THEN s[i] ELSE t[i - Len(s)]
  BY ConcatProperties
<1>2. /\ Len(s) \in Nat /\ DOMAIN s = 1..Len(s) /\ Len(t) \in Nat /\ DOMAIN t = 1..Len(t)
      /\ DOMAIN (s \o t) = 1..(Len(s) + Len(t))
  BY <1>1, LenProperties
<1>3. ASSUME NEW i \in 1..Len(s) PROVE s[i] \in Elems(s \o t)
  <2>1. i \in 1..(Len(s) + Len(t)) /\ (s \o t)[i] = s[i]
    BY <1>1, <1>2
  <2> QED BY <1>2, <2>1 DEF Elems
<1>4. ASSUME NEW i \in 1..Len(t) PROVE t[i] \in Elems(s \o t)
  <2>1. i + Len(s) \in 1..(Len(s) + Len(t)) /\ ~(i + Len(s) <= Len(s))
        /\ (i + Len(s)) - Len(s) = i
    BY <1>2
  <2>2. (s \o t)[i + Len(s)] = t[i]
    BY <1>1, <2>1
  <2> QED BY <1>2, <2>1, <2>2 DEF Elems
<1>5. ASSUME NEW i \in 1..(Len(s) + Len(t)) PROVE (s \o t)[i] \in Elems(s) \cup Elems(t)
  <2>1. CASE i <= Len(s)
    BY <1>1, <1>2, <2>1 DEF Elems
  <2>2. CASE ~(i <= Len(s))
    <3>1. i - Len(s) \in 1..Len(t) /\ (s \o t)[i] = t[i - Len(s)]
      BY <1>1, <1>2, <2>2
    <3> QED BY <1>2, <3>1 DEF Elems
  <2> QED BY <2>1, <2>2
<1>6. /\ Elems(s) = {s[i] : i \in 1..Len(s)} /\ Elems(t) = {t[i] : i \in 1..Len(t)}
      /\ Elems(s \o t) = {(s \o t)[i] : i \in 1..(Len(s) + Len(t))}
  BY <1>2 DEF Elems
<1>7. Elems(s) \subseteq Elems(s \o t)
  BY <1>3, <1>6
<1>8. Elems(t) \subseteq Elems(s \o t)
  BY <1>4, <1>6
<1>9. Elems(s \o t) \subseteq Elems(s) \cup Elems(t)
  <2> SUFFICES ASSUME NEW e \in Elems(s \o t) PROVE e \in Elems(s) \cup Elems(t)
    OBVIOUS
  <2>1. PICK i \in 1..(Len(s) + Len(t)) : e = (s \o t)[i]
    BY <1>6
  <2> QED BY <1>5, <2>1
<1> QED BY <1>1, <1>7, <1>8, <1>9

\* A list of the rows of a set holds each of them.
LEMMA OrderingHoldsAll ==
    ASSUME NEW rows \in SUBSET Row, NEW list \in Orderings(rows)
    PROVE  list \in Seq(Row) /\ Elems(list) = rows
<1> DEFINE N == Cardinality(rows)
<1>1. IsFiniteSet(rows) /\ N \in Nat
  BY TxAssumption, FS_Subset, FS_CardinalityType
<1>2. list \in [1..N -> rows] /\ \A i, j \in 1..N : i # j => list[i] # list[j]
  BY DEF Orderings
<1>3. list \in Injection(1..N, rows)
  BY <1>2 DEF Injection, IsInjective
<1>4. Cardinality(1..N) = N
  <2>1. 1 \in Int /\ N \in Int
    BY <1>1
  <2>2. Cardinality(1..N) = IF 1 > N THEN 0 ELSE N - 1 + 1
    BY <2>1, FS_Interval
  <2> QED BY <1>1, <2>2
<1>5. list \in Surjection(1..N, rows)
  BY <1>1, <1>3, <1>4, FS_Injection
<1>6. \A r \in rows : \E i \in 1..N : list[i] = r
  BY <1>5 DEF Surjection
<1> HIDE DEF N
<1>7. Elems(list) = {list[i] : i \in 1..N}
  BY <1>2 DEF Elems
<1>8. list \in [1..N -> Row]
  BY <1>2
<1> QED BY <1>1, <1>2, <1>6, <1>7, <1>8

\* What the head and the tail of a list hold.
LEMMA ElemsShrink ==
    ASSUME NEW T, NEW s \in Seq(T), s # <<>>
    PROVE  /\ Head(s) \in T /\ Tail(s) \in Seq(T) /\ Len(Tail(s)) = Len(s) - 1
           /\ Elems(s) \subseteq {Head(s)} \cup Elems(Tail(s))
<1>1. Len(s) \in Nat /\ s \in [1..Len(s) -> T] /\ Head(s) = s[1]
  BY LenProperties
<1>2. /\ Head(s) \in T /\ Tail(s) \in Seq(T) /\ Len(Tail(s)) = Len(s) - 1
      /\ \A i \in 1..Len(Tail(s)) : Tail(s)[i] = s[i + 1]
  BY HeadTailProperties
<1>3. ASSUME NEW i \in 1..Len(s), i # 1
      PROVE  s[i] \in Elems(Tail(s))
  <2>1. i - 1 \in 1..Len(Tail(s)) /\ s[i] = Tail(s)[i - 1]
    BY <1>1, <1>2, <1>3
  <2>2. DOMAIN Tail(s) = 1..Len(Tail(s))
    BY <1>2, LenProperties
  <2> QED BY <2>1, <2>2 DEF Elems
<1>4. \A e \in Elems(s) : \E i \in 1..Len(s) : e = s[i]
  BY <1>1 DEF Elems
<1> QED BY <1>1, <1>2, <1>3, <1>4

(* The numbers of the notifications a subscriber has had.                    *)
LEMMA HadGrows ==
    ASSUME NEW a \in Nat, NEW b \in Nat, a < b
    PROVE  Append(Had(a, b - 1), b) = Had(a, b)
<1> DEFINE s == Had(a, b - 1)
           n == (b - 1) - a
<1>1. n \in Nat /\ s \in [1..n -> Nat] /\ \A i \in 1..n : s[i] = a + i
  BY DEF Had
<1>2. s \in Seq(Nat) /\ Len(s) = n
  BY <1>1, LenProperties
<1>3. Had(a, b) \in [1..(n + 1) -> Nat] /\ \A i \in 1..(n + 1) : Had(a, b)[i] = a + i
  BY DEF Had
<1>4. Had(a, b) \in Seq(Nat) /\ Len(Had(a, b)) = n + 1
  BY <1>1, <1>3, LenProperties
<1>5. a + (n + 1) = b
  OBVIOUS
<1> HIDE DEF s, n
<1>6. /\ Append(s, b) \in Seq(Nat) /\ Len(Append(s, b)) = n + 1
      /\ \A i \in 1..n : Append(s, b)[i] = s[i]
      /\ Append(s, b)[n + 1] = b
  BY <1>2, AppendProperties
<1>7. \A i \in 1..(n + 1) : Append(s, b)[i] = Had(a, b)[i]
  BY <1>1, <1>3, <1>5, <1>6
<1>8. Append(s, b) = Had(a, b)
  BY <1>4, <1>6, <1>7, SeqEqual
<1> QED BY <1>8 DEF s

LEMMA HadNone == ASSUME NEW a \in Nat PROVE Had(a, a) = <<>>
BY DEF Had

-----------------------------------------------------------------------------
(* The type invariant.                                                       *)

\* What publishing leaves in the feed.
LEMMA PublishTypes ==
    ASSUME EnvTypes, NEW t \in Tx, Publish(t)
    PROVE  feed' \in Seq(Tx) /\ Len(feed') <= FeedCap
<1>1. Len(feed) \in Nat /\ Append(feed, t) \in Seq(Tx) /\ Len(Append(feed, t)) = Len(feed) + 1
  BY AppendProperties, LenProperties DEF EnvTypes
<1> QED BY <1>1, NotifierAssumption DEF Publish, EnvTypes

\* What is matched are rows.
LEMMA AppendAllTypes ==
    ASSUME NEW rows \in SUBSET Row, matched \in Seq(Row), AppendAll(rows)
    PROVE  matched' \in Seq(Row) /\ Elems(matched') = Elems(matched) \cup rows
<1>1. PICK list \in Orderings(rows) : matched' = matched \o list
  BY DEF AppendAll
<1>2. list \in Seq(Row) /\ Elems(list) = rows
  BY OrderingHoldsAll
<1> QED BY <1>1, <1>2, ElemsConcat

\* What is queued at the start are addresses of watched rows.
LEMMA FirstScansTypes ==
    ASSUME NEW list \in Orderings(watched)
    PROVE  [i \in DOMAIN list |-> AddressOf[list[i]]] \in Seq(Address)
<1>1. watched \in SUBSET Row
  BY DEF watched
<1>2. list \in Seq(Row)
  BY <1>1, OrderingHoldsAll
<1>3. Len(list) \in Nat /\ DOMAIN list = 1..Len(list) /\ list \in [1..Len(list) -> Row]
  BY <1>2, LenProperties
<1>4. [i \in 1..Len(list) |-> AddressOf[list[i]]] \in [1..Len(list) -> Address]
  BY <1>3, TxAssumption
<1> QED BY <1>3, <1>4, SeqDef

\* Every step keeps the types.
LEMMA TypesHold == Spec => []Types
<1>1. Init => Types
  <2> SUFFICES ASSUME Init PROVE Types
    OBVIOUS
  <2>1. EnvTypes
    BY NotifierAssumption, EmptySeq DEF Init, EnvTypes
  <2>2. ScanTypes
    <3>1. due \in Seq(Address)
      BY FirstScansTypes DEF Init
    <3>2. answers \in Seq(Answer) /\ Len(answers) <= 2
      BY EmptySeq DEF Init
    <3> QED BY <3>1, <3>2 DEF ScanTypes
  <2>3. WatchTypes
    BY TxAssumption, EmptySeq DEF Init, WatchTypes
  <2>4. FanTypes
    <3>1. /\ mu \in BOOLEAN /\ txStreams \in Seq(Notifier)
          /\ fanned \in Nat /\ got \in [Notifier -> Seq(Nat)] /\ told \in [Tx -> SUBSET Row]
      BY EmptySeq DEF Init
    <3>2. next \in 1..Len(txStreams) + 1
      BY EmptySeq DEF Init
    <3> QED BY <3>1, <3>2 DEF FanTypes
  <2>5. NtfTypes
    BY EmptySeq DEF Init, NtfTypes
  <2> QED BY <2>1, <2>2, <2>3, <2>4, <2>5 DEF Types
<1>2. Types /\ [Next]_vars => Types'
  <2> SUFFICES ASSUME Types, [Next]_vars PROVE Types'
    OBVIOUS
  <2>0. /\ UNCHANGED <<status, feed, row, utxos, steady>> => EnvTypes'
        /\ UNCHANGED scanVars => ScanTypes'
        /\ UNCHANGED watchVars => WatchTypes'
        /\ UNCHANGED fanVars => FanTypes'
        /\ UNCHANGED <<nPc, job, since>> => NtfTypes'
    <3>1. UNCHANGED <<status, feed, row, utxos, steady>> => EnvTypes'
      BY DEF Types, EnvTypes, watched
    <3>2. UNCHANGED scanVars => ScanTypes'
      BY DEF Types, ScanTypes, scanVars
    <3>3. UNCHANGED watchVars => WatchTypes'
      BY DEF Types, WatchTypes, watchVars
    <3>4. UNCHANGED fanVars => FanTypes'
      BY DEF Types, FanTypes, fanVars
    <3>5. UNCHANGED <<nPc, job, since>> => NtfTypes'
      BY DEF Types, NtfTypes
    <3> QED BY <3>1, <3>2, <3>3, <3>4, <3>5
  <2>1. ASSUME NEW t \in Tx, Accept(t) \/ Mine(t) PROVE Types'
    <3>1. EnvTypes'
      BY <2>1, PublishTypes DEF Accept, Mine, Types, EnvTypes, watched
    <3> QED BY <2>0, <2>1, <3>1 DEF Accept, Mine, ntfVars, Types
  <2>2. ASSUME NEW r \in Row, Watch(r) \/ Unwatch(r) PROVE Types'
    <3>1. CASE Watch(r)
      <4>1. EnvTypes'
        BY <3>1 DEF Watch, Types, EnvTypes, watched
      <4>2. AddressOf[r] \in Address
        BY TxAssumption
      <4>3. Append(due, AddressOf[r]) \in Seq(Address)
        BY <4>2, AppendProperties DEF Types, ScanTypes
      <4>4. ScanTypes'
        BY <3>1, <4>3 DEF Watch, Types, ScanTypes
      <4> QED BY <2>0, <3>1, <4>1, <4>4 DEF Watch, ntfVars, Types
    <3>2. CASE Unwatch(r)
      <4>1. EnvTypes'
        BY <3>2 DEF Unwatch, Types, EnvTypes, watched
      <4> QED BY <2>0, <3>2, <4>1 DEF Unwatch, ntfVars, Types
    <3> QED BY <2>2, <3>1, <3>2
  <2>3. CASE ListUnspent
    <3>1. Head(due) \in Address /\ Tail(due) \in Seq(Address)
      BY <2>3, ElemsShrink DEF ListUnspent, Types, ScanTypes
    <3>2. PICK txs \in {Unspent(Head(due))} \cup (IF ScansFail THEN {{}} ELSE {}) :
             answers' = Append(answers, [addr |-> Head(due), txs |-> txs])
      BY <2>3 DEF ListUnspent
    <3>3. txs \subseteq Tx
      BY <3>2 DEF Unspent
    <3>4. [addr |-> Head(due), txs |-> txs] \in Answer
      BY <3>1, <3>3 DEF Answer
    <3>5. answers' \in Seq(Answer) /\ Len(answers') = Len(answers) + 1 /\ Len(answers) \in Nat
      BY <3>2, <3>4, AppendProperties, LenProperties DEF Types, ScanTypes
    <3>6. ScanTypes'
      BY <2>3, <3>1, <3>5 DEF ListUnspent, ScanTypes
    <3> QED BY <2>0, <2>3, <3>6 DEF ListUnspent, ntfVars, Types
  <2>4. CASE ScanDelivered
    <3>1. answers \in Seq(Answer) /\ answers # <<>> /\ Len(answers) <= 2
      BY <2>4 DEF ScanDelivered, Types, ScanTypes
    <3>2. /\ Head(answers) \in Answer /\ Tail(answers) \in Seq(Answer)
          /\ Len(Tail(answers)) = Len(answers) - 1 /\ Len(answers) \in Nat
      BY <3>1, ElemsShrink, LenProperties
    <3>3. Head(answers).txs \subseteq Tx
      BY <3>2 DEF Answer
    <3>4. EnvTypes'
      <4>1. utxos' \in [Row -> SUBSET Tx]
        BY <2>4, <3>3 DEF ScanDelivered, Types, EnvTypes
      <4> QED BY <2>4, <4>1 DEF ScanDelivered, Types, EnvTypes, watched
    <3>5. ScanTypes'
      BY <2>4, <3>1, <3>2 DEF ScanDelivered, Types, ScanTypes
    <3> QED BY <2>0, <2>4, <3>4, <3>5 DEF ScanDelivered, ntfVars, Types
  <2>5. CASE ReceiveRawTx
    <3>1. Head(feed) \in Tx /\ Tail(feed) \in Seq(Tx) /\ Len(Tail(feed)) <= FeedCap
      BY <2>5, ElemsShrink, NotifierAssumption, LenProperties DEF ReceiveRawTx, Types,
         EnvTypes
    <3>2. EnvTypes'
      BY <2>5, <3>1 DEF ReceiveRawTx, Types, EnvTypes, watched
    <3>3. WatchTypes'
      BY <2>5, <3>1, TxAssumption, EmptySeq DEF ReceiveRawTx, Types, WatchTypes
    <3> QED BY <2>0, <2>5, <3>2, <3>3 DEF ReceiveRawTx, ntfVars, Types
  <2>6. CASE MatchOutput
    <3>1. Tail(outs) \in Seq(Address \cup {NoAddr})
      BY <2>6, ElemsShrink DEF MatchOutput, Types, WatchTypes
    <3>2. RowsOf(Head(outs)) \in SUBSET Row
      BY DEF RowsOf, watched
    <3>3. matched' \in Seq(Row)
      BY <2>6, <3>2, AppendAllTypes DEF MatchOutput, Types, WatchTypes
    <3>4. WatchTypes'
      BY <2>6, <3>1, <3>3 DEF MatchOutput, Types, WatchTypes
    <3> QED BY <2>0, <2>6, <3>4 DEF MatchOutput, envVars, scanVars, ntfVars, Types
  <2>7. CASE MatchInput
    <3>0. ins \in Seq([tx : Tx, addr : Address]) /\ ins # <<>>
      BY <2>7 DEF MatchInput, Types, WatchTypes
    <3>1. Tail(ins) \in Seq([tx : Tx, addr : Address])
      BY <3>0, HeadTailProperties
    <3>2. {r \in RowsOf(Head(ins).addr) : Head(ins).tx \in utxos[r]} \in SUBSET Row
      BY DEF RowsOf, watched
    <3>3. matched' \in Seq(Row)
      BY <2>7, <3>2, AppendAllTypes DEF MatchInput, Types, WatchTypes
    <3>4. WatchTypes'
      BY <2>7, <3>1, <3>3 DEF MatchInput, Types, WatchTypes
    <3> QED BY <2>0, <2>7, <3>4 DEF MatchInput, envVars, scanVars, ntfVars, Types
  <2>8. CASE NoMatch \/ IsConfirmedFails
    <3>1. NextTx /\ UNCHANGED fanVars /\ UNCHANGED ntfVars
      BY <2>8 DEF NoMatch, IsConfirmedFails
    <3>2. WatchTypes' /\ EnvTypes'
      BY <3>1, EmptySeq DEF NextTx, Types, WatchTypes, EnvTypes, watched
    <3> QED BY <2>0, <3>1, <3>2 DEF NextTx, ntfVars, Types
  <2>9. CASE IsConfirmed
    <3>1. WatchTypes'
      BY <2>9 DEF IsConfirmed, Types, WatchTypes
    <3> QED BY <2>0, <2>9, <3>1 DEF IsConfirmed, envVars, scanVars, ntfVars, Types
  <2>10. CASE FanOutLock
    <3>1. Elems(matched) \subseteq Row
      BY LenProperties DEF Elems, Types, WatchTypes
    <3>2. told' \in [Tx -> SUBSET Row]
      BY <2>10, <3>1 DEF FanOutLock, Types, WatchTypes, FanTypes
    <3>3. FanTypes'
      BY <2>10, <3>2, LenProperties DEF FanOutLock, Types, FanTypes
    <3> QED BY <2>0, <2>10, <3>3 DEF FanOutLock, envVars, scanVars, ntfVars, Types
  <2>11. CASE FanOutSend
    <3>1. txStreams[next] \in Notifier /\ Len(txStreams) \in Nat
      BY <2>11, ElementOfSeq, LenProperties DEF FanOutSend, Types, FanTypes
    <3>2. Append(got[txStreams[next]], fanned) \in Seq(Nat)
      BY <3>1, AppendProperties DEF Types, FanTypes
    <3>3. FanTypes'
      BY <2>11, <3>1, <3>2 DEF FanOutSend, Send, Receive, Types, FanTypes
    <3>4. NtfTypes'
      BY <2>11, <3>1 DEF FanOutSend, Send, Receive, Types, WatchTypes, NtfTypes
    <3> QED BY <2>0, <2>11, <3>3, <3>4 DEF FanOutSend, envVars, scanVars, Types
  <2>12. CASE FanOutUnlock
    <3>1. FanTypes'
      BY <2>12 DEF FanOutUnlock, Unlock, Types, FanTypes
    <3>2. WatchTypes' /\ EnvTypes'
      BY <2>12, EmptySeq DEF FanOutUnlock, NextTx, Types, WatchTypes, EnvTypes, watched
    <3> QED BY <2>0, <2>12, <3>1, <3>2 DEF FanOutUnlock, NextTx, ntfVars, Types
  <2>13. ASSUME NEW n \in Notifier, Subscribe(n) PROVE Types'
    <3>1. /\ Append(txStreams, n) \in Seq(Notifier)
          /\ Len(Append(txStreams, n)) = Len(txStreams) + 1 /\ Len(txStreams) \in Nat
      BY AppendProperties, LenProperties DEF Types, FanTypes
    <3>2. FanTypes'
      BY <2>13, <3>1 DEF Subscribe, Types, FanTypes
    <3>3. NtfTypes'
      BY <2>13 DEF Subscribe, Types, FanTypes, NtfTypes
    <3> QED BY <2>0, <2>13, <3>2, <3>3 DEF Subscribe, envVars, scanVars, Types
  <2>14. ASSUME NEW n \in Notifier, Notify(n) \/ CallHangs(n) PROVE Types'
    <3>1. UNCHANGED <<envVars, watchVars, fanVars>>
      BY <2>14 DEF Notify, NextAddress, Call, Notified, CallHangs
    <3>2. NtfTypes'
      <4>1. CASE NextAddress(n)
        <5>1. Tail(job[n]) \in Seq(Row)
          BY <4>1, ElemsShrink DEF NextAddress, Types, NtfTypes
        <5> QED BY <4>1, <5>1 DEF NextAddress, Types, NtfTypes
      <4>2. CASE Call(n)
        BY <2>0, <4>2 DEF Call
      <4>3. CASE Notified(n)
        BY <4>3 DEF Notified, Loop, Types, NtfTypes
      <4>4. CASE CallHangs(n)
        BY <4>4 DEF CallHangs, Types, NtfTypes
      <4> QED BY <2>14, <4>1, <4>2, <4>3, <4>4 DEF Notify
    <3> QED BY <2>0, <3>1, <3>2 DEF envVars, scanVars, Types
  <2>15. CASE UNCHANGED vars
    BY <2>0, <2>15 DEF vars, scanVars, watchVars, fanVars, Types
  <2> QED
    BY <2>1, <2>2, <2>3, <2>4, <2>5, <2>6, <2>7, <2>8, <2>9, <2>10, <2>11, <2>12, <2>13,
       <2>14, <2>15 DEF Next, Environment, Watcher
<1> QED BY <1>1, <1>2, PTL DEF Spec

(* The steps that concern the subscribers.                                   *)
LEMMA SubscriberChanges ==
    ASSUME [Next]_vars
    PROVE  \/ UNCHANGED <<txStreams, nPc>> \/ FanOutSend
           \/ \E n \in Notifier : Notified(n) \/ Subscribe(n) \/ CallHangs(n)
<1> USE DEF fanVars, ntfVars, vars
<1>1. CASE Environment
  BY <1>1 DEF Environment, Accept, Mine, Watch, Unwatch, ListUnspent, ScanDelivered
<1>2. CASE Watcher
  BY <1>2 DEF Watcher, ReceiveRawTx, MatchOutput, MatchInput, NoMatch, IsConfirmed,
     IsConfirmedFails, FanOutLock, FanOutUnlock
<1>3. ASSUME NEW n \in Notifier, NextAddress(n) \/ Call(n) PROVE UNCHANGED <<txStreams, nPc>>
  BY <1>3 DEF NextAddress, Call
<1> QED BY <1>1, <1>2, <1>3 DEF Next, Notify

\* The steps that change what the fan-out invariant speaks of.
LEMMA FanOutChanges ==
    ASSUME FanOutProgress, [Next]_vars
    PROVE  \/ UNCHANGED <<pc, fanVars, nPc, since>>
           \/ ~mu /\ UNCHANGED <<fanVars, nPc, since>>
           \/ FanOutLock \/ FanOutSend \/ FanOutUnlock
           \/ \E n \in Notifier : Notified(n) \/ Subscribe(n) \/ CallHangs(n)
<1> USE DEF ntfVars
<1>1. CASE Environment
  BY <1>1 DEF Environment, Accept, Mine, Watch, Unwatch, ListUnspent, ScanDelivered, watchVars
<1>2. CASE ReceiveRawTx \/ MatchOutput \/ MatchInput \/ NoMatch \/ IsConfirmed \/ IsConfirmedFails
  BY <1>2 DEF FanOutProgress, ReceiveRawTx, MatchOutput, MatchInput, NoMatch, IsConfirmed,
     IsConfirmedFails, Matched
<1>3. ASSUME NEW n \in Notifier, NextAddress(n) \/ Call(n)
      PROVE  UNCHANGED <<pc, fanVars, nPc, since>>
  BY <1>3 DEF NextAddress, Call, watchVars
<1>4. CASE UNCHANGED vars
  BY <1>4 DEF vars, fanVars
<1> QED BY <1>1, <1>2, <1>3, <1>4 DEF Next, Watcher, Notify

\* Nobody subscribes twice.
LEMMA SubscribersStayDistinct == Spec => []SubscribersDistinct
<1>1. Init => SubscribersDistinct
  BY EmptySeq DEF Init, SubscribersDistinct
<1>2. Types /\ SubscribersDistinct /\ [Next]_vars => SubscribersDistinct'
  <2> SUFFICES ASSUME Types, SubscribersDistinct, [Next]_vars PROVE SubscribersDistinct'
    OBVIOUS
  <2> USE DEF SubscribersDistinct
  <2>0. /\ txStreams \in Seq(Notifier) /\ Len(txStreams) \in Nat
        /\ \A i \in 1..Len(txStreams) : txStreams[i] \in Notifier
        /\ nPc \in [Notifier -> {"start", "receive", "notify", "stopped", "hung"}]
    BY LenProperties, ElementOfSeq DEF Types, FanTypes, NtfTypes
  <2>1. CASE UNCHANGED <<txStreams, nPc>>
    BY <2>1
  <2>2. CASE FanOutSend
    BY <2>0, <2>2 DEF FanOutSend, Send, Receive
  <2>3. ASSUME NEW n \in Notifier, Notified(n) \/ CallHangs(n) PROVE SubscribersDistinct'
    BY <2>0, <2>3 DEF Notified, CallHangs, Loop, fanVars
  <2>4. ASSUME NEW n \in Notifier, Subscribe(n) PROVE SubscribersDistinct'
    <3>1. /\ Len(txStreams') = Len(txStreams) + 1
          /\ \A i \in 1..Len(txStreams) : txStreams'[i] = txStreams[i]
          /\ txStreams'[Len(txStreams) + 1] = n
      BY <2>0, <2>4, AppendProperties DEF Subscribe
    <3> QED BY <2>0, <2>4, <3>1 DEF Subscribe
  <2> QED
    BY <2>1, <2>2, <2>3, <2>4, SubscriberChanges
<1> QED BY <1>1, <1>2, TypesHold, PTL DEF Spec

(* Every variable has its type, and there are no more subscribers than       *)
(* notifiers, however often fan-outs and restarts of a loop interleave.      *)
THEOREM TypeCorrect == Spec => []TypeOK
<1>1. Types /\ SubscribersDistinct => TypeOK
  <2> SUFFICES ASSUME Types, SubscribersDistinct PROVE TypeOK
    OBVIOUS
  <2>1. txStreams \in [1..Len(txStreams) -> Notifier] /\ Len(txStreams) \in Nat
    BY LenProperties DEF Types, FanTypes
  <2>2. txStreams \in Injection(1..Len(txStreams), Notifier)
    BY <2>1 DEF Injection, IsInjective, SubscribersDistinct
  <2>3. Cardinality(1..Len(txStreams)) <= Cardinality(Notifier)
    BY <2>2, NotifierAssumption, FS_Injection
  <2>4. Cardinality(1..Len(txStreams)) = Len(txStreams)
    <3>1. 1 \in Int /\ Len(txStreams) \in Int
      BY <2>1
    <3>2. Cardinality(1..Len(txStreams)) = IF 1 > Len(txStreams) THEN 0 ELSE Len(txStreams) - 1 + 1
      BY <3>1, FS_Interval
    <3> QED BY <2>1, <3>2
  <2> QED BY <2>3, <2>4 DEF TypeOK, Types, EnvTypes, ScanTypes, WatchTypes, FanTypes, NtfTypes
<1> QED BY <1>1, TypesHold, SubscribersStayDistinct, PTL

-----------------------------------------------------------------------------
(* The fan-out.                                                              *)

\* Every step of the fan-out and of the subscribers keeps its account.
LEMMA FanOutProgresses == Spec => []FanOutProgress
<1>1. Init => FanOutProgress
  BY EmptySeq DEF Init, FanOutProgress
<1>2. Types /\ SubscribersDistinct /\ FanOutProgress /\ [Next]_vars => FanOutProgress'
  <2> SUFFICES ASSUME Types, SubscribersDistinct, FanOutProgress, [Next]_vars
               PROVE  FanOutProgress'
    OBVIOUS
  <2>0. /\ txStreams \in Seq(Notifier) /\ Len(txStreams) \in Nat
        /\ \A i \in 1..Len(txStreams) : txStreams[i] \in Notifier
        /\ nPc \in [Notifier -> {"start", "receive", "notify", "stopped", "hung"}]
        /\ fanned \in Nat /\ got \in [Notifier -> Seq(Nat)] /\ since \in [Notifier -> Nat]
        /\ next \in 1..Len(txStreams) + 1 /\ mu \in BOOLEAN
    BY LenProperties, ElementOfSeq DEF Types, FanTypes, NtfTypes
  <2>1. CASE UNCHANGED <<pc, fanVars, nPc, since>>
    BY <2>1 DEF FanOutProgress, fanVars
  <2>2. CASE ~mu /\ UNCHANGED <<fanVars, nPc, since>>
    BY <2>2 DEF FanOutProgress, fanVars
  <2>3. CASE FanOutLock
    <3>1. /\ mu' /\ ~mu /\ pc' = "fanout" /\ next' = 1 /\ fanned' = fanned + 1
          /\ UNCHANGED <<txStreams, got, nPc, since>>
      BY <2>3 DEF FanOutLock, watchVars, ntfVars
    <3>2. \A i \in 1..Len(txStreams) :
             /\ got[txStreams[i]] = Had(since[txStreams[i]], fanned)
             /\ since[txStreams[i]] <= fanned
      BY <2>0, <3>1 DEF FanOutProgress
    <3>3. fanned' - 1 = fanned
      BY <2>0, <3>1
    <3>4. \A i \in 1..Len(txStreams) :
             /\ since[txStreams[i]] < fanned'
             /\ got[txStreams[i]] = Had(since[txStreams[i]], fanned' - 1)
      BY <2>0, <3>1, <3>2, <3>3
    <3>5. \A n \in Notifier : since[n] <= fanned' /\ (nPc[n] = "start" => got[n] = <<>>)
      BY <2>0, <3>1 DEF FanOutProgress
    <3>6. \A i \in 1..Len(txStreams) : i >= 1
      BY <2>0
    <3> QED BY <3>1, <3>4, <3>5, <3>6 DEF FanOutProgress
  <2>4. CASE FanOutSend
    <3> DEFINE m == txStreams[next]
    <3>1. /\ mu /\ next \in 1..Len(txStreams) /\ m \in Notifier /\ nPc[m] = "receive"
          /\ got' = [got EXCEPT ![m] = Append(got[m], fanned)]
          /\ nPc' = [nPc EXCEPT ![m] = "notify"] /\ next' = next + 1
          /\ UNCHANGED <<pc, mu, txStreams, fanned, since>>
      BY <2>0, <2>4 DEF FanOutSend, Send, Receive, watchVars
    <3>2. got'[m] = Had(since[m], fanned)
      <4>1. since[m] < fanned /\ got[m] = Had(since[m], fanned - 1)
        BY <2>0, <3>1 DEF FanOutProgress
      <4>2. since[m] \in Nat
        BY <2>0, <3>1
      <4>3. Append(Had(since[m], fanned - 1), fanned) = Had(since[m], fanned)
        BY <2>0, <4>1, <4>2, HadGrows
      <4> QED BY <2>0, <3>1, <4>1, <4>3
    <3>3. \A i \in 1..Len(txStreams) : i # next => txStreams[i] # m
                                             /\ got'[txStreams[i]] = got[txStreams[i]]
      BY <2>0, <3>1 DEF SubscribersDistinct
    <3>4. ASSUME NEW i \in 1..Len(txStreams)
          PROVE  LET n == txStreams[i] IN
                 IF i >= next'
                 THEN since[n] < fanned /\ got'[n] = Had(since[n], fanned - 1)
                 ELSE got'[n] = Had(since[n], fanned)
      <4>1. CASE i = next
        <5>1. ~(i >= next') /\ txStreams[i] = m
          BY <2>0, <3>1, <4>1
        <5> HIDE DEF m
        <5> QED BY <3>2, <5>1
      <4>2. CASE i # next
        <5>1. i >= next' <=> i >= next
          BY <2>0, <3>1, <4>2
        <5>2. got'[txStreams[i]] = got[txStreams[i]]
          BY <3>3, <4>2
        <5> QED BY <3>1, <5>1, <5>2 DEF FanOutProgress
      <4> QED BY <4>1, <4>2
    <3>5. \A n \in Notifier : since[n] <= fanned /\ (nPc'[n] = "start" => got'[n] = <<>>)
      BY <2>0, <3>1 DEF FanOutProgress
    <3>6. pc' = "fanout"
      BY <3>1 DEF FanOutProgress
    <3> HIDE DEF m
    <3> QED BY <3>1, <3>4, <3>5, <3>6 DEF FanOutProgress
  <2>5. CASE FanOutUnlock
    <3>1. mu /\ ~mu' /\ next > Len(txStreams) /\ UNCHANGED <<txStreams, fanned, got, nPc, since>>
      BY <2>5 DEF FanOutUnlock, Unlock, ntfVars
    <3>2. \A i \in 1..Len(txStreams) : ~(i >= next)
      BY <2>0, <3>1
    <3> QED BY <3>1, <3>2 DEF FanOutProgress
  <2>6. ASSUME NEW n \in Notifier, Subscribe(n) PROVE FanOutProgress'
    <3>1. /\ ~mu /\ ~mu' /\ nPc[n] = "start" /\ nPc' = [nPc EXCEPT ![n] = "receive"]
          /\ since' = [since EXCEPT ![n] = fanned] /\ UNCHANGED <<fanned, got>>
      BY <2>6 DEF Subscribe
    <3>2. /\ Len(txStreams') = Len(txStreams) + 1
          /\ \A i \in 1..Len(txStreams) : txStreams'[i] = txStreams[i]
          /\ txStreams'[Len(txStreams) + 1] = n
      BY <2>0, <2>6, AppendProperties DEF Subscribe
    <3>3. got[n] = Had(fanned, fanned)
      BY <2>0, <3>1, HadNone DEF FanOutProgress
    <3>4. \A i \in 1..Len(txStreams) : txStreams[i] # n
      BY <3>1 DEF SubscribersDistinct
    <3>5. \A i \in 1..Len(txStreams) : got[txStreams[i]] = Had(since[txStreams[i]], fanned)
      BY <3>1 DEF FanOutProgress
    <3>6. ASSUME NEW i \in 1..Len(txStreams')
          PROVE  got'[txStreams'[i]] = Had(since'[txStreams'[i]], fanned')
      <4>1. CASE i = Len(txStreams) + 1
        BY <2>0, <3>1, <3>2, <3>3, <4>1
      <4>2. CASE i \in 1..Len(txStreams)
        BY <2>0, <3>1, <3>2, <3>4, <3>5, <4>2
      <4> QED BY <2>0, <3>2, <4>1, <4>2
    <3>7. \A k \in Notifier : since'[k] <= fanned' /\ (nPc'[k] = "start" => got'[k] = <<>>)
      BY <2>0, <3>1 DEF FanOutProgress
    <3> QED BY <3>1, <3>6, <3>7 DEF FanOutProgress
  <2>7. ASSUME NEW n \in Notifier, Notified(n) \/ CallHangs(n) PROVE FanOutProgress'
    <3>1. /\ UNCHANGED <<pc, mu, txStreams, next, fanned, got, since>>
          /\ \/ nPc' = [nPc EXCEPT ![n] = "receive"]
             \/ nPc' = [nPc EXCEPT ![n] = "hung"]
      BY <2>7 DEF Notified, CallHangs, Loop, watchVars, fanVars
    <3>2. \A k \in Notifier : nPc'[k] = "start" => nPc[k] = "start"
      BY <2>0, <3>1
    <3> QED BY <3>1, <3>2 DEF FanOutProgress
  <2> QED
    BY <2>1, <2>2, <2>3, <2>4, <2>5, <2>6, <2>7, FanOutChanges
<1> QED BY <1>1, <1>2, TypesHold, SubscribersStayDistinct, PTL DEF Spec

(* Whoever subscribes and whenever: with the mutex free every subscriber has *)
(* had every notification since it subscribed, in order and once.            *)
THEOREM EverySubscriberGetsAll == Spec => []FanOutComplete
<1>1. Types /\ FanOutProgress => FanOutComplete
  <2> SUFFICES ASSUME Types, FanOutProgress, ~mu, NEW n \in Notifier, Subscribed(n)
               PROVE  got[n] = [i \in 1..fanned - since[n] |-> since[n] + i]
    BY DEF FanOutComplete
  <2>1. PICK i \in 1..Len(txStreams) : txStreams[i] = n
    BY LenProperties DEF Subscribed, Elems, Types, FanTypes
  <2>2. got[n] = Had(since[n], fanned)
    BY <2>1 DEF FanOutProgress
  <2> QED BY <2>2 DEF Had
<1> QED BY <1>1, TypesHold, FanOutProgresses, PTL

-----------------------------------------------------------------------------
(* The matching of outputs.                                                  *)

\* The steps that change what the matching invariant speaks of.
LEMMA MatchingChanges ==
    ASSUME [Next]_vars
    PROVE  \/ UNCHANGED <<pc, tx, outs, matched>> /\ steady' \subseteq steady
           \/ pc' = "receive" \/ ReceiveRawTx \/ MatchOutput \/ MatchInput \/ IsConfirmed
<1> USE DEF envVars, watchVars
<1>1. CASE Environment
  BY <1>1 DEF Environment, Accept, Mine, Watch, Unwatch, ListUnspent, ScanDelivered
<1>2. CASE NoMatch \/ IsConfirmedFails \/ FanOutLock \/ FanOutSend \/ FanOutUnlock
  BY <1>2 DEF NoMatch, IsConfirmedFails, FanOutLock, FanOutSend, FanOutUnlock, NextTx
<1>3. ASSUME NEW n \in Notifier, Subscribe(n) \/ Notify(n) \/ CallHangs(n)
      PROVE  UNCHANGED <<pc, tx, outs, matched>> /\ steady' \subseteq steady
  BY <1>3 DEF Subscribe, Notify, NextAddress, Call, Notified, CallHangs
<1>4. CASE UNCHANGED vars
  BY <1>4 DEF vars
<1> QED BY <1>1, <1>2, <1>3, <1>4 DEF Next, Watcher

\* No step of the loop passes over a steady row.
LEMMA MatchingCoversAlways == Spec => []MatchingCovers
<1>1. Init => MatchingCovers
  BY DEF Init, MatchingCovers
<1>2. Types /\ MatchingCovers /\ [Next]_vars => MatchingCovers'
  <2> SUFFICES ASSUME Types, MatchingCovers, [Next]_vars PROVE MatchingCovers'
    OBVIOUS
  <2>0. /\ outs \in Seq(Address \cup {NoAddr}) /\ matched \in Seq(Row) /\ steady \subseteq watched
    BY DEF Types, EnvTypes, WatchTypes
  <2>1. CASE UNCHANGED <<pc, tx, outs, matched>> /\ steady' \subseteq steady
    BY <2>1 DEF MatchingCovers
  <2>2. CASE pc' = "receive"
    BY <2>2 DEF MatchingCovers
  <2>3. CASE ReceiveRawTx
    BY <2>3 DEF ReceiveRawTx, MatchingCovers
  <2>4. CASE MatchOutput
    <3>1. Elems(outs) \subseteq {Head(outs)} \cup Elems(Tail(outs))
      BY <2>0, <2>4, ElemsShrink DEF MatchOutput
    <3>2. RowsOf(Head(outs)) \in SUBSET Row
      BY DEF RowsOf, watched
    <3>3. /\ outs' = Tail(outs) /\ UNCHANGED <<pc, tx, steady>> /\ pc = "outputs"
          /\ AppendAll(RowsOf(Head(outs)))
      BY <2>4 DEF MatchOutput, envVars
    <3>4. Elems(matched') = Elems(matched) \cup RowsOf(Head(outs))
      BY <2>0, <3>2, <3>3, AppendAllTypes
    <3>5. ASSUME NEW r \in steady, AddressOf[r] \in Elems(Outs[tx])
          PROVE  r \in Elems(matched') \/ AddressOf[r] \in Elems(outs')
      <4>1. r \in Elems(matched) \/ AddressOf[r] \in Elems(outs)
        BY <3>3, <3>5 DEF MatchingCovers
      <4>2. CASE AddressOf[r] = Head(outs)
        <5>1. r \in RowsOf(Head(outs))
          BY <2>0, <4>2 DEF RowsOf
        <5> QED BY <3>4, <5>1
      <4>3. CASE AddressOf[r] # Head(outs)
        BY <3>1, <3>3, <3>4, <4>1, <4>3
      <4> QED BY <4>2, <4>3
    <3> QED BY <3>3, <3>5 DEF MatchingCovers
  <2>5. CASE MatchInput
    <3> DEFINE rows == {r \in RowsOf(Head(ins).addr) : Head(ins).tx \in utxos[r]}
    <3>1. rows \in SUBSET Row
      BY DEF RowsOf, watched
    <3>2. UNCHANGED <<pc, tx, outs, steady>> /\ AppendAll(rows)
      BY <2>5 DEF MatchInput, envVars
    <3> HIDE DEF rows
    <3>3. Elems(matched') = Elems(matched) \cup rows
      BY <2>0, <3>1, <3>2, AppendAllTypes
    <3> QED BY <3>2, <3>3 DEF MatchingCovers
  <2>6. CASE IsConfirmed
    BY <2>6 DEF IsConfirmed, Matched, envVars, MatchingCovers
  <2> QED
    BY <2>1, <2>2, <2>3, <2>4, <2>5, <2>6, MatchingChanges
<1> QED BY <1>1, <1>2, TypesHold, PTL DEF Spec

(* A row that stays watched while the outputs of a transaction are matched   *)
(* is found by them, whatever other rows come and go, whoever else watches   *)
(* the address and whichever outputs have none.                              *)
THEOREM SteadyAddressesMatched == Spec => []SteadyMatched
<1>1. MatchingCovers => SteadyMatched
  BY DEF MatchingCovers, SteadyMatched, Elems
<1> QED BY <1>1, MatchingCoversAlways, PTL
=============================================================================
