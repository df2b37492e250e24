------------------------- MODULE UtxoPipelineProofs -------------------------
(***************************************************************************)
(* Theorems about UtxoPipeline for every set of addresses, hashes and      *)
(* handlers and every capacity of the channel.                             *)
(***************************************************************************)
EXTENDS UtxoPipeline, FiniteSetTheorems, SequenceTheorems, TLAPS

(* A row order of a set of ids is a sequence of ids.                         *)
LEMMA OrderingsAreLists ==
    ASSUME NEW S \in SUBSET Addr, NEW ids \in Orderings(S)
    PROVE  ids \in Seq(Addr) /\ Elems(ids) \subseteq S
<1>1. IsFiniteSet(S)
  BY AddrAssumption, FS_Subset
<1>2. Cardinality(S) \in Nat
  BY <1>1, FS_CardinalityType
<1>3. ids \in [1..Cardinality(S) -> S]
  BY DEF Orderings
<1> QED
  BY <1>2, <1>3 DEF Elems

(* So is a batch of them.                                                    *)
LEMMA BatchesAreLists ==
    ASSUME NEW S \in SUBSET Addr, NEW ids \in BatchesOf(S)
    PROVE  ids \in Seq(Addr) /\ Elems(ids) \subseteq S
<1>1. PICK T \in SUBSET S : ids \in Orderings(T)
  BY DEF BatchesOf
<1> QED BY <1>1, OrderingsAreLists

(* What the head and the tail of a list of ids hold.                         *)
LEMMA ElemsHeadTail ==
    ASSUME NEW T, NEW s \in Seq(T), s # <<>>
    PROVE  /\ Head(s) \in T /\ Tail(s) \in Seq(T)
           /\ Elems(s) = {Head(s)} \cup Elems(Tail(s))
<1>1. Len(s) \in Nat /\ Len(s) # 0 /\ s \in [1..Len(s) -> T]
  BY EmptySeq, LenProperties
<1>2. Head(s) = s[1] /\ Head(s) \in T
  BY <1>1
<1>3. Tail(s) \in Seq(T) /\ Len(Tail(s)) = Len(s) - 1
  BY HeadTailProperties
<1>4. \A i \in 1..Len(Tail(s)) : Tail(s)[i] = s[i + 1]
  BY HeadTailProperties
<1>5. Elems(s) = {s[i] : i \in 1..Len(s)} /\ Elems(Tail(s)) = {Tail(s)[i] : i \in 1..Len(Tail(s))}
  BY <1>1, <1>3, LenProperties DEF Elems
<1>6. ASSUME NEW x \in Elems(s) PROVE x \in {Head(s)} \cup Elems(Tail(s))
  <2>1. PICK i \in 1..Len(s) : x = s[i]
    BY <1>5
  <2>2. CASE i = 1
    BY <2>1, <2>2, <1>2
  <2>3. CASE i # 1
    <3>1. i - 1 \in 1..Len(Tail(s)) /\ Tail(s)[i - 1] = s[i]
      BY <2>1, <2>3, <1>1, <1>3, <1>4
    <3> QED BY <3>1, <2>1, <1>5
  <2> QED BY <2>2, <2>3
<1>7. ASSUME NEW x \in {Head(s)} \cup Elems(Tail(s)) PROVE x \in Elems(s)
  <2>1. CASE x = Head(s)
    BY <2>1, <1>1, <1>2, <1>5
  <2>2. CASE x \in Elems(Tail(s))
    <3>1. PICK i \in 1..Len(Tail(s)) : x = Tail(s)[i]
      BY <2>2, <1>5
    <3>2. i + 1 \in 1..Len(s) /\ x = s[i + 1]
      BY <3>1, <1>1, <1>3, <1>4
    <3> QED BY <3>2, <1>5
  <2> QED BY <2>1, <2>2
<1> QED BY <1>2, <1>3, <1>6, <1>7

(* Appending adds one element.                                               *)
LEMMA ElemsAppend ==
    ASSUME NEW T, NEW s \in Seq(T), NEW x \in T
    PROVE  Append(s, x) \in Seq(T) /\ Elems(Append(s, x)) = Elems(s) \cup {x}
<1>1. /\ Append(s, x) \in Seq(T) /\ Len(Append(s, x)) = Len(s) + 1
      /\ \A i \in 1..Len(s) : Append(s, x)[i] = s[i]
      /\ Append(s, x)[Len(s) + 1] = x
      /\ Len(s) \in Nat
  BY AppendProperties, LenProperties
<1>2. DOMAIN s = 1..Len(s) /\ DOMAIN Append(s, x) = 1..(Len(s) + 1)
  BY <1>1, LenProperties
<1> QED BY <1>1, <1>2 DEF Elems

-----------------------------------------------------------------------------
(* The type invariant.                                                       *)
THEOREM TypeCorrect == Spec => []TypeOK
<1>1. Init => TypeOK
  <2> SUFFICES ASSUME Init PROVE TypeOK
    OBVIOUS
  <2> USE DEF Init, TypeOK, Version, NoUtxos, NoHash, Free
  <2>1. rows \in [Addr -> {"none", "live", "deleted"}] /\ chain \in [ScriptHash -> Nat]
    OBVIOUS
  <2>2. addressStream \in Seq(ScriptHash) /\ Len(addressStream) <= BufCap
    BY BufCapAssumption
  <2>3. crashes \in 0..MaxCrashes
    BY BoundAssumption
  <2> QED BY <2>1, <2>2, <2>3
<1>2. TypeOK /\ [Next]_vars => TypeOK'
  <2> SUFFICES ASSUME TypeOK, [Next]_vars PROVE TypeOK'
    OBVIOUS
  <2> USE DEF TypeOK, dbVars, memVars, scanVars, updVars, mainVars, reqVars
  <2>1. CASE SelectAddresses
    BY <2>1, OrderingsAreLists DEF SelectAddresses, Live
  <2>2. CASE InitEnqueue
    <3>1. Hash[Head(mainTodo)] \in ScriptHash /\ Tail(mainTodo) \in Seq(Addr)
      BY <2>2, ElemsHeadTail, HashAssumption DEF InitEnqueue
    <3>2. addressStream' \in Seq(ScriptHash) /\ Len(addressStream') <= BufCap
      BY <2>2, <3>1, BufCapAssumption DEF InitEnqueue, EnqueueScan
    <3> QED BY <2>2, <3>1, <3>2 DEF InitEnqueue
  <2>3. CASE StartUpdater
    BY <2>3 DEF StartUpdater
  <2>4. CASE PublishAddresses
    <3>1. Elems(loaded) \subseteq Addr
      BY DEF Elems
    <3> QED BY <2>4, <3>1 DEF PublishAddresses
  <2>5. CASE ScanTake
    <3>1. Head(addressStream) \in ScriptHash /\ Tail(addressStream) \in Seq(ScriptHash)
      BY <2>5, ElemsHeadTail DEF ScanTake
    <3>2. Len(Tail(addressStream)) <= BufCap
      BY <2>5, BufCapAssumption DEF ScanTake
    <3> QED BY <2>5, <3>1, <3>2 DEF ScanTake
  <2>6. CASE ListUnspent
    BY <2>6 DEF ListUnspent, Answers, Version
  <2>7. CASE HandOver
    BY <2>7 DEF HandOver, NextJob, Version
  <2>8. CASE UpdateAddressUTXOs
    BY <2>8 DEF UpdateAddressUTXOs, Matches, NextResult, Version
  <2>9. ASSUME NEW h \in Handler, CreateInsert(h) PROVE TypeOK'
    <3>1. PICK batch \in BatchesOf(Fresh) :
             /\ rows' = [a \in Addr |-> IF a \in Elems(batch) THEN "live" ELSE rows[a]]
             /\ reqBatch' = [reqBatch EXCEPT ![h] = batch]
      BY <2>9 DEF CreateInsert
    <3>2. batch \in Seq(Addr)
      BY BatchesAreLists DEF Fresh
    <3>3. rows' \in [Addr -> {"none", "live", "deleted"}]
      BY <3>1
    <3> QED BY <2>9, <3>1, <3>2, <3>3 DEF CreateInsert
  <2>10. ASSUME NEW h \in Handler, CreateAppend(h) PROVE TypeOK'
    <3>1. Elems(reqBatch[h]) \subseteq Addr
      BY DEF Elems
    <3> QED BY <2>10, <3>1 DEF CreateAppend
  <2>11. ASSUME NEW h \in Handler, CreateEnqueue(h) PROVE TypeOK'
    <3>1. Hash[Head(reqTodo[h])] \in ScriptHash /\ Tail(reqTodo[h]) \in Seq(Addr)
      BY <2>11, ElemsHeadTail, HashAssumption DEF CreateEnqueue
    <3>2. addressStream' \in Seq(ScriptHash) /\ Len(addressStream') <= BufCap
      BY <2>11, <3>1, BufCapAssumption DEF CreateEnqueue, EnqueueScan
    <3> QED BY <2>11, <3>1, <3>2 DEF CreateEnqueue
  <2>12. ASSUME NEW h \in Handler, CreateReturn(h) PROVE TypeOK'
    BY <2>12 DEF CreateReturn, Unlock
  <2>13. ASSUME NEW h \in Handler, DeleteRow(h) PROVE TypeOK'
    BY <2>13 DEF DeleteRow
  <2>14. ASSUME NEW h \in Handler, DeleteRemove(h) PROVE TypeOK'
    BY <2>14 DEF DeleteRemove, Version
  <2>15. CASE UnspentChanges
    BY <2>15 DEF UnspentChanges
  <2>16. CASE CrashAndRestart
    <3>1. crashes' \in 0..MaxCrashes
      BY <2>16, BoundAssumption DEF CrashAndRestart
    <3>2. addressStream' \in Seq(ScriptHash) /\ Len(addressStream') <= BufCap
      BY <2>16, BufCapAssumption DEF CrashAndRestart, ProcessStart
    <3> QED BY <2>16, <3>1, <3>2 DEF CrashAndRestart, ProcessStart, Version, NoUtxos,
       NoHash, Free
  <2>17. CASE UNCHANGED vars
    BY <2>17 DEF vars
  <2> QED
    BY <2>1, <2>2, <2>3, <2>4, <2>5, <2>6, <2>7, <2>8, <2>9, <2>10, <2>11, <2>12,
       <2>13, <2>14, <2>15, <2>16, <2>17
       DEF Next, Main, Scanner, Updater, Request, Finish
<1> QED BY <1>1, <1>2, PTL DEF Spec
-----------------------------------------------------------------------------
(* The mutex and the states of the goroutines.                               *)
THEOREM LockDisciplineHolds == Spec => []LockDiscipline
<1>1. Init => LockDiscipline
  BY FreeAssumption DEF Init, LockDiscipline
<1>2. TypeOK /\ LockDiscipline /\ [Next]_vars => LockDiscipline'
  <2> SUFFICES ASSUME TypeOK, LockDiscipline, [Next]_vars PROVE LockDiscipline'
    OBVIOUS
  <2> USE DEF LockDiscipline, TypeOK, dbVars, memVars, scanVars, updVars, mainVars, reqVars
  <2>1. CASE SelectAddresses
    BY <2>1 DEF SelectAddresses
  <2>2. CASE InitEnqueue
    BY <2>2 DEF InitEnqueue
  <2>3. CASE StartUpdater
    BY <2>3 DEF StartUpdater
  <2>4. CASE PublishAddresses
    BY <2>4 DEF PublishAddresses
  <2>5. CASE ScanTake
    BY <2>5 DEF ScanTake
  <2>6. CASE ListUnspent
    BY <2>6 DEF ListUnspent
  <2>7. CASE HandOver
    BY <2>7 DEF HandOver
  <2>8. CASE UpdateAddressUTXOs
    BY <2>8 DEF UpdateAddressUTXOs
  <2>9. ASSUME NEW h \in Handler, CreateInsert(h) PROVE LockDiscipline'
    BY <2>9 DEF CreateInsert
  <2>10. ASSUME NEW h \in Handler, CreateAppend(h) PROVE LockDiscipline'
    BY <2>10, FreeAssumption DEF CreateAppend
  <2>11. ASSUME NEW h \in Handler, CreateEnqueue(h) PROVE LockDiscipline'
    BY <2>11 DEF CreateEnqueue
  <2>12. ASSUME NEW h \in Handler, CreateReturn(h) PROVE LockDiscipline'
    BY <2>12, FreeAssumption DEF CreateReturn, Unlock
  <2>13. ASSUME NEW h \in Handler, DeleteRow(h) PROVE LockDiscipline'
    BY <2>13 DEF DeleteRow
  <2>14. ASSUME NEW h \in Handler, DeleteRemove(h) PROVE LockDiscipline'
    BY <2>14 DEF DeleteRemove
  <2>15. CASE UnspentChanges
    BY <2>15 DEF UnspentChanges
  <2>16. CASE CrashAndRestart
    BY <2>16, FreeAssumption DEF CrashAndRestart, ProcessStart
  <2>17. CASE UNCHANGED vars
    BY <2>17 DEF vars
  <2> QED
    BY <2>1, <2>2, <2>3, <2>4, <2>5, <2>6, <2>7, <2>8, <2>9, <2>10, <2>11, <2>12,
       <2>13, <2>14, <2>15, <2>16, <2>17
       DEF Next, Main, Scanner, Updater, Request, Finish
<1> QED BY <1>1, <1>2, TypeCorrect, PTL DEF Spec

-----------------------------------------------------------------------------
(* No scan of a created address is lost.                                     *)
THEOREM CreatedScanNeverLost == Spec => []CreatedScanNotLost
<1>1. Init => CreatedScanNotLost
  BY DEF Init, CreatedScanNotLost
<1>2. TypeOK /\ LockDiscipline /\ CreatedScanNotLost /\ [Next]_vars => CreatedScanNotLost'
  <2> SUFFICES ASSUME TypeOK, LockDiscipline, CreatedScanNotLost, [Next]_vars
               PROVE  CreatedScanNotLost'
    OBVIOUS
  <2> SUFFICES ASSUME NEW a \in watched', a \notin Elems(loaded')
               PROVE  a \in settled' \/ OnItsWay(Hash[a])'
    BY DEF CreatedScanNotLost
  <2> USE DEF TypeOK, dbVars, memVars, scanVars, updVars, mainVars, reqVars, OnItsWay
  <2>0. a \in watched /\ a \notin Elems(loaded) => a \in settled \/ OnItsWay(Hash[a])
    BY DEF CreatedScanNotLost
  <2>1. CASE SelectAddresses
    BY <2>1 DEF SelectAddresses, LockDiscipline
  <2>2. CASE InitEnqueue
    BY <2>2 DEF InitEnqueue, LockDiscipline
  <2>3. CASE StartUpdater
    BY <2>3 DEF StartUpdater, LockDiscipline
  <2>4. CASE PublishAddresses
    BY <2>4 DEF PublishAddresses
  <2>5. CASE ScanTake
    <3>1. Elems(addressStream) = {Head(addressStream)} \cup Elems(Tail(addressStream))
      BY <2>5, ElemsHeadTail DEF ScanTake
    <3> QED BY <2>0, <2>5, <3>1 DEF ScanTake
  <2>6. CASE ListUnspent
    BY <2>0, <2>6 DEF ListUnspent
  <2>7. CASE HandOver
    BY <2>0, <2>7 DEF HandOver, NextJob
  <2>8. CASE UpdateAddressUTXOs
    BY <2>0, <2>8 DEF UpdateAddressUTXOs, Matches
  <2>9. ASSUME NEW h \in Handler, CreateInsert(h) PROVE a \in settled' \/ OnItsWay(Hash[a])'
    BY <2>0, <2>9 DEF CreateInsert
  <2>10. ASSUME NEW h \in Handler, CreateAppend(h) PROVE a \in settled' \/ OnItsWay(Hash[a])'
    <3>1. reqTodo' = [reqTodo EXCEPT ![h] = reqBatch[h]] /\ reqTodo[h] = <<>>
      BY <2>10, FreeAssumption DEF CreateAppend, LockDiscipline
    <3>2. CASE a \in Elems(reqBatch[h])
      BY <3>1, <3>2
    <3>3. CASE a \notin Elems(reqBatch[h])
      <4>1. a \in settled \/ OnItsWay(Hash[a])
        BY <2>0, <2>10, <3>3 DEF CreateAppend
      <4>2. \A g \in Handler : Elems(reqTodo[g]) \subseteq Elems(reqTodo'[g])
        BY <3>1 DEF Elems
      <4> QED BY <4>1, <4>2, <2>10 DEF CreateAppend
    <3> QED BY <3>2, <3>3
  <2>11. ASSUME NEW h \in Handler, CreateEnqueue(h) PROVE a \in settled' \/ OnItsWay(Hash[a])'
    <3>1. Elems(reqTodo[h]) = {Head(reqTodo[h])} \cup Elems(Tail(reqTodo[h]))
             /\ Head(reqTodo[h]) \in Addr
      BY <2>11, ElemsHeadTail DEF CreateEnqueue
    <3>2. Elems(addressStream') = Elems(addressStream) \cup {Hash[Head(reqTodo[h])]}
      <4>1. Hash[Head(reqTodo[h])] \in ScriptHash
        BY <3>1, HashAssumption
      <4>2. addressStream' = Append(addressStream, Hash[Head(reqTodo[h])])
        BY <2>11 DEF CreateEnqueue, EnqueueScan
      <4> QED BY <4>1, <4>2, ElemsAppend
    <3>3. \A g \in Handler : reqTodo'[g] = IF g = h THEN Tail(reqTodo[h]) ELSE reqTodo[g]
      BY <2>11 DEF CreateEnqueue
    <3> QED BY <2>0, <2>11, <3>1, <3>2, <3>3 DEF CreateEnqueue
  <2>12. ASSUME NEW h \in Handler, CreateReturn(h) PROVE a \in settled' \/ OnItsWay(Hash[a])'
    BY <2>0, <2>12 DEF CreateReturn
  <2>13. ASSUME NEW h \in Handler, DeleteRow(h) PROVE a \in settled' \/ OnItsWay(Hash[a])'
    BY <2>0, <2>13 DEF DeleteRow
  <2>14. ASSUME NEW h \in Handler, DeleteRemove(h) PROVE a \in settled' \/ OnItsWay(Hash[a])'
    BY <2>0, <2>14 DEF DeleteRemove
  <2>15. CASE UnspentChanges
    BY <2>0, <2>15 DEF UnspentChanges
  <2>16. CASE CrashAndRestart
    BY <2>16 DEF CrashAndRestart, ProcessStart
  <2>17. CASE UNCHANGED vars
    BY <2>0, <2>17 DEF vars
  <2> QED
    BY <2>1, <2>2, <2>3, <2>4, <2>5, <2>6, <2>7, <2>8, <2>9, <2>10, <2>11, <2>12,
       <2>13, <2>14, <2>15, <2>16, <2>17
       DEF Next, Main, Scanner, Updater, Request, Finish
<1> QED BY <1>1, <1>2, TypeCorrect, LockDisciplineHolds, PTL DEF Spec
-----------------------------------------------------------------------------
(* Results only get newer along the path of a script hash ...                *)
THEOREM ResultsStayInOrder == Spec => []ResultsInOrder
<1>1. Init => ResultsInOrder
  BY HashAssumption DEF Init, ResultsInOrder, NoUtxos
<1>2. TypeOK /\ LockDiscipline /\ ResultsInOrder /\ [Next]_vars => ResultsInOrder'
  <2> SUFFICES ASSUME TypeOK, LockDiscipline, ResultsInOrder, [Next]_vars
               PROVE  ResultsInOrder'
    OBVIOUS
  <2> USE HashAssumption
      DEF TypeOK, ResultsInOrder, NotOlder, dbVars, memVars, scanVars, updVars, mainVars, reqVars
  <2>1. CASE SelectAddresses
    BY <2>1 DEF SelectAddresses
  <2>2. CASE InitEnqueue
    BY <2>2 DEF InitEnqueue
  <2>3. CASE StartUpdater
    BY <2>3 DEF StartUpdater
  <2>4. CASE PublishAddresses
    BY <2>4 DEF PublishAddresses, LockDiscipline
  <2>5. CASE ScanTake
    BY <2>5 DEF ScanTake
  <2>6. CASE ListUnspent
    <3>1. scanResult' = NoUtxos \/ scanResult' = chain[scanHash]
      BY <2>6 DEF ListUnspent, Answers
    <3> QED BY <2>6, <3>1 DEF ListUnspent, Version, NoUtxos
  <2>7. CASE HandOver
    BY <2>7 DEF HandOver, NextJob
  <2>8. CASE UpdateAddressUTXOs
    BY <2>8 DEF UpdateAddressUTXOs, Matches, NextResult, Version, NoUtxos
  <2>9. ASSUME NEW h \in Handler, CreateInsert(h) PROVE ResultsInOrder'
    BY <2>9 DEF CreateInsert
  <2>10. ASSUME NEW h \in Handler, CreateAppend(h) PROVE ResultsInOrder'
    BY <2>10 DEF CreateAppend
  <2>11. ASSUME NEW h \in Handler, CreateEnqueue(h) PROVE ResultsInOrder'
    BY <2>11 DEF CreateEnqueue
  <2>12. ASSUME NEW h \in Handler, CreateReturn(h) PROVE ResultsInOrder'
    BY <2>12 DEF CreateReturn
  <2>13. ASSUME NEW h \in Handler, DeleteRow(h) PROVE ResultsInOrder'
    BY <2>13 DEF DeleteRow
  <2>14. ASSUME NEW h \in Handler, DeleteRemove(h) PROVE ResultsInOrder'
    BY <2>14 DEF DeleteRemove, Version, NoUtxos
  <2>15. CASE UnspentChanges
    <3>1. \A s \in ScriptHash : chain[s] \in Nat /\ chain'[s] \in Nat /\ chain[s] <= chain'[s]
      BY <2>15 DEF UnspentChanges
    <3>2. UNCHANGED <<watched, utxos, scanPc, scanHash, scanResult, updPc, updHash, updResult>>
      BY <2>15 DEF UnspentChanges
    <3>3. \A a \in Addr : utxos[a] <= chain'[Hash[a]]
      <4> TAKE a \in Addr
      <4>1. Hash[a] \in ScriptHash /\ utxos[a] \in Int /\ utxos[a] <= chain[Hash[a]]
        BY DEF Version, NoUtxos
      <4> QED BY <4>1, <3>1
    <3>4. scanPc = "send" => scanResult <= chain'[scanHash]
      BY <3>1 DEF Version, NoUtxos
    <3>5. updPc = "store" => updResult <= chain'[updHash]
      BY <3>1 DEF Version, NoUtxos
    <3> QED BY <3>2, <3>3, <3>4, <3>5
  <2>16. CASE CrashAndRestart
    BY <2>16 DEF CrashAndRestart, ProcessStart, NoUtxos
  <2>17. CASE UNCHANGED vars
    BY <2>17 DEF vars
  <2> QED
    BY <2>1, <2>2, <2>3, <2>4, <2>5, <2>6, <2>7, <2>8, <2>9, <2>10, <2>11, <2>12,
       <2>13, <2>14, <2>15, <2>16, <2>17
       DEF Next, Main, Scanner, Updater, Request, Finish
<1> QED BY <1>1, <1>2, TypeCorrect, LockDisciplineHolds, PTL DEF Spec

(* ... so a stored result is never replaced by an older one.                 *)
THEOREM UtxosNeverGetOlder == Spec => UtxosNeverOlder
<1> DEFINE Newer == \A a \in watched \cap watched' : utxos'[a] # NoUtxos => utxos'[a] >= utxos[a]
<1>1. TypeOK /\ TypeOK' /\ ResultsInOrder /\ [Next]_vars => [Newer]_vars
  <2> SUFFICES ASSUME TypeOK, TypeOK', ResultsInOrder, Next,
                      NEW a \in watched \cap watched', utxos'[a] # NoUtxos
               PROVE  utxos'[a] >= utxos[a]
    OBVIOUS
  <2>1. a \in Addr /\ utxos[a] \in Int
    BY DEF TypeOK, Version, NoUtxos
  <2>2. CASE UpdateAddressUTXOs
    <3>1. CASE a \in Matches
      BY <2>1, <2>2, <3>1 DEF UpdateAddressUTXOs, Matches, ResultsInOrder, NotOlder,
         TypeOK, Version, NoUtxos
    <3>2. CASE a \notin Matches
      BY <2>1, <2>2, <3>2 DEF UpdateAddressUTXOs
    <3> QED BY <3>1, <3>2
  <2>3. CASE CrashAndRestart
    BY <2>3 DEF CrashAndRestart, ProcessStart
  <2>4. ASSUME NEW h \in Handler, DeleteRemove(h) PROVE utxos'[a] >= utxos[a]
    BY <2>1, <2>4 DEF DeleteRemove
  <2>5. CASE UNCHANGED utxos
    BY <2>1, <2>5
  <2> QED
    BY <2>2, <2>3, <2>4, <2>5 DEF Next, Main, Scanner, Updater, Request, Finish,
       SelectAddresses, InitEnqueue, StartUpdater, PublishAddresses, ScanTake, ListUnspent,
       HandOver, CreateInsert, CreateAppend, CreateEnqueue, CreateReturn, DeleteRow,
       UnspentChanges, memVars
<1> QED BY <1>1, TypeCorrect, ResultsStayInOrder, PTL DEF Spec, UtxosNeverOlder

-----------------------------------------------------------------------------
(* Lists that are concatenated: how the pipeline moves on.                   *)

(* A list of one element.                                                    *)
LEMMA OneElement ==
    ASSUME NEW T, NEW x \in T
    PROVE  <<x>> \in Seq(T) /\ Len(<<x>>) = 1 /\ <<x>>[1] = x
OBVIOUS

(* A list is its head and its tail.                                          *)
LEMMA HeadAndTail ==
    ASSUME NEW T, NEW s \in Seq(T), s # <<>>
    PROVE  <<Head(s)>> \o Tail(s) = s
<1>1. /\ Head(s) \in T /\ Tail(s) \in Seq(T) /\ Len(Tail(s)) = Len(s) - 1
      /\ \A i \in 1..Len(Tail(s)) : Tail(s)[i] = s[i + 1]
  BY HeadTailProperties
<1>2. Len(s) \in Nat \ {0} /\ Head(s) = s[1]
  BY EmptySeq
<1>3. <<Head(s)>> \in Seq(T) /\ Len(<<Head(s)>>) = 1 /\ <<Head(s)>>[1] = s[1]
  BY <1>1, <1>2, OneElement
<1> DEFINE t == <<Head(s)>> \o Tail(s)
<1>4. /\ t \in Seq(T) /\ Len(t) = Len(s)
      /\ \A i \in 1..Len(s) : t[i] = IF i <= 1 THEN s[1] ELSE Tail(s)[i - 1]
  <2>1. /\ t \in Seq(T) /\ Len(t) = 1 + (Len(s) - 1)
        /\ \A i \in 1..(1 + (Len(s) - 1)) :
               t[i] = IF i <= 1 THEN <<Head(s)>>[i] ELSE Tail(s)[i - 1]
    BY <1>1, <1>3, ConcatProperties
  <2> HIDE DEF t
  <2> QED BY <2>1, <1>2, <1>3
<1> HIDE DEF t
<1>5. \A i \in 1..Len(s) : t[i] = s[i]
  <2> SUFFICES ASSUME NEW i \in 1..Len(s) PROVE t[i] = s[i]
    OBVIOUS
  <2>1. CASE i = 1
    BY <2>1, <1>4
  <2>2. CASE i # 1
    <3>1. i - 1 \in 1..Len(Tail(s)) /\ (i - 1) + 1 = i
      BY <2>2, <1>1, <1>2
    <3> QED BY <3>1, <2>2, <1>1, <1>4
  <2> QED BY <2>1, <2>2
<1>6. t = s
  BY <1>4, <1>5, SeqEqual
<1> QED BY <1>6 DEF t

(* A concatenation has the type of its parts.                                *)
LEMMA ConcatIn ==
    ASSUME NEW T, NEW s \in Seq(T), NEW t \in Seq(T)
    PROVE  s \o t \in Seq(T)
BY ConcatProperties

(* The oldest element is taken off a concatenation.                          *)
LEMMA TakeOff ==
    ASSUME NEW T, NEW x \in T, NEW s \in Seq(T)
    PROVE  /\ <<x>> \o s \in Seq(T) /\ <<x>> \o s # <<>>
           /\ Head(<<x>> \o s) = x /\ Tail(<<x>> \o s) = s
<1> DEFINE xs == <<x>> \o s
<1>1. /\ <<x>> \in Seq(T) /\ Len(<<x>>) = 1 /\ <<x>>[1] = x
  BY OneElement
<1>2. /\ xs \in Seq(T) /\ Len(xs) = 1 + Len(s) /\ Len(s) \in Nat
      /\ \A i \in 1..(1 + Len(s)) : xs[i] = IF i <= 1 THEN <<x>>[i] ELSE s[i - 1]
  BY <1>1, ConcatProperties, LenProperties
<1> HIDE DEF xs
<1>3. xs # <<>> /\ Head(xs) = x
  <2>1. Len(xs) # 0 /\ Len(<<>>) = 0
    BY <1>2
  <2>2. xs[1] = x
    BY <1>1, <1>2
  <2> QED BY <2>1, <2>2, <1>2
<1>4. /\ Tail(xs) \in Seq(T) /\ Len(Tail(xs)) = Len(xs) - 1
      /\ \A i \in 1..Len(Tail(xs)) : Tail(xs)[i] = xs[i + 1]
  BY <1>2, <1>3, HeadTailProperties
<1>5. Len(Tail(xs)) = Len(s)
  BY <1>2, <1>4
<1>6. ASSUME NEW i \in 1..Len(s) PROVE Tail(xs)[i] = s[i]
  <2>1. i + 1 \in 1..(1 + Len(s)) /\ ~(i + 1 <= 1) /\ (i + 1) - 1 = i
    BY <1>2
  <2> QED BY <2>1, <1>2, <1>4, <1>5
<1>7. Tail(xs) = s
  BY <1>4, <1>5, <1>6, SeqEqual
<1> QED BY <1>2, <1>3, <1>7 DEF xs

(* The script hashes of a list, and of what is left of it.                  *)
LEMMA HashesAreLists ==
    ASSUME NEW ids \in Seq(Addr)
    PROVE  Hashes(ids) \in Seq(ScriptHash) /\ Len(Hashes(ids)) = Len(ids)
<1>1. Len(ids) \in Nat /\ \A i \in 1..Len(ids) : ids[i] \in Addr
  BY LenProperties, ElementOfSeq
<1>2. Hashes(ids) \in [1..Len(ids) -> ScriptHash]
  BY <1>1, HashAssumption DEF Hashes
<1> QED BY <1>1, <1>2

(* An empty list has no hashes.                                              *)
LEMMA NoHashes == Hashes(<<>>) = <<>>
<1>1. <<>> \in Seq(Addr) /\ Len(<<>>) = 0
  BY EmptySeq
<1>2. Hashes(<<>>) \in Seq(ScriptHash) /\ Len(Hashes(<<>>)) = 0
  BY <1>1, HashesAreLists
<1> QED BY <1>2, EmptySeq

(* The first hash is that of the first id.                                   *)
LEMMA HashesHeadTail ==
    ASSUME NEW ids \in Seq(Addr), ids # <<>>
    PROVE  /\ Hash[Head(ids)] \in ScriptHash /\ Tail(ids) \in Seq(Addr)
           /\ Hashes(ids) = <<Hash[Head(ids)]>> \o Hashes(Tail(ids))
<1>1. /\ Head(ids) \in Addr /\ Tail(ids) \in Seq(Addr) /\ Len(Tail(ids)) = Len(ids) - 1
      /\ \A i \in 1..Len(Tail(ids)) : Tail(ids)[i] = ids[i + 1]
  BY HeadTailProperties
<1>2. Len(ids) \in Nat \ {0} /\ Head(ids) = ids[1]
  BY EmptySeq
<1>3. /\ Hashes(ids) \in Seq(ScriptHash) /\ Len(Hashes(ids)) = Len(ids)
      /\ Hashes(Tail(ids)) \in Seq(ScriptHash) /\ Len(Hashes(Tail(ids))) = Len(ids) - 1
  BY <1>1, HashesAreLists
<1>4. Hashes(ids) # <<>>
  BY <1>2, <1>3, EmptySeq
<1>5. Head(Hashes(ids)) = Hash[Head(ids)]
  <2>1. Hashes(ids)[1] = Hash[ids[1]]
    BY <1>2 DEF Hashes
  <2>2. Head(Hashes(ids)) = Hashes(ids)[1]
    BY <1>3, <1>4
  <2> QED BY <2>1, <2>2, <1>2
<1>6. Tail(Hashes(ids)) = Hashes(Tail(ids))
  <2>1. /\ Tail(Hashes(ids)) \in Seq(ScriptHash) /\ Len(Tail(Hashes(ids))) = Len(ids) - 1
        /\ \A i \in 1..(Len(ids) - 1) : Tail(Hashes(ids))[i] = Hashes(ids)[i + 1]
    BY <1>3, <1>4, HeadTailProperties
  <2>2. ASSUME NEW i \in 1..(Len(ids) - 1)
        PROVE  Tail(Hashes(ids))[i] = Hashes(Tail(ids))[i]
    <3>1. i + 1 \in 1..Len(ids)
      BY <1>2
    <3>2. Hashes(ids)[i + 1] = Hash[ids[i + 1]]
      BY <3>1 DEF Hashes
    <3>3. Hashes(Tail(ids))[i] = Hash[Tail(ids)[i]]
      BY <1>1 DEF Hashes
    <3> QED BY <3>2, <3>3, <2>1, <1>1
  <2> QED BY <2>1, <2>2, <1>3, SeqEqual
<1>7. <<Head(Hashes(ids))>> \o Tail(Hashes(ids)) = Hashes(ids)
  BY <1>3, <1>4, HeadAndTail
<1> QED BY <1>1, <1>5, <1>6, <1>7, HashAssumption

-----------------------------------------------------------------------------
(* What the requests hold, and what moves before the list is published: the  *)
(* part of the inductive invariant that the refinement needs besides         *)
(* LockDiscipline and ResultsInOrder.                                        *)

\* Nothing is on its way when a process begins to load, and nothing is
\* delivered before the updater starts.
Quiet ==
    /\ mainPc = "select" => addressStream = <<>> /\ scanPc = "take" /\ mainTodo = <<>>
    /\ mainPc \in {"select", "enqueue"} => updPc = "off"

\* Rows in the list, or on their way into it, are in the table.
RowsKnown ==
    /\ \A a \in watched \cup Elems(loaded) : rows[a] # "none"
    /\ \A h \in Handler : reqPc[h] = "append" => \A a \in Elems(reqBatch[h]) : rows[a] # "none"

\* A batch that is about to be appended is in no list yet, and no two
\* handlers append the same row.
BatchesApart ==
    /\ \A h \in Handler : reqPc[h] = "append" =>
          /\ reqBatch[h] \in BatchesOf(Addr) /\ reqBatch[h] # <<>>
          /\ Elems(reqBatch[h]) \cap watched = {}
    /\ \A g, h \in Handler : reqPc[g] = "append" /\ reqPc[h] = "append" /\ g # h =>
          Elems(reqBatch[g]) \cap Elems(reqBatch[h]) = {}

\* DeleteAddress removes one row.
RemovesOne ==
    \A h \in Handler : reqPc[h] = "remove" => \E a \in Addr : reqBatch[h] = <<a>>

Claims == RowsKnown /\ BatchesApart /\ RemovesOne

(* What the other handlers are about to append stays apart when a handler    *)
(* moves on, its own batch being appended or not.                            *)
LEMMA OthersStayApart ==
    ASSUME BatchesApart, NEW h \in Handler, reqPc'[h] # "append",
           \A g \in Handler \ {h} : reqBatch'[g] = reqBatch[g] /\ reqPc'[g] = reqPc[g],
           \A a \in watched' : a \in watched \/ (reqPc[h] = "append" /\ a \in Elems(reqBatch[h]))
    PROVE  BatchesApart'
<1>1. ASSUME NEW g \in Handler, reqPc'[g] = "append"
      PROVE  /\ reqBatch'[g] \in BatchesOf(Addr) /\ reqBatch'[g] # <<>>
             /\ Elems(reqBatch'[g]) \cap watched' = {}
  <2>1. g # h /\ reqPc[g] = "append" /\ reqBatch'[g] = reqBatch[g]
    BY <1>1
  <2>2. Elems(reqBatch[g]) \cap watched = {}
    BY <2>1 DEF BatchesApart
  <2>3. reqPc[h] = "append" => Elems(reqBatch[g]) \cap Elems(reqBatch[h]) = {}
    BY <2>1 DEF BatchesApart
  <2> QED BY <2>1, <2>2, <2>3 DEF BatchesApart
<1>2. ASSUME NEW f \in Handler, NEW g \in Handler, f # g,
             reqPc'[f] = "append", reqPc'[g] = "append"
      PROVE  Elems(reqBatch'[f]) \cap Elems(reqBatch'[g]) = {}
  BY <1>2 DEF BatchesApart
<1> QED BY <1>1, <1>2 DEF BatchesApart

(* A process starts with an empty pipeline.                                 *)
THEOREM QuietAtStart == Spec => []Quiet
<1>1. Init => Quiet
  BY DEF Init, Quiet
<1>2. TypeOK /\ LockDiscipline /\ Quiet /\ [Next]_vars => Quiet'
  BY DEF Quiet, Next, Main, Scanner, Updater, Request, Finish,
     SelectAddresses, InitEnqueue, StartUpdater, PublishAddresses, ScanTake, ListUnspent,
     HandOver, UpdateAddressUTXOs, NextJob, NextResult, CreateInsert, CreateAppend,
     CreateEnqueue, CreateReturn, DeleteRow, DeleteRemove, UnspentChanges, CrashAndRestart,
     ProcessStart, LockDiscipline, vars, dbVars, memVars, scanVars, updVars, mainVars, reqVars
<1> QED BY <1>1, <1>2, TypeCorrect, LockDisciplineHolds, PTL DEF Spec

(* Orders and batches of some rows are batches of all rows.                  *)
LEMMA BatchesGrow ==
    ASSUME NEW S \in SUBSET Addr
    PROVE  BatchesOf(S) \subseteq BatchesOf(Addr) /\ Orderings(S) \subseteq BatchesOf(Addr)
BY DEF BatchesOf

(* What a list of one row holds.                                             *)
LEMMA ElemsOfOne ==
    ASSUME NEW a PROVE Elems(<<a>>) = {a}
BY DEF Elems

(* Rows on their way into the list are fresh, and apart from each other.     *)
THEOREM ClaimsHold == Spec => []Claims
<1>1. Init => Claims
  BY DEF Init, Claims, RowsKnown, BatchesApart, RemovesOne, Elems
<1>2. TypeOK /\ LockDiscipline /\ Claims /\ [Next]_vars => Claims'
  <2> SUFFICES ASSUME TypeOK, LockDiscipline, Claims, [Next]_vars PROVE Claims'
    OBVIOUS
  <2> USE DEF Claims, RowsKnown, BatchesApart, RemovesOne, dbVars, memVars, scanVars,
     updVars,
          mainVars, reqVars
  <2>1. CASE SelectAddresses
    <3>1. Elems(loaded') \subseteq Live
      BY <2>1, OrderingsAreLists DEF SelectAddresses, Live
    <3> QED BY <2>1, <3>1 DEF SelectAddresses, Live, LockDiscipline
  <2>2. CASE InitEnqueue
    BY <2>2 DEF InitEnqueue
  <2>3. CASE StartUpdater
    BY <2>3 DEF StartUpdater
  <2>4. CASE PublishAddresses
    BY <2>4 DEF PublishAddresses, LockDiscipline
  <2>5. CASE ScanTake
    BY <2>5 DEF ScanTake
  <2>6. CASE ListUnspent
    BY <2>6 DEF ListUnspent
  <2>7. CASE HandOver
    BY <2>7 DEF HandOver
  <2>8. CASE UpdateAddressUTXOs
    BY <2>8 DEF UpdateAddressUTXOs
  <2>9. ASSUME NEW h \in Handler, CreateInsert(h) PROVE Claims'
    <3>1. PICK batch \in BatchesOf(Fresh) \ {<<>>} :
             /\ rows' = [a \in Addr |-> IF a \in Elems(batch) THEN "live" ELSE rows[a]]
             /\ reqBatch' = [reqBatch EXCEPT ![h] = batch]
      BY <2>9 DEF CreateInsert
    <3>2. Elems(batch) \subseteq Fresh /\ batch \in BatchesOf(Addr) /\ Fresh \subseteq Addr
      BY BatchesAreLists, BatchesGrow DEF Fresh
    <3>3. /\ reqBatch'[h] = batch /\ reqPc'[h] = "append"
          /\ \A g \in Handler \ {h} : reqBatch'[g] = reqBatch[g] /\ reqPc'[g] = reqPc[g]
      BY <2>9, <3>1 DEF CreateInsert, TypeOK
    <3>4. /\ \A a \in Elems(batch) : rows[a] = "none" /\ rows'[a] = "live"
          /\ \A a \in Addr : rows[a] # "none" => rows'[a] # "none"
      BY <3>1, <3>2 DEF Fresh
    <3>5. UNCHANGED <<watched, loaded>>
      BY <2>9 DEF CreateInsert
    <3>6. /\ watched \subseteq Addr /\ Elems(loaded) \subseteq Addr
          /\ \A g \in Handler : Elems(reqBatch[g]) \subseteq Addr
      BY DEF TypeOK, Elems
    <3>7. RowsKnown'
      BY <3>3, <3>4, <3>5, <3>6
    <3>8. BatchesApart'
      <4>1. Elems(batch) \cap watched = {}
        BY <3>4
      <4>2. ASSUME NEW g \in Handler, reqPc[g] = "append"
            PROVE  Elems(reqBatch[g]) \cap Elems(batch) = {}
        BY <4>2, <3>4
      <4>3. ASSUME NEW g \in Handler, reqPc'[g] = "append"
            PROVE  /\ reqBatch'[g] \in BatchesOf(Addr) /\ reqBatch'[g] # <<>>
                   /\ Elems(reqBatch'[g]) \cap watched' = {}
        BY <4>1, <4>3, <3>1, <3>2, <3>3, <3>5
      <4>4. ASSUME NEW f \in Handler, NEW g \in Handler, f # g,
                   reqPc'[f] = "append", reqPc'[g] = "append"
            PROVE  Elems(reqBatch'[f]) \cap Elems(reqBatch'[g]) = {}
        <5>1. CASE f = h
          BY <5>1, <4>2, <4>4, <3>3
        <5>2. CASE g = h
          BY <5>2, <4>2, <4>4, <3>3
        <5>3. CASE f # h /\ g # h
          BY <5>3, <4>4, <3>3
        <5> QED BY <5>1, <5>2, <5>3
      <4> QED BY <4>3, <4>4
    <3>9. RemovesOne'
      BY <3>3
    <3> QED BY <3>7, <3>8, <3>9
  <2>10. ASSUME NEW h \in Handler, CreateAppend(h) PROVE Claims'
    <3>1. /\ reqPc'[h] \notin {"append", "remove"}
          /\ \A g \in Handler \ {h} : reqBatch'[g] = reqBatch[g] /\ reqPc'[g] = reqPc[g]
      BY <2>10 DEF CreateAppend, TypeOK
    <3>2. /\ UNCHANGED <<rows, loaded>> /\ watched' = watched \cup Elems(reqBatch[h])
          /\ reqPc[h] = "append"
      BY <2>10 DEF CreateAppend
    <3>3. RowsKnown'
      BY <3>1, <3>2
    <3>4. BatchesApart'
      BY <3>1, <3>2, OthersStayApart
    <3>5. RemovesOne'
      BY <3>1
    <3> QED BY <3>3, <3>4, <3>5
  <2>11. ASSUME NEW h \in Handler, CreateEnqueue(h) PROVE Claims'
    BY <2>11 DEF CreateEnqueue
  <2>12. ASSUME NEW h \in Handler, CreateReturn(h) PROVE Claims'
    <3>1. /\ reqPc'[h] \notin {"append", "remove"}
          /\ \A g \in Handler \ {h} : reqBatch'[g] = reqBatch[g] /\ reqPc'[g] = reqPc[g]
      BY <2>12 DEF CreateReturn, TypeOK
    <3>2. UNCHANGED <<rows, loaded, watched>>
      BY <2>12 DEF CreateReturn
    <3>3. RowsKnown'
      BY <3>1, <3>2
    <3>4. BatchesApart'
      BY <3>1, <3>2, OthersStayApart
    <3>5. RemovesOne'
      BY <3>1
    <3> QED BY <3>3, <3>4, <3>5
  <2>13. ASSUME NEW h \in Handler, DeleteRow(h) PROVE Claims'
    <3>1. PICK a \in watched : /\ rows' = [rows EXCEPT ![a] = "deleted"]
                             /\ reqBatch' = [reqBatch EXCEPT ![h] = <<a>>]
      BY <2>13 DEF DeleteRow
    <3>2. /\ reqBatch'[h] = <<a>> /\ reqPc'[h] = "remove"
          /\ \A g \in Handler \ {h} : reqBatch'[g] = reqBatch[g] /\ reqPc'[g] = reqPc[g]
      BY <2>13, <3>1 DEF DeleteRow, TypeOK
    <3>3. \A b \in Addr : rows[b] # "none" => rows'[b] # "none"
      BY <3>1 DEF TypeOK
    <3>4. /\ watched \subseteq Addr /\ Elems(loaded) \subseteq Addr
          /\ \A g \in Handler : Elems(reqBatch[g]) \subseteq Addr
      BY DEF TypeOK, Elems
    <3>5. UNCHANGED <<watched, loaded>>
      BY <2>13 DEF DeleteRow
    <3>6. RowsKnown'
      BY <3>2, <3>3, <3>4, <3>5
    <3>7. BatchesApart'
      BY <3>2, <3>5, OthersStayApart
    <3>8. RemovesOne'
      BY <3>1, <3>2, <3>4
    <3> QED BY <3>6, <3>7, <3>8
  <2>14. ASSUME NEW h \in Handler, DeleteRemove(h) PROVE Claims'
    <3>1. /\ reqPc'[h] \notin {"append", "remove"}
          /\ \A g \in Handler \ {h} : reqBatch'[g] = reqBatch[g] /\ reqPc'[g] = reqPc[g]
      BY <2>14 DEF DeleteRemove, TypeOK
    <3>2. UNCHANGED <<rows, loaded>> /\ watched' \subseteq watched
      BY <2>14 DEF DeleteRemove
    <3>3. RowsKnown'
      BY <3>1, <3>2
    <3>4. BatchesApart'
      BY <3>1, <3>2, OthersStayApart
    <3>5. RemovesOne'
      BY <3>1
    <3> QED BY <3>3, <3>4, <3>5
  <2>15. CASE UnspentChanges
    BY <2>15 DEF UnspentChanges
  <2>16. CASE CrashAndRestart
    BY <2>16 DEF CrashAndRestart, ProcessStart, Elems
  <2>17. CASE UNCHANGED vars
    BY <2>17 DEF vars
  <2> QED
    BY <2>1, <2>2, <2>3, <2>4, <2>5, <2>6, <2>7, <2>8, <2>9, <2>10, <2>11, <2>12,
       <2>13, <2>14, <2>15, <2>16, <2>17
       DEF Next, Main, Scanner, Updater, Request, Finish
<1> QED BY <1>1, <1>2, TypeCorrect, LockDisciplineHolds, PTL DEF Spec

-----------------------------------------------------------------------------
(* The cache implements ScanService: each step is a step of the service, or  *)
(* moves a scan along the pipeline.                                          *)
LEMMA PipelineParts ==
    ASSUME TypeOK
    PROVE  /\ InUpdater \in Seq(ScriptHash) /\ InScanner \in Seq(ScriptHash)
           /\ addressStream \in Seq(ScriptHash) /\ Unsent \in Seq(ScriptHash)
<1>1. InUpdater \in Seq(ScriptHash)
  BY EmptySeq, OneElement DEF TypeOK, InUpdater
<1>2. InScanner \in Seq(ScriptHash)
  BY EmptySeq, OneElement DEF TypeOK, InScanner
<1>3. (IF mu = Free THEN mainTodo ELSE reqTodo[mu]) \in Seq(Addr)
  BY DEF TypeOK
<1>4. Unsent \in Seq(ScriptHash)
  BY <1>3, HashesAreLists DEF Unsent
<1> QED BY <1>1, <1>2, <1>4 DEF TypeOK

(* Concatenation of lists of script hashes.                                  *)
LEMMA Joins == \A s, t \in Seq(ScriptHash) : s \o t \in Seq(ScriptHash)
BY ConcatProperties

LEMMA Associates == \A s, t, u \in Seq(ScriptHash) : (s \o t) \o u = s \o (t \o u)
BY ConcatAssociative

(* Four lists in a row, as the pipeline has them.                            *)
LEMMA Regroup ==
    \A a, b, c, d \in Seq(ScriptHash) : (a \o (b \o c)) \o d = (a \o b) \o (c \o d)
<1> SUFFICES ASSUME NEW a \in Seq(ScriptHash), NEW b \in Seq(ScriptHash),
                    NEW c \in Seq(ScriptHash), NEW d \in Seq(ScriptHash)
             PROVE  (a \o (b \o c)) \o d = (a \o b) \o (c \o d)
  BY Zenon
<1>1. a \o b \in Seq(ScriptHash)
  BY Joins, Zenon
<1>2. ((a \o b) \o c) \o d = (a \o b) \o (c \o d)
  <2>1. \A t, u \in Seq(ScriptHash) : ((a \o b) \o t) \o u = (a \o b) \o (t \o u)
    BY <1>1, Associates, Zenon
  <2> QED BY <2>1, Zenon
<1>3. (a \o b) \o c = a \o (b \o c)
  <2>1. \A t, u \in Seq(ScriptHash) : (a \o t) \o u = a \o (t \o u)
    BY Associates, Zenon
  <2> QED BY <2>1, Zenon
<1> QED BY <1>2, <1>3, Zenon

LEMMA Behind ==
    \A a, b, c, d \in Seq(ScriptHash) : ((a \o b) \o c) \o d = a \o (b \o (c \o d))
<1> SUFFICES ASSUME NEW a \in Seq(ScriptHash), NEW b \in Seq(ScriptHash)
             PROVE  \A c, d \in Seq(ScriptHash) : ((a \o b) \o c) \o d = a \o (b \o (c \o d))
  BY Zenon
<1>1. a \o b \in Seq(ScriptHash)
  BY Joins, Zenon
<1>2. \A c, d \in Seq(ScriptHash) : ((a \o b) \o c) \o d = (a \o b) \o (c \o d)
  BY <1>1, Associates, Zenon
<1>3. \A t \in Seq(ScriptHash) : (a \o b) \o t = a \o (b \o t)
  BY Associates, Zenon
<1>4. \A c, d \in Seq(ScriptHash) : c \o d \in Seq(ScriptHash)
  BY Joins, Zenon
<1> QED BY <1>2, <1>3, <1>4, Zenon

(* Where the oldest scan is, when the updater holds one.                     *)
LEMMA OldestFirst ==
    ASSUME TypeOK, updPc = "store"
    PROVE  LET rest == ((<<>> \o InScanner) \o addressStream) \o Unsent IN
           /\ Pipeline # <<>> /\ Head(Pipeline) = updHash /\ Tail(Pipeline) = rest
<1> DEFINE first == <<updHash>>
           later == InScanner \o (addressStream \o Unsent)
           none == <<>>
<1>1. /\ InScanner \in Seq(ScriptHash) /\ addressStream \in Seq(ScriptHash)
      /\ Unsent \in Seq(ScriptHash) /\ updHash \in ScriptHash
  BY PipelineParts DEF TypeOK
<1>2. first \in Seq(ScriptHash) /\ none \in Seq(ScriptHash)
  BY <1>1, OneElement, EmptySeq
<1>3. Pipeline = ((first \o InScanner) \o addressStream) \o Unsent
  BY DEF Pipeline, InUpdater
<1> HIDE DEF first, none
<1>4. later \in Seq(ScriptHash) /\ Pipeline = first \o later
  <2>0. \A b, c, d \in Seq(ScriptHash) : ((first \o b) \o c) \o d = first \o (b \o (c \o d))
    BY <1>2, Behind, Zenon
  <2>1. \A c, d \in Seq(ScriptHash) :
           ((first \o InScanner) \o c) \o d = first \o (InScanner \o (c \o d))
    BY <1>1, <2>0, Zenon
  <2>2. addressStream \o Unsent \in Seq(ScriptHash)
    BY <1>1, Joins, Zenon
  <2>3. later \in Seq(ScriptHash)
    BY <1>1, <2>2, Joins, Zenon
  <2> QED BY <1>1, <1>3, <2>1, <2>3, Zenon
<1>5. ((none \o InScanner) \o addressStream) \o Unsent = none \o later
  <2>1. \A c, d \in Seq(ScriptHash) :
           ((none \o InScanner) \o c) \o d = none \o (InScanner \o (c \o d))
    BY <1>1, <1>2, Behind, Zenon
  <2> QED BY <1>1, <2>1, Zenon
<1> HIDE DEF later
<1>6. none \o later = later
  BY <1>4, ConcatEmptySeq DEF none
<1>7. Pipeline # <<>> /\ Head(Pipeline) = updHash /\ Tail(Pipeline) = later
  BY <1>1, <1>4, TakeOff DEF first
<1> QED BY <1>5, <1>6, <1>7 DEF none

(* The scanner takes the oldest scan from the channel.                       *)
LEMMA TakenFromChannel ==
    ASSUME NEW u \in Seq(ScriptHash), NEW s \in Seq(ScriptHash), s # <<>>
    PROVE  (u \o <<>>) \o s = (u \o <<Head(s)>>) \o Tail(s)
<1> DEFINE first == <<Head(s)>>
           left == Tail(s)
<1>1. Head(s) \in ScriptHash /\ left \in Seq(ScriptHash)
  BY HeadTailProperties
<1>2. first \in Seq(ScriptHash)
  BY <1>1, OneElement
<1>3. first \o left = s
  BY HeadAndTail
<1>4. u \o <<>> = u
  BY ConcatEmptySeq
<1> HIDE DEF first, left
<1>5. (u \o first) \o left = u \o (first \o left)
  <2>1. \A b, c \in Seq(ScriptHash) : (u \o b) \o c = u \o (b \o c)
    BY Associates, Zenon
  <2> QED BY <1>1, <1>2, <2>1, Zenon
<1> QED BY <1>3, <1>4, <1>5 DEF first, left

(* The first hash moves from the front of a list to the end of the channel.  *)
LEMMA PassOn ==
    ASSUME NEW held \in Seq(ScriptHash), NEW channel \in Seq(ScriptHash),
           NEW todo \in Seq(Addr), todo # <<>>
    PROVE  (held \o Append(channel, Hash[Head(todo)])) \o Hashes(Tail(todo))
              = (held \o channel) \o Hashes(todo)
<1> DEFINE first == <<Hash[Head(todo)]>>
           left == Hashes(Tail(todo))
<1>1. /\ Hash[Head(todo)] \in ScriptHash /\ Tail(todo) \in Seq(Addr)
      /\ Hashes(todo) = first \o left
  BY HashesHeadTail
<1>2. first \in Seq(ScriptHash) /\ left \in Seq(ScriptHash)
  BY <1>1, OneElement, HashesAreLists
<1>3. Append(channel, Hash[Head(todo)]) = channel \o first
  BY <1>1, AppendIsConcat
<1> HIDE DEF first, left
<1>4. (held \o (channel \o first)) \o left = (held \o channel) \o (first \o left)
  <2>1. \A c, d \in Seq(ScriptHash) :
           (held \o (channel \o c)) \o d = (held \o channel) \o (c \o d)
    BY Regroup, Zenon
  <2> QED BY <1>2, <2>1, Zenon
<1> QED BY <1>1, <1>3, <1>4 DEF left

(* A handler or main sends the first of its list.                            *)
LEMMA SentOn ==
    ASSUME TypeOK, NEW todo \in Seq(Addr), todo # <<>>, Unsent = Hashes(todo),
           EnqueueScan(Hash[Head(todo)]), UNCHANGED <<scanVars, updVars>>,
           Unsent' = Hashes(Tail(todo))
    PROVE  Pipeline' = Pipeline
<1>1. InUpdater' = InUpdater /\ InScanner' = InScanner
  BY DEF scanVars, updVars, InUpdater, InScanner
<1>2. InUpdater \o InScanner \in Seq(ScriptHash) /\ addressStream \in Seq(ScriptHash)
  BY PipelineParts, ConcatIn
<1>3. addressStream' = Append(addressStream, Hash[Head(todo)])
  BY DEF EnqueueScan
<1>4. ((InUpdater \o InScanner) \o Append(addressStream, Hash[Head(todo)]))
            \o Hashes(Tail(todo))
         = ((InUpdater \o InScanner) \o addressStream) \o Hashes(todo)
  BY <1>2, PassOn
<1> QED BY <1>1, <1>3, <1>4 DEF Pipeline

(* The lists of ScanService are those of UtxoPipeline.                       *)
LEMMA SameListings ==
    /\ Service!BatchesOf(Addr) = BatchesOf(Addr)
    /\ \A ids : Service!HashesOf(ids) = Hashes(ids) /\ Service!Elems(ids) = Elems(ids)
<1>1. \A S : Service!Cardinality(S) = Cardinality(S)
  BY DEF Service!Cardinality, Cardinality
<1>2. Service!BatchesOf(Addr) = BatchesOf(Addr)
  BY <1>1 DEF Service!BatchesOf, Service!Orderings, BatchesOf, Orderings
<1>3. \A ids : Service!HashesOf(ids) = Hashes(ids) /\ Service!Elems(ids) = Elems(ids)
  BY DEF Service!Elems, Service!HashesOf, Elems, Hashes
<1> QED BY <1>2, <1>3

(* Every behaviour of the goroutines, the channel and the mutex is one of    *)
(* the registry and its queue of scans.                                      *)
THEOREM ServiceImplemented == Spec => ImplementsScanService
<1> DEFINE Moves == UNCHANGED <<chain, watched, utxos>> /\ Pipeline' = Pipeline
<1>1. Init => Service!Init
  <2> SUFFICES ASSUME Init PROVE Service!Init
    OBVIOUS
  <2>1. InUpdater = <<>> /\ InScanner = <<>> /\ addressStream = <<>> /\ Unsent = <<>>
    BY NoHashes DEF Init, InUpdater, InScanner, Unsent
  <2>2. <<>> \o <<>> = <<>>
    BY EmptySeq, ConcatEmptySeq
  <2>3. Pipeline = <<>>
    BY <2>1, <2>2 DEF Pipeline
  <2> QED BY <2>3 DEF Init, Service!Init
<1>2. TypeOK /\ TypeOK' /\ LockDiscipline /\ ResultsInOrder /\ Quiet /\ Claims /\ [Next]_vars
         => Service!Next \/ Moves
  <2> SUFFICES ASSUME TypeOK, TypeOK', LockDiscipline, ResultsInOrder, Quiet, Claims, [Next]_vars
               PROVE  Service!Next \/ Moves
    OBVIOUS
  <2> USE DEF dbVars, memVars, scanVars, updVars, mainVars, reqVars
  <2>0. mainPc # "serve" => mu = Free
    BY DEF LockDiscipline, TypeOK
  <2>1. CASE SelectAddresses
    <3>1. PICK ids \in Orderings(Live) : loaded' = ids /\ mainTodo' = ids
      BY <2>1 DEF SelectAddresses
    <3>2. ids \in Seq(Addr) /\ ids \in BatchesOf(Addr)
      BY <3>1, OrderingsAreLists, BatchesGrow DEF Live
    <3>3. /\ InUpdater = <<>> /\ InScanner = <<>> /\ addressStream = <<>> /\ Unsent = <<>>
          /\ InUpdater' = <<>> /\ InScanner' = <<>> /\ addressStream' = <<>>
          /\ Unsent' = Hashes(ids)
      BY <2>0, <2>1, <3>1, NoHashes
         DEF SelectAddresses, Quiet, InUpdater, InScanner, Unsent
    <3>4. <<>> \o <<>> = <<>> /\ <<>> \o Hashes(ids) = Hashes(ids)
      BY <3>2, HashesAreLists, EmptySeq, ConcatEmptySeq
    <3>5. Pipeline = <<>> /\ Pipeline' = Hashes(ids)
      BY <3>3, <3>4 DEF Pipeline
    <3>6. watched = {} /\ UNCHANGED <<chain, watched, utxos>>
      BY <2>1 DEF SelectAddresses, LockDiscipline
    <3>7. Service!Load
      BY <3>2, <3>5, <3>6, SameListings DEF Service!Load
    <3> QED BY <3>7 DEF Service!Next
  <2>2. CASE InitEnqueue
    <3>1. Unsent = Hashes(mainTodo) /\ Unsent' = Hashes(Tail(mainTodo))
      BY <2>0, <2>2 DEF InitEnqueue, Unsent
    <3>2. Pipeline' = Pipeline
      BY <2>2, <3>1, SentOn DEF InitEnqueue, TypeOK
    <3> QED BY <2>2, <3>2 DEF InitEnqueue
  <2>3. CASE StartUpdater
    <3>1. InUpdater' = InUpdater /\ InScanner' = InScanner /\ Unsent' = Unsent
      BY <2>3 DEF StartUpdater, Quiet, InUpdater, InScanner, Unsent
    <3> QED BY <2>3, <3>1 DEF StartUpdater, Pipeline
  <2>4. CASE PublishAddresses
    <3>1. Pipeline' = Pipeline
      BY <2>4 DEF PublishAddresses, Pipeline, InUpdater, InScanner, Unsent
    <3>2. Elems(loaded) \in SUBSET Addr
      BY DEF TypeOK, Elems
    <3>3. watched = {} /\ watched' = Elems(loaded) /\ UNCHANGED <<chain, utxos>>
      BY <2>4 DEF PublishAddresses, LockDiscipline
    <3>4. Service!Publish
      BY <3>1, <3>2, <3>3 DEF Service!Publish
    <3> QED BY <3>4 DEF Service!Next
  <2>5. CASE ScanTake
    <3>1. /\ InUpdater' = InUpdater /\ Unsent' = Unsent
          /\ InScanner = <<>> /\ InScanner' = <<Head(addressStream)>>
          /\ addressStream # <<>> /\ addressStream' = Tail(addressStream)
      BY <2>5 DEF ScanTake, InUpdater, InScanner, Unsent
    <3>2. (InUpdater \o <<>>) \o addressStream
             = (InUpdater \o <<Head(addressStream)>>) \o Tail(addressStream)
      BY <3>1, PipelineParts, TakenFromChannel
    <3>3. Pipeline' = Pipeline
      BY <3>1, <3>2 DEF Pipeline
    <3> QED BY <2>5, <3>3 DEF ScanTake
  <2>6. CASE ListUnspent
    <3>1. InUpdater' = InUpdater /\ InScanner' = InScanner /\ Unsent' = Unsent
      BY <2>6 DEF ListUnspent, InUpdater, InScanner, Unsent
    <3> QED BY <2>6, <3>1 DEF ListUnspent, Pipeline
  <2>7. CASE HandOver
    <3>1. /\ InUpdater = <<>> /\ InScanner = <<scanHash>> /\ InScanner' = <<>>
          /\ InUpdater' = <<scanHash>> /\ Unsent' = Unsent /\ scanHash \in ScriptHash
      BY <2>7 DEF HandOver, NextJob, InUpdater, InScanner, Unsent, TypeOK
    <3>2. <<scanHash>> \in Seq(ScriptHash)
      BY <3>1, OneElement
    <3>3. <<>> \o <<scanHash>> = <<scanHash>> \o <<>>
      BY <3>2, ConcatEmptySeq
    <3> QED BY <2>7, <3>1, <3>3 DEF HandOver, Pipeline
  <2>8. CASE UpdateAddressUTXOs
    <3>1. Pipeline # <<>> /\ Head(Pipeline) = updHash
          /\ Tail(Pipeline) = ((<<>> \o InScanner) \o addressStream) \o Unsent
      BY <2>8, OldestFirst DEF UpdateAddressUTXOs
    <3>2. InUpdater' = <<>> /\ InScanner' = InScanner /\ Unsent' = Unsent
      BY <2>8 DEF UpdateAddressUTXOs, NextResult, InUpdater, InScanner, Unsent
    <3>3. Pipeline' = Tail(Pipeline)
      BY <2>8, <3>1, <3>2 DEF UpdateAddressUTXOs, Pipeline
    <3>4. updResult \in (0..chain[updHash]) \cup {NoUtxos}
      <4>1. updResult \in Nat \/ updResult = NoUtxos
        BY DEF TypeOK, Version
      <4>2. updResult <= chain[updHash] /\ chain[updHash] \in Nat
        BY <2>8 DEF UpdateAddressUTXOs, ResultsInOrder, TypeOK
      <4> QED BY <4>1, <4>2
    <3>5. utxos' = [a \in Addr |-> IF a \in watched /\ Hash[a] = updHash
                                  THEN updResult ELSE utxos[a]]
      BY <2>8 DEF UpdateAddressUTXOs, Matches
    <3>6. UNCHANGED <<chain, watched>>
      BY <2>8 DEF UpdateAddressUTXOs
    <3>7. Service!Deliver
      BY <3>1, <3>3, <3>4, <3>5, <3>6 DEF Service!Deliver
    <3> QED BY <3>7 DEF Service!Next
  <2>9. ASSUME NEW h \in Handler, CreateInsert(h) PROVE Service!Next \/ Moves
    BY <2>9 DEF CreateInsert, Pipeline, InUpdater, InScanner, Unsent
  <2>10. ASSUME NEW h \in Handler, CreateAppend(h) PROVE Service!Next \/ Moves
    <3>1. /\ mu = Free /\ mainTodo = <<>> /\ reqTodo' = [reqTodo EXCEPT ![h] = reqBatch[h]]
          /\ mu' = h /\ h # Free
      BY <2>10, FreeAssumption DEF CreateAppend, LockDiscipline
    <3>2. /\ InUpdater' = InUpdater /\ InScanner' = InScanner
          /\ addressStream' = addressStream
      BY <2>10 DEF CreateAppend, InUpdater, InScanner
    <3>3. Unsent = <<>> /\ Unsent' = Hashes(reqBatch[h])
      BY <3>1, NoHashes DEF Unsent, TypeOK
    <3>4. Pipeline' = Pipeline \o Hashes(reqBatch[h])
      <4>1. (InUpdater \o InScanner) \o addressStream \in Seq(ScriptHash)
        BY PipelineParts, ConcatIn
      <4>2. ((InUpdater \o InScanner) \o addressStream) \o <<>>
               = (InUpdater \o InScanner) \o addressStream
        BY <4>1, ConcatEmptySeq
      <4> QED BY <3>2, <3>3, <4>2 DEF Pipeline
    <3>5. /\ reqBatch[h] \in BatchesOf(Addr) /\ reqBatch[h] # <<>>
          /\ Elems(reqBatch[h]) \cap watched = {}
      BY <2>10 DEF CreateAppend, Claims, BatchesApart
    <3>6. watched' = watched \cup Elems(reqBatch[h]) /\ UNCHANGED <<chain, utxos>>
      BY <2>10 DEF CreateAppend
    <3>7. Service!Register
      BY <3>4, <3>5, <3>6, SameListings DEF Service!Register
    <3> QED BY <3>7 DEF Service!Next
  <2>11. ASSUME NEW h \in Handler, CreateEnqueue(h) PROVE Service!Next \/ Moves
    <3>1. mu = h /\ h # Free /\ reqTodo'[h] = Tail(reqTodo[h])
      BY <2>11, FreeAssumption DEF CreateEnqueue, LockDiscipline, TypeOK
    <3>2. Unsent = Hashes(reqTodo[h]) /\ Unsent' = Hashes(Tail(reqTodo[h]))
      BY <2>11, <3>1 DEF CreateEnqueue, Unsent
    <3>3. Pipeline' = Pipeline
      BY <2>11, <3>2, SentOn DEF CreateEnqueue, TypeOK
    <3> QED BY <2>11, <3>3 DEF CreateEnqueue
  <2>12. ASSUME NEW h \in Handler, CreateReturn(h) PROVE Service!Next \/ Moves
    <3>1. mu = h /\ mu' = Free /\ h # Free /\ mainTodo = <<>> /\ reqTodo[h] = <<>>
      BY <2>12, FreeAssumption DEF CreateReturn, Unlock, LockDiscipline
    <3>2. Unsent' = Unsent
      BY <2>12, <3>1 DEF CreateReturn, Unsent
    <3>3. InUpdater' = InUpdater /\ InScanner' = InScanner
      BY <2>12 DEF CreateReturn, InUpdater, InScanner
    <3> QED BY <2>12, <3>2, <3>3 DEF CreateReturn, Pipeline
  <2>13. ASSUME NEW h \in Handler, DeleteRow(h) PROVE Service!Next \/ Moves
    BY <2>13 DEF DeleteRow, Pipeline, InUpdater, InScanner, Unsent
  <2>14. ASSUME NEW h \in Handler, DeleteRemove(h) PROVE Service!Next \/ Moves
    <3>1. PICK a \in Addr : reqBatch[h] = <<a>>
      BY <2>14 DEF DeleteRemove, Claims, RemovesOne
    <3>2. Elems(reqBatch[h]) = {a}
      BY <3>1, ElemsOfOne
    <3>3. watched' = watched \ {a} /\ UNCHANGED chain
      BY <2>14, <3>2 DEF DeleteRemove
    <3>4. utxos' = [utxos EXCEPT ![a] = NoUtxos]
      BY <2>14, <3>2 DEF DeleteRemove, TypeOK
    <3>5. Pipeline' = Pipeline
      BY <2>14 DEF DeleteRemove, Pipeline, InUpdater, InScanner, Unsent
    <3>6. Service!Unregister
      BY <3>3, <3>4, <3>5 DEF Service!Unregister
    <3> QED BY <3>6 DEF Service!Next
  <2>15. CASE UnspentChanges
    <3>1. Pipeline' = Pipeline
      BY <2>15 DEF UnspentChanges, Pipeline, InUpdater, InScanner, Unsent
    <3>2. Service!UnspentChanges
      BY <2>15, <3>1 DEF UnspentChanges, Service!UnspentChanges
    <3> QED BY <3>2 DEF Service!Next
  <2>16. CASE CrashAndRestart
    <3>1. /\ InUpdater' = <<>> /\ InScanner' = <<>> /\ addressStream' = <<>>
          /\ Unsent' = <<>>
      BY <2>16, NoHashes DEF CrashAndRestart, ProcessStart, InUpdater, InScanner, Unsent
    <3>2. <<>> \o <<>> = <<>>
      BY EmptySeq, ConcatEmptySeq
    <3>3. Pipeline' = <<>>
      BY <3>1, <3>2 DEF Pipeline
    <3>4. Service!Restart
      BY <2>16, <3>3 DEF CrashAndRestart, ProcessStart, Service!Restart
    <3> QED BY <3>4 DEF Service!Next
  <2>17. CASE UNCHANGED vars
    BY <2>17 DEF vars, Pipeline, InUpdater, InScanner, Unsent
  <2> QED
    BY <2>1, <2>2, <2>3, <2>4, <2>5, <2>6, <2>7, <2>8, <2>9, <2>10, <2>11, <2>12,
       <2>13, <2>14, <2>15, <2>16, <2>17
       DEF Next, Main, Scanner, Updater, Request, Finish
<1>3. Moves => UNCHANGED Service!vars
  BY DEF Service!vars
<1> HIDE DEF Moves
<1> QED
  BY <1>1, <1>2, <1>3, TypeCorrect, LockDisciplineHolds, ResultsStayInOrder, QuietAtStart,
     ClaimsHold, PTL DEF Spec, ImplementsScanService, Service!Spec
-----------------------------------------------------------------------------
(* What happens when the address channel is full.                            *)

(* While the stored rows are queued, each of them is still to be sent, in    *)
(* the channel or in the scanner's hand, since the updater is not there yet. *)
StartFills ==
    /\ mainPc = "select" => loaded = <<>>
    /\ mainPc = "enqueue" =>
          /\ updPc = "off"
          /\ Len(mainTodo) + Len(addressStream) + (IF scanPc = "take" THEN 0 ELSE 1)
                = Len(loaded)
    /\ mainPc \in {"publish", "serve"} => Fits

(* A start with more stored rows than the channel and the scanner hold gets  *)
(* stuck in api.Init (api.go:73) for every capacity: it is still queueing,   *)
(* and the updater never runs.                                               *)
THEOREM OverfullStartIsStuck == Spec => [](~Fits => Stuck)
<1>0. Len(<<>>) = 0
  OBVIOUS
<1>1. Init => StartFills
  BY <1>0 DEF Init, StartFills
<1>2. TypeOK /\ LockDiscipline /\ Quiet /\ StartFills /\ [Next]_vars => StartFills'
  <2> SUFFICES ASSUME TypeOK, LockDiscipline, Quiet, StartFills, [Next]_vars PROVE StartFills'
    OBVIOUS
  <2>0. Len(mainTodo) \in Nat /\ Len(addressStream) \in Nat /\ Len(loaded) \in Nat
    BY LenProperties DEF TypeOK
  <2> USE DEF StartFills, Fits, dbVars, memVars, scanVars, updVars, mainVars, reqVars
  <2>1. CASE SelectAddresses
    <3>1. PICK ids \in Orderings(Live) : loaded' = ids /\ mainTodo' = ids
      BY <2>1 DEF SelectAddresses
    <3>2. ids \in Seq(Addr)
      BY <3>1, OrderingsAreLists DEF Live
    <3>3. Len(ids) \in Nat
      BY <3>2, LenProperties
    <3>4. updPc = "off" /\ addressStream = <<>> /\ scanPc = "take"
      BY <2>1 DEF SelectAddresses, Quiet
    <3> QED BY <2>1, <3>1, <3>3, <3>4, <1>0 DEF SelectAddresses
  <2>2. CASE InitEnqueue
    <3>1. Len(mainTodo') = Len(mainTodo) - 1
      BY <2>2, HeadTailProperties DEF InitEnqueue, TypeOK
    <3>2. Len(addressStream') = Len(addressStream) + 1
      BY <2>2, AppendProperties DEF InitEnqueue, EnqueueScan, TypeOK
    <3> QED BY <2>0, <2>2, <3>1, <3>2 DEF InitEnqueue
  <2>3. CASE StartUpdater
    BY <1>0, <2>0, <2>3, BufCapAssumption DEF StartUpdater, TypeOK
  <2>4. CASE PublishAddresses
    BY <2>4 DEF PublishAddresses
  <2>5. CASE ScanTake
    <3>1. Len(addressStream') = Len(addressStream) - 1
      BY <2>5, HeadTailProperties DEF ScanTake, TypeOK
    <3> QED BY <2>0, <2>5, <3>1 DEF ScanTake
  <2>6. CASE ListUnspent
    BY <2>6 DEF ListUnspent
  <2>7. CASE HandOver
    BY <2>7 DEF HandOver
  <2>8. CASE UpdateAddressUTXOs
    BY <2>8 DEF UpdateAddressUTXOs
  <2>9. ASSUME NEW h \in Handler, Request(h) PROVE StartFills'
    <3>1. mainPc = "serve"
      BY <2>9 DEF Request, Finish, CreateInsert, CreateAppend, CreateEnqueue, CreateReturn,
         DeleteRow, DeleteRemove, LockDiscipline, TypeOK
    <3>2. UNCHANGED <<mainPc, loaded>>
      BY <2>9 DEF Request, Finish, CreateInsert, CreateAppend, CreateEnqueue, CreateReturn,
         DeleteRow, DeleteRemove
    <3> QED BY <3>1, <3>2
  <2>10. CASE UnspentChanges
    BY <2>10 DEF UnspentChanges
  <2>11. CASE CrashAndRestart
    BY <2>11, <1>0 DEF CrashAndRestart, ProcessStart
  <2>12. CASE UNCHANGED vars
    BY <2>12 DEF vars
  <2> QED
    BY <2>1, <2>2, <2>3, <2>4, <2>5, <2>6, <2>7, <2>8, <2>9, <2>10, <2>11, <2>12
       DEF Next, Main, Scanner, Updater
<1>3. TypeOK /\ StartFills => (~Fits => Stuck)
  BY <1>0, BufCapAssumption DEF StartFills, TypeOK, Fits, Stuck
<1> QED BY <1>1, <1>2, <1>3, TypeCorrect, LockDisciplineHolds, QuietAtStart, PTL DEF Spec

(* Once the channel is full while CreateAddress sends with the mutex locked  *)
(* (address.go:55), the scanner waits for the updater and the updater for    *)
(* the mutex, no step of any goroutine changes that, for any number of       *)
(* handlers and every capacity.                                              *)
THEOREM JamsLast == Spec => JamLasts
<1>1. TypeOK /\ LockDiscipline /\ Jammed /\ [Next]_vars => Jammed' \/ crashes' # crashes
  <2> SUFFICES ASSUME TypeOK, LockDiscipline, Jammed, [Next]_vars, ~CrashAndRestart
               PROVE  Jammed'
    BY DEF CrashAndRestart, TypeOK
  <2>1. /\ mu \in Handler /\ reqPc[mu] = "enqueue" /\ mainPc = "serve"
        /\ \A h \in Handler : reqPc[h] = "enqueue" => h = mu
    BY DEF Jammed, LockDiscipline, TypeOK
  <2>2. UNCHANGED <<mu, reqTodo, addressStream, scanPc, updPc>>
    <3>1. ~Main /\ ~Scanner /\ ~Updater
      BY <2>1 DEF Main, SelectAddresses, InitEnqueue, StartUpdater, PublishAddresses, Scanner,
         ScanTake, ListUnspent, HandOver, Updater, UpdateAddressUTXOs, Jammed
    <3>2. ASSUME NEW h \in Handler
          PROVE  ~CreateAppend(h) /\ ~CreateEnqueue(h) /\ ~CreateReturn(h) /\ ~DeleteRemove(h)
      BY <2>1 DEF CreateAppend, CreateEnqueue, EnqueueScan, CreateReturn, DeleteRemove, Jammed,
         TypeOK
    <3>3. ASSUME NEW h \in Handler, CreateInsert(h) \/ DeleteRow(h)
          PROVE  UNCHANGED <<mu, reqTodo, addressStream, scanPc, updPc>>
      BY <3>3 DEF CreateInsert, DeleteRow, scanVars, updVars
    <3>4. CASE UnspentChanges
      BY <3>4 DEF UnspentChanges, reqVars, scanVars, updVars
    <3>5. CASE UNCHANGED vars
      BY <3>5 DEF vars
    <3> QED BY <3>1, <3>2, <3>3, <3>4, <3>5 DEF Next, Request, Finish
  <2> QED BY <2>2 DEF Jammed
<1> QED BY <1>1, TypeCorrect, LockDisciplineHolds, PTL DEF Spec, JamLasts
=============================================================================
