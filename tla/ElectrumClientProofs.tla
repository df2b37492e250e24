------------------------ MODULE ElectrumClientProofs ------------------------
(***************************************************************************)
(* Theorems about ElectrumClient for every finite set of callers and any   *)
(* number of calls.                                                        *)
(***************************************************************************)
EXTENDS ElectrumClient, FiniteSetTheorems, SequenceTheorems, TLAPS

(* The ids of the requests are drawn from one counter: no two callers have   *)
(* the same, and 0 belongs to none.                                          *)
IdsDistinct ==
    /\ \A c \in Caller : id[c] <= nextID /\ (pc[c] # "idle" => id[c] # 0)
    /\ \A c, d \in Caller : id[c] = id[d] => c = d \/ id[c] = 0

(* The fields are cleared by goroutines that found or left quit closed.      *)
ClosedFirst ==
    \A g \in Goroutine : shutdown[g] \notin {"no", "close"} => quit

(* Whoever shuts the client down, or has, was told so by a connection that   *)
(* broke.                                                                    *)
BrokenFirst ==
    /\ quit \/ dropped \/ ~transport \/ readPc = "error" => ~conn
    /\ \A g \in Goroutine : shutdown[g] # "no" => ~conn
    /\ panicked => ~conn \/ listenMsg.kind = "badCode"

(* A request moves from the server over the wire, the reader and the         *)
(* listener to the channel of its caller, and is never in two of these       *)
(* places.                                                                   *)
InHand == readPc # "respond" => readMsg = NoAnswer
Taken == listenPc # "dispatch" => listenMsg = NoAnswer
OneAtATime ==
    /\ \A i, j \in 1..Len(replies) : replies[i].of = replies[j].of => i = j
    /\ \A r \in requests, m \in Elems(replies) : r.of # m.of
    /\ \A m \in requests \cup Elems(replies) :
          m.of # readMsg.of /\ m.of # listenMsg.of /\ inbox[m.of] = NoAnswer
    /\ readMsg.of = listenMsg.of => readMsg.of = NoCaller
    /\ \A c \in Caller : c = readMsg.of \/ c = listenMsg.of => inbox[c] = NoAnswer

(* Its caller has sent it and has not returned; an answer has the id of the  *)
(* request or none.                                                          *)
SentByWaiting ==
    /\ \A m \in requests \cup Elems(replies) \cup {readMsg, listenMsg}, c \in Caller :
          m.of = c => pc[c] \in {"register", "wait"} /\ m.id \in {0, id[c]}
    /\ \A r \in requests : r.id = id[r.of]
    /\ \A c \in Caller : inbox[c] # NoAnswer =>
          inbox[c].of = c /\ inbox[c].id = id[c] /\ pc[c] = "wait"

(* While the connection is up, nothing is lost but what the listener dropped. *)
NoneForgotten ==
    \A c \in Caller : pc[c] \in {"register", "wait"} /\ conn /\ c \notin lost => UnderWay(c)

Placement == InHand /\ Taken /\ OneAtATime /\ SentByWaiting /\ NoneForgotten

-----------------------------------------------------------------------------
(* Lists of answers, no two of which belong to one caller.                   *)

\* Appending the answer of another caller.
LEMMA ListGrows ==
    ASSUME NEW T, NEW s \in Seq(T), NEW x \in T, \A m \in Elems(s) : m.of # x.of,
           \A i, j \in 1..Len(s) : s[i].of = s[j].of => i = j
    PROVE  LET t == Append(s, x) IN
           /\ t \in Seq(T) /\ Elems(t) = Elems(s) \cup {x}
           /\ \A i, j \in 1..Len(t) : t[i].of = t[j].of => i = j
<1> DEFINE t == Append(s, x)
<1>1. /\ t \in Seq(T) /\ Len(t) = Len(s) + 1 /\ Len(s) \in Nat
      /\ \A i \in 1..Len(s) : t[i] = s[i]
      /\ t[Len(s) + 1] = x
  BY AppendProperties, LenProperties
<1> HIDE DEF t
<1>2. DOMAIN s = 1..Len(s) /\ DOMAIN t = 1..(Len(s) + 1)
  BY <1>1, LenProperties
<1>3. Elems(t) = Elems(s) \cup {x}
  BY <1>1, <1>2 DEF Elems
<1>4. \A i \in 1..Len(s) : t[i].of # x.of
  BY <1>1, <1>2 DEF Elems
<1>5. \A i, j \in 1..Len(t) : t[i].of = t[j].of => i = j
  BY <1>1, <1>4
<1> QED BY <1>1, <1>3, <1>5 DEF t

\* Taking the first answer off.
LEMMA ListShrinks ==
    ASSUME NEW T, NEW s \in Seq(T), s # <<>>,
           \A i, j \in 1..Len(s) : s[i].of = s[j].of => i = j
    PROVE  LET t == Tail(s) IN
           /\ Head(s) \in T /\ t \in Seq(T)
           /\ Elems(s) = Elems(t) \cup {Head(s)}
           /\ \A m \in Elems(t) : m.of # Head(s).of
           /\ \A i, j \in 1..Len(t) : t[i].of = t[j].of => i = j
<1> DEFINE t == Tail(s)
<1>1. /\ Head(s) \in T /\ t \in Seq(T) /\ Len(t) = Len(s) - 1
      /\ \A i \in 1..Len(t) : t[i] = s[i + 1]
  BY HeadTailProperties
<1>2. Len(s) \in Nat \ {0} /\ Head(s) = s[1]
  BY EmptySeq
<1> HIDE DEF t
<1>3. DOMAIN s = 1..Len(s) /\ DOMAIN t = 1..Len(t)
  BY <1>1, LenProperties
<1>4. \A i, j \in 1..Len(t) : t[i].of = t[j].of => i = j
  BY <1>1, <1>2
<1>5. ASSUME NEW i \in 1..Len(s), i # 1 PROVE s[i] \in Elems(t)
  <2>1. i - 1 \in 1..Len(t) /\ s[i] = t[i - 1]
    BY <1>1, <1>2, <1>5
  <2> QED BY <1>3, <2>1 DEF Elems
<1>6. ASSUME NEW i \in 1..Len(t) PROVE t[i] \in Elems(s) /\ t[i].of # s[1].of
  <2>1. i + 1 \in 1..Len(s) /\ t[i] = s[i + 1] /\ 1 \in 1..Len(s) /\ i + 1 # 1
    BY <1>1, <1>2
  <2> QED BY <1>3, <2>1 DEF Elems
<1>7. Head(s) \in Elems(s)
  BY <1>2, <1>3 DEF Elems
<1>8. Elems(s) = Elems(t) \cup {Head(s)}
  <2>1. Elems(s) \subseteq Elems(t) \cup {Head(s)}
    BY <1>2, <1>3, <1>5 DEF Elems
  <2>2. Elems(t) \subseteq Elems(s)
    BY <1>3, <1>6 DEF Elems
  <2> QED BY <1>7, <2>1, <2>2
<1>9. \A m \in Elems(t) : m.of # Head(s).of
  BY <1>2, <1>3, <1>6 DEF Elems
<1> QED BY <1>1, <1>4, <1>8, <1>9 DEF t

-----------------------------------------------------------------------------
(* Types, request ids and the order of Shutdown's steps.                     *)
TInv == TypeOK /\ IdsDistinct /\ ClosedFirst

\* Every step keeps the types.
LEMMA TypesKept == TInv /\ [Next]_vars => TypeOK'
<1> SUFFICES ASSUME TInv, [Next]_vars PROVE TypeOK'
  OBVIOUS
<1> USE CallerAssumption
    DEF TInv, TypeOK, callVars, fieldVars, listenVars, readVars, netVars
<1>1. ASSUME NEW c \in Caller, Begin(c) PROVE TypeOK'
  <2>1. nextID + 1 \in 0..MaxCalls
    BY <1>1 DEF Begin
  <2> QED BY <1>1, <2>1 DEF Begin, DrawId
<1>2. ASSUME NEW c \in Caller, Send(c) PROVE TypeOK'
  <2>1. id[c] \in RequestId
    BY <1>2 DEF Send, IdsDistinct, RequestId
  <2>2. requests' \subseteq Request
    <3>1. [id |-> id[c], of |-> c] \in Request
      BY <2>1 DEF Request
    <3>2. requests' \subseteq requests \cup {[id |-> id[c], of |-> c]}
      BY <1>2 DEF Send
    <3> QED BY <3>1, <3>2
  <2>3. /\ pc' \in [Caller -> {"idle", "send", "register", "wait"}]
        /\ UNCHANGED <<nextID, id, inbox, fieldVars, listenVars, readVars, conn, replies,
                       panicked>>
    BY <1>2 DEF Send
  <2> QED BY <2>2, <2>3
<1>3. ASSUME NEW c \in Caller, SendPanics(c) PROVE TypeOK'
  BY <1>3 DEF SendPanics
<1>4. ASSUME NEW c \in Caller, SendFails(c) PROVE TypeOK'
  BY <1>4 DEF SendFails, Enters
<1>5. ASSUME NEW c \in Caller, Register(c) PROVE TypeOK'
  <2>1. handlers' \in [RequestId -> Caller \cup {NoCaller}]
    <3>1. handlers' \in {handlers, [handlers EXCEPT ![id[c]] = c]}
      BY <1>5 DEF Register
    <3> QED BY <3>1
  <2>2. dropped => handlers' = NoHandlers
    BY <1>5 DEF Register
  <2>3. pc' \in [Caller -> {"idle", "send", "register", "wait"}] /\ panicked' \in BOOLEAN
    <3>1. pc' \in {pc, [pc EXCEPT ![c] = "wait"]} /\ panicked' \in {panicked, TRUE}
      BY <1>5 DEF Register
    <3> QED BY <3>1
  <2>4. UNCHANGED <<nextID, id, inbox, dropped, transport, quit, shutdown, listenVars,
                    readVars, netVars>>
    BY <1>5 DEF Register
  <2> QED BY <2>1, <2>2, <2>3, <2>4
<1>6. ASSUME NEW c \in Caller, Return(c) PROVE TypeOK'
  <2>1. handlers' \in [RequestId -> Caller \cup {NoCaller}]
    BY <1>6 DEF Return, DeleteHandler
  <2>2. inbox' \in [Caller -> Answer \cup {NoAnswer}]
    BY <1>6 DEF Return
  <2>3. dropped => handlers' = NoHandlers
    BY <1>6 DEF Return, DeleteHandler, NoHandlers
  <2>4. /\ pc' \in [Caller -> {"idle", "send", "register", "wait"}]
        /\ UNCHANGED <<nextID, id, dropped, transport, quit, shutdown, listenVars, readVars,
                       netVars, panicked>>
    BY <1>6 DEF Return
  <2> QED BY <2>1, <2>2, <2>3, <2>4
<1>7. ASSUME NEW g \in Goroutine, CloseQuit(g) PROVE TypeOK'
  BY <1>7 DEF CloseQuit
<1>8. ASSUME NEW g \in Goroutine, TestTransport(g) PROVE TypeOK'
  BY <1>8 DEF TestTransport
<1>9. ASSUME NEW g \in Goroutine, CloseTransport(g) PROVE TypeOK'
  <2>0. <<>> \in Seq(Answer)
    BY EmptySeq
  <2>1. conn' \in BOOLEAN /\ requests' \subseteq Request /\ replies' \in {replies, <<>>}
    BY <1>9 DEF CloseTransport, Breaks
  <2>2. shutdown' \in [Goroutine -> {"no", "close", "transport", "connection", "clear",
                                     "handlers"}]
    BY <1>9 DEF CloseTransport
  <2>3. panicked' \in BOOLEAN
    BY <1>9 DEF CloseTransport
  <2>4. UNCHANGED <<callVars, handlers, dropped, transport, quit, listenVars, readVars>>
    BY <1>9 DEF CloseTransport
  <2>5. replies' \in Seq(Answer)
    BY <2>0, <2>1
  <2> QED BY <2>1, <2>2, <2>3, <2>4, <2>5
<1>10. ASSUME NEW g \in Goroutine, ClearTransport(g) PROVE TypeOK'
  BY <1>10 DEF ClearTransport
<1>11. ASSUME NEW g \in Goroutine, ClearHandlers(g) PROVE TypeOK'
  <2>1. quit
    BY <1>11 DEF ClearHandlers, ClosedFirst
  <2>2. NoHandlers \in [RequestId -> Caller \cup {NoCaller}]
    BY DEF NoHandlers
  <2> QED BY <1>11, <2>1, <2>2 DEF ClearHandlers, DropHandlers
<1>12. ASSUME NEW r \in requests, Reply(r) PROVE TypeOK'
  <2>1. PICK i \in {0, r.id}, kind \in {"answer", "badCode"} :
            replies' = Append(replies, [id |-> i, of |-> r.of, kind |-> kind])
    BY <1>12 DEF Reply
  <2>2. [id |-> i, of |-> r.of, kind |-> kind] \in Answer
    BY DEF Request, Answer, RequestId
  <2>3. replies' \in Seq(Answer)
    BY <2>1, <2>2, AppendProperties
  <2> QED BY <1>12, <2>3 DEF Reply
<1>13. CASE Disconnect
  <2>0. <<>> \in Seq(Answer)
    BY EmptySeq
  <2>1. replies' \in Seq(Answer)
    BY <1>13, <2>0 DEF Disconnect, Breaks
  <2> QED BY <1>13, <2>1 DEF Disconnect, Breaks
<1>14. CASE ListenTop
  BY <1>14 DEF ListenTop
<1>15. CASE ListenOperands
  BY <1>15 DEF ListenOperands
<1>16. CASE ListenStops
  BY <1>16 DEF ListenStops
<1>17. CASE TakeResponse
  BY <1>17 DEF TakeResponse
<1>18. CASE ParsePanics
  BY <1>18 DEF ParsePanics
<1>19. CASE Dispatch
  <2>1. listenMsg \in Answer
    BY <1>19 DEF Dispatch, NoAnswer
  <2>2. lost' \subseteq Caller
    BY <1>19, <2>1 DEF Dispatch, Answer
  <2>3. inbox' \in [Caller -> Answer \cup {NoAnswer}]
    BY <1>19, <2>1 DEF Dispatch
  <2> QED BY <1>19, <2>2, <2>3 DEF Dispatch, Loop
<1>20. CASE TakeError
  BY <1>20 DEF TakeError, Enters
<1>21. CASE ReadLine
  BY <1>21, HeadTailProperties DEF ReadLine
<1>22. CASE ReadFails
  BY <1>22 DEF ReadFails
<1>23. CASE UNCHANGED vars
  BY <1>23 DEF vars
<1> QED
  BY <1>1, <1>2, <1>3, <1>4, <1>5, <1>6, <1>7, <1>8, <1>9, <1>10, <1>11, <1>12, <1>13,
     <1>14, <1>15, <1>16, <1>17, <1>18, <1>19, <1>20, <1>21, <1>22, <1>23 DEF Next,
     Call, Shutdown, Listen, Read

\* Every call draws a new id.
LEMMA IdsKept == TInv /\ [Next]_vars => IdsDistinct' /\ ClosedFirst'
<1> SUFFICES ASSUME TInv, [Next]_vars PROVE IdsDistinct' /\ ClosedFirst'
  OBVIOUS
<1> USE CallerAssumption
    DEF TInv, TypeOK, IdsDistinct, ClosedFirst, callVars, fieldVars, listenVars, readVars, netVars
<1>1. ASSUME NEW c \in Caller, Begin(c) PROVE IdsDistinct' /\ ClosedFirst'
  <2>1. nextID' = nextID + 1 /\ nextID \in Nat
    BY <1>1 DEF Begin
  <2>2. \A d \in Caller : id'[d] = IF d = c THEN nextID + 1 ELSE id[d]
    BY <1>1 DEF Begin, DrawId
  <2>3. \A d \in Caller : id[d] \in Nat /\ id[d] <= nextID
    OBVIOUS
  <2>4. \A d \in Caller : pc'[d] # "idle" => d = c \/ pc[d] # "idle"
    BY <1>1 DEF Begin
  <2>5. \A d \in Caller : id'[d] <= nextID' /\ (pc'[d] # "idle" => id'[d] # 0)
    BY <2>1, <2>2, <2>3, <2>4
  <2>6. ASSUME NEW d \in Caller, NEW e \in Caller, id'[d] = id'[e], d # e PROVE id'[d] = 0
    <3>1. id[d] # nextID + 1 /\ id[e] # nextID + 1
      BY <2>1, <2>3
    <3> QED BY <2>2, <2>6, <3>1
  <2>7. IdsDistinct'
    BY <2>5, <2>6
  <2> QED BY <1>1, <2>7 DEF Begin
<1>2. ASSUME NEW c \in Caller, Send(c) PROVE IdsDistinct' /\ ClosedFirst'
  BY <1>2 DEF Send
<1>3. ASSUME NEW c \in Caller, SendPanics(c) PROVE IdsDistinct' /\ ClosedFirst'
  BY <1>3 DEF SendPanics
<1>4. ASSUME NEW c \in Caller, SendFails(c) PROVE IdsDistinct' /\ ClosedFirst'
  BY <1>4 DEF SendFails, Enters
<1>5. ASSUME NEW c \in Caller, Register(c) PROVE IdsDistinct' /\ ClosedFirst'
  BY <1>5 DEF Register
<1>6. ASSUME NEW c \in Caller, Return(c) PROVE IdsDistinct' /\ ClosedFirst'
  BY <1>6 DEF Return, DeleteHandler
<1>7. ASSUME NEW g \in Goroutine, CloseQuit(g) PROVE IdsDistinct' /\ ClosedFirst'
  BY <1>7 DEF CloseQuit
<1>8. ASSUME NEW g \in Goroutine, TestTransport(g) PROVE IdsDistinct' /\ ClosedFirst'
  BY <1>8 DEF TestTransport
<1>9. ASSUME NEW g \in Goroutine, CloseTransport(g) PROVE IdsDistinct' /\ ClosedFirst'
  BY <1>9 DEF CloseTransport, Breaks
<1>10. ASSUME NEW g \in Goroutine, ClearTransport(g) PROVE IdsDistinct' /\ ClosedFirst'
  BY <1>10 DEF ClearTransport
<1>11. ASSUME NEW g \in Goroutine, ClearHandlers(g) PROVE IdsDistinct' /\ ClosedFirst'
  BY <1>11 DEF ClearHandlers, DropHandlers
<1>12. ASSUME NEW r \in requests, Reply(r) PROVE IdsDistinct' /\ ClosedFirst'
  BY <1>12 DEF Reply
<1>13. CASE Disconnect
  BY <1>13 DEF Disconnect, Breaks
<1>14. CASE ListenTop
  BY <1>14 DEF ListenTop
<1>15. CASE ListenOperands
  BY <1>15 DEF ListenOperands
<1>16. CASE ListenStops
  BY <1>16 DEF ListenStops
<1>17. CASE TakeResponse
  BY <1>17 DEF TakeResponse
<1>18. CASE ParsePanics
  BY <1>18 DEF ParsePanics
<1>19. CASE Dispatch
  BY <1>19 DEF Dispatch, Addressee, Loop
<1>20. CASE TakeError
  BY <1>20 DEF TakeError, Enters
<1>21. CASE ReadLine
  BY <1>21 DEF ReadLine
<1>22. CASE ReadFails
  BY <1>22 DEF ReadFails
<1>23. CASE UNCHANGED vars
  BY <1>23 DEF vars
<1> QED
  BY <1>1, <1>2, <1>3, <1>4, <1>5, <1>6, <1>7, <1>8, <1>9, <1>10, <1>11, <1>12, <1>13,
     <1>14, <1>15, <1>16, <1>17, <1>18, <1>19, <1>20, <1>21, <1>22, <1>23 DEF Next,
     Call, Shutdown, Listen, Read

-----------------------------------------------------------------------------

LEMMA TInvHolds == Spec => []TInv
<1>1. Init => TInv
  <2> SUFFICES ASSUME Init PROVE TInv
    OBVIOUS
  <2>1. NoHandlers \in [RequestId -> Caller \cup {NoCaller}] /\ <<>> \in Seq(Answer)
    BY EmptySeq DEF NoHandlers
  <2>2. inbox \in [Caller -> Answer \cup {NoAnswer}] /\ id \in [Caller -> 0..MaxCalls]
    BY CallerAssumption DEF Init
  <2>3. nextID \in 0..MaxCalls /\ pc \in [Caller -> {"idle", "send", "register", "wait"}]
    BY CallerAssumption DEF Init
  <2>4. shutdown \in [Goroutine -> {"no", "close", "transport", "connection", "clear", "handlers"}]
    BY DEF Init
  <2>5. requests \subseteq Request /\ replies \in Seq(Answer)
    BY <2>1 DEF Init
  <2>6. TypeOK
    BY <2>1, <2>2, <2>3, <2>4, <2>5 DEF Init, TypeOK
  <2> QED BY <2>6 DEF Init, TInv, IdsDistinct, ClosedFirst
<1> QED BY <1>1, TypesKept, IdsKept, PTL DEF Spec, TInv

-----------------------------------------------------------------------------
(* Every variable has its type.  A client whose map Shutdown has dropped has *)
(* closed its quit channel.                                                  *)
THEOREM TypeCorrect == Spec => []TypeOK
BY TInvHolds, PTL DEF TInv

(* The deferred removal and Shutdown keep the map of answer channels exactly *)
(* that of the callers that wait, each under its own id: none is left        *)
(* behind, missing or replaced.                                              *)
THEOREM NoChannelLeaks == Spec => []HandlersMatchWaiters
<1>1. Init => HandlersMatchWaiters
  BY CallerAssumption DEF Init, HandlersMatchWaiters, NoHandlers
<1>2. TInv /\ HandlersMatchWaiters /\ [Next]_vars => HandlersMatchWaiters'
  <2> SUFFICES ASSUME TInv, HandlersMatchWaiters, [Next]_vars PROVE HandlersMatchWaiters'
    OBVIOUS
  <2> USE CallerAssumption
      DEF TInv, TypeOK, HandlersMatchWaiters, callVars, fieldVars, listenVars, readVars, netVars
  <2>1. ASSUME NEW c \in Caller, Begin(c) PROVE HandlersMatchWaiters'
    <3>1. \A d \in Caller : pc'[d] = "wait" <=> pc[d] = "wait"
    BY <2>1 DEF Begin
    <3>2. \A d \in Caller : d # c => id'[d] = id[d]
    BY <2>1 DEF Begin, DrawId
    <3> QED BY <2>1, <3>1, <3>2 DEF Begin
  <2>2. ASSUME NEW c \in Caller, Send(c) PROVE HandlersMatchWaiters'
    BY <2>2 DEF Send
  <2>3. ASSUME NEW c \in Caller, SendPanics(c) PROVE HandlersMatchWaiters'
    BY <2>3 DEF SendPanics
  <2>4. ASSUME NEW c \in Caller, SendFails(c) PROVE HandlersMatchWaiters'
    BY <2>4 DEF SendFails, Enters
  <2>5. ASSUME NEW c \in Caller, Register(c) PROVE HandlersMatchWaiters'
    <3>1. CASE dropped
    BY <2>5, <3>1 DEF Register
    <3>2. CASE ~dropped
      <4>1. /\ handlers' = [handlers EXCEPT ![id[c]] = c] /\ pc' = [pc EXCEPT ![c] = "wait"]
          /\ UNCHANGED <<id, dropped>> /\ pc[c] = "register"
      BY <2>5, <3>2 DEF Register
      <4>2. id[c] \in RequestId
      BY <4>1 DEF IdsDistinct, RequestId
      <4>3. ASSUME NEW i \in RequestId, NEW d \in Caller
          PROVE  handlers'[i] = d <=> pc'[d] = "wait" /\ id'[d] = i
        <5>1. CASE i = id[c]
        BY <3>2, <4>1, <4>2, <5>1 DEF IdsDistinct, RequestId
        <5>2. CASE i # id[c]
        BY <3>2, <4>1, <4>2, <5>2
        <5> QED BY <5>1, <5>2
      <4> QED BY <4>3
    <3> QED BY <3>1, <3>2
  <2>6. ASSUME NEW c \in Caller, Return(c) PROVE HandlersMatchWaiters'
    <3>1. /\ handlers' = [handlers EXCEPT ![id[c]] = NoCaller] /\ pc' = [pc EXCEPT ![c] = "idle"]
        /\ UNCHANGED <<id, dropped>> /\ pc[c] = "wait"
    BY <2>6 DEF Return, DeleteHandler
    <3>2. id[c] \in RequestId
    BY <3>1 DEF IdsDistinct, RequestId
    <3>3. ASSUME ~dropped, NEW i \in RequestId, NEW d \in Caller
        PROVE  handlers'[i] = d <=> pc'[d] = "wait" /\ id'[d] = i
      <4>1. CASE i = id[c]
      BY <3>1, <3>2, <3>3, <4>1 DEF IdsDistinct, RequestId
      <4>2. CASE i # id[c]
      BY <3>1, <3>2, <3>3, <4>2
      <4> QED BY <4>1, <4>2
    <3> QED BY <3>1, <3>3
  <2>7. ASSUME NEW g \in Goroutine, CloseQuit(g) PROVE HandlersMatchWaiters'
    BY <2>7 DEF CloseQuit
  <2>8. ASSUME NEW g \in Goroutine, TestTransport(g) PROVE HandlersMatchWaiters'
    BY <2>8 DEF TestTransport
  <2>9. ASSUME NEW g \in Goroutine, CloseTransport(g) PROVE HandlersMatchWaiters'
    BY <2>9 DEF CloseTransport, Breaks
  <2>10. ASSUME NEW g \in Goroutine, ClearTransport(g) PROVE HandlersMatchWaiters'
    BY <2>10 DEF ClearTransport
  <2>11. ASSUME NEW g \in Goroutine, ClearHandlers(g) PROVE HandlersMatchWaiters'
    BY <2>11 DEF ClearHandlers, DropHandlers
  <2>12. ASSUME NEW r \in requests, Reply(r) PROVE HandlersMatchWaiters'
    <3>1. UNCHANGED <<handlers, dropped, pc, id>>
    BY <2>12 DEF Reply
    <3> QED BY <3>1
  <2>13. CASE Disconnect
    BY <2>13 DEF Disconnect, Breaks
  <2>14. CASE ListenTop
    BY <2>14 DEF ListenTop
  <2>15. CASE ListenOperands
    BY <2>15 DEF ListenOperands
  <2>16. CASE ListenStops
    BY <2>16 DEF ListenStops
  <2>17. CASE TakeResponse
    BY <2>17 DEF TakeResponse
  <2>18. CASE ParsePanics
    BY <2>18 DEF ParsePanics
  <2>19. CASE Dispatch
    BY <2>19 DEF Dispatch, Addressee, Loop
  <2>20. CASE TakeError
    BY <2>20 DEF TakeError, Enters
  <2>21. CASE ReadLine
    BY <2>21 DEF ReadLine
  <2>22. CASE ReadFails
    BY <2>22 DEF ReadFails
  <2>23. CASE UNCHANGED vars
    BY <2>23 DEF vars
  <2> QED
    BY <2>1, <2>2, <2>3, <2>4, <2>5, <2>6, <2>7, <2>8, <2>9, <2>10, <2>11, <2>12, <2>13,
       <2>14, <2>15, <2>16, <2>17, <2>18, <2>19, <2>20, <2>21, <2>22, <2>23 DEF Next,
       Call, Shutdown, Listen, Read
<1> QED BY <1>1, <1>2, TInvHolds, PTL DEF Spec

(* No goroutine panics and the client does not shut down while the           *)
(* connection is up, in whatever order answers arrive and callers register.  *)
THEOREM NoPanicBeforeDisconnect == Spec => []NoPanicWhileConnected
<1>1. Init => BrokenFirst
  BY DEF Init, BrokenFirst
<1>2. TInv /\ BrokenFirst /\ [Next]_vars => BrokenFirst'
  <2> SUFFICES ASSUME TInv, BrokenFirst, [Next]_vars PROVE BrokenFirst'
    OBVIOUS
  <2> USE CallerAssumption
      DEF TInv, TypeOK, BrokenFirst, Goroutine, callVars, fieldVars, listenVars, readVars,
          netVars
  <2>1. ASSUME NEW c \in Caller, Begin(c) PROVE BrokenFirst'
    BY <2>1 DEF Begin, DrawId
  <2>2. ASSUME NEW c \in Caller, Send(c) PROVE BrokenFirst'
    BY <2>2 DEF Send
  <2>3. ASSUME NEW c \in Caller, SendPanics(c) PROVE BrokenFirst'
    BY <2>3 DEF SendPanics
  <2>4. ASSUME NEW c \in Caller, SendFails(c) PROVE BrokenFirst'
    BY <2>4 DEF SendFails, Enters
  <2>5. ASSUME NEW c \in Caller, Register(c) PROVE BrokenFirst'
    BY <2>5 DEF Register
  <2>6. ASSUME NEW c \in Caller, Return(c) PROVE BrokenFirst'
    BY <2>6 DEF Return, DeleteHandler
  <2>7. ASSUME NEW g \in Goroutine, CloseQuit(g) PROVE BrokenFirst'
    BY <2>7 DEF CloseQuit
  <2>8. ASSUME NEW g \in Goroutine, TestTransport(g) PROVE BrokenFirst'
    BY <2>8 DEF TestTransport
  <2>9. ASSUME NEW g \in Goroutine, CloseTransport(g) PROVE BrokenFirst'
    BY <2>9 DEF CloseTransport, Breaks
  <2>10. ASSUME NEW g \in Goroutine, ClearTransport(g) PROVE BrokenFirst'
    BY <2>10 DEF ClearTransport
  <2>11. ASSUME NEW g \in Goroutine, ClearHandlers(g) PROVE BrokenFirst'
    BY <2>11 DEF ClearHandlers, DropHandlers
  <2>12. ASSUME NEW r \in requests, Reply(r) PROVE BrokenFirst'
    BY <2>12 DEF Reply
  <2>13. CASE Disconnect
    BY <2>13 DEF Disconnect, Breaks
  <2>14. CASE ListenTop
    BY <2>14 DEF ListenTop
  <2>15. CASE ListenOperands
    BY <2>15 DEF ListenOperands
  <2>16. CASE ListenStops
    BY <2>16 DEF ListenStops
  <2>17. CASE TakeResponse
    BY <2>17 DEF TakeResponse
  <2>18. CASE ParsePanics
    BY <2>18 DEF ParsePanics
  <2>19. CASE Dispatch
    BY <2>19 DEF Dispatch, Addressee, Loop
  <2>20. CASE TakeError
    BY <2>20 DEF TakeError, Enters
  <2>21. CASE ReadLine
    BY <2>21 DEF ReadLine
  <2>22. CASE ReadFails
    BY <2>22 DEF ReadFails
  <2>23. CASE UNCHANGED vars
    BY <2>23 DEF vars
  <2> QED
    BY <2>1, <2>2, <2>3, <2>4, <2>5, <2>6, <2>7, <2>8, <2>9, <2>10, <2>11, <2>12, <2>13,
       <2>14, <2>15, <2>16, <2>17, <2>18, <2>19, <2>20, <2>21, <2>22, <2>23 DEF Next,
       Call, Shutdown, Listen, Read
<1>3. BrokenFirst => NoPanicWhileConnected
  BY DEF BrokenFirst, NoPanicWhileConnected
<1> QED BY <1>1, <1>2, <1>3, TInvHolds, PTL DEF Spec

-----------------------------------------------------------------------------
(* Where a request is.                                                       *)

\* What an answer or none can be.
LEMMA Messages ==
    ASSUME TypeOK
    PROVE  /\ NoAnswer.of = NoCaller /\ NoAnswer.id = 0 /\ NoAnswer.kind = "none"
           /\ \A m \in Answer : m.of \in Caller /\ m # NoAnswer /\ m.of # NoCaller
           /\ Elems(replies) \subseteq Answer
           /\ \A r \in requests : r.of \in Caller /\ r.id \in RequestId
           /\ \A c \in Caller : c # NoCaller
<1>1. \A m \in Answer : m.of \in Caller
  BY DEF Answer
<1>2. NoAnswer.of = NoCaller /\ NoAnswer.id = 0 /\ NoAnswer.kind = "none"
  BY DEF NoAnswer
<1>3. Elems(replies) \subseteq Answer
  BY LenProperties DEF TypeOK, Elems
<1>4. \A r \in requests : r.of \in Caller /\ r.id \in RequestId
  BY DEF TypeOK, Request
<1> QED BY <1>1, <1>2, <1>3, <1>4, CallerAssumption

\* A step that moves no message and no caller.
LEMMA PlacementUntouched ==
    ASSUME Placement, InHand', Taken',
           UNCHANGED <<pc, id, inbox, requests, replies, readMsg, listenMsg, lost, conn>>
    PROVE  Placement'
BY DEF Placement, OneAtATime, SentByWaiting, NoneForgotten, UnderWay

\* A call begins, or ends before anything was sent.
LEMMA PlacementIdle ==
    ASSUME TInv, Placement, NEW c \in Caller, Begin(c) \/ SendFails(c)
    PROVE  Placement'
<1> USE DEF TInv, TypeOK, Placement
<1>1. /\ pc[c] \in {"idle", "send"} /\ pc'[c] \in {"idle", "send"}
      /\ \A d \in Caller \ {c} : pc'[d] = pc[d] /\ id'[d] = id[d]
      /\ UNCHANGED <<inbox, readVars, listenVars, netVars>>
  BY DEF Begin, DrawId, SendFails
<1>2. InHand' /\ Taken' /\ OneAtATime'
  BY <1>1 DEF readVars, listenVars, netVars, InHand, Taken, OneAtATime
<1>3. /\ \A m \in requests \cup Elems(replies) \cup {readMsg, listenMsg} : m.of # c
      /\ inbox[c] = NoAnswer
  BY <1>1 DEF SentByWaiting
<1>4. SentByWaiting'
  <2>1. \A r \in requests : r.of \in Caller
    BY Messages
  <2> QED BY <1>1, <1>3, <2>1 DEF readVars, listenVars, netVars, SentByWaiting
<1>5. NoneForgotten'
  <2> SUFFICES ASSUME NEW d \in Caller, pc'[d] \in {"register", "wait"}, conn', d \notin lost'
               PROVE  UnderWay(d)'
    BY DEF NoneForgotten
  <2>1. d # c /\ UnderWay(d)
    BY <1>1 DEF listenVars, netVars, NoneForgotten
  <2> QED BY <1>1, <2>1 DEF readVars, listenVars, netVars, UnderWay
<1> QED BY <1>2, <1>4, <1>5

\* The request of a caller goes to the server.
LEMMA PlacementSend ==
    ASSUME TInv, Placement, NEW c \in Caller, Send(c)
    PROVE  Placement'
<1> USE DEF TInv, TypeOK, Placement
<1> DEFINE r == [id |-> id[c], of |-> c]
<1>1. /\ pc[c] = "send" /\ pc'[c] = "register"
      /\ \A d \in Caller \ {c} : pc'[d] = pc[d]
      /\ UNCHANGED <<id, inbox, readPc, readMsg, listenPc, listenMsg, lost, replies, conn>>
      /\ requests' = IF conn THEN requests \cup {r} ELSE requests
  BY DEF Send, readVars, listenVars
<1>2. /\ \A m \in requests \cup Elems(replies) \cup {readMsg, listenMsg} : m.of # c
      /\ inbox[c] = NoAnswer
  BY <1>1 DEF SentByWaiting
<1>3. r.of = c /\ r.id = id[c]
  OBVIOUS
<1> HIDE DEF r
<1>4. InHand' /\ Taken'
  BY <1>1 DEF InHand, Taken
<1>5. OneAtATime'
  <2>1. \A m \in requests' : m \in requests \/ m.of = c
    BY <1>1, <1>3
  <2> QED BY <1>1, <1>2, <2>1 DEF OneAtATime
<1>6. SentByWaiting'
  <2>1. \A m \in requests' : m \in requests \/ (m.of = c /\ m.id = id[c])
    BY <1>1, <1>3
  <2> QED BY <1>1, <1>2, <2>1 DEF SentByWaiting
<1>7. NoneForgotten'
  <2> SUFFICES ASSUME NEW d \in Caller, pc'[d] \in {"register", "wait"}, conn', d \notin lost'
               PROVE  UnderWay(d)'
    BY DEF NoneForgotten
  <2>1. CASE d = c
    BY <1>1, <2>1 DEF UnderWay, r
  <2>2. CASE d # c
    <3>1. UnderWay(d)
      BY <1>1, <2>2 DEF NoneForgotten
    <3> QED BY <1>1, <3>1 DEF UnderWay
  <2> QED BY <2>1, <2>2
<1> QED BY <1>4, <1>5, <1>6, <1>7

\* A caller registers its channel.
LEMMA PlacementRegister ==
    ASSUME TInv, Placement, NEW c \in Caller, Register(c)
    PROVE  Placement'
<1> USE DEF TInv, TypeOK, Placement
<1>1. /\ pc[c] = "register" /\ pc'[c] \in {"register", "wait"}
      /\ \A d \in Caller \ {c} : pc'[d] = pc[d]
      /\ UNCHANGED <<id, inbox, readPc, readMsg, listenPc, listenMsg, lost, netVars>>
  BY DEF Register, readVars, listenVars
<1>2. InHand' /\ Taken' /\ OneAtATime'
  BY <1>1 DEF netVars, InHand, Taken, OneAtATime
<1>3. SentByWaiting'
  BY <1>1 DEF netVars, SentByWaiting
<1>4. NoneForgotten'
  <2> SUFFICES ASSUME NEW d \in Caller, pc'[d] \in {"register", "wait"}, conn', d \notin lost'
               PROVE  UnderWay(d)'
    BY DEF NoneForgotten
  <2>1. UnderWay(d)
    BY <1>1 DEF netVars, NoneForgotten
  <2> QED BY <1>1, <2>1 DEF netVars, UnderWay
<1> QED BY <1>2, <1>3, <1>4

\* A caller takes its answer and returns: nothing else of it is on its way.
LEMMA PlacementReturn ==
    ASSUME TInv, Placement, NEW c \in Caller, Return(c)
    PROVE  Placement'
<1> USE DEF TInv, TypeOK, Placement
<1>1. /\ pc[c] = "wait" /\ inbox[c] # NoAnswer
      /\ pc'[c] = "idle" /\ inbox'[c] = NoAnswer
      /\ \A d \in Caller \ {c} : pc'[d] = pc[d] /\ inbox'[d] = inbox[d]
      /\ UNCHANGED <<id, readPc, readMsg, listenPc, listenMsg, lost, netVars>>
  BY DEF Return, readVars, listenVars
<1>2. \A m \in requests \cup Elems(replies) \cup {readMsg, listenMsg} : m.of # c
  BY <1>1 DEF OneAtATime
<1>3. InHand' /\ Taken'
  BY <1>1 DEF InHand, Taken
<1>4. OneAtATime'
  <2>1. \A m \in requests \cup Elems(replies) : m.of \in Caller
    BY Messages
  <2> QED BY <1>1, <1>2, <2>1 DEF netVars, OneAtATime
<1>5. SentByWaiting'
  BY <1>1, <1>2 DEF netVars, SentByWaiting
<1>6. NoneForgotten'
  <2> SUFFICES ASSUME NEW d \in Caller, pc'[d] \in {"register", "wait"}, conn', d \notin lost'
               PROVE  UnderWay(d)'
    BY DEF NoneForgotten
  <2>1. d # c /\ UnderWay(d)
    BY <1>1 DEF netVars, NoneForgotten
  <2> QED BY <1>1, <2>1 DEF netVars, UnderWay
<1> QED BY <1>3, <1>4, <1>5, <1>6

\* The server answers.
LEMMA PlacementReply ==
    ASSUME TInv, Placement, NEW r \in requests, Reply(r)
    PROVE  Placement'
<1> USE DEF TInv, TypeOK, Placement
<1>1. PICK i \in {0, r.id}, kind \in {"answer", "badCode"} :
          replies' = Append(replies, [id |-> i, of |-> r.of, kind |-> kind])
  BY DEF Reply
<1> DEFINE a == [id |-> i, of |-> r.of, kind |-> kind]
<1>2. a \in Answer /\ a.of = r.of /\ a.id \in {0, r.id}
  BY CallerAssumption DEF Request, Answer, RequestId
<1> HIDE DEF a
<1>3. replies' = Append(replies, a)
  BY <1>1 DEF a
<1>4. /\ requests' = requests \ {r}
      /\ UNCHANGED <<pc, id, inbox, readPc, readMsg, listenPc, listenMsg, lost, conn>>
  BY DEF Reply, callVars, readVars, listenVars
<1>5. /\ Elems(replies') = Elems(replies) \cup {a}
      /\ \A k, l \in 1..Len(replies') : replies'[k].of = replies'[l].of => k = l
  <2>1. \A m \in Elems(replies) : m.of # a.of
    BY <1>2 DEF OneAtATime
  <2>2. \A k, l \in 1..Len(replies) : replies[k].of = replies[l].of => k = l
    BY DEF OneAtATime
  <2>3. replies \in Seq(Answer)
    OBVIOUS
  <2> HIDE DEF TInv, TypeOK, Placement
  <2> QED BY <1>2, <1>3, <2>1, <2>2, <2>3, ListGrows
<1>6. InHand' /\ Taken'
  BY <1>4 DEF InHand, Taken
<1>7. \A s \in requests : s.of = r.of => s = r
  <2>1. \A s, t \in Request : s.id = t.id /\ s.of = t.of => s = t
    <3> HIDE DEF TInv, TypeOK, Placement
    <3> QED BY DEF Request
  <2>2. \A s \in requests : s \in Request /\ s.id = id[s.of]
    BY DEF SentByWaiting
  <2> HIDE DEF TInv, TypeOK, Placement
  <2> QED BY <2>1, <2>2
<1>8. OneAtATime'
  <2>1. \A s \in requests', m \in Elems(replies') : s.of # m.of
    BY <1>2, <1>4, <1>5, <1>7 DEF OneAtATime
  <2>2. \A m \in requests' \cup Elems(replies') : \E n \in requests \cup Elems(replies) : m.of = n.of
    BY <1>2, <1>4, <1>5
  <2>3. \A m \in requests' \cup Elems(replies') :
            m.of # readMsg'.of /\ m.of # listenMsg'.of /\ inbox'[m.of] = NoAnswer
    <3> SUFFICES ASSUME NEW m \in requests' \cup Elems(replies')
                 PROVE  m.of # readMsg.of /\ m.of # listenMsg.of /\ inbox[m.of] = NoAnswer
      BY <1>4
    <3>1. PICK n \in requests \cup Elems(replies) : m.of = n.of
      BY <2>2
    <3> QED BY <3>1 DEF OneAtATime
  <2> QED BY <1>4, <1>5, <2>1, <2>3 DEF OneAtATime
<1>9. SentByWaiting'
  <2>1. \A c \in Caller : a.of = c => pc[c] \in {"register", "wait"} /\ a.id \in {0, id[c]}
    <3>1. r.id = id[r.of] /\ \A c \in Caller : r.of = c => pc[c] \in {"register", "wait"}
      BY DEF SentByWaiting
    <3> HIDE DEF TInv, TypeOK, Placement
    <3> QED BY <1>2, <3>1
  <2> QED BY <1>4, <1>5, <2>1 DEF SentByWaiting
<1>10. NoneForgotten'
  <2> SUFFICES ASSUME NEW d \in Caller, pc'[d] \in {"register", "wait"}, conn', d \notin lost'
               PROVE  UnderWay(d)'
    BY DEF NoneForgotten
  <2>1. UnderWay(d)
    BY <1>4 DEF NoneForgotten
  <2>2. CASE [id |-> id[d], of |-> d] = r
    BY <1>2, <1>4, <1>5, <2>2 DEF UnderWay
  <2>3. CASE [id |-> id[d], of |-> d] # r
    BY <1>4, <1>5, <2>1, <2>3 DEF UnderWay
  <2> QED BY <2>2, <2>3
<1> QED BY <1>6, <1>8, <1>9, <1>10

\* The connection breaks, and what was under way with it.
LEMMA PlacementBreaks ==
    ASSUME TInv, Placement, Breaks,
           UNCHANGED <<pc, id, inbox, readPc, readMsg, listenPc, listenMsg, lost>>
    PROVE  Placement'
<1>1. requests' = {} /\ ~conn' /\ (replies' = replies \/ replies' = <<>>)
  BY DEF Breaks
<1>2. Elems(replies') \subseteq Elems(replies)
  <2>1. CASE replies' = <<>>
    BY <2>1 DEF Elems
  <2> QED BY <1>1, <2>1
<1>3. \A i, j \in 1..Len(replies') : replies'[i].of = replies'[j].of => i = j
  <2>1. CASE replies' = <<>>
    <3>1. Len(replies') = 0
      BY <2>1
    <3> QED BY <3>1
  <2> QED BY <1>1, <2>1 DEF Placement, OneAtATime
<1>4. InHand' /\ Taken' /\ NoneForgotten'
  BY <1>1 DEF Placement, InHand, Taken, NoneForgotten
<1>5. OneAtATime'
  BY <1>1, <1>2, <1>3 DEF Placement, OneAtATime
<1>6. SentByWaiting'
  BY <1>1, <1>2 DEF Placement, SentByWaiting
<1> QED BY <1>4, <1>5, <1>6 DEF Placement

\* The reader takes an answer off the wire.
LEMMA PlacementRead ==
    ASSUME TInv, Placement, ReadLine
    PROVE  Placement'
<1> USE DEF TInv, TypeOK, Placement
<1>1. /\ readPc = "read" /\ replies # <<>> /\ readMsg' = Head(replies)
      /\ replies' = Tail(replies) /\ readPc' = "respond"
      /\ UNCHANGED <<pc, id, inbox, listenPc, listenMsg, lost, conn, requests>>
  BY DEF ReadLine, callVars, listenVars
<1>2. /\ readMsg' \in Answer /\ Elems(replies) = Elems(replies') \cup {readMsg'}
      /\ \A m \in Elems(replies') : m.of # readMsg'.of
      /\ \A i, j \in 1..Len(replies') : replies'[i].of = replies'[j].of => i = j
  <2>1. \A k, l \in 1..Len(replies) : replies[k].of = replies[l].of => k = l
    BY DEF OneAtATime
  <2> QED BY <1>1, <2>1, ListShrinks
<1>3. readMsg = NoAnswer
  BY <1>1 DEF InHand
<1>4. InHand' /\ Taken'
  BY <1>1 DEF InHand, Taken
<1>5. OneAtATime'
  <2>1. \A m \in requests : m.of # readMsg'.of
    BY <1>2 DEF OneAtATime
  <2>2. readMsg'.of # listenMsg.of /\ inbox[readMsg'.of] = NoAnswer
    BY <1>2 DEF OneAtATime
  <2> QED BY <1>1, <1>2, <2>1, <2>2 DEF OneAtATime
<1>6. SentByWaiting'
  BY <1>1, <1>2 DEF SentByWaiting
<1>7. NoneForgotten'
  <2> SUFFICES ASSUME NEW d \in Caller, pc'[d] \in {"register", "wait"}, conn', d \notin lost'
               PROVE  UnderWay(d)'
    BY DEF NoneForgotten
  <2>1. UnderWay(d)
    BY <1>1 DEF NoneForgotten
  <2>2. NoAnswer.of # d
    BY Messages
  <2> QED BY <1>1, <1>2, <1>3, <2>1, <2>2 DEF UnderWay
<1> QED BY <1>4, <1>5, <1>6, <1>7

\* The listener takes it from the reader.
LEMMA PlacementTake ==
    ASSUME TInv, Placement, TakeResponse
    PROVE  Placement'
<1> USE DEF TInv, TypeOK, Placement
<1>1. /\ listenPc = "select" /\ listenMsg' = readMsg /\ listenPc' = "dispatch"
      /\ readPc' = "read" /\ readMsg' = NoAnswer
      /\ UNCHANGED <<pc, id, inbox, lost, conn, requests, replies>>
  BY DEF TakeResponse, callVars, netVars
<1>2. listenMsg = NoAnswer
  BY <1>1 DEF Taken
<1>3. /\ NoAnswer.of = NoCaller /\ NoAnswer.id = 0 /\ \A c \in Caller : c # NoCaller
      /\ \A m \in requests \cup Elems(replies) : m.of \in Caller
  BY Messages
<1>4. InHand' /\ Taken'
  BY <1>1 DEF InHand, Taken
<1>5. OneAtATime'
  BY <1>1, <1>2, <1>3 DEF OneAtATime
<1>6. SentByWaiting'
  BY <1>1, <1>2, <1>3 DEF SentByWaiting
<1>7. NoneForgotten'
  BY <1>1, <1>2, <1>3 DEF NoneForgotten, UnderWay
<1> QED BY <1>4, <1>5, <1>6, <1>7

\* The listener finds only the caller the answer is for, or none.
LEMMA AddresseeIsOwner ==
    ASSUME TInv, HandlersMatchWaiters, Placement, NEW c \in Addressee
    PROVE  /\ c \in Caller /\ c = listenMsg.of /\ pc[c] = "wait" /\ id[c] = listenMsg.id
           /\ inbox[c] = NoAnswer
<1> USE DEF TInv, TypeOK, Placement
<1>1. c \in Caller /\ listenMsg.id \in RequestId /\ handlers[listenMsg.id] = c
  BY DEF Addressee
<1>2. ~dropped
  BY <1>1, Messages, CallerAssumption DEF NoHandlers
<1>3. pc[c] = "wait" /\ id[c] = listenMsg.id
  BY <1>1, <1>2 DEF HandlersMatchWaiters
<1>4. listenMsg.id # 0
  BY <1>1, CallerAssumption DEF RequestId
<1>5. listenMsg \in Answer /\ listenMsg.of \in Caller
  BY <1>4, Messages
<1>6. listenMsg.id = id[listenMsg.of]
  BY <1>4, <1>5 DEF SentByWaiting
<1>7. c = listenMsg.of
  BY <1>1, <1>3, <1>4, <1>5, <1>6 DEF IdsDistinct
<1> QED BY <1>1, <1>3, <1>7 DEF OneAtATime

\* The listener puts it into the channel of its caller, or drops it.
LEMMA PlacementDispatch ==
    ASSUME TInv, HandlersMatchWaiters, Placement, Dispatch
    PROVE  Placement'
<1> USE DEF TInv, TypeOK, Placement
<1>1. /\ listenPc = "dispatch" /\ listenMsg.kind = "answer"
      /\ listenMsg' = NoAnswer /\ listenPc' = "top"
      /\ inbox' = [c \in Caller |-> IF c \in Addressee THEN listenMsg ELSE inbox[c]]
      /\ lost' = IF Addressee = {} THEN lost \cup {listenMsg.of} ELSE lost
      /\ UNCHANGED <<pc, id, conn, requests, replies, readPc, readMsg>>
  BY DEF Dispatch, Loop, readVars, netVars
<1>2. /\ NoAnswer.of = NoCaller /\ NoAnswer.id = 0 /\ NoAnswer.kind = "none"
      /\ \A c \in Caller : c # NoCaller
      /\ \A m \in requests \cup Elems(replies) : m.of \in Caller
      /\ listenMsg.of \in Caller
  BY <1>1, Messages
<1>3. \A c \in Addressee : /\ c \in Caller /\ c = listenMsg.of /\ pc[c] = "wait"
                            /\ id[c] = listenMsg.id
  BY AddresseeIsOwner
<1>4. \A c \in Caller : inbox'[c] = inbox[c] \/ (c = listenMsg.of /\ inbox'[c] = listenMsg)
  BY <1>1, <1>3
<1>5. InHand' /\ Taken'
  BY <1>1 DEF InHand, Taken
<1>6. OneAtATime'
  BY <1>1, <1>2, <1>4 DEF OneAtATime
<1>7. SentByWaiting'
  <2>1. ASSUME NEW c \in Caller, inbox'[c] # NoAnswer
        PROVE  inbox'[c].of = c /\ inbox'[c].id = id[c] /\ pc[c] = "wait"
    <3>1. CASE c \in Addressee
      BY <1>1, <1>3, <3>1
    <3>2. CASE c \notin Addressee
      BY <1>1, <2>1, <3>2 DEF SentByWaiting
    <3> QED BY <3>1, <3>2
  <2> QED BY <1>1, <1>2, <2>1 DEF SentByWaiting
<1>8. NoneForgotten'
  <2> SUFFICES ASSUME NEW d \in Caller, pc'[d] \in {"register", "wait"}, conn', d \notin lost'
               PROVE  UnderWay(d)'
    BY DEF NoneForgotten
  <2>1. UnderWay(d)
    BY <1>1 DEF NoneForgotten
  <2>2. CASE listenMsg.of = d
    <3>1. PICK c \in Addressee : TRUE
      BY <1>1, <2>2
    <3>2. inbox'[d].of = d
      BY <1>1, <1>3, <2>2, <3>1
    <3> QED BY <3>2 DEF UnderWay
  <2>3. CASE listenMsg.of # d
    BY <1>1, <1>4, <2>1, <2>3 DEF UnderWay
  <2> QED BY <2>2, <2>3
<1> QED BY <1>5, <1>6, <1>7, <1>8

\* No step puts a request in two places, or leaves it without its caller.
LEMMA PlacementHolds == Spec => []Placement
<1>1. Init => Placement
  <2> SUFFICES ASSUME Init PROVE Placement
    OBVIOUS
  <2>1. Elems(replies) = {} /\ Len(replies) = 0
    BY DEF Init, Elems
  <2>2. NoAnswer.of = NoCaller
    BY DEF NoAnswer
  <2> QED
    BY <2>1, <2>2, CallerAssumption
       DEF Init, Placement, InHand, Taken, OneAtATime, SentByWaiting, NoneForgotten
<1>2. TInv /\ HandlersMatchWaiters /\ Placement /\ [Next]_vars => Placement'
  <2> SUFFICES ASSUME TInv, HandlersMatchWaiters, Placement, [Next]_vars PROVE Placement'
    OBVIOUS
  <2>1. CASE \/ \E c \in Caller : SendPanics(c)
             \/ \E g \in Goroutine : CloseQuit(g) \/ TestTransport(g) \/ ClearTransport(g)
                                      \/ ClearHandlers(g)
             \/ ListenTop \/ ListenOperands \/ ListenStops \/ ParsePanics \/ TakeError
             \/ ReadFails \/ UNCHANGED vars
    <3>1. UNCHANGED <<pc, id, inbox, requests, replies, readMsg, listenMsg, lost, conn>>
      BY <2>1 DEF SendPanics, CloseQuit, TestTransport, ClearTransport, ClearHandlers,
         ListenTop,
         ListenOperands, ListenStops, ParsePanics, TakeError, ReadFails, vars, callVars,
         listenVars, readVars, netVars
    <3>2. (readPc' = readPc \/ readPc # "respond") /\ (listenPc' = listenPc \/ listenPc # "dispatch")
      BY <2>1 DEF SendPanics, CloseQuit, TestTransport, ClearTransport, ClearHandlers,
         ListenTop,
         ListenOperands, ListenStops, ParsePanics, TakeError, ReadFails, vars, callVars,
         listenVars, readVars, netVars
    <3>3. InHand' /\ Taken'
      BY <3>1, <3>2 DEF Placement, InHand, Taken
    <3> QED BY <3>1, <3>3, PlacementUntouched
  <2>2. ASSUME NEW c \in Caller, Begin(c) \/ Call(c) PROVE Placement'
    BY <2>1, <2>2, PlacementIdle, PlacementSend, PlacementRegister, PlacementReturn DEF Call
  <2>3. ASSUME NEW g \in Goroutine, Shutdown(g) PROVE Placement'
    <3>1. CASE CloseTransport(g)
      <4>1. UNCHANGED <<pc, id, inbox, readPc, readMsg, listenPc, listenMsg, lost>>
        BY <3>1 DEF CloseTransport, callVars, readVars, listenVars
      <4>2. Breaks \/ UNCHANGED netVars
        BY <3>1 DEF CloseTransport
      <4>3. CASE UNCHANGED netVars
        <5>1. InHand' /\ Taken'
          BY <4>1 DEF Placement, InHand, Taken
        <5> QED BY <4>1, <4>3, <5>1, PlacementUntouched DEF netVars
      <4> QED BY <4>1, <4>2, <4>3, PlacementBreaks
    <3> QED BY <2>1, <2>3, <3>1 DEF Shutdown
  <2>4. CASE Disconnect
    BY <2>4, PlacementBreaks DEF Disconnect, callVars, readVars, listenVars
  <2> QED
    BY <2>1, <2>2, <2>3, <2>4, PlacementReply, PlacementRead, PlacementTake,
       PlacementDispatch
       DEF Next, Listen, Read
<1> QED BY <1>1, <1>2, TInvHolds, NoChannelLeaks, PTL DEF Spec

(* What a caller finds in its channel answers the request it waits for, and  *)
(* while the connection is up every caller that waits has its request or its *)
(* answer on the way, but for the answers the listener had to drop.          *)
THEOREM AnswersFindTheirCallers == Spec => []AnswersAwaited
<1>1. Placement => AnswersAwaited
  BY DEF Placement, SentByWaiting, NoneForgotten, AnswersAwaited
<1> QED BY <1>1, PlacementHolds, PTL
=============================================================================
