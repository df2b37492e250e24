--------------------------- MODULE ZmqSubscriberProofs ---------------------------
(***************************************************************************)
(* Proofs about the way of a transaction to the monitor, for any bounds of *)
(* ZmqSubscriber, whatever breaks, is dialled again or is restarted.       *)
(*                                                                         *)
(* No connection is left silent: once the web server runs, the goroutine   *)
(* receives only on connections whose publisher was told the topic.  This  *)
(* alone is not inductive: that the topic was asked for on a connection    *)
(* follows from the subscription being registered when the connection was  *)
(* dialled, and that it was follows from how main got past its receive on  *)
(* done (ZInv).                                                            *)
(*                                                                         *)
(* Transactions arrive in order and once, which is part of TypeOK.  What   *)
(* was received, what is held and what is unread are kept apart, each      *)
(* newer than the one before it (Flow), and put together at the end        *)
(* (FlowInOrder).                                                          *)
(***************************************************************************)
EXTENDS ZmqSubscriber, SequenceTheorems, TLAPS

\* main gets past InitTxMonitor only after the subscription is registered.
WebSubscribed == main = "web" => subscribed

\* Between two dials a registered subscription has been asked for.
Asked == pc \in {"select", "recv", "deliver"} /\ link = "open" /\ subscribed
            => topic # "none"

ZInv == WebSubscribed /\ Asked

-----------------------------------------------------------------------------
\* Before the start nothing listens.
LEMMA InitZInv == Init => ZInv
BY DEF Init, ZInv, WebSubscribed, Asked

\* Every step of main, of the goroutine, of the publisher and of the network
\* keeps both parts.
LEMMA NextZInv == ZInv /\ [Next]_vars => ZInv'
<1> SUFFICES ASSUME ZInv, [Next]_vars PROVE ZInv'
    OBVIOUS
<1> USE DEF ZInv, WebSubscribed, Asked
<1>1. CASE InitDependencies
    BY <1>1 DEF InitDependencies, netVars
<1>2. CASE Subscribe
    BY <1>2 DEF Subscribe, netVars
<1>3. CASE Dial
    BY <1>3 DEF Dial
<1>4. CASE DialFails \/ Wake
    BY <1>4 DEF DialFails, Wake, netVars
<1>5. CASE Resubscribe
    BY <1>5 DEF Resubscribe, Known, Ask
<1>6. CASE ResubscribeFails
    BY <1>6 DEF ResubscribeFails, netVars
<1>7. CASE AddSubscription
    BY <1>7 DEF AddSubscription, Ask, Done
<1>8. CASE Default
    BY <1>8 DEF Default, netVars
<1>9. CASE Recv \/ RecvFails
    BY <1>9 DEF Recv, RecvFails, AfterError
<1>10. CASE Deliver \/ Processed
    BY <1>10 DEF Deliver, Processed, netVars
<1>11. CASE Mock \/ Publish \/ Create
    <2>1. UNCHANGED <<main, subscribed, pc, link, topic>>
        BY <1>11 DEF Mock, MockPublish, MockRefuses, Publish, Create, appVars
    <2> QED
        BY <2>1
<1>12. CASE TakeTopic \/ Listen
    BY <1>12 DEF TakeTopic, Listen, appVars
<1>13. CASE Outage
    BY <1>13 DEF Outage, Break, appVars
<1>14. CASE Restart
    BY <1>14 DEF Restart
<1>15. CASE UNCHANGED vars
    BY <1>15 DEF vars, appVars, netVars
<1> QED
    BY <1>1, <1>2, <1>3, <1>4, <1>5, <1>6, <1>7, <1>8, <1>9, <1>10, <1>11,
       <1>12, <1>13, <1>14, <1>15 DEF Next, Main, Goroutine

-----------------------------------------------------------------------------
(* The types, and that transactions arrive in order and once.                *)

ControlTypes ==
    /\ main \in {"boot", "subscribe", "waiting", "web"}
    /\ pc \in {"off", "dial", "sleep", "resubscribe", "select", "recv", "deliver", "dead"}
    /\ form \in {"none", "transaction", "not hex"}
    /\ link \in {"none", "open", "broken"} /\ topic \in {"none", "asked", "set"}
    /\ sent \in 0..MaxTx /\ outages \in 0..MaxOutages /\ restarts \in 0..MaxRestarts
    /\ main = "boot" => pc = "off"
    /\ form # "none" => mock /\ sent < MaxTx

Flags == /\ request \in BOOLEAN /\ subscribed \in BOOLEAN /\ busy \in BOOLEAN
         /\ mock \in BOOLEAN /\ up \in BOOLEAN

\* Of what was taken, what is handed over and what is unread, each is newer
\* than the one before, and the end of file comes last.
Taken ==
    /\ received \in Seq(Nat)
    /\ \A i \in 1..Len(received) :
          /\ received[i] \in 1..sent
          /\ held # EndOfFile => received[i] < held
          /\ \A j \in 1..Len(received) : i < j => received[i] < received[j]

Held == held \in 0..sent /\ (pc = "deliver" <=> held # EndOfFile)

Queued ==
    /\ wire \in Seq(Nat)
    /\ \A i \in 1..Len(wire) :
          /\ wire[i] = EndOfFile <=> (link = "broken" /\ i = Len(wire))
          /\ wire[i] \in 0..sent
          /\ wire[i] # EndOfFile =>
                /\ \A j \in 1..Len(received) : received[j] < wire[i]
                /\ held # EndOfFile => held < wire[i]
                /\ \A j \in 1..Len(wire) : j < i => wire[j] < wire[i]

Flow == sent \in Nat /\ Taken /\ Held /\ Queued

\* Before the start nothing flows.
LEMMA InitFlow == Init => ControlTypes /\ Flags /\ Flow
<1> SUFFICES ASSUME Init PROVE ControlTypes /\ Flags /\ Flow
    OBVIOUS
<1>1. ControlTypes
    BY BoundsAssumption DEF Init, ControlTypes
<1>2. Flags
    <2>1. up \in BOOLEAN
        BY Zenon DEF Init
    <2>2. mock \in BOOLEAN /\ request \in BOOLEAN /\ subscribed \in BOOLEAN /\ busy \in BOOLEAN
        BY Zenon DEF Init
    <2> QED
        BY <2>1, <2>2 DEF Flags
<1>3. /\ sent = 0 /\ received = <<>> /\ wire = <<>> /\ held = EndOfFile /\ pc = "off"
      /\ Len(received) = 0 /\ Len(wire) = 0
    BY DEF Init
<1>4. Flow
    BY <1>3 DEF Flow, Taken, Held, Queued, EndOfFile
<1> QED
    BY <1>1, <1>2, <1>4

-----------------------------------------------------------------------------
\* Steps that move no transaction.
LEMMA FlowStays ==
    ASSUME Flow, UNCHANGED <<received, held, wire, sent, link>>,
           pc' = "deliver" <=> pc = "deliver"
    PROVE  Flow'
BY DEF Flow, Taken, Held, Queued

\* A new socket, a closed one, a new process: what was unread is gone.
LEMMA FlowDropped ==
    ASSUME Flow, UNCHANGED <<received, sent>>, wire' = <<>>,
           held' = EndOfFile, pc' # "deliver"
    PROVE  Flow'
<1>1. Len(wire') = 0 /\ wire' \in Seq(Nat)
    OBVIOUS
<1> QED
    BY <1>1 DEF Flow, Taken, Held, Queued, EndOfFile

\* Recv takes the oldest transaction in hand.
LEMMA FlowRecv == ASSUME Flow, Recv PROVE Flow'
<1>1. /\ wire # <<>> /\ wire' = Tail(wire) /\ held' = Head(wire) /\ Head(wire) # EndOfFile
      /\ pc = "recv" /\ pc' = "deliver" /\ UNCHANGED <<received, sent, link>>
    BY DEF Recv
<1>2. wire \in Seq(Nat) /\ Len(wire) \in Nat
    BY LenProperties DEF Flow, Queued
<1>3. /\ Head(wire) = wire[1] /\ Len(wire) > 0 /\ wire' \in Seq(Nat)
      /\ Len(wire') = Len(wire) - 1
      /\ \A i \in 1..Len(wire') : wire'[i] = wire[i + 1]
    <2>1. /\ Head(wire) \in Nat /\ Tail(wire) \in Seq(Nat)
          /\ Len(Tail(wire)) = Len(wire) - 1
          /\ \A i \in 1..Len(Tail(wire)) : Tail(wire)[i] = wire[i + 1]
        BY <1>1, <1>2, HeadTailProperties
    <2>2. Len(wire) > 0
        BY <1>1, <1>2, EmptySeq
    <2> QED
        BY <1>1, <1>2, <2>1, <2>2
<1>4. held = EndOfFile
    BY <1>1 DEF Flow, Held
<1>5. 1 \in 1..Len(wire) /\ wire[1] # EndOfFile
    BY <1>1, <1>2, <1>3
<1>6. Taken' /\ Held'
    BY <1>1, <1>2, <1>3, <1>5 DEF Flow, Taken, Held, Queued
<1>7. ASSUME NEW i \in 1..Len(wire')
      PROVE  /\ wire'[i] = EndOfFile <=> (link' = "broken" /\ i = Len(wire'))
             /\ wire'[i] \in 0..sent'
             /\ wire'[i] # EndOfFile =>
                   /\ \A j \in 1..Len(received') : received'[j] < wire'[i]
                   /\ held' # EndOfFile => held' < wire'[i]
                   /\ \A j \in 1..Len(wire') : j < i => wire'[j] < wire'[i]
    <2>1. /\ wire'[i] = wire[i + 1] /\ i + 1 \in 1..Len(wire) /\ 1 < i + 1
          /\ i = Len(wire') <=> i + 1 = Len(wire)
        BY <1>2, <1>3
    <2>2. \A j \in 1..Len(wire') : wire'[j] = wire[j + 1] /\ j + 1 \in 1..Len(wire)
        BY <1>2, <1>3
    <2>3. /\ wire[i + 1] = EndOfFile <=> (link = "broken" /\ i + 1 = Len(wire))
          /\ wire[i + 1] \in 0..sent
          /\ wire[i + 1] # EndOfFile =>
                /\ \A j \in 1..Len(received) : received[j] < wire[i + 1]
                /\ \A j \in 1..Len(wire) : j < i + 1 => wire[j] < wire[i + 1]
        BY <2>1 DEF Flow, Queued
    <2>4. wire'[i] = EndOfFile <=> (link' = "broken" /\ i = Len(wire'))
        BY <1>1, <2>1, <2>3
    <2>5. wire'[i] # EndOfFile => \A j \in 1..Len(wire') : j < i => wire'[j] < wire'[i]
        <3> SUFFICES ASSUME wire'[i] # EndOfFile, NEW j \in 1..Len(wire'), j < i
                     PROVE  wire'[j] < wire'[i]
            OBVIOUS
        <3>1. j + 1 < i + 1 /\ j + 1 \in 1..Len(wire) /\ wire'[j] = wire[j + 1]
            BY <1>2, <1>3, <2>2
        <3> QED
            BY <2>1, <2>3, <3>1
    <2>6. wire'[i] # EndOfFile => held' < wire'[i]
        BY <1>1, <1>3, <1>5, <2>1, <2>3
    <2> QED
        BY <1>1, <2>1, <2>3, <2>4, <2>5, <2>6
<1>8. Queued'
    BY <1>3, <1>7 DEF Queued
<1> QED
    BY <1>1, <1>6, <1>8 DEF Flow

\* The hand-over makes it the last one delivered.
LEMMA FlowDeliver == ASSUME Flow, Deliver PROVE Flow'
<1>1. /\ received' = Append(received, held) /\ held' = EndOfFile
      /\ pc = "deliver" /\ pc' = "select" /\ UNCHANGED <<wire, sent, link>>
    BY DEF Deliver, netVars
<1>2. held \in 1..sent /\ held # EndOfFile /\ sent \in Nat /\ held \in Nat
    BY <1>1 DEF Flow, Held, EndOfFile
<1>3. received \in Seq(Nat) /\ Len(received) \in Nat
    BY LenProperties DEF Flow, Taken
<1>4. /\ received' \in Seq(Nat) /\ Len(received') = Len(received) + 1
      /\ \A i \in 1..Len(received) : received'[i] = received[i]
      /\ received'[Len(received) + 1] = held
    BY <1>1, <1>2, <1>3, AppendProperties
<1>5. \A i \in 1..Len(received') : i \in 1..Len(received) \/ i = Len(received) + 1
    BY <1>3, <1>4
<1>6. Taken'
    BY <1>1, <1>2, <1>3, <1>4, <1>5 DEF Flow, Taken
<1>7. Held'
    BY <1>1, <1>2 DEF Flow, Held, EndOfFile
<1>8. Queued'
    BY <1>1, <1>2, <1>4, <1>5 DEF Flow, Queued
<1> QED
    BY <1>1, <1>6, <1>7, <1>8 DEF Flow

\* What is published is newer than what is under way.
LEMMA FlowPublish ==
    ASSUME Flow, PublishTo, UNCHANGED <<received, held, pc, link>>
    PROVE  Flow'
<1>1. sent \in Nat /\ sent' = sent + 1 /\ wire \in Seq(Nat) /\ Len(wire) \in Nat
    BY LenProperties DEF PublishTo, Flow, Queued
<1>2. Taken' /\ Held'
    BY <1>1 DEF Flow, Taken, Held
<1>3. CASE wire' = wire
    BY <1>1, <1>2, <1>3 DEF Flow, Queued
<1>4. CASE link = "open" /\ wire' = Append(wire, sent + 1)
    <2>1. /\ wire' \in Seq(Nat) /\ Len(wire') = Len(wire) + 1
          /\ \A i \in 1..Len(wire) : wire'[i] = wire[i]
          /\ wire'[Len(wire) + 1] = sent + 1
        BY <1>1, <1>4, AppendProperties
    <2>2. \A i \in 1..Len(wire') : i \in 1..Len(wire) \/ i = Len(wire) + 1
        BY <1>1, <2>1
    <2>3. \A j \in 1..Len(received) : received[j] < sent + 1
        BY <1>1 DEF Flow, Taken
    <2>4. held < sent + 1 /\ sent + 1 # EndOfFile
        BY <1>1 DEF Flow, Held, EndOfFile
    <2>5. \A j \in 1..Len(wire) : wire[j] < sent + 1 /\ wire[j] # EndOfFile
        BY <1>1, <1>4 DEF Flow, Queued
    <2>6. ASSUME NEW i \in 1..Len(wire')
          PROVE  /\ wire'[i] = EndOfFile <=> (link' = "broken" /\ i = Len(wire'))
                 /\ wire'[i] \in 0..sent'
                 /\ wire'[i] # EndOfFile =>
                       /\ \A j \in 1..Len(received') : received'[j] < wire'[i]
                       /\ held' # EndOfFile => held' < wire'[i]
                       /\ \A j \in 1..Len(wire') : j < i => wire'[j] < wire'[i]
        <3>1. CASE i \in 1..Len(wire)
            <4>1. \A j \in 1..Len(wire') : j < i => j \in 1..Len(wire)
                BY <1>1, <2>1, <3>1
            <4> QED
                BY <1>1, <1>4, <2>1, <2>5, <3>1, <4>1 DEF Flow, Queued
        <3>2. CASE i = Len(wire) + 1
            <4>1. \A j \in 1..Len(wire') : j < i => j \in 1..Len(wire)
                BY <1>1, <2>1, <3>2
            <4> QED
                BY <1>1, <1>4, <2>1, <2>3, <2>4, <2>5, <3>2, <4>1
        <3> QED
            BY <2>2, <3>1, <3>2
    <2> QED
        BY <1>1, <1>2, <2>1, <2>6 DEF Flow, Queued
<1> QED
    BY <1>3, <1>4 DEF PublishTo

\* A connection that breaks ends what can be read.
LEMMA FlowBreak ==
    ASSUME Flow, Break, UNCHANGED <<received, held, pc, sent>>
    PROVE  Flow'
<1>1. CASE link # "open"
    BY <1>1, FlowStays DEF Break
<1>2. CASE link = "open"
    <2>1. PICK n \in 0..Len(wire) :
              wire' = Append(SubSeq(wire, 1, n), EndOfFile) /\ link' = "broken"
        BY <1>2 DEF Break
    <2>2. wire \in Seq(Nat) /\ Len(wire) \in Nat /\ n \in Nat /\ n <= Len(wire)
        BY LenProperties DEF Flow, Queued
    <2>3. /\ SubSeq(wire, 1, n) \in Seq(Nat) /\ Len(SubSeq(wire, 1, n)) = n
          /\ \A i \in 1..n : SubSeq(wire, 1, n)[i] = wire[i]
        BY <2>2
    <2>4. /\ wire' \in Seq(Nat) /\ Len(wire') = n + 1
          /\ \A i \in 1..n : wire'[i] = wire[i]
          /\ wire'[n + 1] = EndOfFile
        BY <2>1, <2>3, AppendProperties DEF EndOfFile
    <2>5. \A i \in 1..Len(wire') : (i \in 1..n /\ i # Len(wire')) \/ i = n + 1
        BY <2>2, <2>4
    <2>6. \A i \in 1..n : i \in 1..Len(wire) /\ wire[i] # EndOfFile
        BY <1>2, <2>2 DEF Flow, Queued
    <2>7. sent \in Nat /\ Taken' /\ Held'
        BY DEF Flow, Taken, Held
    <2>8. ASSUME NEW i \in 1..Len(wire')
          PROVE  /\ wire'[i] = EndOfFile <=> (link' = "broken" /\ i = Len(wire'))
                 /\ wire'[i] \in 0..sent'
                 /\ wire'[i] # EndOfFile =>
                       /\ \A j \in 1..Len(received') : received'[j] < wire'[i]
                       /\ held' # EndOfFile => held' < wire'[i]
                       /\ \A j \in 1..Len(wire') : j < i => wire'[j] < wire'[i]
        <3>1. CASE i \in 1..n
            <4>1. \A j \in 1..Len(wire') : j < i => j \in 1..n
                BY <2>2, <2>4, <3>1
            <4> QED
                BY <2>1, <2>2, <2>4, <2>6, <3>1, <4>1 DEF Flow, Queued
        <3>2. CASE i = n + 1
            BY <2>1, <2>4, <2>7, <3>2 DEF EndOfFile
        <3> QED
            BY <2>5, <3>1, <3>2
    <2> QED
        BY <2>4, <2>7, <2>8 DEF Flow, Queued
<1> QED
    BY <1>1, <1>2

\* One more within a bound.
LEMMA Counters ==
    ASSUME ControlTypes
    PROVE  /\ sent \in Nat /\ outages \in Nat /\ restarts \in Nat
           /\ sent < MaxTx => sent + 1 \in 0..MaxTx
           /\ outages < MaxOutages => outages + 1 \in 0..MaxOutages
           /\ restarts < MaxRestarts => restarts + 1 \in 0..MaxRestarts
<1>1. MaxTx \in Nat /\ MaxOutages \in Nat /\ MaxRestarts \in Nat
    BY BoundsAssumption
<1>2. sent \in 0..MaxTx /\ outages \in 0..MaxOutages /\ restarts \in 0..MaxRestarts
    BY DEF ControlTypes
<1> QED
    BY <1>1, <1>2

\* Every step keeps the control states and counters.
LEMMA NextControl == ControlTypes /\ [Next]_vars => ControlTypes'
<1> SUFFICES ASSUME ControlTypes, [Next]_vars PROVE ControlTypes'
    OBVIOUS
<1>0. /\ sent \in Nat /\ outages \in Nat /\ restarts \in Nat
      /\ sent \in 0..MaxTx
      /\ sent < MaxTx => sent + 1 \in 0..MaxTx
      /\ outages < MaxOutages => outages + 1 \in 0..MaxOutages
      /\ restarts < MaxRestarts => restarts + 1 \in 0..MaxRestarts
    BY Counters DEF ControlTypes
<1> USE DEF ControlTypes
<1>1. CASE InitDependencies \/ Subscribe \/ DialFails \/ Wake \/ Default \/ Deliver
           \/ Processed \/ ResubscribeFails
    BY <1>1 DEF InitDependencies, Subscribe, DialFails, Wake, Default, Deliver, Processed,
                ResubscribeFails, netVars
<1>2. CASE Dial \/ Resubscribe \/ AddSubscription \/ Recv \/ RecvFails
    BY <1>2 DEF Dial, Resubscribe, AddSubscription, Recv, RecvFails, Ask, Done, AfterError
<1>3. CASE Publish \/ Create \/ MockPublish \/ MockRefuses \/ TakeTopic \/ Listen
    <2>1. /\ UNCHANGED <<main, pc, link, outages, restarts>>
          /\ topic' = topic \/ topic' = "set"
          /\ form' = form \/ form' \in {"none", "transaction", "not hex"}
        BY <1>3 DEF Publish, Create, MockPublish, MockRefuses, TakeTopic, Listen, PublishTo,
                    appVars
    <2>2. \/ sent' = sent
          \/ sent' = sent + 1 /\ sent < MaxTx /\ (form' = "none" \/ (form' = form /\ ~mock))
        BY <1>3 DEF Publish, Create, MockPublish, MockRefuses, TakeTopic, Listen, PublishTo
    <2>3. sent' \in 0..MaxTx
        <3> HIDE DEF ControlTypes
        <3> QED
            BY <1>0, <2>2
    <2>4. form' # "none" => mock' /\ sent' < MaxTx
        <3>1. mock' = mock
            BY <1>3 DEF Publish, Create, MockPublish, MockRefuses, TakeTopic, Listen
        <3>2. sent' = sent => (form' = form \/ form' = "none" \/ (mock /\ sent < MaxTx))
            BY <1>3 DEF Publish, Create, MockPublish, MockRefuses, TakeTopic, Listen
        <3> QED
            BY <1>0, <2>2, <3>1, <3>2
    <2> QED
        BY <2>1, <2>3, <2>4
<1>4. CASE Outage
    <2>1. outages' = outages + 1 /\ outages < MaxOutages
          /\ UNCHANGED <<main, pc, form, sent, restarts, mock>>
        BY <1>4 DEF Outage, appVars
    <2>2. outages' \in 0..MaxOutages
        <3> HIDE DEF ControlTypes
        <3> QED
            BY <1>0, <2>1
    <2>3. link' \in {"none", "open", "broken"} /\ topic' \in {"none", "asked", "set"}
        BY <1>4 DEF Outage, Break
    <2> QED
        BY <2>1, <2>2, <2>3
<1>5. CASE Restart
    <2>1. restarts' \in 0..MaxRestarts
        <3>1. restarts' = restarts + 1 /\ restarts < MaxRestarts
            BY <1>5 DEF Restart
        <3> HIDE DEF ControlTypes
        <3> QED
            BY <1>0, <3>1
    <2> QED
        BY <1>5, <2>1 DEF Restart
<1>6. CASE UNCHANGED vars
    BY <1>6 DEF vars, appVars, netVars
<1> QED
    BY <1>1, <1>2, <1>3, <1>4, <1>5, <1>6 DEF Next, Main, Goroutine, Mock

\* Every step keeps the flags.
LEMMA NextFlags == Flags /\ [Next]_vars => Flags'
<1> SUFFICES ASSUME Flags, [Next]_vars PROVE Flags'
    OBVIOUS
<1>1. ASSUME request' \in {request, TRUE, FALSE}, subscribed' \in {subscribed, TRUE, FALSE},
             busy' \in {busy, TRUE, FALSE}, mock' = mock,
             up' \in {up, TRUE, FALSE} \/ up' = (up /\ ~mock)
      PROVE  Flags'
    BY <1>1, Zenon DEF Flags
<1>2. CASE InitDependencies \/ Subscribe \/ DialFails \/ Wake \/ Default \/ Deliver
           \/ Processed \/ ResubscribeFails
    <2>1. /\ request' = request \/ request' = TRUE
          /\ busy' = busy \/ busy' = TRUE \/ busy' = FALSE
          /\ UNCHANGED <<subscribed, mock, up>>
        BY <1>2 DEF InitDependencies, Subscribe, DialFails, Wake, Default, Deliver,
           Processed,
                    ResubscribeFails, netVars
    <2> QED
        BY <1>1, <2>1
<1>3. CASE Dial \/ Resubscribe \/ AddSubscription \/ Recv \/ RecvFails
    <2>1. /\ request' = request \/ request' = FALSE
          /\ subscribed' = subscribed \/ subscribed' = TRUE
          /\ UNCHANGED <<busy, mock, up>>
        BY <1>3 DEF Dial, Resubscribe, AddSubscription, Recv, RecvFails
    <2> QED
        BY <1>1, <2>1
<1>4. CASE Publish \/ Create \/ MockPublish \/ MockRefuses \/ TakeTopic \/ Listen
    <2>1. /\ up' = up \/ up' = TRUE
          /\ UNCHANGED <<request, subscribed, busy, mock>>
        BY <1>4 DEF Publish, Create, MockPublish, MockRefuses, TakeTopic, Listen, appVars
    <2> QED
        BY <1>1, <2>1
<1>5. CASE Outage
    <2>1. /\ up' = TRUE \/ up' = FALSE
          /\ UNCHANGED <<request, subscribed, busy, mock>>
        BY <1>5 DEF Outage, appVars
    <2> QED
        BY <1>1, <2>1
<1>6. CASE Restart
    <2>1. /\ request' = FALSE /\ subscribed' = FALSE /\ busy' = FALSE /\ mock' = mock
          /\ up' = (up /\ ~mock)
        BY <1>6 DEF Restart
    <2> QED
        BY <1>1, <2>1
<1>7. CASE UNCHANGED vars
    <2>1. UNCHANGED <<request, subscribed, busy, mock, up>>
        BY <1>7 DEF vars, appVars, netVars
    <2> QED
        BY <1>1, <2>1
<1> QED
    BY <1>2, <1>3, <1>4, <1>5, <1>6, <1>7 DEF Next, Main, Goroutine, Mock

\* Every step keeps the flow in order.
LEMMA NextFlow == ControlTypes /\ Flow /\ [Next]_vars => Flow'
<1> SUFFICES ASSUME ControlTypes, Flow, [Next]_vars PROVE Flow'
    OBVIOUS
<1>1. CASE InitDependencies \/ Subscribe \/ DialFails \/ Wake \/ Default \/ Processed
           \/ ResubscribeFails
    <2>1. /\ UNCHANGED <<received, held, wire, sent, link>>
          /\ pc' = "deliver" <=> pc = "deliver"
        BY <1>1 DEF InitDependencies, Subscribe, DialFails, Wake, Default, Processed,
                    ResubscribeFails, netVars, ControlTypes
    <2> QED
        BY <2>1, FlowStays
<1>2. CASE Resubscribe \/ AddSubscription \/ Create \/ MockRefuses \/ TakeTopic \/ Listen
    <2>1. /\ UNCHANGED <<received, held, wire, sent, link>>
          /\ pc' = "deliver" <=> pc = "deliver"
        BY <1>2 DEF Resubscribe, AddSubscription, Create, MockRefuses, TakeTopic,
           Listen, appVars
    <2> QED
        BY <2>1, FlowStays
<1>3. CASE Dial \/ RecvFails \/ Restart
    <2>1. /\ UNCHANGED <<received, sent>> /\ wire' = <<>> /\ pc' # "deliver"
          /\ held' = held \/ held' = EndOfFile
          /\ pc # "deliver" \/ held' = EndOfFile
        BY <1>3 DEF Dial, RecvFails, Restart, AfterError
    <2>2. held' = EndOfFile
        BY <2>1 DEF Flow, Held
    <2> QED
        BY <2>1, <2>2, FlowDropped
<1>4. CASE Publish \/ MockPublish
    BY <1>4, FlowPublish DEF Publish, MockPublish, appVars
<1>5. CASE Outage
    BY <1>5, FlowBreak DEF Outage, appVars
<1>6. CASE UNCHANGED vars
    BY <1>6, FlowStays DEF vars, appVars, netVars
<1> QED
    BY <1>1, <1>2, <1>3, <1>4, <1>5, <1>6, FlowRecv, FlowDeliver
    DEF Next, Main, Goroutine, Mock

-----------------------------------------------------------------------------
Increasing(s) == \A i, j \in DOMAIN s : i < j => s[i] < s[j]

\* Increasing lists, the second above the first, make an increasing list.
LEMMA IncreasingConcat ==
    ASSUME NEW s \in Seq(Nat), NEW t \in Seq(Nat), Increasing(s), Increasing(t),
           \A i \in 1..Len(s), j \in 1..Len(t) : s[i] < t[j]
    PROVE  Increasing(s \o t) /\ s \o t \in Seq(Nat)
<1>1. /\ s \o t \in Seq(Nat) /\ Len(s \o t) = Len(s) + Len(t)
      /\ \A i \in 1..(Len(s) + Len(t)) :
            (s \o t)[i] = IF i <= Len(s) THEN s[i] ELSE t[i - Len(s)]
    BY ConcatProperties
<1>2. Len(s) \in Nat /\ Len(t) \in Nat /\ DOMAIN s = 1..Len(s) /\ DOMAIN t = 1..Len(t)
      /\ DOMAIN (s \o t) = 1..(Len(s) + Len(t))
    BY <1>1, LenProperties
<1>3. ASSUME NEW i \in DOMAIN (s \o t), NEW j \in DOMAIN (s \o t), i < j
      PROVE  (s \o t)[i] < (s \o t)[j]
    <2>1. CASE j <= Len(s)
        <3>1. (s \o t)[i] = s[i] /\ (s \o t)[j] = s[j] /\ i \in DOMAIN s /\ j \in DOMAIN s
            BY <1>1, <1>2, <1>3, <2>1
        <3> QED
            BY <1>3, <3>1 DEF Increasing
    <2>2. CASE i <= Len(s) /\ j > Len(s)
        <3>1. (s \o t)[i] = s[i] /\ (s \o t)[j] = t[j - Len(s)]
              /\ i \in 1..Len(s) /\ j - Len(s) \in 1..Len(t)
            BY <1>1, <1>2, <1>3, <2>2
        <3> QED
            BY <3>1
    <2>3. CASE i > Len(s)
        <3>0. i \in Nat /\ j \in Nat /\ j > Len(s) /\ ~(i <= Len(s)) /\ ~(j <= Len(s))
            BY <1>2, <1>3, <2>3
        <3>1. (s \o t)[i] = t[i - Len(s)] /\ (s \o t)[j] = t[j - Len(s)]
              /\ i - Len(s) \in DOMAIN t /\ j - Len(s) \in DOMAIN t /\ i - Len(s) < j - Len(s)
            BY <1>1, <1>2, <1>3, <2>3, <3>0
        <3> QED
            BY <3>1 DEF Increasing
    <2> QED
        BY <1>2, <2>1, <2>2, <2>3
<1> QED
    BY <1>1, <1>3 DEF Increasing

\* A positive number has a predecessor.
LEMMA OneLess == ASSUME NEW n \in Nat, n # 0 PROVE \E m \in 0..n : m = n - 1
OBVIOUS

\* So what was delivered, is in hand and is unread is in order.
LEMMA FlowInOrder ==
    ASSUME Flow
    PROVE  Increasing(received \o InHand \o Unread)
<1>1. /\ received \in Seq(Nat) /\ Len(received) \in Nat /\ DOMAIN received = 1..Len(received)
      /\ wire \in Seq(Nat) /\ Len(wire) \in Nat /\ sent \in Nat /\ held \in Nat
    BY LenProperties DEF Flow, Taken, Held, Queued
<1>2. Increasing(received)
    BY <1>1 DEF Increasing, Flow, Taken
<1>3. /\ InHand \in Seq(Nat) /\ Increasing(InHand)
      /\ \A j \in 1..Len(InHand) : InHand[j] = held /\ held # EndOfFile
    <2>1. CASE held = EndOfFile
        <3>1. InHand = <<>>
            BY <2>1 DEF InHand
        <3> QED
            BY <3>1 DEF Increasing
    <2>2. CASE held # EndOfFile
        <3>1. InHand = <<held>>
            BY <2>2 DEF InHand
        <3>2. <<held>> \in Seq(Nat) /\ Len(<<held>>) = 1 /\ DOMAIN <<held>> = 1..1
              /\ <<held>>[1] = held
            BY <1>1
        <3> QED
            BY <2>2, <3>1, <3>2 DEF Increasing
    <2> QED
        BY <2>1, <2>2
<1>4. /\ Unread \in Seq(Nat)
      /\ \A i \in 1..Len(Unread) : /\ i \in 1..Len(wire) /\ Unread[i] = wire[i]
                                   /\ wire[i] # EndOfFile
    <2>1. CASE link # "broken"
        BY <1>1, <2>1 DEF Unread, Flow, Queued
    <2>2. CASE link = "broken" /\ wire = <<>>
        <3>1. Unread = SubSeq(<<>>, 1, -1)
            BY <2>2 DEF Unread, Front
        <3>2. Unread = <<>>
            BY <3>1
        <3> QED
            BY <3>2
    <2>3. CASE link = "broken" /\ wire # <<>>
        <3>0. Len(wire) # 0
            BY <1>1, <2>3, EmptySeq
        <3>1. PICK n \in 0..Len(wire) : n = Len(wire) - 1
            <4>1. Len(wire) \in Nat
                BY <1>1
            <4> QED
                BY <3>0, <4>1, OneLess
        <3>2. Unread = SubSeq(wire, 1, n)
            BY <2>3, <3>1 DEF Unread, Front
        <3>3. /\ Unread \in Seq(Nat) /\ Len(Unread) = n
              /\ \A i \in 1..n : Unread[i] = wire[i]
            BY <1>1, <3>2
        <3>4. \A i \in 1..n : i \in 1..Len(wire) /\ i # Len(wire)
            BY <1>1, <3>1
        <3> QED
            BY <3>3, <3>4 DEF Flow, Queued
    <2> QED
        BY <2>1, <2>2, <2>3
<1>5. Increasing(Unread)
    <2>1. DOMAIN Unread = 1..Len(Unread)
        BY <1>4, LenProperties
    <2> QED
        BY <1>4, <2>1 DEF Increasing, Flow, Queued
<1>6. \A i \in 1..Len(received), j \in 1..Len(InHand) : received[i] < InHand[j]
    BY <1>3 DEF Flow, Taken
<1>7. Increasing(received \o InHand) /\ received \o InHand \in Seq(Nat)
    BY <1>1, <1>2, <1>3, <1>6, IncreasingConcat
<1>8. \A i \in 1..Len(received \o InHand), j \in 1..Len(Unread) :
          (received \o InHand)[i] < Unread[j]
    <2> SUFFICES ASSUME NEW i \in 1..Len(received \o InHand), NEW j \in 1..Len(Unread)
                 PROVE  (received \o InHand)[i] < Unread[j]
        OBVIOUS
    <2>1. /\ Unread[j] = wire[j] /\ \A k \in 1..Len(received) : received[k] < wire[j]
          /\ held # EndOfFile => held < wire[j]
        BY <1>4 DEF Flow, Queued
    <2>2. /\ Len(received \o InHand) = Len(received) + Len(InHand) /\ Len(InHand) \in Nat
          /\ \A k \in 1..(Len(received) + Len(InHand)) :
                (received \o InHand)[k] =
                    IF k <= Len(received) THEN received[k] ELSE InHand[k - Len(received)]
        BY <1>1, <1>3, ConcatProperties, LenProperties
    <2>3. CASE i <= Len(received)
        BY <1>1, <2>1, <2>2, <2>3
    <2>4. CASE i > Len(received)
        <3>1. i - Len(received) \in 1..Len(InHand)
              /\ (received \o InHand)[i] = InHand[i - Len(received)]
            BY <1>1, <2>2, <2>4
        <3> QED
            BY <1>3, <2>1, <3>1
    <2> QED
        BY <1>1, <2>2, <2>3, <2>4
<1> QED
    BY <1>4, <1>5, <1>7, <1>8, IncreasingConcat

\* Of zmq.go's start and monitor.go's InitTxMonitor: while the web server
\* runs, the subscriber never receives on a connection without its topic.
THEOREM ListensSubscribedAlways == Spec => []ListensSubscribed
<1>1. ZInv => ListensSubscribed
    BY DEF ZInv, WebSubscribed, Asked, ListensSubscribed
<1> QED
    BY <1>1, InitZInv, NextZInv, PTL DEF Spec
\* The types; and across reconnections and restarts, what was received, is
\* handed over or can still be read was published in this order and is there
\* once: Recv, the hand-over and the errors of zmq.go lose transactions, and
\* never reorder or repeat one.
THEOREM TypeCorrect == Spec => []TypeOK
<1>1. ControlTypes /\ Flags /\ Flow => TypeOK
    <2> SUFFICES ASSUME ControlTypes, Flags, Flow PROVE TypeOK
        OBVIOUS
    <2>1. {request, subscribed, busy, mock, up} \subseteq BOOLEAN
        BY Zenon DEF Flags
    <2>2. \A i \in DOMAIN wire : wire[i] = EndOfFile <=> (link = "broken" /\ i = Len(wire))
        BY LenProperties DEF Flow, Queued
    <2>3. held \in 0..sent /\ (pc = "deliver" <=> held # EndOfFile)
        BY DEF Flow, Held
    <2> QED
        BY <2>1, <2>2, <2>3, FlowInOrder DEF TypeOK, ControlTypes, Increasing
<1> QED
    BY <1>1, InitFlow, NextControl, NextFlags, NextFlow, PTL DEF Spec
=============================================================================
