----------------------------- MODULE ZmqSubscriber -----------------------------
(***************************************************************************)
(* How raw transactions reach the process: main.go starts a transaction    *)
(* monitor, monitor.go (InitTxMonitor) subscribes and waits, and the       *)
(* goroutine of go-bitcoin's zmq.go dials the publisher, registers         *)
(* subscriptions, receives, hands over and dials again after an error.     *)
(*                                                                         *)
(* The publisher is bitcoind, or in development the mock of zmq/mock.go,   *)
(* fed by POST /app/mockzmq.  Transactions are numbered in the order they  *)
(* are published.  Only rawtx is ever subscribed to, once, and nothing     *)
(* unsubscribes; a socket that is not closed on an error is dead anyway,   *)
(* so the flag "connected" is left out.                                    *)
(***************************************************************************)
EXTENDS Naturals, Sequences, SequencesExt

CONSTANTS
    MaxTx,          \* bound: transactions published
    MaxOutages,     \* bound: connections lost, publisher stopped
    MaxRestarts,    \* bound: restarts of the process
    QueueSize       \* transactions a connection holds unread: the reader's
                    \* channel, the sockets and the publisher's high-water mark

ASSUME BoundsAssumption == {MaxTx, MaxOutages, MaxRestarts, QueueSize} \subseteq Nat

EndOfFile == 0      \* the error of Recv
Tx == 1..MaxTx
ASSUME EndOfFileAssumption == EndOfFile \notin Tx

VARIABLES
    main,           \* initDependencies: "boot", "subscribe", "waiting", "web"
    request,        \* zmq.addSubscription holds the request
    subscribed,     \* zmq.subscriptions has the monitor's channel
    pc, held,       \* the goroutine: where it is, the transaction it hands over
    busy,           \* watchRawTx is processing a transaction
    received,       \* what watchRawTx took, in order
    mock, form,     \* publisher is the mock server; what a form posted to it
    up,             \* the publisher accepts connections
    link, topic,    \* the socket; whether the publisher knows the topic
    wire,           \* unread on the socket
    sent, outages, restarts

appVars == <<main, request, subscribed, pc, held, busy, received>>
netVars == <<up, link, topic, wire, sent, outages, form>>
vars == <<appVars, netVars, mock, restarts>>

Init ==
    /\ main = "boot" /\ request = FALSE /\ subscribed = FALSE
    /\ pc = "off" /\ held = EndOfFile /\ busy = FALSE /\ received = <<>>
    /\ mock \in BOOLEAN /\ form = "none"
    /\ up \in IF mock THEN {FALSE} ELSE BOOLEAN
    /\ link = "none" /\ topic = "none" /\ wire = <<>>
    /\ sent = 0 /\ outages = 0 /\ restarts = 0

-----------------------------------------------------------------------------
(* main and InitTxMonitor.                                                   *)

\* Configuration, migrations, clients and API are there (an error before this
\* ends the process); NewZMQ has started the goroutine.
InitDependencies ==
    /\ main = "boot"
    /\ main' = "subscribe" /\ pc' = "dial"
    /\ UNCHANGED <<request, subscribed, held, busy, received, netVars, mock, restarts>>

\* Subscribe queues the request; <-done blocks until it is registered.
Subscribe ==
    /\ main = "subscribe"
    /\ main' = "waiting" /\ request' = TRUE
    /\ UNCHANGED <<subscribed, pc, held, busy, received, netVars, mock, restarts>>

\* The process ends and its container restarts it.
Restart ==
    /\ main # "boot" /\ restarts < MaxRestarts
    /\ main' = "boot" /\ request' = FALSE /\ subscribed' = FALSE
    /\ pc' = "off" /\ held' = EndOfFile /\ busy' = FALSE
    /\ link' = "none" /\ topic' = "none" /\ wire' = <<>> /\ form' = "none"
    /\ up' = (up /\ ~mock) /\ restarts' = restarts + 1
    /\ UNCHANGED <<received, sent, outages, mock>>

-----------------------------------------------------------------------------
(* The goroutine of zmq.go.                                                  *)

Dial ==
    /\ pc = "dial" /\ up
    /\ link' = "open" /\ topic' = "none" /\ wire' = <<>>    \* a new socket
    /\ pc' = "resubscribe"
    /\ UNCHANGED <<main, request, subscribed, held, busy, received,
                   up, sent, outages, form, mock, restarts>>

\* No attempt of Dial's ten succeeds: sleep and try again.
DialFails ==
    /\ pc = "dial" /\ ~up
    /\ pc' = "sleep"
    /\ UNCHANGED <<main, request, subscribed, held, busy, received, netVars, mock, restarts>>

Wake ==
    /\ pc = "sleep"
    /\ pc' = "dial"
    /\ UNCHANGED <<main, request, subscribed, held, busy, received, netVars, mock, restarts>>

\* SetOption(OptionSubscribe): the request travels to the publisher.
Ask == IF link = "open" THEN "asked" ELSE topic

\* The topics known before a reconnection.
KnownForgotten == FALSE
Known == subscribed

Resubscribe ==
    /\ pc = "resubscribe"
    /\ pc' = "select"
    /\ topic' = IF Known THEN Ask ELSE topic
    /\ UNCHANGED <<main, request, subscribed, held, busy, received,
                   up, link, wire, sent, outages, form, mock, restarts>>

\* The connection broke again in the meantime and SetOption notices: the
\* function returns, and with it the goroutine.
ResubscribeFails ==
    /\ pc = "resubscribe" /\ Known /\ link = "broken"
    /\ pc' = "dead"
    /\ UNCHANGED <<main, request, subscribed, held, busy, received, netVars, mock, restarts>>

\* Registered even if SetOption fails; the receive on done returns.
DoneForgotten == main
Done == "web"

AddSubscription ==
    /\ pc = "select" /\ request
    /\ request' = FALSE /\ subscribed' = TRUE
    /\ topic' = Ask
    /\ main' = Done
    /\ UNCHANGED <<pc, held, busy, received, up, link, wire, sent, outages, form, mock, restarts>>

\* select's default: Recv blocks, whatever is queued afterwards.
Default ==
    /\ pc = "select" /\ ~request
    /\ pc' = "recv"
    /\ UNCHANGED <<main, request, subscribed, held, busy, received, netVars, mock, restarts>>

Recv ==
    /\ pc = "recv" /\ wire # <<>> /\ Head(wire) # EndOfFile
    /\ wire' = Tail(wire)
    /\ held' = Head(wire) /\ pc' = "deliver"
    /\ UNCHANGED <<main, request, subscribed, busy, received,
                   up, link, topic, sent, outages, form, mock, restarts>>

AfterErrorSelect == "select"
AfterError == "sleep"

RecvFails ==
    /\ pc = "recv" /\ wire # <<>> /\ Head(wire) = EndOfFile
    /\ link' = "none" /\ wire' = <<>>
    /\ pc' = AfterError
    /\ UNCHANGED <<main, request, subscribed, held, busy, received,
                   up, topic, sent, outages, form, mock, restarts>>

DeliverOrDrop ==
    /\ pc = "deliver"
    /\ received' = IF busy THEN received ELSE Append(received, held)
    /\ busy' = TRUE
    /\ held' = EndOfFile /\ pc' = "select"
    /\ UNCHANGED <<main, request, subscribed, netVars, mock, restarts>>

DeliverTwice ==
    /\ pc = "deliver" /\ ~busy
    /\ received' = received \o <<held, held>> /\ busy' = TRUE
    /\ held' = EndOfFile /\ pc' = "select"
    /\ UNCHANGED <<main, request, subscribed, netVars, mock, restarts>>

\* subscriber <- msg, on a channel without buffer.
Deliver ==
    /\ pc = "deliver" /\ ~busy
    /\ received' = Append(received, held) /\ busy' = TRUE
    /\ held' = EndOfFile /\ pc' = "select"
    /\ UNCHANGED <<main, request, subscribed, netVars, mock, restarts>>

\* watchRawTx has matched the transaction and notified.
Processed ==
    /\ busy
    /\ busy' = FALSE
    /\ UNCHANGED <<main, request, subscribed, pc, held, received, netVars, mock, restarts>>

-----------------------------------------------------------------------------
(* The publisher and the network.                                            *)

PublishTo ==
    /\ sent' = sent + 1
    /\ wire' = IF link = "open" /\ topic = "set" /\ Len(wire) < QueueSize
               THEN Append(wire, sent + 1) ELSE wire

Publish ==
    /\ ~mock /\ up /\ sent < MaxTx
    /\ PublishTo
    /\ UNCHANGED <<appVars, up, link, topic, outages, form, mock, restarts>>

\* POST /app/mockzmq: SendTx blocks the request until the mock takes it.
Create ==
    /\ mock /\ main = "web" /\ form = "none" /\ sent < MaxTx
    /\ form' \in {"transaction", "not hex"}
    /\ UNCHANGED <<appVars, up, link, topic, wire, sent, outages, mock, restarts>>

MockPublish ==
    /\ form = "transaction" /\ up
    /\ PublishTo /\ form' = "none"
    /\ UNCHANGED <<appVars, up, link, topic, outages, mock, restarts>>

MockRefuses ==
    /\ form = "not hex" /\ up
    /\ form' = "none"
    /\ UNCHANGED <<appVars, up, link, topic, wire, sent, outages, mock, restarts>>

TakeTopic ==
    /\ link = "open" /\ topic = "asked"
    /\ topic' = "set"
    /\ UNCHANGED <<appVars, up, link, wire, sent, outages, form, mock, restarts>>

\* bitcoind starts; the mock's Listen succeeds.
Listen ==
    /\ ~up /\ (mock => main # "boot")
    /\ up' = TRUE
    /\ UNCHANGED <<appVars, link, topic, wire, sent, outages, form, mock, restarts>>

\* What was on its way may still arrive, then reading fails.
Break ==
    IF link = "open"
    THEN \E n \in 0..Len(wire) : /\ wire' = Append(SubSeq(wire, 1, n), EndOfFile)
                                 /\ link' = "broken" /\ topic' = "none"
    ELSE UNCHANGED <<wire, link, topic>>

\* bitcoind stops, or the connection alone is lost.
Outage ==
    /\ ~mock /\ up /\ outages < MaxOutages
    /\ up' \in IF link = "open" THEN BOOLEAN ELSE {FALSE}
    /\ Break /\ outages' = outages + 1
    /\ UNCHANGED <<appVars, sent, form, mock, restarts>>

-----------------------------------------------------------------------------
Main == InitDependencies \/ Subscribe
Goroutine == Dial \/ DialFails \/ Wake \/ Resubscribe \/ ResubscribeFails
             \/ AddSubscription \/ Default \/ Recv \/ RecvFails \/ Deliver
Mock == MockPublish \/ MockRefuses

Next == Main \/ Goroutine \/ Processed \/ Mock \/ TakeTopic \/ Listen
        \/ Restart \/ Publish \/ Create \/ Outage

Spec == Init /\ [][Next]_vars

\* Goroutines that can run do, a stopped publisher is started again, and the
\* monitor finishes with each transaction.
FairSpec == /\ Spec /\ WF_vars(Main) /\ WF_vars(Goroutine) /\ WF_vars(Processed)
            /\ WF_vars(Mock) /\ WF_vars(Listen) /\ WF_vars(TakeTopic)

-----------------------------------------------------------------------------
(* Properties.                                                               *)

\* The transaction being handed over, and those still to be read.
InHand == IF held = EndOfFile THEN <<>> ELSE <<held>>
Unread == IF link = "broken" THEN Front(wire) ELSE wire

\* The types; what arrived was published, in order and once, also across
\* reconnections and restarts.
TypeOK ==
    /\ main \in {"boot", "subscribe", "waiting", "web"}
    /\ {request, subscribed, busy, mock, up} \subseteq BOOLEAN
    /\ pc \in {"off", "dial", "sleep", "resubscribe", "select", "recv", "deliver", "dead"}
    /\ form \in {"none", "transaction", "not hex"}
    /\ link \in {"none", "open", "broken"} /\ topic \in {"none", "asked", "set"}
    /\ sent \in 0..MaxTx /\ outages \in 0..MaxOutages /\ restarts \in 0..MaxRestarts
    /\ \A i \in DOMAIN wire : wire[i] = EndOfFile <=> (link = "broken" /\ i = Len(wire))
    /\ held \in 0..sent /\ (pc = "deliver" <=> held # EndOfFile)
    /\ LET inOrder == received \o InHand \o Unread
       IN  \A i, j \in DOMAIN inOrder : i < j => inOrder[i] < inOrder[j]

\* While the web server runs, the goroutine never sits on a connection whose
\* publisher was not told the topic, whatever broke and was dialled again:
\* the first subscription and the ones repeated after an error together
\* leave no connection silent.
ListensSubscribed ==
    main = "web" /\ pc \in {"recv", "deliver"} /\ link = "open" => topic # "none"

\* The web server starts, unless the goroutine entered Recv before it was
\* asked to subscribe: then main waits for ever on a healthy connection, on
\* which nothing will ever arrive.
StartsOrHangs ==
    <>(main = "web") \/ <>[](main = "waiting" /\ request /\ pc = "recv" /\ link = "open"
                              /\ ~subscribed)

\* After an outage, transactions flow again without anybody's help, unless
\* the goroutine ended because the next connection broke while it repeated
\* its subscriptions, or the process was restarted.
FeedResumes ==
    main = "web" /\ link # "open" ~>
        (link = "open" /\ topic = "set") \/ pc = "dead" \/ main # "web"

\* A transaction that reached the socket is handed to the monitor, however
\* long the monitor takes, unless the connection or the process is lost.
QueuedIsDelivered ==
    \A t \in Tx : Contains(wire, t) ~>
        Contains(received, t) \/ link # "open" \/ main = "boot"
=============================================================================
