------------------------------ MODULE TxMonitor ------------------------------
(***************************************************************************)
(* The transaction monitor and its notifiers: internal/monitor/monitor.go  *)
(* (Subscribe, watchRawTx, findMatchingOutputs, checkSentFunds,            *)
(* isConfirmed, fanOutTx) and internal/actions (webhook.go, email.go).     *)
(*                                                                         *)
(*   bitcoind   publishes a raw transaction on ZMQ when it enters the      *)
(*              mempool and again when a block confirms it;                *)
(*   watcher    takes one, matches its outputs and inputs against the      *)
(*              watched addresses, asks the Electrum server whether it is  *)
(*              confirmed, and sends the notification to every subscriber  *)
(*              over unbuffered channels while it holds the mutex;         *)
(*   notifiers  (webhook, email) subscribe, then serve one notification    *)
(*              at a time: for each matched address query the endpoints of *)
(*              its owner and call them one after the other.               *)
(*                                                                         *)
(* The address list is the environment here: a row is watched, its address *)
(* is queued for one scan, and it may be deleted.  Several users may watch  *)
(* the same Bitcoin address, each with a row of their own.                 *)
(***************************************************************************)
EXTENDS Listings

CONSTANTS
    Tx,
    Row,        \* ids of address rows
    Address,    \* Bitcoin addresses
    AddressOf,  \* the address of each row
    Outs,       \* Outs[t]: the addresses its outputs pay, in order
    Ins,        \* Ins[t]: its inputs, [tx, addr]: the output spent, in order
    Notifier,
    Endpoints,  \* Endpoints[n][r]: what notifier n calls for the owner of r
    ScansFail,  \* whether the scanner's call may fail
    FeedCap     \* bound: messages ZMQ holds for a slow reader

\* An output whose script yields no address.
NoAddr == "noaddr"

ASSUME TxAssumption ==
    /\ Tx # {} /\ IsFiniteSet(Row)
    /\ AddressOf \in [Row -> Address] /\ NoAddr \notin Address
    /\ Outs \in [Tx -> Seq(Address \cup {NoAddr})]
    /\ Ins \in [Tx -> Seq([tx : Tx, addr : Address])]
ASSUME NotifierAssumption == IsFiniteSet(Notifier) /\ FeedCap \in Nat \ {0}

VARIABLES
    status,     \* of each transaction: unseen, mempool or mined
    feed,       \* raw transactions ZMQ holds
    row,        \* of each row: none (never created), watched (in
                \* api.addresses) or deleted
    utxos,      \* Address.UTXOs of each row: the transactions of the outputs
    due,        \* addresses queued for a scan
    answers,    \* scans the server has answered, on their way to the list
    pc, tx, outs, ins, matched,     \* watchRawTx
    mu,         \* TxMonitor.Mutex: locked by fanOutTx
    txStreams,  \* the subscribers, in the order of their subscription
    next,       \* fanOutTx: index of the next subscriber to send to
    nPc, job, calls,    \* notifiers: what is left of the current notification
    fanned, got, since, \* history: the number of notifications sent, those a
                        \* notifier got, how many came before it subscribed
    told,       \* history: of each transaction, the rows whose owners were told
                \* of its output when it was unspent and their scan was done
    steady      \* history: rows watched since the current tx was taken

scanVars == <<due, answers>>
envVars == <<status, feed, row, utxos, due, answers, steady>>
watchVars == <<pc, tx, outs, ins, matched>>
fanVars == <<mu, txStreams, next, fanned, got, told>>
ntfVars == <<nPc, job, calls, since>>
vars == <<status, feed, row, utxos, due, answers, steady, pc, tx, outs, ins, matched,
          mu, txStreams, next, fanned, got, told, nPc, job, calls, since>>

watched == {r \in Row : row[r] = "watched"}
RowsOf(a) == {r \in watched : AddressOf[r] = a}

Answer == [addr : Address, txs : SUBSET Tx]

\* No transaction comes before one whose output it spends.
InOrder(s) ==
    \A t \in Tx : \A i \in DOMAIN Ins[t] :
        /\ s[t] # "unseen" => s[Ins[t][i].tx] # "unseen"
        /\ s[t] = "mined" => s[Ins[t][i].tx] = "mined"

\* api.Init has queued the stored rows and published them; transactions have
\* come before the process started.
Init ==
    /\ status \in {s \in [Tx -> {"unseen", "mempool", "mined"}] : InOrder(s)} /\ feed = <<>>
    /\ row \in [Row -> {"none", "watched", "deleted"}] /\ utxos = [r \in Row |-> {}]
    /\ \E list \in Orderings(watched) : due = [i \in DOMAIN list |-> AddressOf[list[i]]]
    /\ answers = <<>> /\ steady = {}
    /\ pc = "receive" /\ tx \in {CHOOSE t \in Tx : TRUE}
    /\ outs = <<>> /\ ins = <<>> /\ matched = <<>>
    /\ mu = FALSE /\ txStreams = <<>> /\ next = 1
    /\ nPc = [n \in Notifier |-> "start"]
    /\ job = [n \in Notifier |-> <<>>] /\ calls = [n \in Notifier |-> <<>>]
    /\ fanned = 0 /\ told = [t \in Tx |-> {}]
    /\ got = [n \in Notifier |-> <<>>] /\ since = [n \in Notifier |-> 0]

-----------------------------------------------------------------------------
(* The environment.                                                          *)

\* bitcoind publishes to a socket whose queue is bounded: what does not fit
\* is dropped.
Publish(t) == feed' = IF Len(feed) < FeedCap THEN Append(feed, t) ELSE feed

Accept(t) ==
    /\ status[t] = "unseen"
    /\ \A i \in DOMAIN Ins[t] : status[Ins[t][i].tx] # "unseen"
    /\ status' = [status EXCEPT ![t] = "mempool"]
    /\ Publish(t)
    /\ UNCHANGED <<row, utxos, scanVars, steady, watchVars, fanVars, ntfVars>>

Mine(t) ==
    /\ status[t] = "mempool"
    /\ \A i \in DOMAIN Ins[t] : status[Ins[t][i].tx] = "mined"
    /\ status' = [status EXCEPT ![t] = "mined"]
    /\ Publish(t)
    /\ UNCHANGED <<row, utxos, scanVars, steady, watchVars, fanVars, ntfVars>>

\* The unspent outputs of a on the server, by transaction.
Unspent(a) ==
    {t \in Tx : /\ status[t] # "unseen" /\ a \in Elems(Outs[t])
                /\ \A u \in Tx : [tx |-> t, addr |-> a] \in Elems(Ins[u])
                                  => status[u] = "unseen"}

Watch(r) ==
    /\ row[r] = "none"
    /\ row' = [row EXCEPT ![r] = "watched"]
    /\ due' = Append(due, AddressOf[r])
    /\ UNCHANGED <<status, feed, utxos, answers, steady, watchVars, fanVars, ntfVars>>

\* The scanner's call; one that fails gives an empty list.  There is room for
\* an answer in the scanner's hand and for one in the updater's.
ListUnspent ==
    /\ due # <<>> /\ Len(answers) < 2
    /\ \E txs \in {Unspent(Head(due))} \cup (IF ScansFail THEN {{}} ELSE {}) :
          answers' = Append(answers, [addr |-> Head(due), txs |-> txs])
    /\ due' = Tail(due)
    /\ UNCHANGED <<status, feed, row, utxos, steady, watchVars, fanVars, ntfVars>>

\* The oldest answer is stored in every row with its address.
ScanDelivered ==
    /\ answers # <<>>
    /\ utxos' = [r \in Row |-> IF r \in RowsOf(Head(answers).addr)
                               THEN Head(answers).txs ELSE utxos[r]]
    /\ answers' = Tail(answers)
    /\ UNCHANGED <<status, feed, row, due, steady, watchVars, fanVars, ntfVars>>

Unwatch(r) ==
    /\ r \in watched
    /\ row' = [row EXCEPT ![r] = "deleted"]
    /\ utxos' = [utxos EXCEPT ![r] = {}]
    /\ steady' = steady \ {r}
    /\ UNCHANGED <<status, feed, scanVars, watchVars, fanVars, ntfVars>>

-----------------------------------------------------------------------------
(* Goroutine watchRawTx.                                                     *)

ReceiveRawTx ==
    /\ pc = "receive" /\ feed # <<>>
    /\ tx' = Head(feed) /\ feed' = Tail(feed)
    /\ outs' = Outs[tx'] /\ ins' = Ins[tx']
    /\ steady' = watched
    /\ pc' = "outputs"
    /\ UNCHANGED <<status, row, utxos, scanVars, matched, fanVars, ntfVars>>

\* The end of the loop body and of its variables.
NextTx ==
    /\ pc' = "receive" /\ matched' = <<>> /\ steady' = {}
    /\ UNCHANGED <<status, feed, row, utxos, scanVars, tx, outs, ins>>

\* The loops append one entry for each row that matches, in the order of the
\* list; the properties do not depend on that order.
AppendFirst(rows) ==
    IF rows = {} THEN matched' = matched ELSE \E r \in rows : matched' = Append(matched, r)
AppendAll(rows) == \E list \in Orderings(rows) : matched' = matched \o list

\* findMatchingOutputs, one output: a fresh copy of the address list each
\* time.  An output without an address is skipped.
MatchOutput ==
    /\ pc = "outputs" /\ outs # <<>>
    /\ outs' = Tail(outs)
    /\ AppendAll(RowsOf(Head(outs)))
    /\ UNCHANGED <<envVars, pc, tx, ins, fanVars, ntfVars>>

\* checkSentFunds, one input: the spent output is looked up in the cached
\* UTXOs of the watched rows.
MatchInput ==
    LET spent == Head(ins) IN
    /\ pc = "outputs" /\ outs = <<>> /\ ins # <<>>
    /\ ins' = Tail(ins)
    /\ AppendAll({r \in RowsOf(spent.addr) : spent.tx \in utxos[r]})
    /\ UNCHANGED <<envVars, pc, tx, outs, fanVars, ntfVars>>

Matched == pc = "outputs" /\ outs = <<>> /\ ins = <<>>

NoMatch == Matched /\ matched = <<>> /\ NextTx /\ UNCHANGED <<fanVars, ntfVars>>

\* isConfirmed, then the Lock of fanOutTx.
IsConfirmed ==
    /\ Matched /\ matched # <<>>
    /\ pc' = "fanout"
    /\ UNCHANGED <<envVars, tx, outs, ins, matched, fanVars, ntfVars>>

\* The Electrum call fails: logged, and the transaction is dropped.
IsConfirmedFails == Matched /\ matched # <<>> /\ NextTx /\ UNCHANGED <<fanVars, ntfVars>>

-----------------------------------------------------------------------------
(* fanOutTx and the subscribers.                                             *)

\* Whether somebody is told, r's address holds an output of tx and its scans
\* are done.
Held(r) ==
    /\ txStreams # <<>>
    /\ tx \in Unspent(AddressOf[r]) /\ AddressOf[r] \notin Elems(due)
    /\ \A m \in Elems(answers) : m.addr # AddressOf[r]

FanOutLock ==
    /\ pc = "fanout" /\ ~mu
    /\ mu' = TRUE /\ next' = 1
    /\ fanned' = fanned + 1
    /\ told' = [told EXCEPT ![tx] = @ \cup {r \in Elems(matched) : Held(r)}]
    /\ UNCHANGED <<envVars, watchVars, txStreams, got, ntfVars>>

\* One blocking send: the subscriber has to be at its receive.
Receive(n) ==
    /\ nPc[n] = "receive"
    /\ got' = [got EXCEPT ![n] = Append(@, fanned)]
    /\ job' = [job EXCEPT ![n] = matched]
    /\ nPc' = [nPc EXCEPT ![n] = "notify"]
SendOrDrop(n) == Receive(n) \/ (nPc[n] # "receive" /\ UNCHANGED <<got, job, nPc>>)
Send(n) == Receive(n)

FanOutSend ==
    /\ mu /\ next <= Len(txStreams)
    /\ Send(txStreams[next])
    /\ next' = next + 1
    /\ UNCHANGED <<envVars, watchVars, mu, txStreams, fanned, told, calls, since>>

UnlockIfSubscribed == mu' = (txStreams = <<>>)
Unlock == mu' = FALSE

FanOutUnlock ==
    /\ mu /\ next > Len(txStreams)
    /\ Unlock /\ NextTx
    /\ UNCHANGED <<txStreams, next, fanned, got, told, ntfVars>>

Subscribe(n) ==
    /\ nPc[n] = "start" /\ ~mu
    /\ txStreams' = Append(txStreams, n)
    /\ since' = [since EXCEPT ![n] = fanned]
    /\ nPc' = [nPc EXCEPT ![n] = "receive"]
    /\ UNCHANGED <<envVars, watchVars, mu, next, fanned, got, told, job, calls>>

-----------------------------------------------------------------------------
(* notify.                                                                   *)

\* The endpoints of the next address, in the order the query returns them.
\* A query that fails is logged and the address skipped.
NextAddress(n) ==
    /\ nPc[n] = "notify" /\ calls[n] = <<>> /\ job[n] # <<>>
    /\ job' = [job EXCEPT ![n] = Tail(@)]
    /\ \E list \in Orderings(Endpoints[n][Head(job[n])]) \cup {<<>>} :
          calls' = [calls EXCEPT ![n] = list]
    /\ UNCHANGED <<envVars, watchVars, fanVars, nPc, since>>

\* One call, which succeeds or fails: either is logged and the loop goes on.
Call(n) ==
    /\ nPc[n] = "notify" /\ calls[n] # <<>>
    /\ calls' = [calls EXCEPT ![n] = Tail(@)]
    /\ UNCHANGED <<envVars, watchVars, fanVars, nPc, job, since>>

\* An endpoint that accepts the call and never answers it: no call has a
\* timeout.
CallHangs(n) ==
    /\ nPc[n] = "notify" /\ calls[n] # <<>>
    /\ nPc' = [nPc EXCEPT ![n] = "hung"]
    /\ UNCHANGED <<envVars, watchVars, fanVars, job, calls, since>>

\* Back to the receive of the endless loop.
LoopOnce(n) == nPc' = [nPc EXCEPT ![n] = "stopped"]
LoopSubscribes(n) == nPc' = [nPc EXCEPT ![n] = "start"]
Loop(n) == nPc' = [nPc EXCEPT ![n] = "receive"]

Notified(n) ==
    /\ nPc[n] = "notify" /\ calls[n] = <<>> /\ job[n] = <<>>
    /\ Loop(n)
    /\ UNCHANGED <<envVars, watchVars, fanVars, job, calls, since>>

-----------------------------------------------------------------------------
Environment == (\E t \in Tx : Accept(t) \/ Mine(t))
               \/ (\E r \in Row : Watch(r) \/ Unwatch(r)) \/ ListUnspent \/ ScanDelivered
Watcher == ReceiveRawTx \/ MatchOutput \/ MatchInput \/ NoMatch \/ IsConfirmed
           \/ IsConfirmedFails \/ FanOutLock \/ FanOutSend \/ FanOutUnlock
Notify(n) == NextAddress(n) \/ Call(n) \/ Notified(n)

Next == \/ Environment \/ Watcher
        \/ \E n \in Notifier : Subscribe(n) \/ Notify(n) \/ CallHangs(n)

Spec == Init /\ [][Next]_vars

\* The Go scheduler runs every goroutine that can run; a mutex that is
\* released again and again is granted in the end (Go's Mutex hands over to
\* a waiter that starves), which needs strong fairness.
Fairness == /\ WF_vars(Watcher)
            /\ \A n \in Notifier : SF_vars(Subscribe(n)) /\ WF_vars(Notify(n))

FairSpec == Spec /\ Fairness
-----------------------------------------------------------------------------
(* Properties.                                                               *)

TypeOK ==
    /\ status \in [Tx -> {"unseen", "mempool", "mined"}]
    /\ feed \in Seq(Tx) /\ Len(feed) <= FeedCap
    /\ row \in [Row -> {"none", "watched", "deleted"}]
    /\ utxos \in [Row -> SUBSET Tx] /\ steady \subseteq watched
    /\ due \in Seq(Address) /\ answers \in Seq(Answer) /\ Len(answers) <= 2
    /\ pc \in {"receive", "outputs", "fanout"} /\ tx \in Tx
    /\ outs \in Seq(Address \cup {NoAddr}) /\ ins \in Seq([tx : Tx, addr : Address])
    /\ matched \in Seq(Row)
    /\ mu \in BOOLEAN /\ txStreams \in Seq(Notifier)
    /\ Len(txStreams) <= Cardinality(Notifier)
    /\ next \in 1..Len(txStreams) + 1
    /\ nPc \in [Notifier -> {"start", "receive", "notify", "stopped", "hung"}]
    /\ job \in [Notifier -> Seq(Row)]
    /\ fanned \in Nat /\ got \in [Notifier -> Seq(Nat)]
    /\ told \in [Tx -> SUBSET Row] /\ since \in [Notifier -> Nat]

Subscribed(n) == n \in Elems(txStreams)
Awaited(n) == next <= Len(txStreams) /\ n = txStreams[next]

\* Whenever no notification is being fanned out, every subscriber has had
\* every notification since it subscribed, in order and once.
FanOutComplete ==
    ~mu => \A n \in Notifier :
              Subscribed(n) => got[n] = [i \in 1..fanned - since[n] |-> since[n] + i]

\* A row whose address the transaction pays, and that is watched all the while
\* the outputs are matched, is matched: although the list changes under the
\* loop, rows of other users have the same address and some outputs have none.
SteadyMatched ==
    pc # "receive" /\ outs = <<>> =>
        \A r \in steady : AddressOf[r] \in Elems(Outs[tx]) => r \in Elems(matched)

\* A fan-out ends, whatever queries and calls fail: with FanOutComplete, every
\* notification reaches every subscriber.  Only a call that is never answered
\* keeps it from ending, when the notifier that made it is the next receiver.
FanOutEnds ==
    mu ~> (~mu \/ \E n \in Notifier : nPc[n] = "hung" /\ Awaited(n))

\* Every notifier gets to subscribe, while notifications are being fanned out
\* under the mutex its Subscribe needs, unless such a call keeps it locked.
EveryNotifierSubscribes ==
    \A n \in Notifier : <>(Subscribed(n) \/ \E k \in Notifier : nPc[k] = "hung")

\* The watched rows whose owners were told of an output.
Told(out) == {r \in steady : AddressOf[r] = out.addr /\ r \in told[out.tx]}

\* README.md:3: funds received on a watched address and funds sent from it
\* are both noticed: an output whose receipt was alerted is noticed again when
\* it is spent.
SpendNoticed ==
    Matched => \A spent \in Elems(Ins[tx]) : Told(spent) \subseteq Elems(matched)
=============================================================================
