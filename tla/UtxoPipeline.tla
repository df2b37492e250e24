---------------------------- MODULE UtxoPipeline ----------------------------
(***************************************************************************)
(* The unspent-output cache of sat.watch: internal/api/api.go (Init and    *)
(* updateUTXOs), internal/api/address.go (CreateAddress,                   *)
(* UpdateAddressUTXOs, DeleteAddress) and internal/monitor/utxo.go         *)
(* (EnqueueScan, monitorUtxos).                                            *)
(*                                                                         *)
(* Four kinds of goroutine share the address list:                         *)
(*   main      loads the stored addresses, queues one scan for each,       *)
(*             starts the updater and only then publishes the list;        *)
(*   scanner   takes a script hash from the buffered channel               *)
(*             addressStream, asks the Electrum server for its unspent     *)
(*             outputs and hands the answer over on the unbuffered         *)
(*             utxoStream;                                                 *)
(*   updater   receives an answer and stores it under the mutex;           *)
(*   handlers  HTTP requests that create and delete addresses.             *)
(*                                                                         *)
(* The set of unspent outputs of a script hash is abstracted to a version: *)
(* the number of times it has changed.  NoUtxos is Go's nil list, what an  *)
(* address has before its first scan and after a scan that failed.         *)
(***************************************************************************)
EXTENDS Listings

CONSTANTS
    Addr,         \* ids of address rows
    ScriptHash,   \* Electrum script hashes
    Hash,         \* the script hash of each row; two users may watch one
    Stored,       \* rows already in the database when the system first starts
    Handler,      \* concurrently running HTTP handlers
    BufCap,       \* capacity of addressStream (1000 in the code)
    MaxVersion,   \* bound: changes of the unspent set of one script hash
    MaxCrashes    \* bound: how often the process dies and is restarted

ASSUME HashAssumption == Hash \in [Addr -> ScriptHash]
ASSUME AddrAssumption == IsFiniteSet(Addr) /\ Stored \subseteq Addr
ASSUME BufCapAssumption == BufCap \in Nat \ {0}
ASSUME BoundAssumption == MaxVersion \in Nat /\ MaxCrashes \in Nat

NoUtxos == -1

\* The holder of API.mu when it is not locked.  The updater, Publish and
\* DeleteAddress lock and unlock it within one step, because they do nothing
\* in between that can block; CreateAddress keeps it while it sends.
Free == "free"
NoHash == "none"   \* a goroutine's local before it first received one
ASSUME FreeAssumption == Free \notin Handler

VARIABLES
    rows,           \* table addresses: state of each row
    chain,          \* Electrum server: version of each unspent set
    watched,        \* ids in api.addresses
    utxos,          \* Address.UTXOs of each id
    mu,             \* holder of API.mu, or Free
    addressStream,  \* the buffered channel of script hashes
    scanPc, scanHash, scanResult,   \* goroutine monitorUtxos
    updPc, updHash, updResult,      \* goroutine updateUTXOs
    mainPc, loaded, mainTodo,       \* goroutine main, in Init
    reqPc, reqBatch, reqTodo,       \* HTTP handlers
    settled,        \* history: watched ids whose scan result was stored
    crashes         \* number of crashes so far

dbVars   == <<rows, chain>>
memVars  == <<watched, utxos, settled>>
scanVars == <<scanPc, scanHash, scanResult>>
updVars  == <<updPc, updHash, updResult>>
mainVars == <<mainPc, loaded, mainTodo>>
reqVars  == <<reqPc, reqBatch, reqTodo>>
vars == <<rows, chain, watched, utxos, settled, mu, addressStream,
          scanPc, scanHash, scanResult, updPc, updHash, updResult,
          mainPc, loaded, mainTodo, reqPc, reqBatch, reqTodo, crashes>>

-----------------------------------------------------------------------------
Hashes(ids) == [i \in 1..Len(ids) |-> Hash[ids[i]]]

Version == Nat \cup {NoUtxos}

Live == {a \in Addr : rows[a] = "live"}

\* Everything volatile, as it is when the process starts.
ProcessStart ==
    /\ watched' = {}
    /\ utxos' = [a \in Addr |-> NoUtxos]
    /\ settled' = {}
    /\ mu' = Free
    /\ addressStream' = <<>>
    /\ scanPc' = "take" /\ scanHash' = NoHash /\ scanResult' = NoUtxos
    /\ updPc' = "off" /\ updHash' = NoHash /\ updResult' = NoUtxos
    /\ mainPc' = "select" /\ loaded' = <<>> /\ mainTodo' = <<>>
    /\ reqPc' = [h \in Handler |-> "idle"]
    /\ reqBatch' = [h \in Handler |-> <<>>]
    /\ reqTodo' = [h \in Handler |-> <<>>]

Init ==
    /\ rows = [a \in Addr |-> IF a \in Stored THEN "live" ELSE "none"]
    /\ chain = [s \in ScriptHash |-> 0]
    /\ watched = {} /\ utxos = [a \in Addr |-> NoUtxos] /\ settled = {}
    /\ mu = Free
    /\ addressStream = <<>>
    /\ scanPc = "take" /\ scanHash = NoHash /\ scanResult = NoUtxos
    /\ updPc = "off" /\ updHash = NoHash /\ updResult = NoUtxos
    /\ mainPc = "select" /\ loaded = <<>> /\ mainTodo = <<>>
    /\ reqPc = [h \in Handler |-> "idle"]
    /\ reqBatch = [h \in Handler |-> <<>>]
    /\ reqTodo = [h \in Handler |-> <<>>]
    /\ crashes = 0

-----------------------------------------------------------------------------
(* EnqueueScan: a send on the buffered channel, which blocks while it is     *)
(* full.  Shared by main and by the handlers.                                *)
EnqueueScanUnbounded(s) == addressStream' = Append(addressStream, s)
EnqueueScanUnbuffered(s) ==
    scanPc = "take" /\ addressStream = <<>> /\ addressStream' = <<s>>

EnqueueScan(s) ==
    /\ Len(addressStream) < BufCap
    /\ addressStream' = Append(addressStream, s)

-----------------------------------------------------------------------------
(* Goroutine main, in api.Init.                                              *)

SelectAddresses ==
    /\ mainPc = "select"
    /\ \E ids \in Orderings(Live) : loaded' = ids /\ mainTodo' = ids
    /\ mainPc' = "enqueue"
    /\ UNCHANGED <<dbVars, memVars, mu, addressStream, scanVars, updVars, reqVars, crashes>>

InitEnqueue ==
    /\ mainPc = "enqueue" /\ mainTodo # <<>>
    /\ EnqueueScan(Hash[Head(mainTodo)])
    /\ mainTodo' = Tail(mainTodo)
    /\ UNCHANGED <<dbVars, memVars, mu, scanVars, updVars, mainPc, loaded, reqVars, crashes>>

\* go api.updateUTXOs(utxoMonitor)
StartUpdater ==
    /\ mainPc = "enqueue" /\ mainTodo = <<>>
    /\ updPc' = "receive"
    /\ mainPc' = "publish"
    /\ UNCHANGED <<dbVars, memVars, mu, addressStream, scanVars, updHash, updResult,
                   loaded, mainTodo, reqVars, crashes>>

\* api.addresses = addresses, under the mutex.  The HTTP server starts after.
PublishAddresses ==
    /\ mainPc = "publish" /\ mu = Free
    /\ watched' = Elems(loaded)
    /\ mainPc' = "serve"
    /\ UNCHANGED <<dbVars, utxos, settled, mu, addressStream, scanVars, updVars,
                   loaded, mainTodo, reqVars, crashes>>

-----------------------------------------------------------------------------
(* Goroutine monitorUtxos.                                                   *)

ScanTake ==
    /\ scanPc = "take" /\ addressStream # <<>>
    /\ scanHash' = Head(addressStream)
    /\ addressStream' = Tail(addressStream)
    /\ scanPc' = "list"
    /\ UNCHANGED <<dbVars, memVars, mu, scanResult, updVars, mainVars, reqVars, crashes>>

\* What the server may answer.  A call that fails is only logged: its nil
\* list is sent on.
AnswersCached == (0..chain[scanHash]) \cup {NoUtxos}
Answers == {chain[scanHash], NoUtxos}

ListUnspent ==
    /\ scanPc = "list"
    /\ scanResult' \in Answers
    /\ scanPc' = "send"
    /\ UNCHANGED <<dbVars, memVars, mu, addressStream, scanHash, updVars, mainVars,
                   reqVars, crashes>>

\* The end of the loop body: the job is done.
NextJobSame == UNCHANGED scanVars
NextJob == scanPc' = "take" /\ scanHash' = NoHash /\ scanResult' = NoUtxos

\* The unbuffered utxoStream: the scanner's send and the updater's receive
\* are one step.
HandOver ==
    /\ scanPc = "send" /\ updPc = "receive"
    /\ updHash' = scanHash /\ updResult' = scanResult /\ updPc' = "store"
    /\ NextJob
    /\ UNCHANGED <<dbVars, memVars, mu, addressStream, mainVars, reqVars, crashes>>

-----------------------------------------------------------------------------
(* Goroutine updateUTXOs.                                                    *)

\* The entries of api.addresses that the result is stored in: every one
\* with its script hash.
MatchesFirst == LET hits == {a \in watched : Hash[a] = updHash} IN
                IF hits = {} THEN {} ELSE {CHOOSE a \in hits : TRUE}
Matches == {a \in watched : Hash[a] = updHash}

\* The updater's loop goes on after every result, a failed one too.
NextResultUnlessFailed == updPc' = IF updResult = NoUtxos THEN "off" ELSE "receive"
NextResult == updPc' = "receive"

UpdateAddressUTXOs ==
    /\ updPc = "store" /\ mu = Free
    /\ utxos' = [a \in Addr |-> IF a \in Matches THEN updResult ELSE utxos[a]]
    /\ settled' = settled \cup Matches
    /\ NextResult /\ updHash' = NoHash /\ updResult' = NoUtxos
    /\ UNCHANGED <<dbVars, watched, mu, addressStream, scanVars, mainVars, reqVars, crashes>>

-----------------------------------------------------------------------------
(* HTTP handlers.                                                            *)

\* Ids are fresh UUIDs: never a row yet, and in no other handler's batch.
Fresh == {a \in Addr : rows[a] = "none"}

\* A statement that fails changes nothing, and its handler returns.  One that
\* was committed all the same, its answer lost, leaves table and list as they
\* are between the two halves of a handler: it is a handler that stops there,
\* which Spec allows.  What becomes of such rows is AccountStore's subject.

\* CreateAddress up to SendBatch, which inserts all rows or none.
CreateInsert(h) ==
    /\ mainPc = "serve" /\ reqPc[h] = "idle"
    /\ \E batch \in BatchesOf(Fresh) \ {<<>>} :
          /\ rows' = [a \in Addr |-> IF a \in Elems(batch) THEN "live" ELSE rows[a]]
          /\ reqBatch' = [reqBatch EXCEPT ![h] = batch]
    /\ reqPc' = [reqPc EXCEPT ![h] = "append"]
    /\ UNCHANGED <<chain, memVars, mu, addressStream, scanVars, updVars, mainVars,
                   reqTodo, crashes>>

\* api.mu.Lock(); api.addresses = append(...).  The mutex stays locked.
CreateAppend(h) ==
    /\ reqPc[h] = "append" /\ mu = Free
    /\ mu' = h
    /\ watched' = watched \cup Elems(reqBatch[h])
    /\ reqTodo' = [reqTodo EXCEPT ![h] = reqBatch[h]]
    /\ reqPc' = [reqPc EXCEPT ![h] = "enqueue"]
    /\ UNCHANGED <<dbVars, utxos, settled, addressStream, scanVars, updVars, mainVars,
                   reqBatch, crashes>>

CreateEnqueue(h) ==
    /\ reqPc[h] = "enqueue" /\ reqTodo[h] # <<>>
    /\ EnqueueScan(Hash[Head(reqTodo[h])])
    /\ reqTodo' = [reqTodo EXCEPT ![h] = Tail(@)]
    /\ UNCHANGED <<dbVars, memVars, mu, scanVars, updVars, mainVars, reqPc, reqBatch,
                   crashes>>

\* The deferred Unlock.
UnlockForgotten == UNCHANGED mu
Unlock == mu' = Free

CreateReturn(h) ==
    /\ reqPc[h] = "enqueue" /\ reqTodo[h] = <<>>
    /\ Unlock
    /\ reqPc' = [reqPc EXCEPT ![h] = "idle"]
    /\ reqBatch' = [reqBatch EXCEPT ![h] = <<>>]
    /\ UNCHANGED <<dbVars, memVars, addressStream, scanVars, updVars, mainVars, reqTodo,
                   crashes>>

\* DeleteAddress: the UPDATE first.  The id comes from a page that was
\* rendered from api.addresses.
DeleteRow(h) ==
    /\ mainPc = "serve" /\ reqPc[h] = "idle"
    /\ \E a \in watched :
          /\ rows' = [rows EXCEPT ![a] = "deleted"]
          /\ reqBatch' = [reqBatch EXCEPT ![h] = <<a>>]
    /\ reqPc' = [reqPc EXCEPT ![h] = "remove"]
    /\ UNCHANGED <<chain, memVars, mu, addressStream, scanVars, updVars, mainVars,
                   reqTodo, crashes>>

\* ... and then slices.DeleteFunc under the mutex.
DeleteRemove(h) ==
    LET gone == Elems(reqBatch[h]) IN
    /\ reqPc[h] = "remove" /\ mu = Free
    /\ watched' = watched \ gone
    /\ utxos' = [a \in Addr |-> IF a \in gone THEN NoUtxos ELSE utxos[a]]
    /\ settled' = settled \ gone
    /\ reqPc' = [reqPc EXCEPT ![h] = "idle"]
    /\ reqBatch' = [reqBatch EXCEPT ![h] = <<>>]
    /\ UNCHANGED <<dbVars, mu, addressStream, scanVars, updVars, mainVars, reqTodo, crashes>>

-----------------------------------------------------------------------------
(* The environment: transactions change an unspent set; the process dies     *)
(* (a panic, log.Fatal, a container restart) and starts again with nothing   *)
(* but the database.                                                         *)

UnspentChanges ==
    /\ \E s \in ScriptHash :
          /\ chain[s] < MaxVersion
          /\ chain' = [chain EXCEPT ![s] = @ + 1]
    /\ UNCHANGED <<rows, memVars, mu, addressStream, scanVars, updVars, mainVars, reqVars,
                   crashes>>

CrashAndRestart ==
    /\ crashes < MaxCrashes
    /\ crashes' = crashes + 1
    /\ ProcessStart
    /\ UNCHANGED dbVars

-----------------------------------------------------------------------------
Main == SelectAddresses \/ InitEnqueue \/ StartUpdater \/ PublishAddresses
Scanner == ScanTake \/ ListUnspent \/ HandOver
Updater == UpdateAddressUTXOs
Finish(h) == CreateAppend(h) \/ CreateEnqueue(h) \/ CreateReturn(h) \/ DeleteRemove(h)
Request(h) == CreateInsert(h) \/ DeleteRow(h) \/ Finish(h)

Next == Main \/ Scanner \/ Updater \/ (\E h \in Handler : Request(h))
        \/ UnspentChanges \/ CrashAndRestart

Spec == Init /\ [][Next]_vars

\* Every goroutine that can take its next step eventually does: the Go
\* scheduler is fair, and the Electrum server answers (an answer that never
\* comes is modelled in ElectrumClient).  A handler that has begun runs on;
\* nothing makes a user begin a request.
Fairness ==
    /\ WF_vars(Main) /\ WF_vars(Scanner) /\ WF_vars(Updater)
    /\ \A h \in Handler : WF_vars(Finish(h))

FairSpec == Spec /\ Fairness

-----------------------------------------------------------------------------
(* Properties.                                                               *)

\* The scans still to be delivered, oldest first: the answer the updater
\* holds, the job the scanner holds, the channel, and what the goroutine that
\* is sending has not sent yet.
InUpdater == IF updPc = "store" THEN <<updHash>> ELSE <<>>
InScanner == IF scanPc = "take" THEN <<>> ELSE <<scanHash>>
Unsent == Hashes(IF mu = Free THEN mainTodo ELSE reqTodo[mu])
Pipeline == InUpdater \o InScanner \o addressStream \o Unsent

\* The scan of script hash s is one of them.
OnItsWay(s) ==
    \/ updPc = "store" /\ updHash = s
    \/ scanPc # "take" /\ scanHash = s
    \/ s \in Elems(addressStream)
    \/ \E a \in Elems(mainTodo) : Hash[a] = s
    \/ \E h \in Handler : \E a \in Elems(reqTodo[h]) : Hash[a] = s

TypeOK ==
    /\ rows \in [Addr -> {"none", "live", "deleted"}]
    /\ chain \in [ScriptHash -> Nat]
    /\ watched \subseteq Addr /\ settled \subseteq Addr
    /\ utxos \in [Addr -> Version]
    /\ mu \in Handler \cup {Free}
    /\ addressStream \in Seq(ScriptHash) /\ Len(addressStream) <= BufCap
    /\ scanPc \in {"take", "list", "send"} /\ updPc \in {"off", "receive", "store"}
    /\ scanHash \in ScriptHash \cup {NoHash} /\ updHash \in ScriptHash \cup {NoHash}
    /\ scanPc # "take" => scanHash \in ScriptHash
    /\ updPc = "store" => updHash \in ScriptHash
    /\ scanResult \in Version /\ updResult \in Version
    /\ mainPc \in {"select", "enqueue", "publish", "serve"}
    /\ loaded \in Seq(Addr) /\ mainTodo \in Seq(Addr)
    /\ reqPc \in [Handler -> {"idle", "append", "enqueue", "remove"}]
    /\ reqBatch \in [Handler -> Seq(Addr)] /\ reqTodo \in [Handler -> Seq(Addr)]
    /\ crashes \in 0..MaxCrashes

\* Who holds the mutex while it may block, and what each goroutine has left
\* to do in each of its states: nobody registers or serves before main has
\* published, and no batch is queued by a handler without the mutex.
LockDiscipline ==
    /\ \A h \in Handler : reqPc[h] = "enqueue" <=> mu = h
    /\ \A h \in Handler : reqTodo[h] # <<>> => reqPc[h] = "enqueue"
    /\ mainPc # "serve" =>
          watched = {} /\ \A h \in Handler : reqPc[h] = "idle"
    /\ mainTodo # <<>> => mainPc = "enqueue"

\* An address that a running process accepted through CreateAddress is never
\* forgotten: its first scan is stored or still on its way, whatever the
\* other goroutines do.  It rests on CreateAddress appending the address
\* before it queues the scan, and on doing both under one lock.
CreatedScanNotLost ==
    \A a \in watched \ Elems(loaded) : a \in settled \/ OnItsWay(Hash[a])

\* The same for the addresses that were stored when the process started:
\* README.md:3 promises to monitor every address a user specified.
StoredScanNotLost ==
    \A a \in watched \cap Elems(loaded) : a \in settled \/ OnItsWay(Hash[a])

\* A stored result is replaced by one the server gave later, or by the nil
\* list of a failed call, never by an older answer: the channel is first in,
\* first out and there is one scanner and one updater.
UtxosNeverOlder ==
    [][\A a \in watched \cap watched' :
          utxos'[a] # NoUtxos => utxos'[a] >= utxos[a]]_vars

\* Why: along the path of a script hash - registered, in the updater's hand,
\* in the scanner's hand, on the server - results only get newer.
NotOlder(r, q) == r = NoUtxos \/ q <= r
ResultsInOrder ==
    /\ \A a \in Addr : utxos[a] <= chain[Hash[a]]
    /\ \A a \in Addr \ watched : utxos[a] = NoUtxos
    /\ scanPc = "send" =>
          /\ scanResult <= chain[scanHash]
          /\ \A a \in Addr : Hash[a] = scanHash => NotOlder(scanResult, utxos[a])
    /\ updPc = "store" =>
          /\ updResult <= chain[updHash]
          /\ \A a \in Addr : Hash[a] = updHash => NotOlder(updResult, utxos[a])
    /\ scanPc = "send" /\ updPc = "store" /\ scanHash = updHash =>
          NotOlder(scanResult, updResult)

\* The cache implements the registry and scan queue of ScanService.
Service == INSTANCE ScanService WITH pending <- Pipeline
ImplementsScanService == Service!Spec

\* The address channel is full, the scanner waits for the updater, the updater
\* waits for the mutex, and the handler that holds it waits for the channel.
Jammed ==
    /\ mu # Free /\ reqTodo[mu] # <<>> /\ Len(addressStream) = BufCap
    /\ scanPc = "send" /\ updPc = "store"

\* Every scan that was accepted is delivered, or its address deleted, while
\* the process lives, unless the goroutines jam (CreateAddress queues its
\* scans with the mutex locked).
ScanCompletes ==
    \A a \in Addr : (a \in watched /\ a \notin settled /\ OnItsWay(Hash[a]))
                        ~> (a \notin watched \/ a \in settled \/ Jammed)

\* A jam lasts until the process is restarted (address.go:55) ...
JamLasts == [][Jammed => Jammed' \/ crashes' # crashes]_vars
\* ... and unless one comes about, every request that has begun returns: no
\* other wait, for the mutex or for a channel, lasts for ever.
RequestReturns ==
    /\ \A h \in Handler : reqPc[h] # "idle" ~> (reqPc[h] = "idle" \/ Jammed)
    /\ JamLasts

\* The system comes up after a start if and only if the address channel and
\* the scanner's hand have room for all stored rows: Init queues them before
\* it starts the updater, and with one row more it never returns.
Fits == Len(loaded) <= BufCap + 1
Stuck == mainPc = "enqueue" /\ updPc = "off"
StartupCompletes ==
    /\ []<>(mainPc = "serve" \/ ~Fits)
    /\ [](~Fits => Stuck)
=============================================================================
