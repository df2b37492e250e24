--------------------------- MODULE ElectrumClient ---------------------------
(***************************************************************************)
(* The JSON-RPC client both monitors share: go-electrum's network.go       *)
(* (request, listen, Shutdown) and transport.go (TCPTransport.listen), as  *)
(* internal/clients/electrum.go runs it after ServerVersion has answered:  *)
(* a goroutine that pings, one that drains Client.Error, and no reconnect. *)
(*                                                                         *)
(* Every caller passes a context that is never cancelled.  The fields      *)
(* transport and handlers are read and written without a common lock.      *)
(***************************************************************************)
EXTENDS Listings

CONSTANTS
    Caller,         \* goroutines that make calls
    MayDisconnect,  \* whether the connection may break
    MaxCalls        \* bound: requests sent

NoCaller == "nobody"
Listener == "listen"    \* goroutine Client.listen

ASSUME CallerAssumption ==
    /\ IsFiniteSet(Caller) /\ MayDisconnect \in BOOLEAN /\ MaxCalls \in Nat
    /\ NoCaller \notin Caller /\ Listener \notin Caller

Goroutine == Caller \cup {Listener}     \* those that may call Shutdown

VARIABLES
    nextID,     \* Client.nextID
    pc, id,     \* of each caller, in request: where it is, msg.ID
    inbox,      \* of each caller: what its channel c holds
    handlers,   \* Client.handlers: of each request id, whose channel is registered
    dropped,    \* the field handlers is nil
    transport,  \* the field transport is not nil
    quit,       \* Client.quit is closed
    shutdown,   \* of each goroutine: where it is in Shutdown, or "no"
    listenPc, listenMsg,    \* goroutine Client.listen
    readPc, readMsg,        \* goroutine TCPTransport.listen
    conn,       \* whether the connection is up
    requests,   \* requests the server has not answered
    replies,    \* answers on the wire, in order
    lost,       \* history: callers whose answer found no channel
    panicked    \* a goroutine panicked: the process is dead

callVars == <<nextID, pc, id, inbox>>
fieldVars == <<handlers, dropped, transport, quit, shutdown>>
listenVars == <<listenPc, listenMsg, lost>>
readVars == <<readPc, readMsg>>
netVars == <<conn, requests, replies>>
vars == <<nextID, pc, id, inbox, handlers, dropped, transport, quit, shutdown, listenPc,
          listenMsg, readPc, readMsg, conn, requests, replies, lost, panicked>>

\* A request has its id, and whose it is.  An answer (a result or an error, the
\* client treats them alike) has the id of its request; one that cannot be
\* read has id 0; one whose error code is no number makes UnmarshalJSON panic.
RequestId == 1..MaxCalls
Request == [id : RequestId, of : Caller]
Answer == [id : 0..MaxCalls, of : Caller, kind : {"answer", "badCode"}]
NoAnswer == [id |-> 0, of |-> NoCaller, kind |-> "none"]

NoHandlers == [i \in RequestId |-> NoCaller]

Init ==
    /\ nextID = 0
    /\ pc = [c \in Caller |-> "idle"] /\ id = [c \in Caller |-> 0]
    /\ inbox = [c \in Caller |-> NoAnswer]
    /\ handlers = NoHandlers /\ dropped = FALSE /\ transport = TRUE /\ quit = FALSE
    /\ shutdown = [g \in Goroutine |-> "no"]
    /\ listenPc = "select" /\ listenMsg = NoAnswer /\ lost = {}
    /\ readPc = "read" /\ readMsg = NoAnswer
    /\ conn = TRUE /\ requests = {} /\ replies = <<>>
    /\ panicked = FALSE

-----------------------------------------------------------------------------
(* Client.Shutdown, which any goroutine may run while others do.             *)

\* What is on its way may still be read, or is discarded.
Breaks == conn' = FALSE /\ requests' = {} /\ replies' \in {replies, <<>>}

\* IsShutdown: quit is closed only if it was open then.
Enters(g) == shutdown' = [shutdown EXCEPT ![g] = IF quit THEN "transport" ELSE "close"]

\* Closing a closed channel panics.
CloseQuit(g) ==
    /\ shutdown[g] = "close" /\ ~panicked
    /\ panicked' = quit /\ quit' = TRUE
    /\ shutdown' = [shutdown EXCEPT ![g] = "transport"]
    /\ UNCHANGED <<callVars, handlers, dropped, transport, listenVars, readVars, netVars>>

TestTransport(g) ==
    /\ shutdown[g] = "transport" /\ ~panicked
    /\ shutdown' = [shutdown EXCEPT ![g] = IF transport THEN "connection" ELSE "clear"]
    /\ UNCHANGED <<callVars, handlers, dropped, transport, quit, listenVars, readVars, netVars,
                   panicked>>

\* transport may have become nil since the test.
CloseTransport(g) ==
    /\ shutdown[g] = "connection" /\ ~panicked
    /\ IF transport THEN Breaks ELSE UNCHANGED netVars
    /\ panicked' = ~transport
    /\ shutdown' = [shutdown EXCEPT ![g] = "clear"]
    /\ UNCHANGED <<callVars, handlers, dropped, transport, quit, listenVars, readVars>>

ClearTransport(g) ==
    /\ shutdown[g] = "clear" /\ ~panicked
    /\ transport' = FALSE
    /\ shutdown' = [shutdown EXCEPT ![g] = "handlers"]
    /\ UNCHANGED <<callVars, handlers, dropped, quit, listenVars, readVars, netVars, panicked>>

KeepHandlers == UNCHANGED handlers
DropHandlers == handlers' = NoHandlers

ClearHandlers(g) ==
    /\ shutdown[g] = "handlers" /\ ~panicked
    /\ dropped' = TRUE /\ DropHandlers
    /\ shutdown' = [shutdown EXCEPT ![g] = "no"]
    /\ UNCHANGED <<callVars, transport, quit, listenVars, readVars, netVars, panicked>>

Shutdown(g) == CloseQuit(g) \/ TestTransport(g) \/ CloseTransport(g) \/ ClearTransport(g)
               \/ ClearHandlers(g)

-----------------------------------------------------------------------------
(* Client.request.                                                           *)

\* atomic.AddUint64
OwnCount(c) == id' = [id EXCEPT ![c] = @ + 1]
DrawId(c) == id' = [id EXCEPT ![c] = nextID + 1]

\* (After Shutdown a call returns ErrServerShutdown at once.)
Begin(c) ==
    /\ pc[c] = "idle" /\ shutdown[c] = "no" /\ ~quit /\ nextID < MaxCalls /\ ~panicked
    /\ nextID' = nextID + 1 /\ DrawId(c)
    /\ pc' = [pc EXCEPT ![c] = "send"]
    /\ UNCHANGED <<inbox, fieldVars, listenVars, readVars, netVars, panicked>>

\* transport is nil: the process panics.
SendPanics(c) ==
    /\ pc[c] = "send" /\ ~transport /\ ~panicked
    /\ panicked' = TRUE
    /\ UNCHANGED <<callVars, fieldVars, listenVars, readVars, netVars>>

\* The write reaches the server, or is lost with a connection that is down.
Send(c) ==
    /\ pc[c] = "send" /\ transport /\ ~panicked
    /\ requests' = IF conn THEN requests \cup {[id |-> id[c], of |-> c]} ELSE requests
    /\ pc' = [pc EXCEPT ![c] = "register"]
    /\ UNCHANGED <<nextID, id, inbox, fieldVars, listenVars, readVars, conn, replies, panicked>>

\* The write fails: Shutdown, and the error is returned.
SendFails(c) ==
    /\ pc[c] = "send" /\ transport /\ ~conn /\ ~panicked
    /\ pc' = [pc EXCEPT ![c] = "idle"] /\ Enters(c)
    /\ UNCHANGED <<nextID, id, inbox, handlers, dropped, transport, quit, listenVars, readVars,
                   netVars, panicked>>

\* After the message is sent the answer channel is registered.  The map may be
\* nil by then, and storing into it panics.
Register(c) ==
    /\ pc[c] = "register" /\ ~panicked
    /\ IF dropped THEN panicked' = TRUE /\ UNCHANGED <<pc, handlers>>
                  ELSE /\ handlers' = [handlers EXCEPT ![id[c]] = c]
                       /\ pc' = [pc EXCEPT ![c] = "wait"]
                       /\ UNCHANGED panicked
    /\ UNCHANGED <<nextID, id, inbox, dropped, transport, quit, shutdown, listenVars, readVars,
                   netVars>>

\* The deferred removal of the answer channel.
KeepHandler(c) == UNCHANGED handlers
DeleteHandler(c) == handlers' = [handlers EXCEPT ![id[c]] = NoCaller]

Return(c) ==
    /\ pc[c] = "wait" /\ inbox[c] # NoAnswer /\ ~panicked
    /\ inbox' = [inbox EXCEPT ![c] = NoAnswer]
    /\ DeleteHandler(c)
    /\ pc' = [pc EXCEPT ![c] = "idle"]
    /\ UNCHANGED <<nextID, id, dropped, transport, quit, shutdown, listenVars, readVars, netVars,
                   panicked>>

-----------------------------------------------------------------------------
(* The server and the connection.                                            *)

Reply(r) ==
    /\ conn /\ r \in requests /\ ~panicked
    /\ requests' = requests \ {r}
    /\ \E i \in {0, r.id}, kind \in {"answer", "badCode"} :
          replies' = Append(replies, [id |-> i, of |-> r.of, kind |-> kind])
    /\ UNCHANGED <<callVars, fieldVars, listenVars, readVars, conn, panicked>>

Disconnect ==
    /\ MayDisconnect /\ conn /\ ~panicked
    /\ Breaks
    /\ UNCHANGED <<callVars, fieldVars, listenVars, readVars, panicked>>

-----------------------------------------------------------------------------
(* Goroutine TCPTransport.listen: reads a line and sends it on an unbuffered *)
(* channel; on an error it sends that and ends.                              *)

ReadLine ==
    /\ readPc = "read" /\ replies # <<>> /\ ~panicked
    /\ readMsg' = Head(replies) /\ replies' = Tail(replies)
    /\ readPc' = "respond"
    /\ UNCHANGED <<callVars, fieldVars, listenVars, conn, requests, panicked>>

\* Broken by the peer, or closed by Shutdown.
ReadFails ==
    /\ readPc = "read" /\ replies = <<>> /\ ~conn /\ ~panicked
    /\ readPc' = "error"
    /\ UNCHANGED <<callVars, fieldVars, listenVars, readMsg, netVars, panicked>>

-----------------------------------------------------------------------------
(* Goroutine Client.listen.                                                  *)

\* The tests at the top of the loop, the operands of the select, the select:
\* transport may become nil between the first two, and then the process panics.
ListenTop ==
    /\ listenPc = "top" /\ shutdown[Listener] = "no" /\ ~panicked
    /\ listenPc' = IF quit \/ ~transport THEN "done" ELSE "operands"
    /\ UNCHANGED <<callVars, fieldVars, listenMsg, lost, readVars, netVars, panicked>>

ListenOperands ==
    /\ listenPc = "operands" /\ ~panicked
    /\ panicked' = ~transport
    /\ listenPc' = "select"
    /\ UNCHANGED <<callVars, fieldVars, listenMsg, lost, readVars, netVars>>

ListenStops ==
    /\ listenPc = "select" /\ quit /\ ~panicked
    /\ listenPc' = "done"
    /\ UNCHANGED <<callVars, fieldVars, listenMsg, lost, readVars, netVars, panicked>>

TakeResponse ==
    /\ listenPc = "select" /\ readPc = "respond" /\ ~panicked
    /\ listenMsg' = readMsg /\ listenPc' = "dispatch"
    /\ readPc' = "read" /\ readMsg' = NoAnswer
    /\ UNCHANGED <<callVars, fieldVars, lost, netVars, panicked>>

\* Parsing the answer panics.
ParsePanics ==
    /\ listenPc = "dispatch" /\ listenMsg.kind = "badCode" /\ ~panicked
    /\ panicked' = TRUE
    /\ UNCHANGED <<callVars, fieldVars, listenVars, readVars, netVars>>

\* An answer goes to the channel registered for its id; with id 0, which is
\* never given out, or one that is not registered, it is dropped.
Addressee == {c \in Caller : \E i \in RequestId : i = listenMsg.id /\ handlers[i] = c}

\* The for loop goes on after a response, whether it had an addressee or not.
LoopOnce == listenPc' = "done" /\ UNCHANGED shutdown
LoopUnlessUnknown ==
    IF Addressee = {} THEN listenPc' = "top" /\ Enters(Listener)
                      ELSE listenPc' = "top" /\ UNCHANGED shutdown
Loop == listenPc' = "top" /\ UNCHANGED shutdown

\* The channel has room for one answer: a second would block the goroutine.
Dispatch ==
    /\ listenPc = "dispatch" /\ listenMsg.kind = "answer" /\ ~panicked
    /\ \A c \in Addressee : inbox[c] = NoAnswer
    /\ inbox' = [c \in Caller |-> IF c \in Addressee THEN listenMsg ELSE inbox[c]]
    /\ lost' = IF Addressee = {} THEN lost \cup {listenMsg.of} ELSE lost
    /\ Loop /\ listenMsg' = NoAnswer
    /\ UNCHANGED <<nextID, pc, id, handlers, dropped, transport, quit, readVars, netVars,
                   panicked>>

\* s.Error <- err, which clients/electrum.go drains; then Shutdown.
TakeError ==
    /\ listenPc = "select" /\ readPc = "error" /\ ~panicked
    /\ readPc' = "done" /\ listenPc' = "top" /\ Enters(Listener)
    /\ UNCHANGED <<callVars, handlers, dropped, transport, quit, listenMsg, lost, readMsg, netVars,
                   panicked>>

-----------------------------------------------------------------------------
Call(c) == Send(c) \/ SendPanics(c) \/ SendFails(c) \/ Register(c) \/ Return(c)
Listen == ListenTop \/ ListenOperands \/ ListenStops \/ TakeResponse \/ ParsePanics \/ Dispatch
          \/ TakeError
Read == ReadLine \/ ReadFails

Next == \/ \E c \in Caller : Begin(c) \/ Call(c)
        \/ \E g \in Goroutine : Shutdown(g)
        \/ \E r \in requests : Reply(r)
        \/ Disconnect \/ Listen \/ Read

Spec == Init /\ [][Next]_vars

\* Goroutines that can run do; the server answers what reaches it.
FairSpec ==
    /\ Spec /\ WF_vars(Listen) /\ WF_vars(Read)
    /\ \A c \in Caller : WF_vars(Call(c))
    /\ \A g \in Goroutine : WF_vars(Shutdown(g))
    /\ \A r \in Request : WF_vars(Reply(r))

-----------------------------------------------------------------------------
(* Properties.                                                               *)

TypeOK ==
    /\ nextID \in 0..MaxCalls
    /\ pc \in [Caller -> {"idle", "send", "register", "wait"}]
    /\ id \in [Caller -> 0..MaxCalls] /\ inbox \in [Caller -> Answer \cup {NoAnswer}]
    /\ handlers \in [RequestId -> Caller \cup {NoCaller}]
    /\ dropped => quit /\ handlers = NoHandlers
    /\ dropped \in BOOLEAN /\ transport \in BOOLEAN /\ quit \in BOOLEAN
    /\ shutdown \in [Goroutine -> {"no", "close", "transport", "connection", "clear", "handlers"}]
    /\ listenPc \in {"top", "operands", "select", "dispatch", "done"}
    /\ listenMsg \in Answer \cup {NoAnswer}
    /\ readPc \in {"read", "respond", "error", "done"} /\ readMsg \in Answer \cup {NoAnswer}
    /\ conn \in BOOLEAN /\ requests \subseteq Request /\ replies \in Seq(Answer)
    /\ lost \subseteq Caller /\ panicked \in BOOLEAN

\* The answer channels that are registered are those of the callers that
\* wait for an answer, each under the id of its own request (request): none
\* leaks, is missing or replaces another's, until Shutdown drops them.
HandlersMatchWaiters ==
    ~dropped => \A i \in RequestId, c \in Caller :
                    handlers[i] = c <=> pc[c] = "wait" /\ id[c] = i

\* What of a caller's request is still on its way.
UnderWay(c) ==
    \/ [id |-> id[c], of |-> c] \in requests
    \/ \E m \in Elems(replies) \cup {readMsg, listenMsg, inbox[c]} : m.of = c

\* A channel holds only the answer to the request of the caller that waits at
\* it; and while the connection is up, a caller that waits has its request or
\* the answer on its way, unless the answer was dropped because it could not
\* be read or came before the caller had registered (request, listen).
AnswersAwaited ==
    \A c \in Caller :
        /\ inbox[c] # NoAnswer => inbox[c].of = c /\ inbox[c].id = id[c] /\ pc[c] = "wait"
        /\ pc[c] = "wait" /\ conn /\ c \notin lost => UnderWay(c)

\* The client shuts down, and a goroutine panics, only after the connection
\* broke, or over an answer that cannot be parsed (network.go:185): an answer
\* that nobody waits for does no harm.
NoPanicWhileConnected ==
    /\ quit => ~conn
    /\ panicked => ~conn \/ listenMsg.kind = "badCode"

\* A caller that waits gets its answer and returns, unless the connection
\* breaks, the answer is dropped or the process panics.
AnsweredCallsReturn ==
    \A c \in Caller :
        pc[c] = "wait" ~> pc[c] = "idle" \/ ~conn \/ c \in lost \/ panicked

=============================================================================
