------------------------------ MODULE RpcClient ------------------------------
(***************************************************************************)
(* The way of a call through the TarsCpp client: ServantProxy::invoke in   *)
(* the calling threads, CommunicatorEpoll::handleNotify, ObjectProxy,      *)
(* AdapterProxy and TC_Transceiver in the network thread, AsyncProcThread  *)
(* behind it, one endpoint at the other end of one connection.             *)
(*                                                                         *)
(* A handler of the network thread is one action, except that the loops of *)
(* prepareConnection and doInvoke take one action per turn (netpc).        *)
(* Deadlines are not counted: any queued request may be the next to expire.*)
(***************************************************************************)
EXTENDS Integers, Sequences

CONSTANTS
    Threads,      \* calling threads, each with a request ring of its own
    Calls,        \* the calls that may be made
    Settings,     \* the proxies, endpoints and calls to consider; one is chosen at first
    RpcId,        \* RpcId[c]: the id given to rpc_call, 0 for a tars_invoke
    QueueCap,     \* capacity of a request ring
    NoSendLimit,  \* _noSendQueueLimit
    AsyncCap,     \* AsyncProcThread::_iQueueCap
    MaxDials,     \* bound on the connections opened in a behaviour
    NoCall        \* the null ReqMessage pointer

\* kind[c]: the CallType of c, or "ping" for doKeepAlive's own; serial:
\* tars_connection_serial() > 0; secured: the endpoint wants a handshake (SSL) or
\* authentication; faults: how a send may fail.
SettingType ==
    [kind : [Calls -> {"sync", "async", "oneway", "ping"}], serial : BOOLEAN,
     secured : BOOLEAN, faults : SUBSET {"error", "throw", "torn"}]

ASSUME SettingsAssumption ==
    /\ Settings \subseteq SettingType
    /\ \A g \in Settings, c \in Calls :
          g.kind[c] = "oneway" => ~g.serial   \* the assert of invoke_connection_serial
ASSUME ConstantsAssumption ==
    /\ NoCall \notin Calls
    /\ RpcId \in [Calls -> Nat]
    /\ QueueCap \in Nat /\ NoSendLimit \in Nat /\ AsyncCap \in Nat /\ MaxDials \in Nat

VARIABLES
    setting,      \* never changes
    \* calling threads
    ring,         \* ring[t]: the ReqInfoQueue of t
    armed,        \* armed[t]: an EPOLLOUT edge of t's notify descriptor is pending
    tpc,          \* where t is in ServantProxy::invoke
    cur,          \* the call t is making
    \* ObjectProxy
    reg,          \* what the EndpointManager knows of the endpoint
    objQ,         \* _reqTimeoutQueue
    adapter,      \* the calls whose msg->adapter is set
    \* AdapterProxy
    data,         \* _timeoutQueue._data
    send,         \* _timeoutQueue._send, oldest first
    requestMsg,   \* _requestMsg
    uniqId,       \* _timeoutQueue._uniqId
    rid,          \* rid[c]: msg->request.iRequestId
    netpc,        \* the loop the network thread is in
    \* TC_Transceiver and the connection behind it
    conn,         \* _connStatus, and whether handshake and authentication are over
    dials,        \* connections opened so far
    sendBuf,      \* _sendBuffer: the request it holds the rest of
    wire,         \* requests fully written to this connection and not answered
    cut,          \* requests whose shared Buffer has lost its first bytes
    \* messages and callbacks
    status,       \* status[c]: msg->eStatus, "new" before the call is made
    answer,       \* answer[c]: the call the response stored in c belongs to
    woken,        \* sync calls whose ReqMonitor was notified
    asyncQ,       \* AsyncProcThread::_msgQueue
    fate          \* fate[c]: how the ReqMessage was deleted, "live" before

callerVars == <<ring, armed, tpc, cur>>
objVars    == <<reg, objQ, adapter>>
queueVars  == <<data, send, requestMsg, uniqId, rid>>
transVars  == <<conn, dials, sendBuf, wire, cut>>
doneVars   == <<woken, asyncQ, fate>>
vars == <<setting, callerVars, objVars, queueVars, netpc, transVars, status, answer, doneVars>>

Kind       == setting.kind
Serial     == setting.serial
Secured    == setting.secured
SendFaults == setting.faults

Init ==
    /\ setting \in Settings
    /\ ring = [t \in Threads |-> <<>>] /\ armed = [t \in Threads |-> FALSE]
    /\ tpc = [t \in Threads |-> "idle"] /\ cur = [t \in Threads |-> NoCall]
    /\ reg = "unknown" /\ objQ = <<>> /\ adapter = {}
    /\ data = {} /\ send = <<>> /\ requestMsg = NoCall
    /\ uniqId = 0 /\ rid = [c \in Calls |-> 0]
    /\ netpc = "idle"
    /\ conn = "unconnected" /\ dials = 0 /\ sendBuf = NoCall /\ wire = {} /\ cut = {}
    /\ status = [c \in Calls |-> "new"] /\ answer = [c \in Calls |-> NoCall]
    /\ woken = {} /\ asyncQ = <<>> /\ fate = [c \in Calls |-> "live"]

Elements(s) == {s[i] : i \in 1..Len(s)}

\* Mutant: erase and timeout leave the request in the unsent list.
WithoutNothing(s, c) == s

\* A list without its element c, which occurs at most once.
Without(s, c) ==
    IF \E i \in 1..Len(s) : s[i] = c
    THEN LET k == CHOOSE i \in 1..Len(s) : s[i] = c
         IN  [i \in 1..(Len(s) - 1) |-> IF i < k THEN s[i] ELSE s[i + 1]]
    ELSE s

Delete(c, why) == fate' = [fate EXCEPT ![c] = why]

-----------------------------------------------------------------------------
(* Completion of a call. *)

\* Mutant: a full callback queue forgets the message.
PushAsyncLeaks(c) ==
    IF Len(asyncQ) >= AsyncCap
    THEN UNCHANGED doneVars
    ELSE asyncQ' = Append(asyncQ, c) /\ UNCHANGED <<woken, fate>>

\* A full callback queue deletes the message instead.
PushAsync(c) ==
    IF Len(asyncQ) >= AsyncCap
    THEN Delete(c, "dropped") /\ UNCHANGED <<woken, asyncQ>>
    ELSE asyncQ' = Append(asyncQ, c) /\ UNCHANGED <<woken, fate>>

NotifyMonitor(c) == woken' = woken \cup {c} /\ UNCHANGED <<asyncQ, fate>>

FinishInvoke(c, st) ==
    /\ status' = [status EXCEPT ![c] = st]
    /\ CASE Kind[c] = "sync"   -> NotifyMonitor(c)
         [] Kind[c] = "oneway" -> Delete(c, "oneway") /\ UNCHANGED <<woken, asyncQ>>
         [] OTHER              -> PushAsync(c)

\* Mutant: a failed synchronous call is marked but its caller is not woken.
DoInvokeExceptionNoNotify(c) ==
    /\ status' = [status EXCEPT ![c] = IF Kind[c] = "oneway" THEN @ ELSE "exc"]
    /\ CASE Kind[c] = "sync"   -> UNCHANGED doneVars
         [] Kind[c] = "oneway" -> Delete(c, "oneway") /\ UNCHANGED <<woken, asyncQ>>
         [] OTHER -> IF c \in adapter THEN PushAsync(c)
                     ELSE Delete(c, "silent") /\ UNCHANGED <<woken, asyncQ>>

\* doInvokeException: an asynchronous call without an adapter is deleted.
DoInvokeException(c) ==
    /\ status' = [status EXCEPT ![c] = IF Kind[c] = "oneway" THEN @ ELSE "exc"]
    /\ CASE Kind[c] = "sync"   -> NotifyMonitor(c)
         [] Kind[c] = "oneway" -> Delete(c, "oneway") /\ UNCHANGED <<woken, asyncQ>>
         [] OTHER -> IF c \in adapter THEN PushAsync(c)
                     ELSE Delete(c, "silent") /\ UNCHANGED <<woken, asyncQ>>

-----------------------------------------------------------------------------
(* The transceiver. *)

HasConnected == conn \in {"handshaking", "connected"}

Close ==
    /\ conn' = "unconnected" /\ sendBuf' = NoCall /\ wire' = {}
    /\ UNCHANGED <<dials, cut>>

\* The health accounting of finishInvoke(bool) may shut the endpoint off
\* after any failure, which closes the connection.
FailMayClose == Close \/ UNCHANGED transVars

\* checkActive: open a connection unless there is one; connect() may fail.
Dial ==
    \/ conn # "unconnected" /\ UNCHANGED transVars
    \/ conn = "unconnected" /\ UNCHANGED transVars
    \/ /\ conn = "unconnected" /\ dials < MaxDials
       /\ conn' = "connecting" /\ dials' = dials + 1
       /\ UNCHANGED <<sendBuf, wire, cut>>

Sendable == conn = "connected" /\ sendBuf = NoCall

\* sendRequest of c returns ret; "throw" is THROW_ERROR in send(), which closes
\* the connection first and may come after a part of c was written.
SendRequest(c, ret) ==
    \/ ret = "notsend" /\ ~Sendable /\ UNCHANGED transVars
    \/ ret = "ok" /\ Sendable /\ wire' = wire \cup {c}
       /\ UNCHANGED <<conn, dials, sendBuf, cut>>
    \/ ret = "full" /\ Sendable /\ sendBuf' = c
       /\ UNCHANGED <<conn, dials, wire, cut>>
    \/ ret = "error" /\ Sendable /\ "error" \in SendFaults /\ Close
    \/ ret = "throw" /\ Sendable /\ "throw" \in SendFaults /\ Close
    \/ ret = "throw" /\ Sendable /\ "torn" \in SendFaults
       /\ conn' = "unconnected" /\ sendBuf' = NoCall /\ wire' = {}
       /\ cut' = cut \cup {c} /\ UNCHANGED dials

Returns == {"ok", "full", "notsend", "error", "throw"}

-----------------------------------------------------------------------------
(* AdapterProxy::invoke. *)

\* invoke generates an id unless rpc_call gave one; the serial form packs the
\* request and then generates another.
NextUniqId(c) == uniqId + (IF RpcId[c] = 0 THEN 1 ELSE 0) + (IF Serial THEN 1 ELSE 0)
\* Mutant: the id of a request that is over is given to the next one.
NewIdReused(c) == 1
NewId(c) == IF RpcId[c] # 0 /\ ~Serial THEN RpcId[c] ELSE NextUniqId(c)

IdTaken(c) == \E d \in data : rid[d] = NewId(c)

\* c stays under way; ReqMessage::init made its status REQ_REQ.
InFlight(c) == status' = [status EXCEPT ![c] = "req"] /\ UNCHANGED doneVars

\* _timeoutQueue->push: a request whose id is taken ends with an exception.
Enqueue(c) ==
    IF IdTaken(c)
    THEN FinishInvoke(c, "exc") /\ UNCHANGED <<data, send, requestMsg>>
    ELSE /\ data' = data \cup {c} /\ send' = Append(send, c)
         /\ InFlight(c) /\ UNCHANGED requestMsg

EnqueueSent(c) ==
    IF IdTaken(c)
    THEN FinishInvoke(c, "exc") /\ UNCHANGED <<data, send, requestMsg>>
    ELSE /\ data' = data \cup {c}
         /\ requestMsg' = IF Serial THEN c ELSE requestMsg
         /\ InFlight(c) /\ UNCHANGED send

\* Mutant: a serial connection takes a request while another is outstanding.
FreeUnlessQueued == send = <<>>
Free == send = <<>> /\ (Serial => requestMsg = NoCall)

\* Mutants: a one-way request is deleted and queued; a failed send ends nothing.
AfterSendOnewayKept(c, ret) ==
    CASE ret \in {"ok", "full"} /\ Kind[c] = "oneway" ->
            /\ Delete(c, "oneway") /\ data' = data \cup {c}
            /\ UNCHANGED <<send, requestMsg, status, woken, asyncQ>>
      [] ret \in {"ok", "full"} /\ Kind[c] # "oneway" -> EnqueueSent(c)
      [] ret = "notsend" -> Enqueue(c)
      [] ret = "error"   -> FinishInvoke(c, "exc") /\ UNCHANGED <<data, send, requestMsg>>
      [] ret = "throw"   -> InFlight(c) /\ UNCHANGED <<data, send, requestMsg>>

AfterSendErrorForgotten(c, ret) ==
    CASE ret \in {"ok", "full"} /\ Kind[c] = "oneway" ->
            Delete(c, "oneway") /\ UNCHANGED <<data, send, requestMsg, status, woken, asyncQ>>
      [] ret \in {"ok", "full"} /\ Kind[c] # "oneway" -> EnqueueSent(c)
      [] ret = "notsend" -> Enqueue(c)
      [] ret \in {"error", "throw"} -> InFlight(c) /\ UNCHANGED <<data, send, requestMsg>>

\* invoke_connection_serial and invoke_connection_parallel after sendRequest.
\* An exception leaves c in no queue.
AfterSend(c, ret) ==
    CASE ret \in {"ok", "full"} /\ Kind[c] = "oneway" ->
            Delete(c, "oneway") /\ UNCHANGED <<data, send, requestMsg, status, woken, asyncQ>>
      [] ret \in {"ok", "full"} /\ Kind[c] # "oneway" -> EnqueueSent(c)
      [] ret = "notsend" -> Enqueue(c)
      [] ret = "error"   -> FinishInvoke(c, "exc") /\ UNCHANGED <<data, send, requestMsg>>
      [] ret = "throw"   -> InFlight(c) /\ UNCHANGED <<data, send, requestMsg>>

AdapterInvoke(c, thrown) ==
    \/ /\ Len(send) > NoSendLimit /\ ~thrown
       /\ FinishInvoke(c, "exc")
       /\ UNCHANGED <<queueVars, transVars>>
    \/ /\ Len(send) <= NoSendLimit
       /\ uniqId' = NextUniqId(c) /\ rid' = [rid EXCEPT ![c] = NewId(c)]
       /\ \/ /\ Free
             /\ \E ret \in Returns :
                   thrown = (ret = "throw") /\ SendRequest(c, ret) /\ AfterSend(c, ret)
          \/ ~Free /\ ~thrown /\ Enqueue(c) /\ UNCHANGED transVars

-----------------------------------------------------------------------------
(* The calling threads. *)

\* ServantProxy::invoke up to push_back; a full ring refuses the call.
InvokePush(t, c) ==
    /\ tpc[t] = "idle" /\ status[c] = "new" /\ Kind[c] # "ping"
    /\ status' = [status EXCEPT ![c] = "req"]
    /\ IF Len(ring[t]) < QueueCap
       THEN /\ ring' = [ring EXCEPT ![t] = Append(@, c)]
            /\ tpc' = [tpc EXCEPT ![t] = "pushed"] /\ cur' = [cur EXCEPT ![t] = c]
            /\ UNCHANGED fate
       ELSE Delete(c, "refused") /\ UNCHANGED <<ring, tpc, cur>>
    /\ UNCHANGED <<armed, objVars, queueVars, netpc, transVars, answer, woken, asyncQ>>

\* CommunicatorEpoll::notify; a synchronous caller then waits on its monitor.
InvokeNotify(t) ==
    /\ tpc[t] = "pushed"
    /\ armed' = [armed EXCEPT ![t] = TRUE]
    /\ IF Kind[cur[t]] = "sync"
       THEN tpc' = [tpc EXCEPT ![t] = "waiting"] /\ UNCHANGED cur
       ELSE tpc' = [tpc EXCEPT ![t] = "idle"] /\ cur' = [cur EXCEPT ![t] = NoCall]
    /\ UNCHANGED <<ring, objVars, queueVars, netpc, transVars, status, answer, doneVars>>

\* The caller reads eStatus and the response and deletes the message.
InvokeReturn(t) ==
    /\ tpc[t] = "waiting" /\ cur[t] \in woken
    /\ tpc' = [tpc EXCEPT ![t] = "idle"] /\ cur' = [cur EXCEPT ![t] = NoCall]
    /\ Delete(cur[t], "returned")
    /\ UNCHANGED <<ring, armed, objVars, queueVars, netpc, transVars, status, answer, woken, asyncQ>>

-----------------------------------------------------------------------------
(* handleNotify and ObjectProxy::invoke. *)

\* The loop ends on an empty ring.
NotifyEnd(t) ==
    /\ netpc = "idle" /\ armed[t] /\ ring[t] = <<>>
    /\ armed' = [armed EXCEPT ![t] = FALSE]
    /\ UNCHANGED <<ring, tpc, cur, objVars, queueVars, netpc, transVars, status, answer, doneVars>>

Park(c) == objQ' = Append(objQ, c) /\ UNCHANGED <<queueVars, status, doneVars>>

\* One turn of the loop: pop a message and route it.  An exception leaves the
\* loop, and nothing sets the descriptor's EPOLLOUT again.
NotifyRoute(t) ==
    /\ netpc = "idle" /\ armed[t] /\ ring[t] # <<>>
    /\ ring' = [ring EXCEPT ![t] = Tail(@)]
    /\ LET c == Head(ring[t]) IN
       \/ reg = "unknown" /\ Park(c) /\ UNCHANGED <<armed, adapter, transVars>>
       \/ reg = "none" /\ DoInvokeException(c)
          /\ UNCHANGED <<armed, objQ, adapter, queueVars, transVars>>
       \/ /\ reg = "known" /\ adapter' = adapter \cup {c}
          /\ \/ ~HasConnected /\ Dial /\ Park(c) /\ UNCHANGED armed
             \/ /\ HasConnected /\ UNCHANGED objQ
                /\ \E thrown \in BOOLEAN :
                      /\ AdapterInvoke(c, thrown)
                      /\ armed' = [armed EXCEPT ![t] = ~thrown]
    /\ UNCHANGED <<tpc, cur, reg, netpc, answer>>

\* QueryEpBase::doEndpoints: the first answer makes the parked requests dial.
\* doEndpointsExp: after enough failures the empty list counts as valid.
EndpointsKnown ==
    /\ netpc = "idle" /\ reg # "known" /\ reg' = "known"
    /\ IF reg = "unknown" /\ objQ # <<>> THEN Dial ELSE UNCHANGED transVars
    /\ UNCHANGED <<callerVars, objQ, adapter, queueVars, netpc, status, answer, doneVars>>

EndpointsFail ==
    /\ netpc = "idle" /\ reg = "unknown" /\ reg' = "none"
    /\ UNCHANGED <<callerVars, objQ, adapter, queueVars, netpc, transVars, status, answer, doneVars>>

-----------------------------------------------------------------------------
(* Events of the connection. *)

\* checkConnect, setConnected, onConnectCallback: prepareConnection runs before
\* the handshake is over.
Connected ==
    /\ netpc = "idle" /\ conn = "connecting"
    /\ conn' = IF Secured THEN "handshaking" ELSE "connected"
    /\ netpc' = "prepare"
    /\ UNCHANGED <<callerVars, objVars, queueVars, dials, sendBuf, wire, cut, status, answer, doneVars>>

\* The handshake or the authentication is over: onRequestCallback.
HandshakeDone ==
    /\ netpc = "idle" /\ conn = "handshaking"
    /\ conn' = "connected" /\ netpc' = "drain"
    /\ UNCHANGED <<callerVars, objVars, queueVars, dials, sendBuf, wire, cut, status, answer, doneVars>>

\* connect error, connect timeout, peer close, receive error, EPOLLERR.
Disconnected ==
    /\ netpc = "idle" /\ conn # "unconnected"
    /\ Close
    /\ UNCHANGED <<callerVars, objVars, queueVars, netpc, status, answer, doneVars>>

\* Mutant: the rest of the buffer goes out whether or not there is one.
WritableUnchecked ==
    /\ netpc = "idle" /\ conn = "connected"
    /\ sendBuf' = NoCall /\ wire' = wire \cup {sendBuf} /\ netpc' = "drain"
    /\ UNCHANGED <<callerVars, objVars, queueVars, conn, dials, cut, status, answer, doneVars>>

\* doRequest on EPOLLOUT: the rest of the buffer goes out, then doInvoke.
Writable ==
    /\ netpc = "idle" /\ conn = "connected"
    /\ sendBuf # NoCall \/ (send # <<>> /\ (Serial => requestMsg = NoCall))
    /\ sendBuf' = NoCall
    /\ wire' = IF sendBuf = NoCall THEN wire ELSE wire \cup {sendBuf}
    /\ netpc' = "drain"
    /\ UNCHANGED <<callerVars, objVars, queueVars, conn, dials, cut, status, answer, doneVars>>

\* The message a response to c is taken for.
MatchSerial(c)   == IF requestMsg = NoCall THEN {} ELSE {requestMsg}
MatchParallel(c) == {d \in data : rid[d] = rid[c]}
Match(c) == IF Serial THEN MatchSerial(c) ELSE MatchParallel(c)

\* doProtocolAnalysis, finishInvoke(rsp) and onCompletePackage: the response to
\* c arrives.  The server answers only requests it can decode.
Receive(c) ==
    /\ netpc = "idle" /\ conn = "connected" /\ c \in wire \ cut
    /\ \/ /\ Match(c) = {}
          /\ wire' = wire \ {c}
          /\ UNCHANGED <<queueVars, conn, dials, sendBuf, cut, status, answer, doneVars>>
       \/ \E d \in Match(c) :
          /\ data' = data \ {d} /\ send' = Without(send, d)
          /\ requestMsg' = IF Serial THEN NoCall ELSE requestMsg
          /\ answer' = [answer EXCEPT ![d] = c]
          /\ FinishInvoke(d, "rsp")
          /\ \/ Close
             \/ wire' = wire \ {c} /\ UNCHANGED <<conn, dials, sendBuf, cut>>
          /\ UNCHANGED <<uniqId, rid>>
    /\ netpc' = IF Serial THEN "complete" ELSE "idle"
    /\ UNCHANGED <<callerVars, objVars>>

\* doProtocolAnalysis on a part of a response: onCompletePackage runs after every
\* call of the parser, whether or not it found a whole packet.
ReceivePart ==
    /\ netpc = "idle" /\ conn = "connected" /\ Serial /\ wire \ cut # {}
    /\ netpc' = "complete"
    /\ UNCHANGED <<callerVars, objVars, queueVars, transVars, status, answer, doneVars>>

-----------------------------------------------------------------------------
(* The loops of the network thread. *)

\* prepareConnection: one parked request goes to the adapter.
PrepareStep ==
    /\ netpc \in {"prepare", "complete"} /\ objQ # <<>>
    /\ objQ' = Tail(objQ) /\ adapter' = adapter \cup {Head(objQ)}
    /\ \E thrown \in BOOLEAN :
          /\ AdapterInvoke(Head(objQ), thrown)
          /\ netpc' = IF thrown THEN "idle" ELSE netpc
    /\ UNCHANGED <<callerVars, reg, answer>>

\* Mutant: onCompletePackage does not go on with the unsent list.
PrepareEndIdle ==
    /\ netpc \in {"prepare", "complete"} /\ objQ = <<>>
    /\ netpc' = "idle"
    /\ UNCHANGED <<callerVars, objVars, queueVars, transVars, status, answer, doneVars>>

\* After prepareConnection: onRequestCallback, or the end of onCompletePackage.
PrepareEnd ==
    /\ netpc \in {"prepare", "complete"} /\ objQ = <<>>
    /\ IF netpc = "prepare" \/ (send # <<>> /\ HasConnected)
       THEN netpc' = "drain" /\ UNCHANGED transVars
       ELSE netpc' = "idle" /\ IF send # <<>> THEN Dial ELSE UNCHANGED transVars
    /\ UNCHANGED <<callerVars, objVars, queueVars, status, answer, doneVars>>

\* Mutant: doInvoke_parallel sends one request and returns.
DrainParallelOnce ==
    /\ netpc = "drain" /\ ~Serial /\ send # <<>>
    /\ \E ret \in {"ok", "notsend"} :
       /\ SendRequest(Head(send), ret)
       /\ send' = IF ret = "ok" THEN Tail(send) ELSE send
    /\ netpc' = "idle"
    /\ UNCHANGED <<callerVars, objVars, data, requestMsg, uniqId, rid, status, answer, doneVars>>

\* doInvoke_parallel: one turn of its loop.
DrainParallel ==
    /\ netpc = "drain" /\ ~Serial /\ send # <<>>
    /\ LET c == Head(send) IN \E ret \in Returns :
       /\ SendRequest(c, ret)
       /\ IF ret \in {"ok", "full"}
          THEN /\ send' = Tail(send)
               /\ data' = IF Kind[c] = "oneway" THEN data \ {c} ELSE data
               /\ fate' = IF Kind[c] = "oneway" THEN [fate EXCEPT ![c] = "oneway"] ELSE fate
          ELSE UNCHANGED <<send, data, fate>>
       /\ netpc' = IF ret = "ok" THEN "drain" ELSE "idle"
    /\ UNCHANGED <<callerVars, objVars, requestMsg, uniqId, rid, status, answer, woken, asyncQ>>

\* doInvoke_serial.
DrainSerial ==
    /\ netpc = "drain" /\ Serial /\ send # <<>> /\ requestMsg = NoCall
    /\ LET c == Head(send) IN \E ret \in Returns :
       /\ SendRequest(c, ret)
       /\ \/ /\ ret \in {"ok", "full"}
             /\ requestMsg' = c /\ send' = Tail(send)
             /\ UNCHANGED <<data, status, doneVars>>
          \/ /\ ret = "error"
             /\ send' = Tail(send) /\ data' = data \ {c}
             /\ FinishInvoke(c, status[c])
             /\ UNCHANGED requestMsg
          \/ ret \in {"notsend", "throw"} /\ UNCHANGED <<data, send, requestMsg, status, doneVars>>
    /\ netpc' = "idle"
    /\ UNCHANGED <<callerVars, objVars, uniqId, rid, answer>>

DrainEnd ==
    /\ netpc = "drain" /\ (send = <<>> \/ (Serial /\ requestMsg # NoCall))
    /\ netpc' = "idle"
    /\ UNCHANGED <<callerVars, objVars, queueVars, transVars, status, answer, doneVars>>

-----------------------------------------------------------------------------
(* Timers and the callback thread. *)

\* Mutant: a timed-out request leaves its serial connection open.
TimeoutAdapterNoClose(c) ==
    /\ netpc = "idle" /\ c \in data
    /\ data' = data \ {c} /\ send' = Without(send, c)
    /\ requestMsg' = IF c = requestMsg THEN NoCall ELSE requestMsg
    /\ FailMayClose
    /\ FinishInvoke(c, "time")
    /\ UNCHANGED <<callerVars, objVars, uniqId, rid, netpc, answer>>

\* AdapterProxy::doTimeout: the request a serial connection is busy with takes
\* the connection down.
TimeoutAdapter(c) ==
    /\ netpc = "idle" /\ c \in data
    /\ data' = data \ {c} /\ send' = Without(send, c)
    /\ requestMsg' = IF c = requestMsg THEN NoCall ELSE requestMsg
    /\ IF c = requestMsg THEN Close ELSE FailMayClose
    /\ FinishInvoke(c, "time")
    /\ UNCHANGED <<callerVars, objVars, uniqId, rid, netpc, answer>>

\* ObjectProxy::doTimeout.
TimeoutObject(c) ==
    /\ netpc = "idle" /\ c \in Elements(objQ)
    /\ objQ' = Without(objQ, c)
    /\ DoInvokeException(c)
    /\ UNCHANGED <<callerVars, reg, adapter, queueVars, netpc, transVars, answer>>

\* AdapterProxy::doKeepAlive: a ping over an open connection, or a new one.
KeepAlive(c) ==
    /\ netpc = "idle" /\ reg = "known" /\ Kind[c] = "ping" /\ status[c] = "new"
    /\ \/ ~HasConnected /\ Dial /\ UNCHANGED <<queueVars, status, doneVars>>
       \/ HasConnected /\ \E thrown \in BOOLEAN : AdapterInvoke(c, thrown)
    /\ UNCHANGED <<callerVars, objVars, netpc, answer>>

\* AsyncProcThread::run: pop_front, callback, and the message is released.
AsyncCallback ==
    /\ asyncQ # <<>>
    /\ asyncQ' = Tail(asyncQ) /\ Delete(Head(asyncQ), "callback")
    /\ UNCHANGED <<callerVars, objVars, queueVars, netpc, transVars, status, answer, woken>>

-----------------------------------------------------------------------------
Caller ==
    \/ \E t \in Threads, c \in Calls : InvokePush(t, c)
    \/ \E t \in Threads : InvokeNotify(t) \/ InvokeReturn(t)

NetLoop == PrepareStep \/ PrepareEnd \/ DrainParallel \/ DrainSerial \/ DrainEnd

NetThread ==
    \/ \E t \in Threads : NotifyEnd(t) \/ NotifyRoute(t)
    \/ NetLoop
    \/ \E c \in Calls : TimeoutAdapter(c) \/ TimeoutObject(c) \/ KeepAlive(c)

\* What the registry and the peer do to the client.
Network ==
    \/ EndpointsKnown \/ EndpointsFail
    \/ Connected \/ HandshakeDone \/ Disconnected \/ Writable
    \/ ReceivePart
    \/ \E c \in Calls : Receive(c)

\* Every message made has been deleted: the client waits for more calls.
Quiet ==
    /\ \A c \in Calls : fate[c] # "live" \/ Kind[c] = "ping"
    /\ UNCHANGED vars

Fixed == UNCHANGED setting

Next == (Caller \/ NetThread \/ Network \/ AsyncCallback \/ Quiet) /\ Fixed

Spec == Init /\ [][Next]_vars

\* The threads keep running and every deadline passes; the network thread goes
\* round its descriptors and timers, so it comes to a notified ring and to a passed
\* deadline between any number of other events.  Nothing is assumed of the registry,
\* the network and the server, nor of callers making calls.
Fairness ==
    /\ \A t \in Threads : /\ WF_vars(InvokeNotify(t) /\ Fixed) /\ WF_vars(InvokeReturn(t) /\ Fixed)
                          /\ SF_vars(NotifyRoute(t) /\ Fixed)
    /\ WF_vars(NetLoop /\ Fixed) /\ WF_vars(AsyncCallback /\ Fixed)
    /\ \A c \in Calls : SF_vars((TimeoutAdapter(c) \/ TimeoutObject(c)) /\ Fixed)

FairSpec == Spec /\ Fairness

-----------------------------------------------------------------------------
(* Properties. *)

Finished(c) == c \in woken \cup Elements(asyncQ) \/ fate[c] # "live"

TypeOK ==
    /\ setting \in Settings
    /\ ring \in [Threads -> Seq(Calls)] /\ armed \in [Threads -> BOOLEAN]
    /\ tpc \in [Threads -> {"idle", "pushed", "waiting"}]
    /\ cur \in [Threads -> Calls \cup {NoCall}]
    /\ reg \in {"unknown", "none", "known"} /\ objQ \in Seq(Calls) /\ adapter \subseteq Calls
    /\ data \subseteq Calls /\ send \in Seq(Calls) /\ requestMsg \in Calls \cup {NoCall}
    /\ uniqId \in Nat /\ rid \in [Calls -> Nat]
    /\ netpc \in {"idle", "prepare", "complete", "drain"}
    /\ conn \in {"unconnected", "connecting", "handshaking", "connected"} /\ dials \in Nat
    /\ sendBuf \in Calls \cup {NoCall} /\ wire \subseteq Calls /\ cut \subseteq Calls
    /\ status \in [Calls -> {"new", "req", "rsp", "time", "exc"}]
    /\ answer \in [Calls -> Calls \cup {NoCall}]
    /\ woken \subseteq Calls /\ asyncQ \in Seq(Calls)
    /\ fate \in [Calls -> {"live", "returned", "callback", "refused", "oneway", "dropped", "silent"}]

Distinct(s) == \A i, j \in 1..Len(s) : s[i] = s[j] => i = j

\* The raw ReqMessage pointer is in at most one place - one ring, the object's
\* queue, the adapter's queue, or finished - and once in it, so no queue of the
\* network thread can complete or free a message a second time; and a thread blocked
\* in ReqMonitor::wait waits for a message that still exists.
OneHolder ==
    /\ \A t \in Threads : Distinct(ring[t])
    /\ Distinct(objQ) /\ Distinct(asyncQ)
    /\ \A c \in Calls :
         /\ \A t, u \in Threads : c \in Elements(ring[t]) /\ c \in Elements(ring[u]) => t = u
         /\ \A t \in Threads : c \in Elements(ring[t]) => c \notin Elements(objQ) \cup data
         /\ c \in Elements(objQ) => c \notin data
         /\ (\E t \in Threads : c \in Elements(ring[t])) \/ c \in Elements(objQ) \cup data
               => status[c] = "req" /\ ~Finished(c)
         /\ fate[c] # "live" => c \notin Elements(asyncQ)
    /\ \A t \in Threads : tpc[t] = "waiting" => fate[cur[t]] = "live" /\ Kind[cur[t]] = "sync"

\* The unsent list and _requestMsg point into the id map: what erase, popSend and
\* the asserts of getSend and finishInvoke_serial rely on.
QueueConsistent ==
    /\ Elements(send) \subseteq data /\ Distinct(send)
    /\ requestMsg # NoCall => requestMsg \in data \ Elements(send)
    /\ \A c, d \in data : rid[c] = rid[d] => c = d

\* A call is given the response to its own request: late responses to timed-out
\* calls and responses on later connections are matched with nobody.
AnswerMatches == \A c \in Calls : answer[c] \in {c, NoCall}

\* A serial connection carries no request but the one _requestMsg points to, so
\* that the next response, whatever its id, is the response to it.
SerialInFlight ==
    Serial => wire \cup ({sendBuf} \ {NoCall}) \subseteq {requestMsg}

\* Unsent requests are never left beside a connection that could take them: some
\* event - the buffer becoming writable, or the outstanding response - is still
\* to come and will run doInvoke again.
SendListServed ==
    netpc = "idle" /\ conn = "connected" /\ send # <<>>
        => sendBuf # NoCall \/ (Serial /\ requestMsg # NoCall)

\* Every call made and not finished is in a queue that a deadline or the network
\* thread will empty; and a ring with requests has its notification pending, or its
\* caller is about to give it: nothing waits for a wakeup that was consumed.
Owned ==
    /\ \A c \in Calls : status[c] = "req" /\ ~Finished(c)
         => \/ \E t \in Threads : c \in Elements(ring[t])
            \/ c \in Elements(objQ) \cup data
    /\ \A t \in Threads : ring[t] # <<>> => armed[t] \/ tpc[t] = "pushed"

\* Every synchronous call returns to its caller.
SyncReturns == \A t \in Threads : tpc[t] = "waiting" ~> tpc[t] = "idle"

\* Every asynchronous call ends: its callback runs, or its message is deleted.
AsyncEnds ==
    \A c \in Calls : Kind[c] \in {"async", "oneway"} /\ status[c] = "req" ~> fate[c] # "live"
=============================================================================
