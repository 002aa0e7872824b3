---------------------------- MODULE NotifySlots ----------------------------
(***************************************************************************)
(* The life of a calling thread: it takes a number, binds a request queue  *)
(* and a notify descriptor to that slot of the network thread's _notify    *)
(* table, queues requests and signals the slot, and on exit posts the      *)
(* release of the slot to the network thread and returns its number, which *)
(* the next thread may take.  Each member of Threads lives once.           *)
(*                                                                         *)
(* An FDInfo is named by the thread whose initNotify created it.  Whether  *)
(* ObjectProxy::invoke returns or throws on a request is left open.        *)
(***************************************************************************)
EXTENDS SeqManager

CONSTANTS
    None,
    MaxRequests,   \* bound: requests a thread makes
    NetLags        \* whether a number can come round again before the network
                   \* thread has handled the exit of the thread that had it

ASSUME SlotAssumption ==
    None \notin Threads /\ MaxRequests \in Nat /\ NetLags \in BOOLEAN

VARIABLES
    pc,       \* pc[t]: where thread t is
    made,     \* made[t]: requests t has queued
    queue,    \* queue[t]: requests in t's ReqInfoQueue
    slot,     \* slot[i]: _notify[i]
    fd,       \* fd[f]: the FDInfo created by f, whether its descriptor is signalled,
              \* and, a history, whether an exception ended its last handleNotify
    quits,    \* exits posted to the network thread, by slot, in order
    net       \* the FDInfo whose handleNotify is running, and its step

slotVars == <<pc, made, queue, slot, fd, quits, net>>
vars == <<seqVars, slotVars>>

Idle == [fd |-> None, at |-> "idle"]
NoFd == [msgQueue |-> None, autoDestroy |-> FALSE, armed |-> FALSE, threw |-> FALSE]

Init ==
    /\ SeqInit
    /\ pc = [t \in Threads |-> "new"] /\ made = [t \in Threads |-> 0]
    /\ queue = [t \in Threads |-> 0]
    /\ slot = [i \in Seqs |-> None]
    /\ fd = [f \in Threads |-> NoFd]
    /\ quits = <<>> /\ net = Idle

Pending == {quits[i] : i \in DOMAIN quits}

(***************************************************************************)
(* The calling thread.                                                     *)
(***************************************************************************)
\* ServantProxyThreadData: the thread's first use of any proxy.
Start(t) ==
    /\ pc[t] = "new" /\ Get(t)
    /\ NetLags \/ free \notin Pending
    /\ pc' = [pc EXCEPT ![t] = "bind"]
    /\ UNCHANGED <<made, queue, slot, fd, quits, net>>

\* addCommunicatorEpoll and initNotify: the table is written by the calling thread.
\* The descriptor is registered as writable, so it is signalled once at once.
Bind(t) ==
    /\ pc[t] = "bind"
    /\ pc' = [pc EXCEPT ![t] = "ready"]
    /\ IF slot[seq[t]] = None
       THEN /\ slot' = [slot EXCEPT ![seq[t]] = t]
            /\ fd' = [fd EXCEPT ![t] = [NoFd EXCEPT !.msgQueue = t, !.armed = TRUE]]
       ELSE /\ fd' = [fd EXCEPT ![slot[seq[t]]].msgQueue = t]
            /\ UNCHANGED slot
    /\ UNCHANGED <<seqVars, made, queue, quits, net>>

\* ServantProxy::invoke: push_back, then notify.
Push(t) ==
    /\ pc[t] = "ready" /\ made[t] < MaxRequests
    /\ pc' = [pc EXCEPT ![t] = "notify"]
    /\ made' = [made EXCEPT ![t] = @ + 1]
    /\ queue' = [queue EXCEPT ![t] = @ + 1]
    /\ UNCHANGED <<seqVars, slot, fd, quits, net>>

\* CommunicatorEpoll::notify; it aborts the process on an empty slot.
Notify(t) ==
    /\ pc[t] = "notify" /\ slot[seq[t]] # None
    /\ fd' = [fd EXCEPT ![slot[seq[t]]].armed = TRUE]
    /\ pc' = [pc EXCEPT ![t] = "ready"]
    /\ UNCHANGED <<seqVars, made, queue, slot, quits, net>>

\* ~ServantProxyThreadData, first half: notifyServantThreadQuit.
PostQuit(t) ==
    /\ pc[t] = "ready"
    /\ pc' = [pc EXCEPT ![t] = "quit"]
    /\ quits' = Append(quits, seq[t])
    /\ UNCHANGED <<seqVars, made, queue, slot, fd, net>>

\* ~ServantProxyThreadData, second half: the number is free for another thread.  A
\* thread that never called has no slot to release.
ReturnNumber(t) ==
    /\ pc[t] \in {"bind", "quit"} /\ Del(t)
    /\ pc' = [pc EXCEPT ![t] = "dead"]
    /\ UNCHANGED <<made, queue, slot, fd, quits, net>>

(***************************************************************************)
(* The network thread.                                                     *)
(***************************************************************************)
\* Mutants: the slot keeps the released descriptor; the slot is released without
\* signalling its descriptor once more.
HandleQuitKeepsSlot ==
    /\ net = Idle /\ quits # <<>>
    /\ quits' = Tail(quits)
    /\ fd' = IF slot[Head(quits)] = None THEN fd
             ELSE [fd EXCEPT ![slot[Head(quits)]].autoDestroy = TRUE,
                             ![slot[Head(quits)]].armed = TRUE]
    /\ UNCHANGED <<seqVars, pc, made, queue, slot, net>>

HandleQuitNoNotify ==
    /\ net = Idle /\ quits # <<>>
    /\ quits' = Tail(quits)
    /\ slot' = [slot EXCEPT ![Head(quits)] = None]
    /\ fd' = IF slot[Head(quits)] = None THEN fd
             ELSE [fd EXCEPT ![slot[Head(quits)]].autoDestroy = TRUE]
    /\ UNCHANGED <<seqVars, pc, made, queue, net>>

\* handleServantThreadQuit.
HandleQuit ==
    /\ net = Idle /\ quits # <<>>
    /\ quits' = Tail(quits)
    /\ slot' = [slot EXCEPT ![Head(quits)] = None]
    /\ fd' = IF slot[Head(quits)] = None THEN fd
             ELSE [fd EXCEPT ![slot[Head(quits)]].autoDestroy = TRUE,
                             ![slot[Head(quits)]].armed = TRUE]
    /\ UNCHANGED <<seqVars, pc, made, queue, net>>

\* The loop dispatches a signalled descriptor to handleNotify.
Wake(f) ==
    /\ net = Idle /\ fd[f].armed
    /\ fd' = [fd EXCEPT ![f].armed = FALSE, ![f].threw = FALSE]
    /\ net' = [fd |-> f, at |-> "drain"]
    /\ UNCHANGED <<seqVars, pc, made, queue, slot, quits>>

\* handleNotify hands one request to the ObjectProxy; after a millisecond it
\* signals itself and leaves the rest for the next round.  When invoke throws, the
\* catches end handleNotify: the rest stays queued, the descriptor is not signalled
\* and autoDestroy is not looked at.
PopRequest ==
    /\ net.at = "drain" /\ queue[fd[net.fd].msgQueue] > 0
    /\ queue' = [queue EXCEPT ![fd[net.fd].msgQueue] = @ - 1]
    /\ \/ UNCHANGED <<net, fd>>
       \/ /\ net' = [net EXCEPT !.at = "check"]
          /\ fd' = [fd EXCEPT ![net.fd].armed = TRUE]
       \/ /\ net' = Idle
          /\ fd' = [fd EXCEPT ![net.fd].threw = TRUE]
    /\ UNCHANGED <<seqVars, pc, made, slot, quits>>

QueueDrained ==
    /\ net.at = "drain" /\ queue[fd[net.fd].msgQueue] = 0
    /\ net' = [net EXCEPT !.at = "check"]
    /\ UNCHANGED <<seqVars, pc, made, queue, slot, fd, quits>>

\* Mutant: the descriptor of an exited thread is destroyed with requests in its queue.
CheckDestroyNow ==
    /\ net.at = "check" /\ net' = Idle
    /\ IF fd[net.fd].autoDestroy
       THEN fd' = [fd EXCEPT ![net.fd] = [NoFd EXCEPT !.autoDestroy = TRUE]]
       ELSE UNCHANGED fd
    /\ UNCHANGED <<seqVars, pc, made, queue, slot, quits>>

\* The end of handleNotify: the descriptor of an exited thread goes with its last request.
CheckDestroy ==
    /\ net.at = "check" /\ net' = Idle
    /\ IF fd[net.fd].autoDestroy /\ queue[fd[net.fd].msgQueue] = 0
       THEN fd' = [fd EXCEPT ![net.fd] = [NoFd EXCEPT !.autoDestroy = TRUE]]
       ELSE UNCHANGED fd
    /\ UNCHANGED <<seqVars, pc, made, queue, slot, quits>>

NetStep == HandleQuit \/ (\E f \in Threads : Wake(f)) \/ PopRequest \/ QueueDrained \/ CheckDestroy
ThreadStep(t) == Start(t) \/ Bind(t) \/ Push(t) \/ Notify(t) \/ PostQuit(t) \/ ReturnNumber(t)

\* Every thread has lived; the network thread has nothing left that would wake it.
AllGone ==
    /\ \A t \in Threads : pc[t] = "dead"
    /\ net = Idle /\ quits = <<>> /\ \A f \in Threads : ~fd[f].armed
    /\ UNCHANGED vars

Next == NetStep \/ (\E t \in Threads : ThreadStep(t)) \/ AllGone

Spec == Init /\ [][Next]_vars

-----------------------------------------------------------------------------
SlotTypeOK ==
    /\ pc \in [Threads -> {"new", "bind", "ready", "notify", "quit", "dead"}]
    /\ made \in [Threads -> 0..MaxRequests] /\ queue \in [Threads -> 0..MaxRequests]
    /\ slot \in [Seqs -> Threads \cup {None}]
    /\ fd \in [Threads -> [msgQueue : Threads \cup {None}, autoDestroy : BOOLEAN, armed : BOOLEAN,
                         threw : BOOLEAN]]
    /\ quits \in Seq(Seqs)
    /\ net \in [fd : Threads \cup {None}, at : {"idle", "drain", "check"}]

\* While a thread may call, the slot of its number holds a live descriptor that
\* serves the thread's own queue: the assert of CommunicatorEpoll::notify, and what
\* its signal needs to reach the request just queued.
SlotValid ==
  /\ SlotTypeOK
  /\ \A t \in Threads : pc[t] \in {"ready", "notify"} =>
        /\ slot[seq[t]] # None
        /\ fd[slot[seq[t]]].msgQueue = t /\ ~fd[slot[seq[t]]].autoDestroy

\* No wake-up is lost but by an exception: a queue with requests belongs to a
\* descriptor that is signalled, is being drained, is about to be signalled by its
\* caller, or whose last drain handleNotify left by an exception of invoke; then the
\* requests wait for the next signal of the slot.
NoLostWakeup ==
    \A t \in Threads : queue[t] > 0 =>
        \/ pc[t] = "notify"
        \/ \E f \in Threads : /\ fd[f].msgQueue = t
                              /\ fd[f].armed \/ fd[f].threw \/ (net.fd = f /\ net.at = "drain")

\* Exit leaves nothing behind but after an exception: while the descriptor of a
\* thread that has exited is there, its exit is still posted, or the descriptor is
\* signalled or being served, so that its last requests are sent and it is destroyed,
\* or its last handleNotify was left by an exception before the test of autoDestroy.
ExitServed ==
    \A t \in Threads : pc[t] = "dead" /\ fd[t].msgQueue # None =>
        \/ \E i \in DOMAIN quits : slot[quits[i]] = t
        \/ fd[t].autoDestroy /\ (fd[t].armed \/ fd[t].threw \/ net.fd = t)
=============================================================================
