------------------------- MODULE ServerConnections -------------------------
(* The connections of a TC_EpollServer (src/util/src/tc_epoll_server.cpp): *)
(* the accept thread enters a connection in the list of a network thread,  *)
(* the network thread receives, sends, times out and closes, and handle    *)
(* threads answer through its send queue.  Nothing but a number, its place *)
(* in the list, ties a request and its answer to a connection.             *)
(* One TCP adapter and one network thread in the model that queues to      *)
(* handle threads, so the list has as many places as the adapter allows    *)
(* connections.  What a handle does with a request is what ServantHandle   *)
(* does: answer, close, both, or nothing for a one-way request and, in a   *)
(* protocol other than TARS, for one whose servant failed or that came too *)
(* late.  Servants answer through the handle, not later on their own.      *)
EXTENDS Integers, Sequences, FiniteSets

CONSTANTS Conns,          \* the clients' connections, numbered in the order of their accept
          Handles,        \* handle threads
          None,
          MaxConns,       \* _iMaxConns
          QueueCapacity,  \* _iQueueCapacity; 0: no limit
          MaxRequests,    \* bound: requests the clients send
          Tars            \* isTarsProtocol of the adapter

ASSUME ServerAssumption ==
    /\ MaxConns \in Nat \ {0}
    /\ QueueCapacity \in Nat /\ MaxRequests \in Nat
    /\ Tars \in BOOLEAN
    /\ Conns \subseteq Nat /\ None \notin Conns

VARIABLES cur,       \* _iCurConns
          free,      \* _free
          vConn,     \* _vConn: the connection at a place
          uid,       \* the place of a connection
          state,     \* of a connection; "broken": its socket closed, still listed
          closing,   \* connections with _bClose
          unsent,    \* connections with data in the send buffer
          acc,       \* the accept thread
          net,       \* the network thread
          rbuffer,   \* the receive queue of the adapter
          job,       \* what a handle thread works on
          sbuffer,   \* _sbuffer, from the handle threads to the network thread
          asked,     \* requests sent
          owed,      \* history: two-way requests queued and not yet answered
          strays,    \* history: <<asker, receiver>> of answers sent to another connection
          notices    \* history: close notices queued, per connection

vars == <<cur, free, vConn, uid, state, closing, unsent, acc, net, rbuffer, job,
          sbuffer, asked, owed, strays, notices>>

Places == 1..MaxConns

Item == [kind : {"request", "oneway", "close"}, conn : Conns, uid : Places]

ASSUME NoItem == None \notin Item   \* an idle handle thread holds no request

Init ==
    /\ cur = 0
    /\ free = [i \in Places |-> i]
    /\ vConn = [p \in Places |-> None]
    /\ uid = [c \in Conns |-> 0]
    /\ state = [c \in Conns |-> "asks"]
    /\ closing = {}
    /\ unsent = {}
    /\ acc = [pc |-> "idle", c |-> None]
    /\ net = [pc |-> "idle", c |-> None, due |-> {}]
    /\ rbuffer = <<>>
    /\ job = [h \in Handles |-> None]
    /\ sbuffer = <<>>
    /\ asked = 0
    /\ owed = [c \in Conns |-> 0]
    /\ strays = {}
    /\ notices = [c \in Conns |-> 0]

\* Mutant: checkTimeout does not lock the list.
LockedNever == FALSE

(* checkTimeout holds _mutex of the list from its first connection to its last. *)
Locked == net.pc \in {"scan", "scanned"}

-----------------------------------------------------------------------------
(* The accept thread: accept and addTcpConnection. *)

(* isLimitMaxConnection is tested without the lock. *)
Accept(c) ==
    /\ acc.pc = "idle"
    /\ state[c] = "asks" /\ \A d \in Conns : d < c => state[d] # "asks"
    /\ IF cur + 1 > MaxConns
       THEN /\ state' = [state EXCEPT ![c] = "refused"]
            /\ UNCHANGED acc
       ELSE /\ state' = [state EXCEPT ![c] = "made"]
            /\ acc' = [pc |-> "getUniqId", c |-> c]
    /\ UNCHANGED <<cur, free, vConn, uid, closing, unsent, net, rbuffer, job,
                   sbuffer, asked, owed, strays, notices>>

GetUniqId ==
    /\ acc.pc = "getUniqId"
    /\ ~Locked
    /\ free # <<>>
    /\ uid' = [uid EXCEPT ![acc.c] = Head(free)]
    /\ free' = Tail(free)
    /\ acc' = [acc EXCEPT !.pc = "add"]
    /\ UNCHANGED <<cur, vConn, state, closing, unsent, net, rbuffer, job,
                   sbuffer, asked, owed, strays, notices>>

Add ==
    /\ acc.pc = "add"
    /\ ~Locked
    /\ vConn' = [vConn EXCEPT ![uid[acc.c]] = acc.c]
    /\ acc' = [acc EXCEPT !.pc = "increase"]
    /\ UNCHANGED <<cur, free, uid, state, closing, unsent, net, rbuffer, job,
                   sbuffer, asked, owed, strays, notices>>

IncreaseNowConnection ==
    /\ acc.pc = "increase"
    /\ cur' = cur + 1
    /\ acc' = [acc EXCEPT !.pc = "register"]
    /\ UNCHANGED <<free, vConn, uid, state, closing, unsent, net, rbuffer, job,
                   sbuffer, asked, owed, strays, notices>>

(* registerEvent: the network thread sees events from now on. *)
RegisterEvent ==
    /\ acc.pc = "register"
    /\ state' = [state EXCEPT ![acc.c] = IF @ = "made" THEN "open" ELSE @]
    /\ acc' = [pc |-> "idle", c |-> None]
    /\ UNCHANGED <<cur, free, vConn, uid, closing, unsent, net, rbuffer, job,
                   sbuffer, asked, owed, strays, notices>>

-----------------------------------------------------------------------------
(* The network thread. *)

\* delConnection begins: the close notice is queued and the socket closed.
NoticeAndClose(c) ==
    /\ rbuffer' = Append(rbuffer, [kind |-> "close", conn |-> c, uid |-> uid[c]])
    /\ notices' = [notices EXCEPT ![c] = @ + 1]
    /\ state' = [state EXCEPT ![c] = "closed"]
    /\ closing' = closing \ {c}
    /\ unsent' = unsent \ {c}

Delete(c) ==
    /\ NoticeAndClose(c)
    /\ net' = [net EXCEPT !.pc = "del", !.c = c]

\* del and delNoLock
Release(c) ==
    /\ vConn' = [vConn EXCEPT ![uid[c]] = None]
    /\ free' = Append(free, uid[c])

(* isOverloadorDiscard: full only beyond the capacity, judged once for all *)
(* the packets of one read.                                                *)
Discards == QueueCapacity > 0 /\ Len(rbuffer) > QueueCapacity

(* handleInputImp: a read with n packets of one kind. *)
Input(c, n, kind) ==
    /\ net.pc = "idle"
    /\ state[c] = "open"
    /\ asked + n <= MaxRequests
    /\ asked' = asked + n
    /\ IF Discards
       THEN UNCHANGED <<rbuffer, owed>>
       ELSE /\ rbuffer' = rbuffer \o [i \in 1..n |->
                             [kind |-> kind, conn |-> c, uid |-> uid[c]]]
            /\ owed' = [owed EXCEPT ![c] = IF kind = "request" THEN @ + n ELSE @]
    /\ UNCHANGED <<cur, free, vConn, uid, state, closing, unsent, acc, net, job,
                   sbuffer, strays, notices>>

(* handleInputImp at the end of the stream, handleCloseImp, and            *)
(* handleOutputImp after an error.                                         *)
HangUp(c) ==
    /\ net.pc = "idle"
    /\ state[c] = "open"
    /\ Delete(c)
    /\ UNCHANGED <<cur, free, vConn, uid, acc, job, sbuffer, asked, owed, strays>>

\* Mutant: the place is not put back.
DelLeaks ==
    /\ net.pc = "del"
    /\ vConn' = [vConn EXCEPT ![uid[net.c]] = None]
    /\ net' = [net EXCEPT !.pc = "decrease"]
    /\ UNCHANGED <<cur, free, uid, state, closing, unsent, acc, rbuffer, job,
                   sbuffer, asked, owed, strays, notices>>

Del ==
    /\ net.pc = "del"
    /\ Release(net.c)
    /\ net' = [net EXCEPT !.pc = "decrease"]
    /\ UNCHANGED <<cur, uid, state, closing, unsent, acc, rbuffer, job,
                   sbuffer, asked, owed, strays, notices>>

DecreaseNowConnection ==
    /\ net.pc = "decrease"
    /\ cur' = cur - 1
    /\ net' = [net EXCEPT !.pc = "idle", !.c = None]
    /\ UNCHANGED <<free, vConn, uid, state, closing, unsent, acc, rbuffer, job,
                   sbuffer, asked, owed, strays, notices>>

(* checkTimeout: the list is locked and the expired connections are taken  *)
(* one by one.  Here the counter goes down before the place is free.       *)
CheckTimeout(expired) ==
    /\ net.pc = "idle"
    /\ expired # {}
    /\ \A c \in expired : state[c] \in {"open", "broken"}
    /\ net' = [net EXCEPT !.pc = "scan", !.due = expired]
    /\ UNCHANGED <<cur, free, vConn, uid, state, closing, unsent, acc, rbuffer, job,
                   sbuffer, asked, owed, strays, notices>>

ScanClose ==
    /\ net.pc = "scan"
    /\ \E c \in net.due :
         /\ NoticeAndClose(c)
         /\ net' = [net EXCEPT !.pc = "scanned", !.c = c, !.due = @ \ {c}]
    /\ cur' = cur - 1
    /\ UNCHANGED <<free, vConn, uid, acc, job, sbuffer, asked, owed, strays>>

ScanDel ==
    /\ net.pc = "scanned"
    /\ Release(net.c)
    /\ net' = [net EXCEPT !.pc = IF net.due = {} THEN "idle" ELSE "scan", !.c = None]
    /\ UNCHANGED <<cur, uid, state, closing, unsent, acc, rbuffer, job,
                   sbuffer, asked, owed, strays, notices>>

(* processPipe: one element.  The connection is looked up by its number;   *)
(* one that is not registered yet, or is broken, has no socket, so that    *)
(* send returns -1.  When the system call fails, send closes the socket    *)
(* and throws; the exception ends in TC_Epoller::done, so that the         *)
(* connection stays in the list, unreported, and gets no more events.      *)
ProcessPipe ==
    /\ net.pc = "idle"
    /\ sbuffer # <<>>
    /\ sbuffer' = Tail(sbuffer)
    /\ LET sc == Head(sbuffer)
           c == vConn[sc.uid]
       IN  \/ /\ c = None
              /\ UNCHANGED <<state, closing, unsent, net, rbuffer, owed, strays, notices>>
           \/ /\ c # None /\ sc.cmd = "c"
              /\ IF c \in unsent
                 THEN /\ closing' = closing \cup {c}
                      /\ UNCHANGED <<state, unsent, net, rbuffer, notices>>
                 ELSE Delete(c)
              /\ UNCHANGED <<owed, strays>>
           \/ /\ c # None /\ sc.cmd = "s" /\ state[c] = "open"
              /\ strays' = IF c = sc.conn THEN strays ELSE strays \cup {<<sc.conn, c>>}
              /\ owed' = [owed EXCEPT ![sc.conn] = @ - 1]
              /\ \/ unsent' = unsent \cup {c}
                 \/ UNCHANGED unsent
              /\ UNCHANGED <<state, closing, net, rbuffer, notices>>
           \/ /\ c # None /\ sc.cmd = "s" /\ state[c] = "open" /\ c \notin unsent
              /\ state' = [state EXCEPT ![c] = "broken"]
              /\ UNCHANGED <<closing, unsent, net, rbuffer, owed, strays, notices>>
           \/ /\ c # None /\ sc.cmd = "s" /\ state[c] # "open"
              /\ Delete(c)
              /\ UNCHANGED <<owed, strays>>
    /\ UNCHANGED <<cur, free, vConn, uid, acc, job, asked>>

(* handleOutputImp: the rest is sent; a connection that was to be closed is. *)
Output(c) ==
    /\ net.pc = "idle"
    /\ state[c] = "open"
    /\ c \in unsent
    /\ IF c \in closing THEN Delete(c)
       ELSE /\ unsent' = unsent \ {c}
            /\ UNCHANGED <<state, closing, net, rbuffer, notices>>
    /\ UNCHANGED <<cur, free, vConn, uid, acc, job, sbuffer, asked, owed, strays>>

-----------------------------------------------------------------------------
(* The handle threads. *)

Pop(h) ==
    /\ job[h] = None
    /\ rbuffer # <<>>
    /\ job' = [job EXCEPT ![h] = Head(rbuffer)]
    /\ rbuffer' = Tail(rbuffer)
    /\ UNCHANGED <<cur, free, vConn, uid, state, closing, unsent, acc, net,
                   sbuffer, asked, owed, strays, notices>>

\* Mutant: a request whose handling throws is dropped and its connection kept.
SendsLess(kind) ==
    IF kind = "request" THEN {<<"s">>, <<>>} ELSE {<<>>}

\* What handle, handleTimeout, handleOverload or handleClose send, and handleOnceThread
\* after an exception of theirs or of the servant's own messages.
Sends(kind) ==
    IF kind = "request"
    THEN {<<"s">>, <<"c">>, <<"s", "c">>} \cup (IF Tars THEN {} ELSE {<<>>})
    ELSE {<<>>, <<"c">>}

Handle(h) ==
    /\ job[h] # None
    /\ \E cmds \in Sends(job[h].kind) :
         sbuffer' = sbuffer \o [i \in DOMAIN cmds |->
                      [cmd |-> cmds[i], conn |-> job[h].conn, uid |-> job[h].uid]]
    /\ job' = [job EXCEPT ![h] = None]
    /\ UNCHANGED <<cur, free, vConn, uid, state, closing, unsent, acc, net, rbuffer,
                   asked, owed, strays, notices>>

-----------------------------------------------------------------------------
AcceptStep == GetUniqId \/ Add \/ IncreaseNowConnection \/ RegisterEvent

NetStep == Del \/ DecreaseNowConnection \/ ScanClose \/ ScanDel \/ ProcessPipe

Next ==
    \/ \E c \in Conns : Accept(c) \/ HangUp(c) \/ Output(c)
    \/ \E c \in Conns, n \in 1..MaxRequests, kind \in {"request", "oneway"} : Input(c, n, kind)
    \/ \E expired \in SUBSET Conns : CheckTimeout(expired)
    \/ AcceptStep \/ NetStep
    \/ \E h \in Handles : Pop(h) \/ Handle(h)

Spec == Init /\ [][Next]_vars

(* Threads go on with what they began and take what is queued; a socket    *)
(* becomes writable, or its connection expires.                            *)
FairSpec ==
    /\ Spec
    /\ WF_vars(AcceptStep)
    /\ WF_vars(NetStep)
    /\ \A c \in Conns : WF_vars(Output(c))
    /\ \A h \in Handles : WF_vars(Pop(h)) /\ WF_vars(Handle(h))

-----------------------------------------------------------------------------
TypeOK ==
    /\ cur \in Int
    /\ free \in Seq(Places)
    /\ vConn \in [Places -> Conns \cup {None}]
    /\ uid \in [Conns -> 0..MaxConns]
    /\ state \in [Conns -> {"asks", "refused", "made", "open", "broken", "closed"}]
    /\ closing \subseteq unsent /\ unsent \subseteq Conns
    /\ rbuffer \in Seq(Item)
    /\ job \in [Handles -> Item \cup {None}]
    /\ owed \in [Conns -> Nat]

(* The assertions of getUniqId and add hold: whoever passed the test of    *)
(* the limit finds a free place, and it is empty when the connection is    *)
(* entered.  The connection the accept thread is still entering is deleted *)
(* under it only by what was queued for an earlier holder of its place.    *)
AcceptSafe ==
    /\ acc.pc = "getUniqId" /\ ~Locked => free # <<>>
    /\ acc.pc = "add" => vConn[uid[acc.c]] = None
    /\ acc.pc \in {"increase", "register"} =>
          \/ vConn[uid[acc.c]] = acc.c
          \/ \E d \in Conns \ {acc.c} : uid[d] = uid[acc.c] /\ state[d] = "closed"

(* The list, its free places and the counter of the adapter agree in the   *)
(* middle of every close and accept, and each connection that was closed   *)
(* was reported to the handles once.                                       *)
ListAgrees ==
    /\ TypeOK
    /\ LET taken == {p \in Places : vConn[p] # None}
           one(b) == IF b THEN 1 ELSE 0
       IN  /\ Len(free) = Cardinality({free[i] : i \in DOMAIN free})
           /\ {free[i] : i \in DOMAIN free} \cap taken = {}
           /\ Len(free) + Cardinality(taken) + one(acc.pc = "add") = MaxConns
           /\ cur = Cardinality(taken) + one(net.pc = "decrease")
                    - one(acc.pc = "increase") - one(net.pc = "scanned")
    /\ \A c \in Conns : notices[c] = IF state[c] = "closed" THEN 1 ELSE 0

(* No client of a TARS adapter waits for ever: its two-way requests in the *)
(* queue are answered, or its connection is closed, by delConnection or by *)
(* the send that threw.                                                    *)
Answered == \A c \in Conns : owed[c] > 0 ~> owed[c] = 0 \/ state[c] \in {"broken", "closed"}

(* An answer goes to the connection its request came from. *)
RightClient == strays = {}

(* An answer that goes astray was queued for a connection that is closed   *)
(* now, and goes to one that was given the same place.                     *)
StraysExplained ==
    \A r \in strays : state[r[1]] = "closed" /\ uid[r[1]] = uid[r[2]]
=============================================================================
