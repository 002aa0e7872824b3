-------------------------- MODULE RpcClientProofs --------------------------
(***************************************************************************)
(* Safety of a call's way through the client, for every number of threads  *)
(* and calls, every size of the queues and every setting.                  *)
(***************************************************************************)
EXTENDS RpcClient, TLAPS

-----------------------------------------------------------------------------
(* Queues of messages. *)

\* Taking the first message off a queue.
LEMMA TailElements ==
  ASSUME NEW S, NEW s \in Seq(S), s # <<>>
  PROVE  /\ Head(s) \in S /\ Head(s) \in Elements(s) /\ Tail(s) \in Seq(S)
         /\ Elements(Tail(s)) \subseteq Elements(s)
         /\ Distinct(s) => Distinct(Tail(s)) /\ Elements(Tail(s)) = Elements(s) \ {Head(s)}
<1>1. /\ Len(s) \in Nat \ {0} /\ Head(s) = s[1] /\ Tail(s) \in Seq(S) /\ Len(Tail(s)) = Len(s) - 1
      /\ \A i \in 1..(Len(s) - 1) : Tail(s)[i] = s[i + 1]
  OBVIOUS
<1>2. Head(s) \in S /\ Head(s) \in Elements(s)
  BY <1>1 DEF Elements
<1>3. Elements(Tail(s)) \subseteq Elements(s)
  BY <1>1 DEF Elements
<1>4. ASSUME Distinct(s) PROVE Distinct(Tail(s)) /\ Elements(Tail(s)) = Elements(s) \ {Head(s)}
  <2>1. Distinct(Tail(s))
    BY <1>1, <1>4 DEF Distinct
  <2>2. Head(s) \notin Elements(Tail(s))
    BY <1>1, <1>4 DEF Distinct, Elements
  <2>3. ASSUME NEW x \in Elements(s), x # Head(s) PROVE x \in Elements(Tail(s))
    <3>1. PICK i \in 1..Len(s) : s[i] = x
      BY DEF Elements
    <3>2. i - 1 \in 1..(Len(s) - 1) /\ Tail(s)[i - 1] = x
      BY <3>1, <2>3, <1>1
    <3> QED BY <3>2, <1>1 DEF Elements
  <2> QED BY <2>1, <2>2, <2>3, <1>3
<1> QED BY <1>1, <1>2, <1>3, <1>4

\* Adding a message at the end of a queue.
LEMMA AppendElements ==
  ASSUME NEW S, NEW s \in Seq(S), NEW e \in S
  PROVE  /\ Append(s, e) \in Seq(S) /\ Elements(Append(s, e)) = Elements(s) \cup {e}
         /\ Distinct(s) /\ e \notin Elements(s) => Distinct(Append(s, e))
<1>1. /\ Len(s) \in Nat /\ Append(s, e) \in Seq(S) /\ Len(Append(s, e)) = Len(s) + 1
      /\ \A i \in 1..Len(s) : Append(s, e)[i] = s[i]
      /\ Append(s, e)[Len(s) + 1] = e
  OBVIOUS
<1>2. Elements(Append(s, e)) = Elements(s) \cup {e}
  BY <1>1 DEF Elements
<1>3. Distinct(s) /\ e \notin Elements(s) => Distinct(Append(s, e))
  BY <1>1 DEF Distinct, Elements
<1> QED BY <1>1, <1>2, <1>3

\* Taking a message out of the middle of a queue.
LEMMA WithoutElements ==
  ASSUME NEW S, NEW s \in Seq(S), NEW c
  PROVE  /\ Without(s, c) \in Seq(S) /\ Elements(Without(s, c)) \subseteq Elements(s)
         /\ c \notin Elements(s) => Without(s, c) = s
         /\ Distinct(s) => /\ Distinct(Without(s, c))
                           /\ Elements(Without(s, c)) = Elements(s) \ {c}
<1> DEFINE r == Without(s, c)
<1>1. Len(s) \in Nat /\ s \in [1..Len(s) -> S]
  OBVIOUS
<1>2. CASE c \notin Elements(s)
  <2>1. Without(s, c) = s
    BY <1>2 DEF Without, Elements
  <2> QED BY <2>1, <1>2
<1>3. CASE c \in Elements(s)
  <2>1. PICK k : k \in 1..Len(s) /\ s[k] = c
               /\ r = [i \in 1..(Len(s) - 1) |-> IF i < k THEN s[i] ELSE s[i + 1]]
    BY <1>3 DEF Without, Elements
  <2> HIDE DEF r
  <2>2. Len(s) - 1 \in Nat /\ \A i \in 1..(Len(s) - 1) : i \in 1..Len(s) /\ i + 1 \in 1..Len(s)
    BY <1>1, <2>1
  <2>3. r \in [1..(Len(s) - 1) -> S]
    BY <1>1, <2>1, <2>2
  <2>4. r \in Seq(S) /\ Len(r) = Len(s) - 1
    <3>1. r \in Seq(S)
      BY <2>2, <2>3
    <3>2. DOMAIN r = 1..(Len(s) - 1) /\ DOMAIN r = 1..Len(r) /\ Len(r) \in Nat
      BY <3>1, <2>3
    <3> QED BY <3>1, <3>2, <2>2
  <2>5. \A i \in 1..Len(r) : r[i] = IF i < k THEN s[i] ELSE s[i + 1]
    BY <2>1, <2>4
  <2>6. Elements(r) \subseteq Elements(s)
    BY <2>2, <2>4, <2>5 DEF Elements
  <2>7. ASSUME Distinct(s) PROVE Distinct(r) /\ Elements(r) = Elements(s) \ {c}
    <3>1. Distinct(r)
      BY <1>1, <2>1, <2>2, <2>4, <2>5, <2>7 DEF Distinct
    <3>2. c \notin Elements(r)
      BY <1>1, <2>1, <2>2, <2>4, <2>5, <2>7 DEF Distinct, Elements
    <3>3. ASSUME NEW x \in Elements(s), x # c PROVE x \in Elements(r)
      <4>1. PICK j \in 1..Len(s) : s[j] = x
        BY DEF Elements
      <4>2. j # k
        BY <4>1, <3>3, <2>1
      <4>3. CASE j < k
        <5>1. j \in 1..Len(r) /\ r[j] = x
          BY <4>1, <4>3, <1>1, <2>1, <2>4, <2>5
        <5> QED BY <5>1 DEF Elements
      <4>4. CASE j > k
        <5>1. j - 1 \in 1..Len(r) /\ r[j - 1] = x
          BY <4>1, <4>4, <1>1, <2>1, <2>4, <2>5
        <5> QED BY <5>1 DEF Elements
      <4> QED BY <4>2, <4>3, <4>4, <2>1
    <3> QED BY <3>1, <3>2, <3>3, <2>6
  <2> QED BY <2>4, <2>6, <2>7, <1>3 DEF r
<1> QED BY <1>2, <1>3

-----------------------------------------------------------------------------
(* Types. *)

Fates == {"live", "returned", "callback", "refused", "oneway", "dropped", "silent"}
Statuses == {"new", "req", "rsp", "time", "exc"}
Conns == {"unconnected", "connecting", "handshaking", "connected"}

TransType ==
    /\ conn \in Conns /\ dials \in Nat
    /\ sendBuf \in Calls \cup {NoCall} /\ wire \subseteq Calls /\ cut \subseteq Calls

DoneType ==
    /\ status \in [Calls -> Statuses] /\ woken \subseteq Calls /\ asyncQ \in Seq(Calls)
    /\ fate \in [Calls -> Fates]

QueueType ==
    /\ data \subseteq Calls /\ send \in Seq(Calls) /\ requestMsg \in Calls \cup {NoCall}
    /\ uniqId \in Nat /\ rid \in [Calls -> Nat]

\* c is completed: its caller is woken, it goes to the callback thread, or it is deleted.
Ends(c) ==
    /\ status' \in [Calls -> Statuses] /\ status'[c] # "new"
    /\ \A d \in Calls \ {c} : status'[d] = status[d]
    /\ \/ Kind[c] = "sync" /\ woken' = woken \cup {c} /\ UNCHANGED <<asyncQ, fate>>
       \/ Kind[c] # "sync" /\ asyncQ' = Append(asyncQ, c) /\ UNCHANGED <<woken, fate>>
       \/ /\ Kind[c] # "sync" /\ UNCHANGED <<woken, asyncQ>>
          /\ fate' \in [Calls -> Fates] /\ fate'[c] # "live"
          /\ \A d \in Calls \ {c} : fate'[d] = fate[d]

\* c goes on: it is under way and nothing has ended.
GoesOn(c) ==
    /\ status' \in [Calls -> Statuses] /\ status'[c] = "req"
    /\ \A d \in Calls \ {c} : status'[d] = status[d]
    /\ UNCHANGED doneVars

\* finishInvoke(msg) ends the call.
LEMMA FinishEnds ==
  ASSUME DoneType, NEW c \in Calls, NEW st \in Statuses \ {"new"}, FinishInvoke(c, st)
  PROVE  Ends(c)
<1>1. status' \in [Calls -> Statuses] /\ status'[c] # "new" /\ \A d \in Calls \ {c} : status'[d] = status[d]
  BY DEF FinishInvoke, DoneType
<1>2. CASE Kind[c] = "sync"
  BY <1>1, <1>2 DEF FinishInvoke, NotifyMonitor, Ends
<1>3. CASE Kind[c] = "oneway"
  <2>1. fate' = [fate EXCEPT ![c] = "oneway"] /\ UNCHANGED <<woken, asyncQ>>
    BY <1>3 DEF FinishInvoke, Delete
  <2> QED BY <1>1, <1>3, <2>1 DEF Ends, DoneType, Fates
<1>4. CASE Kind[c] \notin {"sync", "oneway"}
  <2>1. PushAsync(c)
    BY <1>4 DEF FinishInvoke
  <2> QED BY <1>1, <1>4, <2>1 DEF PushAsync, Delete, Ends, DoneType, Fates
<1> QED BY <1>2, <1>3, <1>4

\* doInvokeException ends the call.
LEMMA ExceptionEnds ==
  ASSUME DoneType, NEW c \in Calls, status[c] # "new", DoInvokeException(c)
  PROVE  Ends(c)
<1>1. status' \in [Calls -> Statuses] /\ status'[c] # "new" /\ \A d \in Calls \ {c} : status'[d] = status[d]
  BY DEF DoInvokeException, DoneType, Statuses
<1>2. CASE Kind[c] = "sync"
  BY <1>1, <1>2 DEF DoInvokeException, NotifyMonitor, Ends
<1>3. CASE Kind[c] = "oneway"
  <2>1. fate' = [fate EXCEPT ![c] = "oneway"] /\ UNCHANGED <<woken, asyncQ>>
    BY <1>3 DEF DoInvokeException, Delete
  <2> QED BY <1>1, <1>3, <2>1 DEF Ends, DoneType, Fates
<1>4. CASE Kind[c] \notin {"sync", "oneway"}
  <2>1. PushAsync(c) \/ (Delete(c, "silent") /\ UNCHANGED <<woken, asyncQ>>)
    BY <1>4 DEF DoInvokeException
  <2> QED BY <1>1, <1>4, <2>1 DEF PushAsync, Delete, Ends, DoneType, Fates
<1> QED BY <1>2, <1>3, <1>4

\* Ending a call or letting it go on keeps the types of what it touches.
LEMMA DoneTyped ==
  ASSUME DoneType, NEW c \in Calls, Ends(c) \/ GoesOn(c)
  PROVE  DoneType'
<1>1. asyncQ' \in Seq(Calls)
  BY AppendElements DEF DoneType, Ends, GoesOn, doneVars
<1>2. woken' \subseteq Calls /\ fate' \in [Calls -> Fates] /\ status' \in [Calls -> Statuses]
  BY DEF DoneType, Ends, GoesOn, doneVars
<1> QED BY <1>1, <1>2 DEF DoneType

\* The connection keeps its types whatever it is asked to do.
LEMMA TransTyped ==
  ASSUME TransType, NEW c \in Calls,
         \/ UNCHANGED transVars \/ Close \/ Dial \/ FailMayClose \/ \E ret \in Returns : SendRequest(c, ret)
  PROVE  TransType'
<1>1. CASE UNCHANGED transVars \/ Close \/ Dial \/ FailMayClose
  BY <1>1 DEF TransType, Conns, transVars, Close, Dial, FailMayClose
<1>2. ASSUME NEW ret \in Returns, SendRequest(c, ret) PROVE TransType'
  BY <1>2 DEF TransType, Conns, transVars, Close, SendRequest
<1> QED BY <1>1, <1>2

-----------------------------------------------------------------------------
(* AdapterProxy::invoke. *)

\* What becomes of c: it ends, waits to be sent, waits for its response, or, after
\* an exception, is left in no queue.
Refused(c) == Ends(c) /\ UNCHANGED <<data, send, requestMsg>>
Queued(c) ==
    /\ data' = data \cup {c} /\ send' = Append(send, c) /\ UNCHANGED requestMsg
    /\ GoesOn(c) /\ \A d \in data : rid[d] # rid'[c]
Sent(c) ==
    /\ data' = data \cup {c} /\ requestMsg' = (IF Serial THEN c ELSE requestMsg) /\ UNCHANGED send
    /\ GoesOn(c) /\ \A d \in data : rid[d] # rid'[c]
Lost(c) == GoesOn(c) /\ UNCHANGED <<data, send, requestMsg>>

\* What invoke does to the adapter and its connection: the limit on unsent requests
\* refuses c, c waits behind others, or sendRequest returns ret.
LEMMA InvokeCases ==
  ASSUME QueueType, DoneType, NEW c \in Calls, NEW thrown \in BOOLEAN,
         Kind[c] = "oneway" => status[c] # "new", AdapterInvoke(c, thrown)
  PROVE  \/ ~thrown /\ Refused(c) /\ UNCHANGED <<uniqId, rid, transVars>>
         \/ /\ uniqId' = NextUniqId(c) /\ rid' = [rid EXCEPT ![c] = NewId(c)]
            /\ \/ ~Free /\ ~thrown /\ (Queued(c) \/ (Refused(c) /\ IdTaken(c))) /\ UNCHANGED transVars
               \/ /\ Free
                  /\ \/ ~thrown /\ SendRequest(c, "notsend") /\ (Queued(c) \/ (Refused(c) /\ IdTaken(c)))
                     \/ /\ ~thrown /\ (SendRequest(c, "ok") \/ SendRequest(c, "full"))
                        /\ Sent(c) \/ (Refused(c) /\ (IdTaken(c) \/ Kind[c] = "oneway"))
                     \/ ~thrown /\ SendRequest(c, "error") /\ Refused(c)
                     \/ thrown /\ SendRequest(c, "throw") /\ Lost(c)
<1> DEFINE new == uniqId' = NextUniqId(c) /\ rid' = [rid EXCEPT ![c] = NewId(c)]
<1>a. ASSUME NEW st \in Statuses \ {"new"}, FinishInvoke(c, st), UNCHANGED <<data, send, requestMsg>>
      PROVE  Refused(c)
  BY <1>a, FinishEnds DEF Refused
<1>b. ASSUME InFlight(c) PROVE GoesOn(c)
  BY <1>b DEF InFlight, GoesOn, DoneType, Statuses
<1>c. ASSUME new, ~IdTaken(c) PROVE \A d \in data : rid[d] # rid'[c]
  <2>1. rid'[c] = NewId(c)
    BY <1>c DEF QueueType
  <2> QED BY <2>1, <1>c DEF IdTaken
<1>d. ASSUME new, Enqueue(c) PROVE Queued(c) \/ (Refused(c) /\ IdTaken(c))
  <2>1. CASE IdTaken(c)
    <3>1. FinishInvoke(c, "exc") /\ UNCHANGED <<data, send, requestMsg>>
      BY <1>d, <2>1 DEF Enqueue
    <3> QED BY <3>1, <2>1, <1>a DEF Statuses
  <2>2. CASE ~IdTaken(c)
    <3>1. /\ data' = data \cup {c} /\ send' = Append(send, c)
          /\ InFlight(c) /\ UNCHANGED requestMsg
      BY <1>d, <2>2 DEF Enqueue
    <3>2. \A d \in data : rid[d] # rid'[c]
      BY <1>d, <2>2, <1>c
    <3>3. GoesOn(c)
      BY <3>1, <1>b
    <3> QED BY <3>1, <3>2, <3>3 DEF Queued
  <2> QED BY <2>1, <2>2
<1>e. ASSUME new, EnqueueSent(c) PROVE Sent(c) \/ (Refused(c) /\ IdTaken(c))
  <2>1. CASE IdTaken(c)
    <3>1. FinishInvoke(c, "exc") /\ UNCHANGED <<data, send, requestMsg>>
      BY <1>e, <2>1 DEF EnqueueSent
    <3> QED BY <3>1, <2>1, <1>a DEF Statuses
  <2>2. CASE ~IdTaken(c)
    <3>1. /\ data' = data \cup {c} /\ requestMsg' = IF Serial THEN c ELSE requestMsg
          /\ InFlight(c) /\ UNCHANGED send
      BY <1>e, <2>2 DEF EnqueueSent
    <3>2. \A d \in data : rid[d] # rid'[c]
      BY <1>e, <2>2, <1>c
    <3>3. GoesOn(c)
      BY <3>1, <1>b
    <3> QED BY <3>1, <3>2, <3>3 DEF Sent
  <2> QED BY <2>1, <2>2
<1>f. ASSUME Kind[c] = "oneway", Delete(c, "oneway"),
             UNCHANGED <<data, send, requestMsg, status, woken, asyncQ>>
      PROVE  Refused(c)
  BY <1>f DEF Delete, Refused, Ends, DoneType, Fates
<1>1. CASE Len(send) > NoSendLimit /\ ~thrown /\ FinishInvoke(c, "exc") /\ UNCHANGED <<queueVars, transVars>>
  BY <1>1, <1>a DEF queueVars, Statuses
<1>2. CASE new /\ ~Free /\ ~thrown /\ Enqueue(c) /\ UNCHANGED transVars
  BY <1>2, <1>d
<1>3. ASSUME new, Free, NEW ret \in Returns, thrown = (ret = "throw"), SendRequest(c, ret), AfterSend(c, ret)
      PROVE  \/ ~thrown /\ SendRequest(c, "notsend") /\ (Queued(c) \/ (Refused(c) /\ IdTaken(c)))
             \/ /\ ~thrown /\ (SendRequest(c, "ok") \/ SendRequest(c, "full"))
                /\ Sent(c) \/ (Refused(c) /\ (IdTaken(c) \/ Kind[c] = "oneway"))
             \/ ~thrown /\ SendRequest(c, "error") /\ Refused(c)
             \/ thrown /\ SendRequest(c, "throw") /\ Lost(c)
  <2>1. CASE ret \in {"ok", "full"} /\ Kind[c] = "oneway"
    <3>1. Refused(c)
      BY <1>3, <2>1, <1>f DEF AfterSend
    <3> QED BY <1>3, <2>1, <3>1
  <2>2. CASE ret \in {"ok", "full"} /\ Kind[c] # "oneway"
    <3>1. EnqueueSent(c)
      BY <1>3, <2>2 DEF AfterSend
    <3> QED BY <1>3, <2>2, <3>1, <1>e
  <2>3. CASE ret = "notsend"
    <3>1. Enqueue(c)
      BY <1>3, <2>3 DEF AfterSend
    <3> QED BY <1>3, <2>3, <3>1, <1>d
  <2>4. CASE ret = "error"
    <3>1. FinishInvoke(c, "exc") /\ UNCHANGED <<data, send, requestMsg>>
      BY <1>3, <2>4 DEF AfterSend
    <3> QED BY <1>3, <2>4, <3>1, <1>a DEF Statuses
  <2>5. CASE ret = "throw"
    <3>1. InFlight(c) /\ UNCHANGED <<data, send, requestMsg>>
      BY <1>3, <2>5 DEF AfterSend
    <3> QED BY <1>3, <2>5, <3>1, <1>b DEF Lost
  <2> QED BY <1>3, <2>1, <2>2, <2>3, <2>4, <2>5 DEF Returns
<1> QED BY <1>1, <1>2, <1>3 DEF AdapterInvoke

-----------------------------------------------------------------------------
(* The inductive invariant. *)

\* A message that is in a queue is in one queue, once, and under way.
Held(c) == (\E t \in Threads : c \in Elements(ring[t])) \/ c \in Elements(objQ) \/ c \in data

Places ==
    /\ \A t \in Threads : Distinct(ring[t])
    /\ Distinct(objQ)
    /\ \A t, u \in Threads : \A c \in Elements(ring[t]) : c \in Elements(ring[u]) => t = u
    /\ \A t \in Threads : \A c \in Elements(ring[t]) : c \notin Elements(objQ) /\ c \notin data
    /\ \A c \in Elements(objQ) : c \notin data
    /\ \A c \in Calls : Held(c) => status[c] = "req" /\ ~Finished(c)

\* How a message ends depends on its kind, and a message ends once.
Ended ==
    /\ Distinct(asyncQ)
    /\ \A c \in Calls :
          /\ fate[c] # "live" => c \notin Elements(asyncQ)
          /\ c \in woken => Kind[c] = "sync"
          /\ c \in Elements(asyncQ) => Kind[c] # "sync"
          /\ status[c] = "new" => ~Finished(c)

\* A message is some thread's current call once, and lives as long as that thread
\* waits for it.
Callers ==
    /\ \A t \in Threads : tpc[t] # "idle" =>
          /\ cur[t] \in Calls /\ status[cur[t]] # "new"
          /\ Kind[cur[t]] = "sync" => fate[cur[t]] = "live"
          /\ tpc[t] = "waiting" => Kind[cur[t]] = "sync"
    /\ \A t, u \in Threads : tpc[t] # "idle" /\ tpc[u] # "idle" /\ cur[t] = cur[u] => t = u

\* A send may leave its caller by an exception.
SendThrows == SendFaults \cap {"throw", "torn"} # {}

\* Unless a send throws, a call that was made and is not finished is in a queue.
Kept == ~SendThrows => \A c \in Calls : status[c] = "req" /\ ~Finished(c) => Held(c)

Messages == Places /\ Ended /\ Callers /\ Kept

\* The only request a serial connection carries is the outstanding one, which no
\* later request can be mistaken for, because serial requests have increasing ids.
SerialBusy ==
    /\ SerialInFlight
    /\ Serial => /\ \A d \in data : rid[d] <= uniqId
                 /\ sendBuf # NoCall => wire = {}
    /\ ~Serial => requestMsg = NoCall

RpcInv == TypeOK /\ Messages /\ QueueConsistent /\ SerialBusy /\ SendListServed

\* The type invariant by component.
CallerType ==
    /\ ring \in [Threads -> Seq(Calls)] /\ armed \in [Threads -> BOOLEAN]
    /\ tpc \in [Threads -> {"idle", "pushed", "waiting"}]
    /\ cur \in [Threads -> Calls \cup {NoCall}]
ObjType == reg \in {"unknown", "none", "known"} /\ objQ \in Seq(Calls) /\ adapter \subseteq Calls
RestType ==
    /\ setting \in Settings /\ netpc \in {"idle", "prepare", "complete", "drain"}
    /\ answer \in [Calls -> Calls \cup {NoCall}]

\* The parts make up the type invariant.
LEMMA TypeParts ==
  TypeOK <=> CallerType /\ ObjType /\ QueueType /\ TransType /\ DoneType /\ RestType
BY DEF TypeOK, CallerType, ObjType, QueueType, TransType, DoneType, RestType, Conns, Statuses, Fates

\* The parts make up the type invariant in the next state too.
LEMMA TypePartsNext ==
  (CallerType /\ ObjType /\ QueueType /\ TransType /\ DoneType /\ RestType)' => TypeOK'
BY DEF TypeOK, CallerType, ObjType, QueueType, TransType, DoneType, RestType, Conns, Statuses, Fates

\* What the setting of a behaviour is.
LEMMA SettingFacts ==
  ASSUME RestType
  PROVE  /\ Kind \in [Calls -> {"sync", "async", "oneway", "ping"}]
         /\ Serial \in BOOLEAN /\ Secured \in BOOLEAN
         /\ \A c \in Calls : Kind[c] = "oneway" => ~Serial
BY SettingsAssumption DEF RestType, SettingType, Kind, Serial, Secured

-----------------------------------------------------------------------------
(* A message moves. *)

\* c leaves the queue it is in and goes to the object's queue or the adapter's, or
\* ends, or is lost to an exception.
Move(c, to) ==
    /\ \A t \in Threads : Distinct(ring'[t]) /\ Elements(ring'[t]) = Elements(ring[t]) \ {c}
    /\ Distinct(objQ')
    /\ Elements(objQ') = IF to = "object" THEN Elements(objQ) \cup {c} ELSE Elements(objQ) \ {c}
    /\ data' = IF to = "adapter" THEN data \cup {c} ELSE data \ {c}
    /\ IF to = "end" THEN Ends(c) ELSE GoesOn(c)
    /\ to = "lost" => SendThrows
    /\ UNCHANGED <<setting, tpc, cur>>

\* No message moves.
Still == UNCHANGED <<setting, ring, objQ, data, status, doneVars, tpc, cur>>

\* A move keeps messages apart.
LEMMA MoveKeeps ==
  ASSUME TypeOK, TypeOK', Messages, NEW c \in Calls, NEW to \in {"object", "adapter", "end", "lost"},
         ~Finished(c), Move(c, to)
  PROVE  Messages'
<1>0. Places /\ Ended /\ Callers /\ Kept /\ CallerType /\ DoneType /\ QueueType /\ ObjType
  BY TypeParts DEF Messages
<1>1. Kind' = Kind
  BY DEF Move, Kind
<1>2. Ends(c) \/ GoesOn(c)
  BY DEF Move
<1>3. status'[c] # "new" /\ \A d \in Calls : d # c => status'[d] = status[d]
  BY <1>2 DEF Ends, GoesOn
<1>4. c \notin Elements(asyncQ) /\ c \notin woken /\ fate[c] = "live"
  BY DEF Finished
<1>5. /\ Distinct(asyncQ') /\ Elements(asyncQ') \subseteq Elements(asyncQ) \cup {c}
      /\ Elements(asyncQ) \subseteq Elements(asyncQ')
      /\ c \in Elements(asyncQ') => Kind[c] # "sync"
  <2>1. (asyncQ' = Append(asyncQ, c) /\ Kind[c] # "sync") \/ asyncQ' = asyncQ
    BY <1>2 DEF Ends, GoesOn, doneVars
  <2>2. Distinct(asyncQ) /\ asyncQ \in Seq(Calls)
    BY <1>0 DEF DoneType, Ended
  <2>3. /\ Elements(Append(asyncQ, c)) = Elements(asyncQ) \cup {c}
        /\ Distinct(Append(asyncQ, c))
    BY <2>2, <1>4, AppendElements
  <2> QED BY <1>4, <2>1, <2>2, <2>3
<1>6. /\ \A d \in Calls : d # c => (d \in woken' <=> d \in woken)
      /\ c \in woken' => Kind[c] = "sync"
      /\ \A d \in Calls : d # c => fate'[d] = fate[d]
      /\ Kind[c] = "sync" => fate'[c] = fate[c]
  BY <1>2, <1>4 DEF Ends, GoesOn, doneVars
<1>7. fate'[c] # "live" => c \notin Elements(asyncQ')
  BY <1>2, <1>4 DEF Ends, GoesOn, doneVars
<1>8. \A d \in Calls : d # c => (Finished(d)' <=> Finished(d))
  BY <1>5, <1>6 DEF Finished
<1>9. GoesOn(c) => ~Finished(c)'
  BY DEF GoesOn, Finished, doneVars
<1>10. Ended'
  BY <1>0, <1>1, <1>3, <1>5, <1>6, <1>7, <1>8 DEF Ended
<1>11. \A d \in Calls : d # c => (Held(d)' => Held(d))
  BY DEF Held, Move
<1>12. Held(c)' => status'[c] = "req" /\ ~Finished(c)'
  <2>1. Held(c)' => to \in {"object", "adapter"}
    BY DEF Held, Move
  <2>2. to # "end" => status'[c] = "req" /\ ~Finished(c)'
    BY <1>9 DEF Move, GoesOn
  <2> QED BY <2>1, <2>2
<1>13. Places'
  <2>1. \A d \in Calls : Held(d)' => status'[d] = "req" /\ ~Finished(d)'
    BY <1>0, <1>3, <1>8, <1>11, <1>12 DEF Places
  <2>2. /\ \A t \in Threads : Distinct(ring'[t])
        /\ Distinct(objQ')
        /\ \A t, u \in Threads : \A d \in Elements(ring'[t]) : d \in Elements(ring'[u]) => t = u
    BY <1>0 DEF Places, Move
  <2>3. \A t \in Threads : \A d \in Elements(ring'[t]) : d \notin Elements(objQ') /\ d \notin data'
    BY <1>0 DEF Places, Move
  <2>4. \A d \in Elements(objQ') : d \notin data'
    BY <1>0 DEF Places, Move
  <2> QED BY <2>1, <2>2, <2>3, <2>4 DEF Places
<1>14. Callers'
  <2>1. UNCHANGED <<tpc, cur>>
    BY DEF Move
  <2>2. ASSUME NEW t \in Threads, tpc[t] # "idle"
        PROVE  /\ cur[t] \in Calls /\ status'[cur[t]] # "new"
               /\ Kind[cur[t]] = "sync" => fate'[cur[t]] = "live"
               /\ tpc[t] = "waiting" => Kind[cur[t]] = "sync"
    BY <1>0, <1>3, <1>6, <2>2 DEF Callers
  <2> QED BY <1>0, <1>1, <2>1, <2>2 DEF Callers
<1>15. Kept'
  <2>1. SendThrows' = SendThrows
    BY DEF SendThrows, SendFaults, Move
  <2>2. \A d \in Calls : d # c => (Held(d) => Held(d)')
    BY DEF Held, Move
  <2>3. to \in {"object", "adapter"} => Held(c)'
    <3>1. to = "object" => c \in Elements(objQ')
      BY DEF Move
    <3>2. to = "adapter" => c \in data'
      BY DEF Move
    <3> QED BY <3>1, <3>2 DEF Held
  <2>4. to = "end" => Finished(c)'
    <3>1. Ends(c) => c \in woken' \/ asyncQ' = Append(asyncQ, c) \/ fate'[c] # "live"
      BY DEF Ends
    <3>2. asyncQ' = Append(asyncQ, c) => c \in Elements(asyncQ')
      BY <1>0, AppendElements DEF DoneType
    <3> QED BY <3>1, <3>2 DEF Finished, Move
  <2>5. to = "lost" => SendThrows
    BY DEF Move
  <2> QED BY <2>1, <2>2, <2>3, <2>4, <2>5, <1>0, <1>3, <1>8 DEF Kept
<1> QED BY <1>10, <1>13, <1>14, <1>15 DEF Messages

\* What no move touches stays as it is.
LEMMA StillKeeps ==
  ASSUME Messages, Still
  PROVE  Messages'
BY DEF Messages, Still, Places, Ended, Callers, Kept, Held, Finished, Kind, SendThrows, SendFaults, doneVars

-----------------------------------------------------------------------------
(* What AdapterProxy::invoke preserves. *)

\* The outcomes of invoke as moves of the message; only an exception loses it.
LEMMA InvokeMoves ==
  ASSUME TypeOK, NEW c \in Calls, c \notin data, NEW thrown \in BOOLEAN,
         Kind[c] = "oneway" => status[c] # "new", AdapterInvoke(c, thrown)
  PROVE  /\ QueueType' /\ TransType' /\ DoneType'
         /\ \E to \in {"adapter", "end", "lost"} :
               /\ data' = IF to = "adapter" THEN data \cup {c} ELSE data \ {c}
               /\ IF to = "end" THEN Ends(c) ELSE GoesOn(c)
               /\ to = "lost" => SendThrows
<1>0. QueueType /\ TransType /\ DoneType
  BY TypeParts
<1>1. \/ Refused(c)
      \/ Queued(c)
      \/ Sent(c)
      \/ SendThrows /\ Lost(c)
  BY <1>0, InvokeCases DEF SendRequest, SendThrows
<1>2. \/ UNCHANGED transVars
      \/ \E ret \in Returns : SendRequest(c, ret)
  BY <1>0, InvokeCases DEF Returns
<1>3. UNCHANGED <<uniqId, rid>> \/ (uniqId' = NextUniqId(c) /\ rid' = [rid EXCEPT ![c] = NewId(c)])
  BY <1>0, InvokeCases
<1>4. TransType'
  BY <1>0, <1>2, TransTyped
<1>5. DoneType'
  BY <1>0, <1>1, DoneTyped DEF Refused, Queued, Sent, Lost
<1>6. uniqId' \in Nat /\ rid' \in [Calls -> Nat]
  <2>1. NextUniqId(c) \in Nat
    BY <1>0 DEF QueueType, NextUniqId
  <2>2. NewId(c) \in Nat
    BY <2>1, ConstantsAssumption DEF NewId
  <2> QED BY <1>0, <1>3, <2>1, <2>2 DEF QueueType
<1>7. data' \subseteq Calls /\ requestMsg' \in Calls \cup {NoCall} /\ send' \in Seq(Calls)
  <2>1. send \in Seq(Calls) /\ Append(send, c) \in Seq(Calls)
    BY <1>0, AppendElements DEF QueueType
  <2> QED BY <1>0, <1>1, <2>1 DEF QueueType, Refused, Queued, Sent, Lost
<1>8. CASE Refused(c)
  <2>1. data' = data \ {c} /\ Ends(c)
    BY <1>8 DEF Refused
  <2> QED BY <2>1, <1>4, <1>5, <1>6, <1>7 DEF QueueType
<1>9. CASE Queued(c) \/ Sent(c)
  <2>1. data' = data \cup {c} /\ GoesOn(c)
    BY <1>9 DEF Queued, Sent
  <2> QED BY <2>1, <1>4, <1>5, <1>6, <1>7 DEF QueueType
<1>10. CASE SendThrows /\ Lost(c)
  <2>1. data' = data \ {c} /\ GoesOn(c) /\ SendThrows
    BY <1>10 DEF Lost
  <2> QED BY <2>1, <1>4, <1>5, <1>6, <1>7 DEF QueueType
<1> QED BY <1>1, <1>8, <1>9, <1>10

\* invoke keeps the id map, the unsent list and the outstanding request consistent.
LEMMA InvokeQueues ==
  ASSUME TypeOK, QueueConsistent, SerialBusy, NEW c \in Calls, c \notin data, NEW thrown \in BOOLEAN,
         Kind[c] = "oneway" => status[c] # "new", AdapterInvoke(c, thrown), UNCHANGED setting
  PROVE  QueueConsistent' /\ SerialBusy'
<1>0. QueueType /\ TransType /\ DoneType /\ RestType
  BY TypeParts
<1>a. Serial' = Serial /\ Kind' = Kind /\ Serial \in BOOLEAN /\ (Kind[c] = "oneway" => ~Serial)
  BY <1>0, SettingFacts DEF Serial, Kind
<1>b. NoCall \notin Calls /\ c # NoCall /\ c \notin Elements(send)
  BY ConstantsAssumption DEF QueueConsistent
<1>1. Refused(c) \/ Queued(c) \/ Sent(c) \/ Lost(c)
  BY <1>0, InvokeCases
<1>2. UNCHANGED <<uniqId, rid>> \/ (uniqId' = NextUniqId(c) /\ rid' = [rid EXCEPT ![c] = NewId(c)])
  BY <1>0, InvokeCases
<1>3. \A d \in data : rid'[d] = rid[d]
  BY <1>0, <1>2 DEF QueueType
<1>4. QueueConsistent'
  <2>1. CASE Refused(c) \/ Lost(c)
    <3>1. UNCHANGED <<data, send, requestMsg>>
      BY <2>1 DEF Refused, Lost
    <3> QED BY <3>1, <1>3 DEF QueueConsistent
  <2>2. CASE Queued(c)
    <3>1. /\ data' = data \cup {c} /\ send' = Append(send, c) /\ requestMsg' = requestMsg
          /\ \A d \in data : rid[d] # rid'[c]
      BY <2>2 DEF Queued
    <3>2. Elements(send') = Elements(send) \cup {c} /\ Distinct(send')
      BY <3>1, <1>0, <1>b, AppendElements DEF QueueConsistent, QueueType
    <3> QED BY <3>1, <3>2, <1>3 DEF QueueConsistent
  <2>3. CASE Sent(c)
    <3>1. /\ data' = data \cup {c} /\ send' = send /\ requestMsg' \in {requestMsg, c}
          /\ \A d \in data : rid[d] # rid'[c]
      BY <2>3 DEF Sent
    <3> QED BY <3>1, <1>3, <1>b DEF QueueConsistent
  <2> QED BY <1>1, <2>1, <2>2, <2>3
<1>5. CASE ~Serial
  BY <1>5, <1>a, <1>1, <1>4 DEF SerialBusy, SerialInFlight, Refused, Queued, Sent, Lost
<1>6. CASE Serial
  <2>1. NextUniqId(c) > uniqId /\ NewId(c) = NextUniqId(c) /\ NextUniqId(c) \in Nat
    BY <1>6, <1>0 DEF NextUniqId, NewId, QueueType
  <2>2. ~IdTaken(c)
    BY <2>1, <1>6, <1>0 DEF IdTaken, SerialBusy, QueueType
  <2>3. data' \subseteq data \cup {c}
    BY <1>1 DEF Refused, Queued, Sent, Lost
  <2>4. \A d \in data' : rid'[d] <= uniqId'
    <3>1. CASE UNCHANGED <<uniqId, rid>>
      <4>1. c \notin data'
        <5>1. c \in data' => \A d \in data : rid[d] # rid'[c]
          BY <1>1 DEF Refused, Queued, Sent, Lost
        <5>2. (~thrown /\ Refused(c)) \/ uniqId' = NextUniqId(c)
          BY <1>0, InvokeCases
        <5> QED BY <5>2, <3>1, <2>1, <1>0 DEF Refused, QueueType
      <4> QED BY <4>1, <3>1, <2>3, <1>6, <1>0 DEF SerialBusy
    <3>2. CASE uniqId' = NextUniqId(c) /\ rid' = [rid EXCEPT ![c] = NewId(c)]
      <4>1. rid'[c] = uniqId' /\ uniqId' \in Nat /\ uniqId < uniqId'
        BY <3>2, <2>1, <1>0 DEF QueueType
      <4>2. \A d \in data : rid[d] \in Nat /\ rid[d] <= uniqId
        BY <1>6, <1>0 DEF SerialBusy, QueueType
      <4>3. uniqId \in Nat
        BY <1>0 DEF QueueType
      <4> QED BY <4>1, <4>2, <4>3, <2>3, <1>3
    <3> QED BY <1>2, <3>1, <3>2
  <2>5. \/ UNCHANGED transVars /\ requestMsg' = requestMsg
        \/ wire' = {} /\ sendBuf' = NoCall
        \/ /\ requestMsg = NoCall /\ requestMsg' = c
           /\ \/ wire' = wire \cup {c} /\ sendBuf' = sendBuf
              \/ sendBuf' = c /\ wire' = wire
    <3>1. CASE ~thrown /\ Refused(c) /\ UNCHANGED <<uniqId, rid, transVars>>
      BY <3>1 DEF Refused
    <3>2. CASE ~Free /\ Queued(c) /\ UNCHANGED transVars
      BY <3>2 DEF Queued
    <3>3. CASE Free /\ SendRequest(c, "notsend") /\ Queued(c)
      BY <3>3 DEF Queued, SendRequest
    <3>4. CASE Free /\ (SendRequest(c, "ok") \/ SendRequest(c, "full")) /\ Sent(c)
      BY <3>4, <1>6 DEF Sent, Free, SendRequest
    <3>5. CASE SendRequest(c, "error") \/ SendRequest(c, "throw")
      BY <3>5 DEF SendRequest, Close
    <3> QED BY <3>1, <3>2, <3>3, <3>4, <3>5, <2>2, <1>0, <1>6, <1>a, InvokeCases
  <2>6. requestMsg = NoCall => wire = {} /\ sendBuf = NoCall
    BY <1>0, <1>6, <1>b DEF SerialBusy, SerialInFlight, TransType
  <2>7. SerialInFlight' /\ (sendBuf' # NoCall => wire' = {})
    <3>1. CASE UNCHANGED transVars /\ requestMsg' = requestMsg
      BY <3>1, <1>6, <1>a DEF transVars, SerialBusy, SerialInFlight
    <3>2. CASE wire' = {} /\ sendBuf' = NoCall
      BY <3>2 DEF SerialInFlight
    <3>3. CASE /\ requestMsg = NoCall /\ requestMsg' = c
               /\ \/ wire' = wire \cup {c} /\ sendBuf' = sendBuf
                  \/ sendBuf' = c /\ wire' = wire
      BY <3>3, <2>6 DEF SerialInFlight
    <3> QED BY <2>5, <3>1, <3>2, <3>3
  <2> QED BY <2>4, <2>7, <1>4, <1>6, <1>a DEF SerialBusy
<1> QED BY <1>5, <1>6, <1>a

\* A connection that could take unsent requests is never left beside them.
Served ==
    conn = "connected" /\ send # <<>> => sendBuf # NoCall \/ (Serial /\ requestMsg # NoCall)

\* invoke queues a request only behind something that will have it sent, and an
\* exception closes the connection.
LEMMA InvokeServed ==
  ASSUME TypeOK, NEW c \in Calls, c \notin data, NEW thrown \in BOOLEAN,
         Kind[c] = "oneway" => status[c] # "new", AdapterInvoke(c, thrown), UNCHANGED setting
  PROVE  (thrown => conn' # "connected") /\ (Served => Served')
<1>0. QueueType /\ DoneType
  BY TypeParts
<1>a. Serial' = Serial /\ c # NoCall
  BY ConstantsAssumption DEF Serial
<1>1. CASE ~thrown /\ Refused(c) /\ UNCHANGED <<uniqId, rid, transVars>>
  BY <1>1, <1>a DEF Refused, transVars, Served
<1>2. CASE ~Free /\ ~thrown /\ (Queued(c) \/ (Refused(c) /\ IdTaken(c))) /\ UNCHANGED transVars
  BY <1>2, <1>a DEF Refused, Queued, transVars, Served, Free
<1>3. CASE Free /\ ~thrown /\ SendRequest(c, "notsend") /\ (Queued(c) \/ (Refused(c) /\ IdTaken(c)))
  <2>1. UNCHANGED transVars /\ ~Sendable
    BY <1>3 DEF SendRequest
  <2>2. conn # "connected" \/ sendBuf # NoCall
    BY <2>1 DEF Sendable
  <2> QED BY <2>1, <2>2, <1>3 DEF Served, transVars
<1>4. CASE Free /\ ~thrown /\ (Sent(c) \/ Refused(c))
  BY <1>4 DEF Free, Sent, Refused, Served
<1>5. CASE SendRequest(c, "error") \/ SendRequest(c, "throw")
  BY <1>5 DEF SendRequest, Close, Served
<1> QED BY <1>0, <1>1, <1>2, <1>3, <1>4, <1>5, InvokeCases

-----------------------------------------------------------------------------
(* Steps that send a message to the adapter. *)

\* What the invariant says of a message in a queue.
LEMMA HeldFacts ==
  ASSUME RpcInv, NEW c \in Calls, Held(c)
  PROVE  status[c] = "req" /\ ~Finished(c)
BY DEF RpcInv, Messages, Places

\* handleNotify routes the first message of a ring.
LEMMA NotifyRouteInv ==
  ASSUME RpcInv, NEW t \in Threads, NotifyRoute(t), Fixed
  PROVE  RpcInv'
<1> DEFINE c == Head(ring[t])
<1>0. /\ TypeOK /\ CallerType /\ ObjType /\ QueueType /\ TransType /\ DoneType /\ RestType
      /\ Messages /\ QueueConsistent /\ SerialBusy /\ SendListServed /\ UNCHANGED setting
  BY TypeParts DEF RpcInv, Fixed
<1>1. ring[t] \in Seq(Calls) /\ ring[t] # <<>> /\ Distinct(ring[t]) /\ objQ \in Seq(Calls) /\ Distinct(objQ)
  BY <1>0 DEF NotifyRoute, CallerType, ObjType, Messages, Places
<1>2. /\ c \in Calls /\ c \in Elements(ring[t]) /\ Tail(ring[t]) \in Seq(Calls)
      /\ Distinct(Tail(ring[t])) /\ Elements(Tail(ring[t])) = Elements(ring[t]) \ {c}
  BY <1>1, TailElements
<1>3. Held(c) /\ status[c] = "req" /\ ~Finished(c)
  BY <1>2, HeldFacts DEF Held
<1>4. c \notin Elements(objQ) /\ c \notin data /\ \A u \in Threads : u # t => c \notin Elements(ring[u])
  BY <1>0, <1>2 DEF Messages, Places
<1>5. /\ ring' = [ring EXCEPT ![t] = Tail(@)] /\ UNCHANGED <<tpc, cur, reg, netpc, answer>>
      /\ netpc = "idle"
  BY DEF NotifyRoute
<1>6. \A u \in Threads : Distinct(ring'[u]) /\ Elements(ring'[u]) = Elements(ring[u]) \ {c}
  <2> SUFFICES ASSUME NEW u \in Threads PROVE Distinct(ring'[u]) /\ Elements(ring'[u]) = Elements(ring[u]) \ {c}
    OBVIOUS
  <2>1. CASE u = t
    BY <2>1, <1>0, <1>2, <1>5 DEF CallerType
  <2>2. CASE u # t
    BY <2>2, <1>0, <1>4, <1>5 DEF CallerType, Messages, Places
  <2> QED BY <2>1, <2>2
<1>7. ring' \in [Threads -> Seq(Calls)] /\ RestType'
  BY <1>0, <1>2, <1>5 DEF CallerType, RestType
<1>8. Served
  BY <1>0, <1>5 DEF Served, SendListServed
<1> SUFFICES /\ armed' \in [Threads -> BOOLEAN] /\ ObjType' /\ QueueType' /\ TransType' /\ DoneType'
             /\ \E to \in {"object", "adapter", "end", "lost"} :
                   /\ Distinct(objQ')
                   /\ Elements(objQ') = IF to = "object" THEN Elements(objQ) \cup {c} ELSE Elements(objQ) \ {c}
                   /\ data' = IF to = "adapter" THEN data \cup {c} ELSE data \ {c}
                   /\ IF to = "end" THEN Ends(c) ELSE GoesOn(c)
                   /\ to = "lost" => SendThrows
             /\ QueueConsistent' /\ SerialBusy' /\ Served'
  <2>1. CallerType'
    BY <1>0, <1>5, <1>7 DEF CallerType
  <2>2. TypeOK'
    BY <1>7, <2>1, TypePartsNext
  <2>3. \E to \in {"object", "adapter", "end", "lost"} : Move(c, to)
    BY <1>0, <1>5, <1>6 DEF Move
  <2>4. Messages'
    BY <1>0, <1>2, <1>3, <2>2, <2>3, MoveKeeps
  <2> HIDE DEF c
  <2>5. SendListServed'
    BY DEF Served, SendListServed
  <2> QED BY <2>2, <2>4, <2>5 DEF RpcInv
<1> HIDE DEF c
<1>a. Serial' = Serial /\ Kind' = Kind /\ armed \in [Threads -> BOOLEAN]
  BY <1>0 DEF Serial, Kind, CallerType
<1>b. ASSUME UNCHANGED queueVars, UNCHANGED transVars \/ Dial, TransType'
      PROVE  QueueType' /\ QueueConsistent' /\ SerialBusy' /\ Served'
  <2>1. UNCHANGED <<data, send, requestMsg, uniqId, rid>>
    BY <1>b DEF queueVars
  <2>2. UNCHANGED <<sendBuf, wire>> /\ (conn' = conn \/ conn' = "connecting")
    BY <1>b DEF transVars, Dial
  <2>3. QueueType' /\ QueueConsistent'
    BY <2>1, <1>0 DEF QueueType, QueueConsistent
  <2>4. SerialBusy' /\ Served'
    BY <2>1, <2>2, <1>0, <1>8, <1>a DEF SerialBusy, SerialInFlight, Served
  <2> QED BY <2>3, <2>4
<1>c. ASSUME Park(c)
      PROVE  /\ objQ' \in Seq(Calls) /\ Distinct(objQ') /\ Elements(objQ') = Elements(objQ) \cup {c}
             /\ data' = data \ {c} /\ GoesOn(c) /\ DoneType' /\ UNCHANGED queueVars
  <2>1. objQ' = Append(objQ, c) /\ UNCHANGED <<queueVars, status, doneVars>>
    BY <1>c DEF Park
  <2>2. objQ' \in Seq(Calls) /\ Distinct(objQ') /\ Elements(objQ') = Elements(objQ) \cup {c}
    BY <2>1, <1>1, <1>2, <1>4, AppendElements
  <2>3. GoesOn(c)
    BY <2>1, <1>0, <1>3 DEF GoesOn, DoneType
  <2>4. data' = data \ {c}
    BY <2>1, <1>4 DEF queueVars
  <2>5. DoneType'
    BY <2>3, <1>0, <1>2, DoneTyped
  <2> QED BY <2>1, <2>2, <2>3, <2>4, <2>5
<1>9. CASE reg = "unknown" /\ Park(c) /\ UNCHANGED <<armed, adapter, transVars>>
  <2>1. TransType'
    BY <1>0, <1>2, <1>9, TransTyped
  <2>2. ObjType'
    BY <1>0, <1>5, <1>9, <1>c DEF ObjType
  <2> QED BY <1>9, <1>a, <1>b, <1>c, <2>1, <2>2
<1>10. CASE reg = "none" /\ DoInvokeException(c) /\ UNCHANGED <<armed, objQ, adapter, queueVars, transVars>>
  <2>1. Ends(c)
    BY <1>0, <1>2, <1>3, <1>10, ExceptionEnds
  <2>2. DoneType' /\ TransType'
    BY <1>0, <1>2, <1>10, <2>1, DoneTyped, TransTyped
  <2>3. ObjType' /\ Distinct(objQ') /\ Elements(objQ') = Elements(objQ) \ {c}
    BY <1>0, <1>1, <1>4, <1>5, <1>10 DEF ObjType
  <2>4. data' = data \ {c}
    BY <1>4, <1>10 DEF queueVars
  <2> QED BY <1>10, <1>a, <1>b, <2>1, <2>2, <2>3, <2>4
<1>11. CASE adapter' = adapter \cup {c} /\ ~HasConnected /\ Dial /\ Park(c) /\ UNCHANGED armed
  <2>1. TransType'
    BY <1>0, <1>2, <1>11, TransTyped
  <2>2. ObjType'
    BY <1>0, <1>2, <1>5, <1>11, <1>c DEF ObjType
  <2> QED BY <1>11, <1>a, <1>b, <1>c, <2>1, <2>2
<1>12. ASSUME adapter' = adapter \cup {c}, UNCHANGED objQ, NEW thrown \in BOOLEAN,
              AdapterInvoke(c, thrown), armed' = [armed EXCEPT ![t] = ~thrown]
       PROVE  /\ armed' \in [Threads -> BOOLEAN] /\ ObjType' /\ QueueType' /\ TransType' /\ DoneType'
              /\ \E to \in {"object", "adapter", "end", "lost"} :
                    /\ Distinct(objQ')
                    /\ Elements(objQ') = IF to = "object" THEN Elements(objQ) \cup {c} ELSE Elements(objQ) \ {c}
                    /\ data' = IF to = "adapter" THEN data \cup {c} ELSE data \ {c}
                    /\ IF to = "end" THEN Ends(c) ELSE GoesOn(c)
                    /\ to = "lost" => SendThrows
              /\ QueueConsistent' /\ SerialBusy' /\ Served'
  <2>1. /\ QueueType' /\ TransType' /\ DoneType'
        /\ \E to \in {"adapter", "end", "lost"} :
               /\ data' = IF to = "adapter" THEN data \cup {c} ELSE data \ {c}
               /\ IF to = "end" THEN Ends(c) ELSE GoesOn(c)
               /\ to = "lost" => SendThrows
    BY <1>0, <1>2, <1>3, <1>4, <1>12, InvokeMoves
  <2>2. QueueConsistent' /\ SerialBusy'
    BY <1>0, <1>2, <1>3, <1>4, <1>12, InvokeQueues
  <2>3. Served'
    BY <1>0, <1>2, <1>3, <1>4, <1>8, <1>12, InvokeServed
  <2>4. ObjType' /\ Distinct(objQ') /\ Elements(objQ') = Elements(objQ) \ {c}
    BY <1>0, <1>1, <1>2, <1>4, <1>5, <1>12 DEF ObjType
  <2>5. armed' \in [Threads -> BOOLEAN]
    BY <1>12, <1>a
  <2> QED BY <2>1, <2>2, <2>3, <2>4, <2>5
<1> QED BY <1>9, <1>10, <1>11, <1>12 DEF NotifyRoute, c

\* A step in which nothing but invoke of c changes the queues of the adapter.
LEMMA InvokeStepInv ==
  ASSUME RpcInv, NEW c \in Calls, c \notin data, ~Finished(c),
         status[c] = "req" \/ Kind[c] = "ping",
         NEW thrown \in BOOLEAN, AdapterInvoke(c, thrown), UNCHANGED <<setting, tpc, cur>>,
         CallerType', ObjType', RestType',
         \A t \in Threads : Distinct(ring'[t]) /\ Elements(ring'[t]) = Elements(ring[t]) \ {c},
         Distinct(objQ'), Elements(objQ') = Elements(objQ) \ {c},
         netpc' = "idle" => netpc = "idle" \/ thrown
  PROVE  RpcInv'
<1>0. TypeOK /\ Messages /\ QueueConsistent /\ SerialBusy /\ SendListServed
  BY DEF RpcInv
<1>1. Kind[c] = "oneway" => status[c] # "new"
  OBVIOUS
<1>2. /\ QueueType' /\ TransType' /\ DoneType'
      /\ \E to \in {"adapter", "end", "lost"} :
             /\ data' = IF to = "adapter" THEN data \cup {c} ELSE data \ {c}
             /\ IF to = "end" THEN Ends(c) ELSE GoesOn(c)
             /\ to = "lost" => SendThrows
  BY <1>0, <1>1, InvokeMoves
<1>3. QueueConsistent' /\ SerialBusy'
  BY <1>0, <1>1, InvokeQueues
<1>4. TypeOK'
  BY <1>2, TypePartsNext
<1>5. \E to \in {"adapter", "end", "lost"} : Move(c, to)
  BY <1>2 DEF Move
<1>6. Messages'
  BY <1>0, <1>4, <1>5, MoveKeeps
<1>7. SendListServed'
  <2>1. (thrown => conn' # "connected") /\ (Served => Served')
    BY <1>0, <1>1, InvokeServed
  <2>2. netpc = "idle" => Served
    BY <1>0 DEF SendListServed, Served
  <2> QED BY <2>1, <2>2 DEF SendListServed, Served
<1> QED BY <1>3, <1>4, <1>6, <1>7 DEF RpcInv

\* prepareConnection hands the first parked message to the adapter.
LEMMA PrepareStepInv ==
  ASSUME RpcInv, PrepareStep, Fixed
  PROVE  RpcInv'
<1> DEFINE c == Head(objQ)
<1>0. /\ TypeOK /\ CallerType /\ ObjType /\ RestType /\ Messages /\ UNCHANGED setting
  BY TypeParts DEF RpcInv, Fixed
<1>1. /\ objQ \in Seq(Calls) /\ objQ # <<>> /\ Distinct(objQ) /\ objQ' = Tail(objQ)
      /\ adapter' = adapter \cup {c} /\ UNCHANGED <<callerVars, reg, answer>>
  BY <1>0 DEF PrepareStep, ObjType, Messages, Places
<1>2. /\ c \in Calls /\ c \in Elements(objQ) /\ objQ' \in Seq(Calls)
      /\ Distinct(objQ') /\ Elements(objQ') = Elements(objQ) \ {c}
  BY <1>1, TailElements
<1>3. status[c] = "req" /\ ~Finished(c)
  BY <1>2, HeldFacts DEF Held
<1>4. c \notin data /\ \A u \in Threads : c \notin Elements(ring[u])
  BY <1>0, <1>2 DEF Messages, Places
<1>5. PICK thrown \in BOOLEAN : AdapterInvoke(c, thrown) /\ netpc' = IF thrown THEN "idle" ELSE netpc
  BY DEF PrepareStep
<1>6. CallerType' /\ ObjType' /\ RestType' /\ UNCHANGED <<tpc, cur>>
  BY <1>0, <1>1, <1>2, <1>5 DEF CallerType, ObjType, RestType, callerVars
<1>7. \A t \in Threads : Distinct(ring'[t]) /\ Elements(ring'[t]) = Elements(ring[t]) \ {c}
  BY <1>0, <1>1, <1>4 DEF callerVars, Messages, Places
<1>8. netpc' = "idle" => netpc = "idle" \/ thrown
  BY <1>5
<1> HIDE DEF c
<1> QED BY <1>0, <1>2, <1>3, <1>4, <1>5, <1>6, <1>7, <1>8, InvokeStepInv

\* A message that is not under way is in no queue.
LEMMA NewNotHeld ==
  ASSUME Messages, NEW c \in Calls, status[c] # "req"
  PROVE  /\ c \notin data /\ c \notin Elements(objQ)
         /\ \A t \in Threads : c \notin Elements(ring[t])
BY DEF Messages, Places, Held

\* When no message moves and the adapter's queues stay as they are, only the
\* connection is left to look at.
LEMMA StillInv ==
  ASSUME RpcInv, Still, UNCHANGED queueVars, TypeOK', Serial => SerialInFlight',
         Serial /\ sendBuf' # NoCall => wire' = {}, SendListServed'
  PROVE  RpcInv'
<1>1. Messages'
  BY StillKeeps DEF RpcInv
<1>2. Serial' = Serial /\ UNCHANGED <<data, send, requestMsg, uniqId, rid>>
  BY DEF Still, Serial, queueVars
<1>3. QueueConsistent' /\ SerialBusy'
  BY <1>2 DEF RpcInv, QueueConsistent, SerialBusy, SerialInFlight
<1> QED BY <1>1, <1>3 DEF RpcInv

\* doKeepAlive pings over an open connection or opens one.
LEMMA KeepAliveInv ==
  ASSUME RpcInv, NEW c \in Calls, KeepAlive(c), Fixed
  PROVE  RpcInv'
<1>0. /\ TypeOK /\ CallerType /\ ObjType /\ QueueType /\ TransType /\ DoneType /\ RestType
      /\ Messages /\ SerialBusy /\ SendListServed /\ UNCHANGED setting
  BY TypeParts DEF RpcInv, Fixed
<1>1. netpc = "idle" /\ Kind[c] = "ping" /\ status[c] = "new" /\ UNCHANGED <<callerVars, objVars, netpc, answer>>
  BY DEF KeepAlive
<1>2. CallerType' /\ ObjType' /\ RestType' /\ UNCHANGED <<tpc, cur, ring, objQ>>
  BY <1>0, <1>1 DEF CallerType, ObjType, RestType, callerVars, objVars
<1>3. CASE ~HasConnected /\ Dial /\ UNCHANGED <<queueVars, status, doneVars>>
  <2>1. QueueType' /\ DoneType' /\ TransType'
    BY <1>0, <1>3, TransTyped DEF QueueType, DoneType, queueVars, doneVars
  <2>2. UNCHANGED <<sendBuf, wire>> /\ (conn' = conn \/ conn' = "connecting")
    BY <1>3 DEF Dial, transVars
  <2>3. Still /\ Serial' = Serial
    BY <1>0, <1>2, <1>3 DEF Still, queueVars, Serial
  <2>4. SendListServed'
    BY <1>0, <1>1, <1>3, <2>2, <2>3 DEF SendListServed, queueVars
  <2>5. /\ Serial => SerialInFlight'
        /\ Serial /\ sendBuf' # NoCall => wire' = {}
    BY <1>0, <1>3, <2>2 DEF SerialBusy, SerialInFlight, queueVars
  <2>6. TypeOK'
    BY <1>2, <2>1, TypePartsNext
  <2> QED BY <1>3, <2>3, <2>4, <2>5, <2>6, StillInv
<1>4. CASE \E thrown \in BOOLEAN : AdapterInvoke(c, thrown)
  <2>1. PICK thrown \in BOOLEAN : AdapterInvoke(c, thrown)
    BY <1>4
  <2>2. c \notin data /\ c \notin Elements(objQ) /\ \A t \in Threads : c \notin Elements(ring[t])
    BY <1>0, <1>1, NewNotHeld
  <2>3. ~Finished(c)
    BY <1>0, <1>1 DEF Messages, Ended
  <2>4. /\ \A t \in Threads : Distinct(ring'[t]) /\ Elements(ring'[t]) = Elements(ring[t]) \ {c}
        /\ Distinct(objQ') /\ Elements(objQ') = Elements(objQ) \ {c}
    BY <1>0, <1>2, <2>2 DEF Messages, Places
  <2> QED BY <1>0, <1>1, <1>2, <2>1, <2>2, <2>3, <2>4, InvokeStepInv
<1> QED BY <1>3, <1>4 DEF KeepAlive

-----------------------------------------------------------------------------
(* Steps that take a message out of the adapter's queues. *)

\* A message that leaves the adapter's queues and ends, with whatever the step does to
\* the connection.
LEMMA LeaveInv ==
  ASSUME RpcInv, NEW d \in data, Ends(d), UNCHANGED <<setting, callerVars, objVars, uniqId, rid>>,
         data' = data \ {d}, send' \in Seq(Calls), Distinct(send'), Elements(send') = Elements(send) \ {d},
         requestMsg' \in {requestMsg, NoCall}, requestMsg' # d,
         TransType', RestType', SerialBusy', SendListServed'
  PROVE  RpcInv'
<1>0. /\ TypeOK /\ CallerType /\ ObjType /\ QueueType /\ DoneType /\ Messages /\ QueueConsistent /\ d \in Calls
  BY TypeParts DEF RpcInv, QueueType
<1>1. CallerType' /\ ObjType' /\ QueueType'
  BY <1>0 DEF CallerType, ObjType, QueueType, callerVars, objVars
<1>2. DoneType'
  BY <1>0, DoneTyped
<1>3. TypeOK'
  BY <1>1, <1>2, TypePartsNext
<1>4. Move(d, "end")
  <2>1. d \notin Elements(objQ) /\ \A t \in Threads : d \notin Elements(ring[t])
    BY <1>0 DEF Messages, Places
  <2> QED BY <1>0, <2>1 DEF Move, Messages, Places, callerVars, objVars
<1>5. ~Finished(d)
  BY <1>0, HeldFacts DEF Held
<1>6. Messages'
  BY <1>0, <1>3, <1>4, <1>5, MoveKeeps
<1>7. QueueConsistent'
  BY <1>0 DEF QueueConsistent
<1> QED BY <1>3, <1>6, <1>7 DEF RpcInv

\* AdapterProxy::doTimeout.
LEMMA TimeoutAdapterInv ==
  ASSUME RpcInv, NEW c \in Calls, TimeoutAdapter(c), Fixed
  PROVE  RpcInv'
<1>0. /\ TypeOK /\ QueueType /\ TransType /\ DoneType /\ RestType /\ UNCHANGED setting
      /\ QueueConsistent /\ SerialBusy /\ SendListServed /\ c # NoCall
  BY TypeParts, ConstantsAssumption DEF RpcInv, Fixed
<1>1. /\ netpc = "idle" /\ c \in data /\ data' = data \ {c} /\ send' = Without(send, c)
      /\ requestMsg' = (IF c = requestMsg THEN NoCall ELSE requestMsg)
      /\ IF c = requestMsg THEN Close ELSE FailMayClose
      /\ FinishInvoke(c, "time") /\ UNCHANGED <<callerVars, objVars, uniqId, rid, netpc, answer>>
  BY DEF TimeoutAdapter
<1>2. send \in Seq(Calls) /\ Distinct(send)
  BY <1>0 DEF QueueType, QueueConsistent
<1>3. send' \in Seq(Calls) /\ Distinct(send') /\ Elements(send') = Elements(send) \ {c}
  BY <1>1, <1>2, WithoutElements
<1>4. Ends(c)
  BY <1>0, <1>1, FinishEnds DEF Statuses
<1>5. TransType' /\ RestType'
  BY <1>0, <1>1, TransTyped DEF RestType
<1>6. Serial' = Serial
  BY <1>0 DEF Serial
<1>7. \/ conn' = "unconnected" /\ sendBuf' = NoCall /\ wire' = {}
      \/ c # requestMsg /\ UNCHANGED <<conn, sendBuf, wire>>
  BY <1>1 DEF Close, FailMayClose, transVars
<1>8. SerialBusy'
  BY <1>0, <1>1, <1>6, <1>7 DEF SerialBusy, SerialInFlight
<1>9. send' # <<>> => send # <<>>
  <2>1. ASSUME send = <<>> PROVE send' = <<>>
    <3>1. c \notin Elements(send)
      BY <2>1 DEF Elements
    <3> QED BY <3>1, <2>1, <1>1, <1>2, WithoutElements
  <2> QED BY <2>1
<1>10. SendListServed'
  BY <1>0, <1>1, <1>6, <1>7, <1>9 DEF SendListServed
<1> QED BY <1>0, <1>1, <1>3, <1>4, <1>5, <1>8, <1>10, LeaveInv

\* A response arrives.
LEMMA ReceiveInv ==
  ASSUME RpcInv, NEW c \in Calls, Receive(c), Fixed
  PROVE  RpcInv'
<1>0. /\ TypeOK /\ CallerType /\ ObjType /\ QueueType /\ TransType /\ DoneType /\ RestType /\ UNCHANGED setting
      /\ QueueConsistent /\ SerialBusy /\ SendListServed /\ NoCall \notin Calls
  BY TypeParts, ConstantsAssumption DEF RpcInv, Fixed
<1>1. /\ netpc = "idle" /\ c \in wire /\ UNCHANGED <<callerVars, objVars>>
      /\ netpc' = IF Serial THEN "complete" ELSE "idle"
  BY DEF Receive
<1>2. Serial' = Serial
  BY <1>0 DEF Serial
<1>3. CASE /\ Match(c) = {} /\ wire' = wire \ {c}
           /\ UNCHANGED <<queueVars, conn, dials, sendBuf, cut, status, answer, doneVars>>
  <2>1. CallerType' /\ ObjType' /\ QueueType' /\ TransType' /\ DoneType' /\ RestType'
    BY <1>0, <1>1, <1>3 DEF CallerType, ObjType, QueueType, TransType, DoneType, RestType, callerVars,
                            objVars, queueVars, doneVars
  <2>2. TypeOK'
    BY <2>1, TypePartsNext
  <2>3. Still
    BY <1>0, <1>1, <1>3 DEF Still, callerVars, objVars, queueVars
  <2>4. UNCHANGED <<send, requestMsg>>
    BY <1>3 DEF queueVars
  <2>5. SendListServed'
    BY <1>0, <1>1, <1>2, <1>3, <2>4 DEF SendListServed
  <2>6. /\ Serial => SerialInFlight'
        /\ Serial /\ sendBuf' # NoCall => wire' = {}
    BY <1>0, <1>3, <2>4 DEF SerialBusy, SerialInFlight
  <2> QED BY <1>3, <2>2, <2>3, <2>5, <2>6, StillInv
<1>4. ASSUME NEW d \in Match(c),
             data' = data \ {d}, send' = Without(send, d),
             requestMsg' = IF Serial THEN NoCall ELSE requestMsg,
             answer' = [answer EXCEPT ![d] = c], FinishInvoke(d, "rsp"),
             \/ Close
             \/ wire' = wire \ {c} /\ UNCHANGED <<conn, dials, sendBuf, cut>>,
             UNCHANGED <<uniqId, rid>>
      PROVE  RpcInv'
  <2>1. d \in data /\ (Serial => d = requestMsg) /\ d \in Calls
    BY <1>0, <1>4 DEF Match, MatchSerial, MatchParallel, QueueConsistent, QueueType
  <2>2. send \in Seq(Calls) /\ Distinct(send)
    BY <1>0 DEF QueueType, QueueConsistent
  <2>3. send' \in Seq(Calls) /\ Distinct(send') /\ Elements(send') = Elements(send) \ {d}
    BY <1>4, <2>2, WithoutElements
  <2>4. Ends(d)
    BY <1>0, <1>4, <2>1, FinishEnds DEF Statuses
  <2>5. TransType' /\ RestType'
    BY <1>0, <1>1, <1>4 DEF TransType, Conns, Close, RestType
  <2>6. requestMsg' \in {requestMsg, NoCall} /\ requestMsg' # d
    BY <1>0, <1>4, <2>1 DEF SerialBusy
  <2>7. SerialBusy'
    <3>1. CASE Serial
      <4>1. wire \subseteq {requestMsg} /\ c = requestMsg /\ sendBuf = NoCall
        BY <3>1, <1>0, <1>1 DEF SerialBusy, SerialInFlight
      <4>2. wire' = {} /\ sendBuf' = NoCall
        BY <4>1, <1>4 DEF Close
      <4> QED BY <3>1, <4>2, <1>0, <1>2, <1>4 DEF SerialBusy, SerialInFlight
    <3>2. CASE ~Serial
      BY <3>2, <1>0, <1>2, <1>4 DEF SerialBusy, SerialInFlight
    <3> QED BY <3>1, <3>2
  <2>8. send' # <<>> => send # <<>>
    <3>1. ASSUME send = <<>> PROVE send' = <<>>
      <4>1. d \notin Elements(send)
        BY <3>1 DEF Elements
      <4> QED BY <4>1, <3>1, <1>4, <2>2, WithoutElements
    <3> QED BY <3>1
  <2>9. SendListServed'
    BY <1>0, <1>1, <1>2, <1>4, <2>8 DEF SendListServed, Close
  <2> QED BY <1>0, <1>1, <1>4, <2>1, <2>3, <2>4, <2>5, <2>6, <2>7, <2>9, LeaveInv
<1> QED BY <1>3, <1>4 DEF Receive

-----------------------------------------------------------------------------
(* The loops of doInvoke. *)

\* What the head of the unsent list is.
LEMMA UnsentHead ==
  ASSUME RpcInv, send # <<>>
  PROVE  /\ Head(send) \in data /\ Head(send) \in Calls /\ Head(send) # NoCall
         /\ status[Head(send)] = "req" /\ ~Finished(Head(send)) /\ requestMsg # Head(send)
         /\ Tail(send) \in Seq(Calls) /\ Distinct(Tail(send))
         /\ Elements(Tail(send)) = Elements(send) \ {Head(send)}
<1>1. send \in Seq(Calls) /\ Distinct(send) /\ QueueConsistent
  BY TypeParts DEF RpcInv, QueueType, QueueConsistent
<1>2. /\ Head(send) \in Calls /\ Head(send) \in Elements(send) /\ Tail(send) \in Seq(Calls)
      /\ Distinct(Tail(send)) /\ Elements(Tail(send)) = Elements(send) \ {Head(send)}
  BY <1>1, TailElements
<1>3. Head(send) \in data /\ Head(send) # NoCall /\ requestMsg # Head(send)
  BY <1>1, <1>2, ConstantsAssumption DEF QueueConsistent
<1>4. status[Head(send)] = "req" /\ ~Finished(Head(send))
  BY <1>2, <1>3, HeldFacts DEF Held
<1> QED BY <1>2, <1>3, <1>4

\* One turn of doInvoke_parallel.
LEMMA DrainParallelInv ==
  ASSUME RpcInv, DrainParallel, Fixed
  PROVE  RpcInv'
<1> DEFINE c == Head(send)
<1>0. /\ TypeOK /\ CallerType /\ ObjType /\ QueueType /\ TransType /\ DoneType /\ RestType
      /\ QueueConsistent /\ SerialBusy /\ UNCHANGED setting
  BY TypeParts DEF RpcInv, Fixed
<1>1. /\ ~Serial /\ send # <<>>
      /\ UNCHANGED <<callerVars, objVars, requestMsg, uniqId, rid, status, answer, woken, asyncQ>>
  BY DEF DrainParallel
<1>2. /\ c \in data /\ c \in Calls /\ c # NoCall /\ status[c] = "req" /\ ~Finished(c) /\ requestMsg # c
      /\ Tail(send) \in Seq(Calls) /\ Distinct(Tail(send)) /\ Elements(Tail(send)) = Elements(send) \ {c}
  BY <1>1, UnsentHead
<1>3. PICK ret \in Returns :
         /\ SendRequest(c, ret)
         /\ IF ret \in {"ok", "full"}
            THEN /\ send' = Tail(send)
                 /\ data' = IF Kind[c] = "oneway" THEN data \ {c} ELSE data
                 /\ fate' = IF Kind[c] = "oneway" THEN [fate EXCEPT ![c] = "oneway"] ELSE fate
            ELSE UNCHANGED <<send, data, fate>>
         /\ netpc' = IF ret = "ok" THEN "drain" ELSE "idle"
  BY DEF DrainParallel
<1> HIDE DEF c
<1>4. TransType' /\ RestType' /\ ~Serial'
  BY <1>0, <1>1, <1>2, <1>3, TransTyped DEF RestType, Serial
<1>5. SerialBusy'
  BY <1>0, <1>1, <1>4 DEF SerialBusy, SerialInFlight
<1>6. SendListServed'
  BY <1>2, <1>3, <1>4 DEF SendListServed, SendRequest, Sendable, Close, transVars, Returns
<1>7. CASE ret \in {"ok", "full"} /\ Kind[c] = "oneway"
  <2>1. /\ data' = data \ {c} /\ send' = Tail(send) /\ fate' = [fate EXCEPT ![c] = "oneway"]
        /\ UNCHANGED <<status, woken, asyncQ>>
    BY <1>1, <1>3, <1>7
  <2>2. Ends(c)
    BY <1>0, <1>2, <1>7, <2>1 DEF Ends, DoneType, Fates
  <2> QED BY <1>0, <1>1, <1>2, <1>4, <1>5, <1>6, <2>1, <2>2, LeaveInv
<1>8. CASE ~(ret \in {"ok", "full"} /\ Kind[c] = "oneway")
  <2>1. /\ UNCHANGED <<data, fate>> /\ send' \in {send, Tail(send)}
    BY <1>3, <1>8
  <2>2. CallerType' /\ ObjType' /\ QueueType' /\ DoneType'
    BY <1>0, <1>1, <1>2, <2>1 DEF CallerType, ObjType, QueueType, DoneType, callerVars, objVars
  <2>3. TypeOK'
    BY <1>4, <2>2, TypePartsNext
  <2>4. Still
    BY <1>0, <1>1, <2>1 DEF Still, callerVars, objVars, doneVars
  <2>5. Messages'
    BY <2>4, StillKeeps DEF RpcInv
  <2>6. QueueConsistent'
    BY <1>0, <1>1, <1>2, <2>1 DEF QueueConsistent
  <2> QED BY <2>3, <2>5, <2>6, <1>5, <1>6 DEF RpcInv
<1> QED BY <1>7, <1>8

\* doInvoke_serial.
LEMMA DrainSerialInv ==
  ASSUME RpcInv, DrainSerial, Fixed
  PROVE  RpcInv'
<1> DEFINE c == Head(send)
<1>0. /\ TypeOK /\ CallerType /\ ObjType /\ QueueType /\ TransType /\ DoneType /\ RestType
      /\ QueueConsistent /\ SerialBusy /\ UNCHANGED setting
  BY TypeParts DEF RpcInv, Fixed
<1>1. /\ Serial /\ send # <<>> /\ requestMsg = NoCall /\ netpc' = "idle"
      /\ UNCHANGED <<callerVars, objVars, uniqId, rid, answer>>
  BY DEF DrainSerial
<1>2. /\ c \in data /\ c \in Calls /\ c # NoCall /\ status[c] = "req" /\ ~Finished(c) /\ requestMsg # c
      /\ Tail(send) \in Seq(Calls) /\ Distinct(Tail(send)) /\ Elements(Tail(send)) = Elements(send) \ {c}
  BY <1>1, UnsentHead
<1>3. PICK ret \in Returns :
       /\ SendRequest(c, ret)
       /\ \/ /\ ret \in {"ok", "full"}
             /\ requestMsg' = c /\ send' = Tail(send)
             /\ UNCHANGED <<data, status, doneVars>>
          \/ /\ ret = "error"
             /\ send' = Tail(send) /\ data' = data \ {c}
             /\ FinishInvoke(c, status[c])
             /\ UNCHANGED requestMsg
          \/ ret \in {"notsend", "throw"} /\ UNCHANGED <<data, send, requestMsg, status, doneVars>>
  BY DEF DrainSerial
<1> HIDE DEF c
<1>4. TransType' /\ RestType' /\ Serial'
  BY <1>0, <1>1, <1>2, <1>3, TransTyped DEF RestType, Serial
<1>5. wire = {} /\ sendBuf = NoCall
  BY <1>0, <1>1, ConstantsAssumption DEF SerialBusy, SerialInFlight, TransType
<1>6. CASE /\ ret \in {"ok", "full"} /\ requestMsg' = c /\ send' = Tail(send)
           /\ UNCHANGED <<data, status, doneVars>>
  <2>1. CallerType' /\ ObjType' /\ QueueType' /\ DoneType'
    BY <1>0, <1>1, <1>2, <1>6 DEF CallerType, ObjType, QueueType, DoneType, callerVars, objVars, doneVars
  <2>2. TypeOK'
    BY <1>4, <2>1, TypePartsNext
  <2>3. Still
    BY <1>0, <1>1, <1>6 DEF Still, callerVars, objVars, doneVars
  <2>4. Messages'
    BY <2>3, StillKeeps DEF RpcInv
  <2>5. QueueConsistent'
    BY <1>0, <1>1, <1>2, <1>6 DEF QueueConsistent
  <2>6. (wire' = {c} /\ sendBuf' = NoCall) \/ (wire' = {} /\ sendBuf' = c)
    BY <1>3, <1>5, <1>6 DEF SendRequest
  <2>7. SerialBusy' /\ SendListServed'
    BY <1>0, <1>1, <1>2, <1>4, <1>6, <2>6 DEF SerialBusy, SerialInFlight, SendListServed
  <2> QED BY <2>2, <2>4, <2>5, <2>7 DEF RpcInv
<1>7. CASE /\ ret = "error" /\ send' = Tail(send) /\ data' = data \ {c}
           /\ FinishInvoke(c, status[c]) /\ UNCHANGED requestMsg
  <2>1. Ends(c)
    BY <1>0, <1>2, <1>7, FinishEnds DEF Statuses
  <2>2. conn' = "unconnected" /\ wire' = {} /\ sendBuf' = NoCall
    BY <1>3, <1>7 DEF SendRequest, Close
  <2>3. SerialBusy' /\ SendListServed'
    BY <1>0, <1>1, <1>4, <1>7, <2>2 DEF SerialBusy, SerialInFlight, SendListServed
  <2> QED BY <1>0, <1>1, <1>2, <1>4, <1>7, <2>1, <2>3, LeaveInv
<1>8. CASE ret \in {"notsend", "throw"} /\ UNCHANGED <<data, send, requestMsg, status, doneVars>>
  <2>1. CallerType' /\ ObjType' /\ QueueType' /\ DoneType'
    BY <1>0, <1>1, <1>8 DEF CallerType, ObjType, QueueType, DoneType, callerVars, objVars, doneVars
  <2>2. TypeOK'
    BY <1>4, <2>1, TypePartsNext
  <2>3. Still /\ UNCHANGED queueVars
    BY <1>0, <1>1, <1>8 DEF Still, callerVars, objVars, queueVars
  <2>4. wire' = {} /\ sendBuf' = NoCall /\ conn' # "connected"
    BY <1>3, <1>5, <1>8 DEF SendRequest, Sendable, Close, transVars
  <2>5. SerialInFlight' /\ SendListServed'
    BY <2>4 DEF SerialInFlight, SendListServed
  <2> QED BY <2>2, <2>3, <2>4, <2>5, StillInv
<1> QED BY <1>3, <1>6, <1>7, <1>8

\* ObjectProxy::doTimeout.
LEMMA TimeoutObjectInv ==
  ASSUME RpcInv, NEW c \in Calls, TimeoutObject(c), Fixed
  PROVE  RpcInv'
<1>0. /\ TypeOK /\ CallerType /\ ObjType /\ QueueType /\ TransType /\ DoneType /\ RestType
      /\ Messages /\ QueueConsistent /\ SerialBusy /\ SendListServed /\ UNCHANGED setting
  BY TypeParts DEF RpcInv, Fixed
<1>1. /\ c \in Elements(objQ) /\ objQ' = Without(objQ, c) /\ DoInvokeException(c)
      /\ UNCHANGED <<callerVars, reg, adapter, queueVars, netpc, transVars, answer>>
  BY DEF TimeoutObject
<1>2. objQ' \in Seq(Calls) /\ Distinct(objQ') /\ Elements(objQ') = Elements(objQ) \ {c}
  BY <1>0, <1>1, WithoutElements DEF ObjType, Messages, Places
<1>3. status[c] = "req" /\ ~Finished(c)
  BY <1>1, HeldFacts DEF Held
<1>4. c \notin data /\ \A t \in Threads : c \notin Elements(ring[t])
  BY <1>0, <1>1 DEF Messages, Places
<1>5. Ends(c)
  BY <1>0, <1>1, <1>3, ExceptionEnds
<1>6. CallerType' /\ ObjType' /\ QueueType' /\ TransType' /\ RestType'
  BY <1>0, <1>1, <1>2 DEF CallerType, ObjType, QueueType, TransType, RestType, callerVars, queueVars, transVars
<1>7. TypeOK'
  BY <1>0, <1>5, <1>6, DoneTyped, TypePartsNext
<1>8. Move(c, "end")
  BY <1>0, <1>1, <1>2, <1>4, <1>5 DEF Move, Messages, Places, callerVars, queueVars
<1>9. Messages'
  BY <1>0, <1>3, <1>7, <1>8, MoveKeeps
<1>10. QueueConsistent' /\ SerialBusy' /\ SendListServed'
  BY <1>0, <1>1 DEF QueueConsistent, SerialBusy, SerialInFlight, SendListServed, Serial, queueVars, transVars
<1> QED BY <1>7, <1>9, <1>10 DEF RpcInv

-----------------------------------------------------------------------------
(* Steps in which no message moves. *)

\* The loops end, a notification is consumed, the registry answers, the connection
\* changes.
StillStep ==
    \/ \E t \in Threads : NotifyEnd(t)
    \/ PrepareEnd \/ DrainEnd
    \/ EndpointsKnown \/ EndpointsFail
    \/ Connected \/ HandshakeDone \/ Disconnected \/ Writable \/ ReceivePart
    \/ Quiet

LEMMA StillStepInv ==
  ASSUME RpcInv, StillStep, Fixed
  PROVE  RpcInv'
<1>0. /\ TypeOK /\ CallerType /\ ObjType /\ QueueType /\ TransType /\ DoneType /\ RestType
      /\ SerialBusy /\ SendListServed /\ UNCHANGED setting /\ NoCall \notin Calls
  BY TypeParts, ConstantsAssumption DEF RpcInv, Fixed
<1>1. /\ UNCHANGED <<ring, tpc, cur, objQ, adapter, queueVars, status, answer, doneVars>>
      /\ armed' \in [Threads -> BOOLEAN] /\ reg' \in {"unknown", "none", "known"}
      /\ netpc' \in {"idle", "prepare", "complete", "drain"}
  <2>1. CASE \E t \in Threads : NotifyEnd(t)
    BY <2>1, <1>0 DEF NotifyEnd, objVars, CallerType, ObjType, RestType
  <2>2. CASE PrepareEnd \/ DrainEnd \/ EndpointsKnown \/ EndpointsFail \/ Connected \/ HandshakeDone
    BY <2>2, <1>0 DEF PrepareEnd, DrainEnd, EndpointsKnown, EndpointsFail, Connected, HandshakeDone,
                      callerVars, objVars, CallerType, ObjType, RestType
  <2>3. CASE Disconnected \/ Writable \/ ReceivePart \/ Quiet
    BY <2>3, <1>0 DEF Disconnected, Writable, ReceivePart, Quiet, vars,
                      callerVars, objVars, CallerType, ObjType, RestType
  <2> QED BY <2>1, <2>2, <2>3 DEF StillStep
<1>2. /\ CallerType' /\ ObjType' /\ QueueType' /\ DoneType' /\ RestType' /\ Still
      /\ UNCHANGED <<send, requestMsg>> /\ Serial' = Serial
  BY <1>0, <1>1 DEF CallerType, ObjType, QueueType, DoneType, RestType, Still, Serial, queueVars, doneVars
<1>3. /\ TransType'
      /\ \/ UNCHANGED <<sendBuf, wire>>
         \/ sendBuf' = NoCall /\ wire' = {}
         \/ sendBuf' = NoCall /\ wire' = (IF sendBuf = NoCall THEN wire ELSE wire \cup {sendBuf})
      /\ SendListServed'
  <2>1. CASE (\E t \in Threads : NotifyEnd(t)) \/ DrainEnd \/ EndpointsFail \/ ReceivePart \/ Quiet
    <3>1. UNCHANGED <<conn, dials, sendBuf, wire, cut>>
      BY <2>1 DEF NotifyEnd, DrainEnd, EndpointsFail, ReceivePart, Quiet, vars, transVars
    <3>2. netpc' = "idle" => netpc = "idle" \/ send = <<>> \/ (Serial /\ requestMsg # NoCall)
      BY <2>1 DEF NotifyEnd, DrainEnd, EndpointsFail, ReceivePart, Quiet, vars
    <3> QED BY <3>1, <3>2, <1>0, <1>2 DEF TransType, SendListServed
  <2>2. CASE PrepareEnd
    <3>1. UNCHANGED transVars \/ (Dial /\ ~HasConnected)
      BY <2>2 DEF PrepareEnd
    <3>2. TransType' /\ UNCHANGED <<sendBuf, wire>> /\ (conn' = conn \/ conn' = "connecting")
      BY <1>0, <3>1 DEF Dial, transVars, TransType, Conns
    <3>3. netpc' = "idle" => send = <<>> \/ ~HasConnected
      BY <2>2 DEF PrepareEnd
    <3> QED BY <3>2, <3>3, <1>2 DEF SendListServed, HasConnected
  <2>3. CASE EndpointsKnown
    <3>1. (UNCHANGED transVars \/ Dial) /\ netpc = "idle"
      BY <2>3 DEF EndpointsKnown
    <3>2. TransType' /\ UNCHANGED <<sendBuf, wire>> /\ (conn' = conn \/ conn' = "connecting")
      BY <1>0, <3>1 DEF Dial, transVars, TransType, Conns
    <3> QED BY <3>1, <3>2, <1>0, <1>2 DEF SendListServed
  <2>4. CASE Connected \/ HandshakeDone
    BY <2>4, <1>0 DEF Connected, HandshakeDone, TransType, Conns, SendListServed
  <2>5. CASE Disconnected
    BY <2>5, <1>0 DEF Disconnected, Close, TransType, Conns, SendListServed
  <2>6. CASE Writable
    BY <2>6, <1>0 DEF Writable, TransType, SendListServed
  <2> QED BY <2>1, <2>2, <2>3, <2>4, <2>5, <2>6 DEF StillStep
<1>4. TypeOK'
  BY <1>2, <1>3, TypePartsNext
<1>5. /\ Serial => SerialInFlight'
      /\ Serial /\ sendBuf' # NoCall => wire' = {}
  BY <1>0, <1>2, <1>3 DEF SerialBusy, SerialInFlight
<1> QED BY <1>1, <1>2, <1>3, <1>4, <1>5, StillInv

-----------------------------------------------------------------------------
(* The calling threads and the callback thread. *)

\* A step that leaves the network thread's part of the state alone.
LEMMA OutsideInv ==
  ASSUME RpcInv, CallerType', DoneType', Messages',
         UNCHANGED <<setting, objVars, queueVars, netpc, transVars, answer>>
  PROVE  RpcInv'
<1>1. TypeOK'
  BY TypeParts, TypePartsNext DEF RpcInv, ObjType, QueueType, TransType, RestType, objVars, queueVars, transVars
<1>2. QueueConsistent' /\ SerialBusy' /\ SendListServed'
  BY DEF RpcInv, QueueConsistent, SerialBusy, SerialInFlight, SendListServed, Serial, queueVars, transVars
<1> QED BY <1>1, <1>2 DEF RpcInv

\* ServantProxy::invoke makes a call: its message enters a ring, or a full ring
\* deletes it.
LEMMA InvokePushInv ==
  ASSUME RpcInv, NEW t \in Threads, NEW c \in Calls, InvokePush(t, c), Fixed
  PROVE  RpcInv'
<1>0. CallerType /\ DoneType /\ Messages /\ Places /\ Ended /\ Callers /\ Kept
      /\ Kind' = Kind /\ SendThrows' = SendThrows
  BY TypeParts DEF RpcInv, Messages, Fixed, Kind, SendThrows, SendFaults
<1>1. /\ tpc[t] = "idle" /\ status[c] = "new" /\ status' = [status EXCEPT ![c] = "req"]
      /\ UNCHANGED <<armed, objVars, queueVars, netpc, transVars, answer, woken, asyncQ, objQ, data>>
  BY DEF InvokePush, objVars, queueVars
<1>2. c \notin data /\ c \notin Elements(objQ) /\ \A u \in Threads : c \notin Elements(ring[u])
  BY <1>0, <1>1, NewNotHeld
<1>3. ~Finished(c) /\ \A u \in Threads : tpc[u] # "idle" => cur[u] # c
  BY <1>0, <1>1 DEF Ended, Callers
<1>4. \A d \in Calls : d # c => status'[d] = status[d]
  BY <1>0, <1>1 DEF DoneType
<1>5. status'[c] = "req" /\ status' \in [Calls -> Statuses]
  BY <1>0, <1>1 DEF DoneType, Statuses
<1>6. CASE /\ ring' = [ring EXCEPT ![t] = Append(@, c)] /\ tpc' = [tpc EXCEPT ![t] = "pushed"]
           /\ cur' = [cur EXCEPT ![t] = c] /\ UNCHANGED fate
  <2>1. /\ Append(ring[t], c) \in Seq(Calls) /\ Elements(Append(ring[t], c)) = Elements(ring[t]) \cup {c}
        /\ Distinct(Append(ring[t], c))
    BY <1>0, <1>2, AppendElements DEF CallerType, Places
  <2>2. CallerType' /\ DoneType'
    BY <1>0, <1>1, <1>5, <1>6, <2>1 DEF CallerType, DoneType
  <2>3. ring'[t] = Append(ring[t], c) /\ \A u \in Threads : u # t => ring'[u] = ring[u]
    BY <1>0, <1>6 DEF CallerType
  <2>4. /\ tpc'[t] = "pushed" /\ cur'[t] = c
        /\ \A u \in Threads : u # t => tpc'[u] = tpc[u] /\ cur'[u] = cur[u]
    BY <1>0, <1>6 DEF CallerType
  <2>5. \A d \in Calls : Finished(d)' <=> Finished(d)
    BY <1>1, <1>6 DEF Finished
  <2>6. Places'
    <3>1. \A d \in Calls : d # c => (Held(d)' => Held(d))
      BY <1>1, <2>1, <2>3 DEF Held
    <3>2. \A d \in Calls : Held(d)' => status'[d] = "req" /\ ~Finished(d)'
      BY <3>1, <2>5, <1>0, <1>3, <1>4, <1>5 DEF Places
    <3>3. /\ \A u \in Threads : Distinct(ring'[u])
          /\ \A u, v \in Threads : \A d \in Elements(ring'[u]) : d \in Elements(ring'[v]) => u = v
      BY <1>0, <1>2, <2>1, <2>3 DEF Places
    <3>4. \A u \in Threads : \A d \in Elements(ring'[u]) : d \notin Elements(objQ') /\ d \notin data'
      BY <1>0, <1>1, <1>2, <2>1, <2>3 DEF Places
    <3> QED BY <3>2, <3>3, <3>4, <1>0, <1>1 DEF Places
  <2>7. Ended'
    BY <1>0, <1>1, <1>4, <1>5, <1>6, <2>5 DEF Ended
  <2>8. Callers'
    <3>1. fate'[c] = "live"
      BY <1>3, <1>6 DEF Finished
    <3>2. ASSUME NEW u \in Threads, u # t, tpc[u] # "idle"
          PROVE  /\ cur[u] \in Calls /\ status'[cur[u]] # "new"
                 /\ Kind[cur[u]] = "sync" => fate'[cur[u]] = "live"
                 /\ tpc[u] = "waiting" => Kind[cur[u]] = "sync"
      BY <3>2, <1>0, <1>3, <1>4, <1>6 DEF Callers
    <3> QED BY <3>1, <3>2, <1>0, <1>3, <1>5, <2>4 DEF Callers
  <2>9. Kept'
    <3>1. (\A d \in Calls : Held(d) => Held(d)') /\ Held(c)'
      BY <1>1, <2>1, <2>3 DEF Held
    <3> QED BY <3>1, <2>5, <1>0, <1>4 DEF Kept
  <2> QED BY <1>1, <2>2, <2>6, <2>7, <2>8, <2>9, OutsideInv DEF Messages, Fixed
<1>7. CASE Delete(c, "refused") /\ UNCHANGED <<ring, tpc, cur>>
  <2>1. /\ fate' = [fate EXCEPT ![c] = "refused"] /\ fate'[c] = "refused"
        /\ fate' \in [Calls -> Fates] /\ \A d \in Calls : d # c => fate'[d] = fate[d]
    BY <1>0, <1>7 DEF Delete, DoneType, Fates
  <2>2. CallerType' /\ DoneType'
    BY <1>0, <1>1, <1>5, <1>7, <2>1 DEF CallerType, DoneType
  <2>3. \A d \in Calls : d # c => (Finished(d)' <=> Finished(d))
    BY <1>1, <2>1 DEF Finished
  <2>4. \A d \in Calls : Held(d)' => Held(d) /\ d # c
    BY <1>1, <1>2, <1>7 DEF Held
  <2>5. Places'
    BY <1>0, <1>1, <1>4, <1>7, <2>3, <2>4 DEF Places
  <2>6. c \notin Elements(asyncQ) /\ c \notin woken
    BY <1>3 DEF Finished
  <2>7. Ended'
    BY <1>0, <1>1, <1>4, <1>5, <2>1, <2>3, <2>6 DEF Ended
  <2>8. Callers'
    BY <1>0, <1>3, <1>4, <1>7, <2>1 DEF Callers
  <2>9. Kept'
    <3>1. (\A d \in Calls : Held(d) => Held(d)') /\ Finished(c)'
      BY <1>1, <1>7, <2>1 DEF Held, Finished
    <3> QED BY <3>1, <2>3, <1>0, <1>4 DEF Kept
  <2> QED BY <1>1, <2>2, <2>5, <2>7, <2>8, <2>9, OutsideInv DEF Messages, Fixed
<1> QED BY <1>6, <1>7 DEF InvokePush

\* The caller signals the network thread, and goes away or waits.
LEMMA InvokeNotifyInv ==
  ASSUME RpcInv, NEW t \in Threads, InvokeNotify(t), Fixed
  PROVE  RpcInv'
<1>0. CallerType /\ DoneType /\ Messages /\ Places /\ Ended /\ Callers /\ Kept
      /\ Kind' = Kind /\ SendThrows' = SendThrows
  BY TypeParts DEF RpcInv, Messages, Fixed, Kind, SendThrows, SendFaults
<1>1. /\ tpc[t] = "pushed" /\ armed' = [armed EXCEPT ![t] = TRUE]
      /\ \/ Kind[cur[t]] = "sync" /\ tpc' = [tpc EXCEPT ![t] = "waiting"] /\ UNCHANGED cur
         \/ tpc' = [tpc EXCEPT ![t] = "idle"] /\ cur' = [cur EXCEPT ![t] = NoCall]
      /\ UNCHANGED <<ring, objVars, queueVars, netpc, transVars, status, answer, doneVars>>
  BY DEF InvokeNotify
<1>2. CallerType' /\ DoneType'
  BY <1>0, <1>1 DEF CallerType, DoneType, doneVars
<1>3. Places' /\ Ended' /\ Kept'
  BY <1>0, <1>1 DEF Places, Ended, Kept, Held, Finished, objVars, queueVars, doneVars
<1>4. Callers'
  <2>1. \A u \in Threads : u # t => tpc'[u] = tpc[u] /\ cur'[u] = cur[u]
    BY <1>0, <1>1 DEF CallerType
  <2>2. tpc'[t] = "idle" \/ (tpc'[t] = "waiting" /\ Kind[cur[t]] = "sync" /\ cur'[t] = cur[t])
    BY <1>0, <1>1 DEF CallerType
  <2> QED BY <2>1, <2>2, <1>0, <1>1 DEF Callers, doneVars
<1> QED BY <1>1, <1>2, <1>3, <1>4, OutsideInv DEF Messages, Fixed

\* A woken caller returns and deletes its message.
LEMMA InvokeReturnInv ==
  ASSUME RpcInv, NEW t \in Threads, InvokeReturn(t), Fixed
  PROVE  RpcInv'
<1> DEFINE c == cur[t]
<1>0. CallerType /\ DoneType /\ Messages /\ Places /\ Ended /\ Callers /\ Kept
      /\ Kind' = Kind /\ SendThrows' = SendThrows
  BY TypeParts DEF RpcInv, Messages, Fixed, Kind, SendThrows, SendFaults
<1>1. /\ tpc[t] = "waiting" /\ c \in woken /\ tpc' = [tpc EXCEPT ![t] = "idle"]
      /\ cur' = [cur EXCEPT ![t] = NoCall] /\ fate' = [fate EXCEPT ![c] = "returned"]
      /\ UNCHANGED <<ring, armed, objVars, queueVars, netpc, transVars, status, answer, woken, asyncQ>>
  BY DEF InvokeReturn, Delete
<1>2. c \in Calls /\ Kind[c] = "sync" /\ Finished(c)
  BY <1>0, <1>1 DEF DoneType, Ended, Finished
<1>3. fate'[c] = "returned" /\ fate' \in [Calls -> Fates] /\ \A d \in Calls : d # c => fate'[d] = fate[d]
  BY <1>0, <1>1, <1>2 DEF DoneType, Fates
<1>4. CallerType' /\ DoneType'
  BY <1>0, <1>1, <1>3 DEF CallerType, DoneType
<1>5. \A d \in Calls : Finished(d)' <=> Finished(d)
  BY <1>1, <1>2, <1>3 DEF Finished
<1>6. UNCHANGED <<objQ, data>>
  BY <1>1 DEF objVars, queueVars
<1>7. Places' /\ Kept'
  BY <1>0, <1>1, <1>5, <1>6 DEF Places, Kept, Held
<1>8. Ended'
  BY <1>0, <1>1, <1>2, <1>3, <1>5 DEF Ended
<1>9. Callers'
  <2>1. tpc'[t] = "idle" /\ \A u \in Threads : u # t => tpc'[u] = tpc[u] /\ cur'[u] = cur[u]
    BY <1>0, <1>1 DEF CallerType
  <2>2. \A u \in Threads : u # t /\ tpc[u] # "idle" => cur[u] # c
    BY <1>0, <1>1 DEF Callers
  <2> QED BY <2>1, <2>2, <1>0, <1>1, <1>3 DEF Callers
<1> HIDE DEF c
<1> QED BY <1>1, <1>4, <1>7, <1>8, <1>9, OutsideInv DEF Messages, Fixed

\* The callback thread runs a callback and releases its message.
LEMMA AsyncCallbackInv ==
  ASSUME RpcInv, AsyncCallback, Fixed
  PROVE  RpcInv'
<1> DEFINE c == Head(asyncQ)
<1>0. CallerType /\ DoneType /\ Messages /\ Places /\ Ended /\ Callers /\ Kept
      /\ Kind' = Kind /\ SendThrows' = SendThrows
  BY TypeParts DEF RpcInv, Messages, Fixed, Kind, SendThrows, SendFaults
<1>1. /\ asyncQ # <<>> /\ asyncQ' = Tail(asyncQ) /\ fate' = [fate EXCEPT ![c] = "callback"]
      /\ UNCHANGED <<callerVars, objVars, queueVars, netpc, transVars, status, answer, woken>>
  BY DEF AsyncCallback, Delete
<1>2. /\ c \in Calls /\ c \in Elements(asyncQ) /\ asyncQ' \in Seq(Calls) /\ Distinct(asyncQ')
      /\ Elements(asyncQ') = Elements(asyncQ) \ {c}
  BY <1>0, <1>1, TailElements DEF DoneType, Ended
<1> HIDE DEF c
<1>3. fate'[c] = "callback" /\ fate' \in [Calls -> Fates] /\ \A d \in Calls : d # c => fate'[d] = fate[d]
  BY <1>0, <1>1, <1>2 DEF DoneType, Fates
<1>4. CallerType' /\ DoneType'
  BY <1>0, <1>1, <1>2, <1>3 DEF CallerType, DoneType, callerVars
<1>5. \A d \in Calls : Finished(d)' <=> Finished(d)
  BY <1>1, <1>2, <1>3 DEF Finished
<1>6. UNCHANGED <<ring, tpc, cur, objQ, data>>
  BY <1>1 DEF callerVars, objVars, queueVars
<1>7. Places' /\ Kept'
  BY <1>0, <1>1, <1>5, <1>6 DEF Places, Kept, Held
<1>8. Ended'
  BY <1>0, <1>1, <1>2, <1>3, <1>5 DEF Ended
<1>9. Callers'
  <2>1. Kind[c] # "sync"
    BY <1>0, <1>2 DEF Ended
  <2> QED BY <2>1, <1>0, <1>1, <1>3, <1>6 DEF Callers
<1> QED BY <1>1, <1>4, <1>7, <1>8, <1>9, OutsideInv DEF Messages, Fixed

-----------------------------------------------------------------------------
(* The invariant holds. *)

\* A new client holds no message.
LEMMA RpcInitInv == Init => RpcInv
<1> SUFFICES ASSUME Init PROVE RpcInv
  OBVIOUS
<1>1. TypeOK
  BY TypeParts DEF Init, CallerType, ObjType, QueueType, TransType, DoneType, RestType, Conns, Statuses, Fates
<1>2. Elements(<<>>) = {} /\ Distinct(<<>>)
  BY DEF Elements, Distinct
<1>3. Messages
  BY <1>2 DEF Init, Messages, Places, Ended, Callers, Kept, Held, Finished
<1>4. QueueConsistent /\ SerialBusy /\ SendListServed
  BY <1>2 DEF Init, QueueConsistent, SerialBusy, SerialInFlight, SendListServed
<1> QED BY <1>1, <1>3, <1>4 DEF RpcInv

\* Every step keeps the invariant.
LEMMA RpcStepInv == RpcInv /\ [Next]_vars => RpcInv'
<1> SUFFICES ASSUME RpcInv, [Next]_vars PROVE RpcInv'
  OBVIOUS
<1>1. CASE StillStep /\ Fixed
  BY <1>1, StillStepInv
<1>2. CASE Caller /\ Fixed
  BY <1>2, InvokePushInv, InvokeNotifyInv, InvokeReturnInv DEF Caller
<1>3. CASE NetThread /\ Fixed
  BY <1>3, <1>1, NotifyRouteInv, PrepareStepInv, DrainParallelInv, DrainSerialInv, TimeoutAdapterInv,
     TimeoutObjectInv, KeepAliveInv DEF NetThread, NetLoop, StillStep
<1>4. CASE Network /\ Fixed
  BY <1>4, <1>1, ReceiveInv DEF Network, StillStep
<1>5. CASE AsyncCallback /\ Fixed
  BY <1>5, AsyncCallbackInv
<1>6. CASE Quiet /\ Fixed
  BY <1>6, <1>1 DEF StillStep
<1>7. CASE UNCHANGED vars
  <2>1. UNCHANGED <<setting, callerVars, objVars, queueVars, netpc, transVars, status, answer, doneVars>>
    BY <1>7 DEF vars
  <2>2. CallerType' /\ DoneType' /\ Messages'
    BY <2>1, TypeParts, StillKeeps DEF RpcInv, CallerType, DoneType, Still, callerVars, objVars, queueVars, doneVars
  <2> QED BY <2>1, <2>2, OutsideInv
<1> QED BY <1>2, <1>3, <1>4, <1>5, <1>6, <1>7 DEF Next

\* Every state of the client has the invariant.
LEMMA RpcInvariance == Spec => []RpcInv
BY RpcInitInv, RpcStepInv, PTL DEF Spec

\* Every variable of the client keeps its type.
THEOREM ClientTyped == Spec => []TypeOK
<1>1. RpcInv => TypeOK
  BY DEF RpcInv
<1> QED BY <1>1, RpcInvariance, PTL

\* A ReqMessage is in one queue at most and once in it, no queue of the network thread
\* holds a finished one, and a blocked caller's message still exists.
THEOREM MessagesHeldOnce == Spec => []OneHolder
<1>1. RpcInv => OneHolder
  BY DEF RpcInv, Messages, Places, Ended, Callers, Held, OneHolder
<1> QED BY <1>1, RpcInvariance, PTL

\* The unsent list and _requestMsg of the adapter point into its id map, and ids in
\* the map differ, whatever ids rpc_call is given.
THEOREM QueuesConsistent == Spec => []QueueConsistent
<1>1. RpcInv => QueueConsistent
  BY DEF RpcInv
<1> QED BY <1>1, RpcInvariance, PTL

\* A serial connection carries the request _requestMsg points to and no other.
THEOREM SerialCarriesOne == Spec => []SerialInFlight
<1>1. RpcInv => SerialInFlight
  BY DEF RpcInv, SerialBusy
<1> QED BY <1>1, RpcInvariance, PTL

\* Unsent requests are never left beside a connection that could take them.
THEOREM UnsentServed == Spec => []SendListServed
<1>1. RpcInv => SendListServed
  BY DEF RpcInv
<1> QED BY <1>1, RpcInvariance, PTL

-----------------------------------------------------------------------------
(* No call is forgotten. *)

\* Unless a send throws, a ring that holds a request has its notification pending or
\* about to be given.
Awake ==
    /\ ring \in [Threads -> Seq(Calls)] /\ armed \in [Threads -> BOOLEAN]
    /\ tpc \in [Threads -> {"idle", "pushed", "waiting"}]
    /\ ~SendThrows => \A t \in Threads : ring[t] # <<>> => armed[t] \/ tpc[t] = "pushed"

\* invoke ends with an exception only when a send throws.
LEMMA ThrownThrows ==
  ASSUME NEW c \in Calls, AdapterInvoke(c, TRUE)
  PROVE  SendThrows
BY DEF AdapterInvoke, SendRequest, SendThrows

\* A thread gives its notification after it filled the ring; the network thread consumes
\* it when the ring is empty.
LEMMA AwakeStep ==
  ASSUME RpcInv, RpcInv', Awake, [Next]_vars
  PROVE  Awake'
<1>0. ring' \in [Threads -> Seq(Calls)] /\ armed' \in [Threads -> BOOLEAN] /\ tpc' \in [Threads -> {"idle", "pushed", "waiting"}]
  BY DEF RpcInv, TypeOK
<1>1. SendThrows' = SendThrows
  BY DEF Next, Fixed, vars, SendThrows, SendFaults
<1>2. ASSUME UNCHANGED callerVars PROVE Awake'
  BY <1>0, <1>1, <1>2 DEF Awake, callerVars
<1>3. ASSUME NEW t \in Threads, NEW c \in Calls, InvokePush(t, c) PROVE Awake'
  BY <1>0, <1>1, <1>3 DEF InvokePush, Awake
<1>4. ASSUME NEW t \in Threads, InvokeNotify(t) \/ InvokeReturn(t) \/ NotifyEnd(t) PROVE Awake'
  BY <1>0, <1>1, <1>4 DEF InvokeNotify, InvokeReturn, NotifyEnd, Awake
<1>5. ASSUME NEW t \in Threads, NotifyRoute(t) PROVE Awake'
  <2>1. Head(ring[t]) \in Calls
    <3>1. ring[t] \in Seq(Calls) /\ ring[t] # <<>>
      BY <1>5 DEF Awake, NotifyRoute
    <3> QED BY <3>1, TailElements
  <2>2. armed[t] /\ (~SendThrows => armed' = [armed EXCEPT ![t] = TRUE])
    <3>1. CASE UNCHANGED armed
      BY <3>1, <1>5 DEF Awake, NotifyRoute
    <3>2. ASSUME NEW thrown \in BOOLEAN, AdapterInvoke(Head(ring[t]), thrown), armed' = [armed EXCEPT ![t] = ~thrown]
          PROVE  armed[t] /\ (~SendThrows => armed' = [armed EXCEPT ![t] = TRUE])
      <4>1. thrown => SendThrows
        BY <2>1, <3>2, ThrownThrows
      <4> QED BY <3>2, <4>1, <1>5 DEF NotifyRoute
    <3> QED BY <3>1, <3>2, <1>5 DEF NotifyRoute
  <2>3. ring' = [ring EXCEPT ![t] = Tail(@)] /\ tpc' = tpc
    BY <1>5 DEF NotifyRoute
  <2> QED BY <1>0, <1>1, <2>2, <2>3 DEF Awake
<1>6. CASE NetThread
  <2>1. CASE NetLoop \/ \E c \in Calls : TimeoutAdapter(c) \/ TimeoutObject(c) \/ KeepAlive(c)
    BY <2>1, <1>2 DEF NetLoop, PrepareStep, PrepareEnd, DrainParallel, DrainSerial, DrainEnd, TimeoutAdapter,
                      TimeoutObject, KeepAlive
  <2> QED BY <2>1, <1>4, <1>5, <1>6 DEF NetThread
<1>7. CASE Network \/ AsyncCallback \/ Quiet \/ UNCHANGED vars
  BY <1>2, <1>7 DEF Network, EndpointsKnown, EndpointsFail, Connected, HandshakeDone, Disconnected, Writable,
                    ReceivePart, Receive, AsyncCallback, Quiet, vars
<1>8. CASE Caller
  BY <1>3, <1>4, <1>8 DEF Caller
<1> QED BY <1>6, <1>7, <1>8 DEF Next

\* As long as send reports failures by its result, every call made and not finished is in
\* a queue that the network thread or a deadline will empty, and no ring waits for a
\* notification that was consumed.
THEOREM NoCallForgotten ==
  ASSUME \A g \in Settings : g.faults \subseteq {"error"}
  PROVE  Spec => []Owned
<1>1. Init => Awake
  BY DEF Init, Awake
<1>2. RpcInv /\ RpcInv' /\ Awake /\ [Next]_vars => Awake'
  BY AwakeStep
<1>3. RpcInv /\ Awake => Owned
  <2> SUFFICES ASSUME RpcInv, Awake PROVE Owned
    OBVIOUS
  <2>1. ~SendThrows
    BY DEF RpcInv, TypeOK, SendThrows, SendFaults
  <2>2. Kept
    BY DEF RpcInv, Messages
  <2> QED BY <2>1, <2>2 DEF Awake, Kept, Held, Owned
<1> QED BY <1>1, <1>2, <1>3, RpcInvariance, PTL DEF Spec

-----------------------------------------------------------------------------
(* Responses reach their calls. *)

\* The requests whose ids matter: outstanding, written, or being written.
Carried == data \cup wire \cup ({sendBuf} \ {NoCall})

\* On a connection shared by many requests, a generated id is given to one call only.
Ids ==
    /\ AnswerMatches
    /\ ~Serial =>
          /\ \A c \in Calls : rid[c] <= uniqId
          /\ \A c, d \in Calls : rid[c] = rid[d] /\ rid[c] # 0 => c = d
          /\ \A c \in Carried : rid[c] # 0

\* A step that gives no id and stores no response.
LEMMA IdsKept ==
  ASSUME Ids, UNCHANGED <<setting, uniqId, rid, answer>>, Carried' \subseteq Carried
  PROVE  Ids'
BY DEF Ids, AnswerMatches, Serial

\* A request that is sent or queued has an id that no call was given before.
LEMMA IdsInvoke ==
  ASSUME RpcInv, Ids, NEW c \in Calls, c \notin data, Kind[c] = "oneway" => status[c] # "new",
         Serial \/ RpcId[c] = 0,
         NEW thrown \in BOOLEAN, AdapterInvoke(c, thrown), UNCHANGED <<setting, answer>>
  PROVE  Ids'
<1>0. QueueType /\ TransType /\ DoneType /\ Serial' = Serial /\ c # NoCall
  BY TypeParts, ConstantsAssumption DEF RpcInv, Serial
<1>1. AnswerMatches'
  BY DEF Ids, AnswerMatches
<1>2. CASE UNCHANGED <<uniqId, rid, transVars>> /\ Refused(c)
  <2>1. Carried' = Carried
    BY <1>2 DEF Carried, Refused, transVars
  <2> QED BY <1>2, <2>1, IdsKept
<1>3. CASE ~Serial /\ uniqId' = NextUniqId(c) /\ rid' = [rid EXCEPT ![c] = NewId(c)]
  <2>1. rid'[c] = uniqId + 1 /\ uniqId' = uniqId + 1
    BY <1>0, <1>3 DEF NextUniqId, NewId, QueueType
  <2>2. \A d \in Calls : d # c => rid'[d] = rid[d]
    BY <1>0, <1>3 DEF QueueType
  <2>3. Carried' \subseteq Carried \cup {c}
    <3>1. data' \subseteq data \cup {c}
      BY <1>0, InvokeCases DEF Refused, Queued, Sent, Lost
    <3>2. UNCHANGED transVars \/ \E ret \in Returns : SendRequest(c, ret)
      BY <1>0, InvokeCases DEF Returns
    <3>3. wire' \subseteq wire \cup {c} /\ sendBuf' \in {sendBuf, NoCall, c}
      BY <3>2 DEF transVars, SendRequest, Close
    <3> QED BY <3>1, <3>3 DEF Carried
  <2>4. \A d \in Calls : rid[d] \in Nat /\ rid[d] <= uniqId /\ uniqId \in Nat
    BY <1>0, <1>3 DEF Ids, QueueType
  <2>5. Carried \subseteq Calls
    BY <1>0 DEF Carried, QueueType, TransType
  <2>6. \A d \in Calls : rid'[d] <= uniqId'
    BY <2>1, <2>2, <2>4
  <2>7. \A d, e \in Calls : rid'[d] = rid'[e] /\ rid'[d] # 0 => d = e
    <3>1. \A d \in Calls : d # c => rid'[d] # rid'[c]
      BY <2>1, <2>2, <2>4
    <3> QED BY <3>1, <2>2, <1>3 DEF Ids
  <2>8. \A d \in Carried' : rid'[d] # 0
    <3>1. rid'[c] # 0
      BY <2>1, <1>0 DEF QueueType
    <3> QED BY <3>1, <2>2, <2>3, <2>5, <1>3 DEF Ids
  <2> QED BY <1>1, <2>6, <2>7, <2>8 DEF Ids
<1>4. CASE Serial
  BY <1>0, <1>1, <1>4 DEF Ids
<1> QED BY <1>0, <1>2, <1>3, <1>4, InvokeCases

\* A response is stored in the call whose id it carries or, on a serial connection, in the
\* only call that is outstanding.
LEMMA IdsReceive ==
  ASSUME RpcInv, Ids, NEW c \in Calls, Receive(c), Fixed
  PROVE  Ids'
<1>0. /\ QueueType /\ TransType /\ RestType /\ SerialInFlight /\ Serial' = Serial /\ UNCHANGED setting
      /\ QueueConsistent /\ c \in wire
  BY TypeParts DEF RpcInv, SerialBusy, Fixed, Serial, Receive
<1>1. CASE Match(c) = {} /\ wire' = wire \ {c} /\ UNCHANGED <<queueVars, conn, dials, sendBuf, cut, status, answer, doneVars>>
  <2>1. UNCHANGED <<data, uniqId, rid>>
    BY <1>1 DEF queueVars
  <2>2. Carried' \subseteq Carried
    BY <1>1, <2>1 DEF Carried
  <2> QED BY <1>0, <1>1, <2>1, <2>2, IdsKept
<1>2. ASSUME NEW d \in Match(c), data' = data \ {d}, answer' = [answer EXCEPT ![d] = c],
             \/ Close
             \/ wire' = wire \ {c} /\ UNCHANGED <<conn, dials, sendBuf, cut>>,
             UNCHANGED <<uniqId, rid>>
      PROVE  Ids'
  <2>1. d = c
    <3>1. CASE Serial
      BY <3>1, <1>0, <1>2 DEF Match, MatchSerial, SerialInFlight
    <3>2. CASE ~Serial
      <4>1. d \in data /\ d \in Calls /\ rid[d] = rid[c]
        BY <3>2, <1>0, <1>2 DEF Match, MatchParallel, QueueType
      <4>2. rid[c] # 0
        BY <3>2, <1>0 DEF Ids, Carried
      <4> QED BY <3>2, <4>1, <4>2 DEF Ids
    <3> QED BY <3>1, <3>2
  <2>2. AnswerMatches'
    BY <1>0, <1>2, <2>1 DEF Ids, AnswerMatches, RestType
  <2>3. Carried' \subseteq Carried
    BY <1>2 DEF Carried, Close
  <2> QED BY <1>0, <1>2, <2>2, <2>3 DEF Ids
<1> QED BY <1>1, <1>2 DEF Receive

\* A call is given the response to its own request, unless rpc_call brings ids of its
\* own to a connection that many requests share.
THEOREM AnswersMatch ==
  ASSUME \A g \in Settings : g.serial \/ \A c \in Calls : RpcId[c] = 0
  PROVE  Spec => []AnswerMatches
<1>1. Init => Ids
  BY DEF Init, Ids, AnswerMatches, Carried
<1>2. RpcInv /\ Ids /\ [Next]_vars => Ids'
  <2> SUFFICES ASSUME RpcInv, Ids, [Next]_vars PROVE Ids'
    OBVIOUS
  <2>0. /\ CallerType /\ ObjType /\ QueueType /\ TransType /\ RestType /\ Messages /\ QueueConsistent
        /\ UNCHANGED setting
    BY TypeParts DEF RpcInv, Next, Fixed, vars
  <2>1. Serial \/ \A c \in Calls : RpcId[c] = 0
    BY <2>0 DEF RestType, Serial
  <2>2. ASSUME UNCHANGED <<queueVars, transVars, answer>> PROVE Ids'
    <3>1. UNCHANGED <<data, uniqId, rid, wire, sendBuf>>
      BY <2>2 DEF queueVars, transVars
    <3> QED BY <2>0, <2>2, <3>1, IdsKept DEF Carried
  <2>3. ASSUME UNCHANGED <<queueVars, answer>>, Dial \/ Close PROVE Ids'
    <3>1. UNCHANGED <<data, uniqId, rid>>
      BY <2>3 DEF queueVars
    <3>2. UNCHANGED <<wire, sendBuf>> \/ (wire' = {} /\ sendBuf' = NoCall)
      BY <2>3 DEF transVars, Dial, Close
    <3> QED BY <2>0, <2>3, <3>1, <3>2, IdsKept DEF Carried
  <2>4. CASE Caller \/ AsyncCallback \/ Quiet \/ UNCHANGED vars
    BY <2>2, <2>4 DEF Caller, InvokePush, InvokeNotify, InvokeReturn, AsyncCallback, Quiet, vars
  <2>5. ASSUME NEW t \in Threads, NotifyRoute(t) PROVE Ids'
    <3> DEFINE c == Head(ring[t])
    <3>1. ring[t] \in Seq(Calls) /\ ring[t] # <<>> /\ UNCHANGED answer
      BY <2>0, <2>5 DEF NotifyRoute, CallerType
    <3>2. c \in Calls /\ c \in Elements(ring[t])
      BY <3>1, TailElements
    <3>3. c \notin data /\ status[c] = "req"
      BY <2>0, <3>2 DEF Messages, Places, Held
    <3>4. \/ UNCHANGED queueVars /\ (UNCHANGED transVars \/ Dial)
          \/ \E thrown \in BOOLEAN : AdapterInvoke(c, thrown)
      BY <2>5 DEF NotifyRoute, Park
    <3> HIDE DEF c
    <3> QED BY <2>0, <2>1, <2>2, <2>3, <3>1, <3>2, <3>3, <3>4, IdsInvoke
  <2>6. CASE PrepareStep
    <3> DEFINE c == Head(objQ)
    <3>1. objQ \in Seq(Calls) /\ objQ # <<>> /\ UNCHANGED answer
      BY <2>0, <2>6 DEF PrepareStep, ObjType
    <3>2. c \in Calls /\ c \in Elements(objQ)
      BY <3>1, TailElements
    <3>3. c \notin data /\ status[c] = "req"
      BY <2>0, <3>2 DEF Messages, Places, Held
    <3>4. PICK thrown \in BOOLEAN : AdapterInvoke(c, thrown)
      BY <2>6 DEF PrepareStep
    <3> HIDE DEF c
    <3> QED BY <2>0, <2>1, <3>1, <3>2, <3>3, <3>4, IdsInvoke
  <2>7. ASSUME NEW c \in Calls, KeepAlive(c) PROVE Ids'
    <3>1. c \notin data /\ Kind[c] = "ping" /\ UNCHANGED answer
      BY <2>0, <2>7, NewNotHeld DEF KeepAlive
    <3>2. (UNCHANGED queueVars /\ Dial) \/ \E thrown \in BOOLEAN : AdapterInvoke(c, thrown)
      BY <2>7 DEF KeepAlive
    <3> QED BY <2>0, <2>1, <2>3, <3>1, <3>2, IdsInvoke
  <2>8. CASE DrainParallel \/ DrainSerial
    <3> DEFINE c == Head(send)
    <3>1. c \in data /\ UNCHANGED <<uniqId, rid, answer>> /\ \E ret \in Returns : SendRequest(c, ret)
      BY <2>8, UnsentHead DEF DrainParallel, DrainSerial
    <3>2. data' \subseteq data
      BY <2>8 DEF DrainParallel, DrainSerial
    <3> HIDE DEF c
    <3>3. wire' \subseteq wire \cup {c} /\ sendBuf' \in {sendBuf, NoCall, c}
      BY <3>1 DEF transVars, SendRequest, Close
    <3>4. Carried' \subseteq Carried
      BY <3>1, <3>2, <3>3, <2>8 DEF Carried, DrainParallel, DrainSerial
    <3> QED BY <2>0, <3>1, <3>4, IdsKept
  <2>9. ASSUME NEW c \in Calls, TimeoutAdapter(c) \/ TimeoutObject(c) PROVE Ids'
    <3>1. CASE TimeoutAdapter(c)
      BY <2>0, <3>1, IdsKept DEF TimeoutAdapter, Close, FailMayClose, Carried, transVars
    <3>2. CASE TimeoutObject(c)
      BY <2>2, <3>2 DEF TimeoutObject
    <3> QED BY <2>9, <3>1, <3>2
  <2>10. CASE StillStep
    <3>1. CASE Writable
      BY <2>0, <3>1, IdsKept DEF Writable, Carried, queueVars
    <3>2. CASE Connected \/ HandshakeDone
      BY <2>0, <3>2, IdsKept DEF Connected, HandshakeDone, Carried, queueVars
    <3>3. CASE ~(Writable \/ Connected \/ HandshakeDone)
      BY <2>2, <2>3, <2>10, <3>3 DEF StillStep, NotifyEnd, PrepareEnd, DrainEnd, EndpointsKnown, EndpointsFail,
                                     Disconnected, ReceivePart, Quiet, vars
    <3> QED BY <3>1, <3>2, <3>3
  <2>11. CASE \E c \in Calls : Receive(c)
    BY <2>0, <2>11, IdsReceive DEF Fixed
  <2> QED BY <2>4, <2>5, <2>6, <2>7, <2>8, <2>9, <2>10, <2>11 DEF Next, NetThread, NetLoop, Network, StillStep
<1>3. Ids => AnswerMatches
  BY DEF Ids
<1> QED BY <1>1, <1>2, <1>3, RpcInvariance, PTL DEF Spec
=============================================================================
