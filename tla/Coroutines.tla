----------------------------- MODULE Coroutines -----------------------------
(* The coroutines of one thread (TC_CoroutineScheduler,                    *)
(* src/util/src/tc_coroutine.cpp): the loop of run, which coroutine it     *)
(* switches to, and the three ways a coroutine gives up control and is     *)
(* woken: yield, sleep, and a call whose answer the epoller of the same    *)
(* thread receives (ServantProxy::invoke, AdapterProxy::finishInvoke).     *)
(*                                                                         *)
(* Everything here runs in one thread, so a step lasts until control is    *)
(* passed on; only terminate, answers and time come in between.            *)
EXTENDS Integers, Sequences, FiniteSets

CONSTANTS Coros,        \* the ids the pool can give out
          Main,         \* the main coroutine, id 0
          Chunk,        \* 100: coroutines made at once
          Batch,        \* 100: active coroutines run in one round
          EndsWhenIdle  \* _noCoroutineCallback is set, to terminate

ASSUME CoroutineAssumption ==
    /\ IsFiniteSet(Coros) /\ Main \notin Coros
    /\ Chunk \in Nat \ {0} /\ Batch \in Nat \ {0}
    /\ EndsWhenIdle \in BOOLEAN

VARIABLES pc,           \* of the loop of run
          loop,         \* iLoop
          cur,          \* _currentCoro
          status,       \* _eStatus; "none" before the coroutine is made
          avail, active,            \* the two lists whose order matters
          queue,        \* _activeCoroQueue
          need,         \* _needActiveCoroId
          asleep, due,  \* _timeoutCoroId, before and after its deadline, by deadline
          currentSize, usedSize,
          terminated,
          call,         \* the call a coroutine waits for
          arrived,      \* answers at the sockets
          asserted      \* an assert(false) was reached

vars == <<pc, loop, cur, status, avail, active, queue, need, asleep, due,
          currentSize, usedSize, terminated, call, arrived, asserted>>

timing == <<asleep, due>>
sizes == <<currentSize, usedSize>>

PoolSize == Cardinality(Coros)

Least(a, b) == IF a < b THEN a ELSE b

Elements(s) == {s[i] : i \in DOMAIN s}

\* CoroutineDel: c is unlinked; the others keep their order.
Without(s, c) ==
    IF c \notin Elements(s) THEN s
    ELSE LET i == CHOOSE i \in DOMAIN s : s[i] = c
         IN  [j \in 1..(Len(s) - 1) |-> IF j < i THEN s[j] ELSE s[j + 1]]

(* init makes the first coroutines. *)
Init ==
    /\ currentSize = Least(PoolSize, Chunk)
    /\ \E made \in SUBSET Coros :
         /\ Cardinality(made) = currentSize
         /\ status = [c \in Coros |-> IF c \in made THEN "free" ELSE "none"]
    /\ pc = "start" /\ loop = 0 /\ cur = Main
    /\ avail = <<>> /\ active = <<>> /\ queue = <<>> /\ need = <<>>
    /\ asleep = {} /\ due = <<>> /\ usedSize = 0
    /\ terminated = FALSE /\ asserted = FALSE
    /\ call = [c \in Coros |-> "no"] /\ arrived = <<>>

-----------------------------------------------------------------------------
(* What the main coroutine or a running one may do. *)

Ready(pool, c) ==
    /\ status' = [d \in Coros |->
                    IF d = c THEN "avail" ELSE IF d \in pool THEN "free" ELSE status[d]]
    /\ avail' = Append(avail, c)
    /\ usedSize' = usedSize + 1

\* increaseCoroPoolSize: how many coroutines are made.
Growth == Least(PoolSize - currentSize, Chunk)

(* go, with increaseCoroPoolSize; a pool that is used up returns 0. *)
Go ==
    /\ pc = "start" \/ cur # Main
    /\ LET free == {c \in Coros : status[c] = "free"}
       IN  IF usedSize >= currentSize \/ free = {}
           THEN \E made \in SUBSET {c \in Coros : status[c] = "none"} :
                  /\ Growth > 0 /\ Cardinality(made) = Growth
                  /\ \E c \in free \cup made : Ready(made, c)
                  /\ currentSize' = currentSize + Growth
           ELSE \E c \in free : Ready({}, c) /\ UNCHANGED currentSize
    /\ UNCHANGED <<pc, loop, cur, active, queue, need, asleep, due,
                   terminated, call, arrived, asserted>>

\* moveToInactive, moveToTimeout, moveToFreeList: off whatever list it was on.
LeaveTo(new, from) ==
    /\ asserted' = (asserted \/ status[cur] \notin from)
    /\ status' = [status EXCEPT ![cur] = new]
    /\ avail' = Without(avail, cur)
    /\ active' = Without(active, cur)
    /\ cur' = Main

Runnable == {"avail", "active"}

(* yield(true) *)
Yield ==
    /\ cur # Main
    /\ need' = Append(need, cur)
    /\ LeaveTo("inactive", Runnable)
    /\ UNCHANGED <<pc, loop, queue, timing, sizes, terminated, call, arrived>>

Sleep ==
    /\ cur # Main
    /\ asleep' = asleep \cup {cur}
    /\ LeaveTo("timeout", Runnable)
    /\ UNCHANGED <<pc, loop, queue, need, due, sizes, terminated, call, arrived>>

\* put
Put(q, ids) == IF terminated THEN q ELSE q \o ids

(* A synchronous call: the request is sent at once, by this thread, and    *)
(* yield(false) waits.  One that fails at once is put before it waits.     *)
Call ==
    /\ cur # Main
    /\ \/ /\ call' = [call EXCEPT ![cur] = "sent"]
          /\ UNCHANGED queue
       \/ /\ call' = [call EXCEPT ![cur] = "put"]
          /\ queue' = Put(queue, <<cur>>)
    /\ LeaveTo("inactive", Runnable)
    /\ UNCHANGED <<pc, loop, need, timing, sizes, terminated, arrived>>

\* Mutant: the coroutine that ends is still counted.
FinishKeepsUsed ==
    /\ cur # Main
    /\ LeaveTo("free", {"avail", "active", "inactive", "timeout"})
    /\ UNCHANGED <<pc, loop, queue, need, timing, sizes, terminated, call, arrived>>

(* corotineProc returns. *)
Finish ==
    /\ cur # Main
    /\ usedSize' = usedSize - 1
    /\ LeaveTo("free", {"avail", "active", "inactive", "timeout"})
    /\ UNCHANGED <<pc, loop, queue, need, timing, currentSize, terminated, call, arrived>>

-----------------------------------------------------------------------------
(* The loop of run. *)

At(label) == pc = label /\ cur = Main

Run ==
    /\ At("start")
    /\ pc' = "top"
    /\ UNCHANGED <<loop, cur, status, avail, active, queue, need, timing, sizes,
                   terminated, call, arrived, asserted>>

(* The test of the loop, and whether there is something to run; destroy    *)
(* ends it.                                                                *)
Top ==
    /\ At("top")
    /\ pc' = IF terminated THEN "ended"
             ELSE IF queue = <<>> /\ avail = <<>> /\ active = <<>> THEN "epoll" ELSE "wakeup"
    /\ UNCHANGED <<loop, cur, status, avail, active, queue, need, timing, sizes,
                   terminated, call, arrived, asserted>>

(* _epoller->done(1000): the answers that arrived are received, and        *)
(* finishInvoke puts the coroutines that wait for them.                    *)
Done ==
    /\ At("epoll")
    /\ pc' = "wakeup"
    /\ IF terminated THEN UNCHANGED <<queue, arrived, call>>
       ELSE /\ queue' = Put(queue, arrived)
            /\ call' = [c \in Coros |-> IF c \in Elements(arrived) THEN "put" ELSE call[c]]
            /\ arrived' = <<>>
    /\ UNCHANGED <<loop, cur, status, avail, active, need, timing, sizes, terminated, asserted>>

\* moveToActive and moveToAvail, for all of ids.
Wake(ids, new, from) ==
    /\ asserted' = \/ asserted
                   \/ Cardinality(Elements(ids)) # Len(ids)
                   \/ \E c \in Elements(ids) : status[c] \notin from
    /\ status' = [c \in Coros |-> IF c \in Elements(ids) THEN new ELSE status[c]]

\* Mutant: the swapped queue is dropped after its first element.
WakeupFirstOnly ==
    /\ At("wakeup")
    /\ pc' = "timeout"
    /\ IF terminated \/ queue = <<>>
       THEN UNCHANGED <<status, active, queue, asserted>>
       ELSE /\ Wake(<<Head(queue)>>, "active", {"inactive", "timeout"})
            /\ active' = Append(active, Head(queue))
            /\ queue' = <<>>
    /\ UNCHANGED <<loop, cur, avail, need, timing, sizes, terminated, call, arrived>>

Wakeup ==
    /\ At("wakeup")
    /\ pc' = "timeout"
    /\ IF terminated
       THEN UNCHANGED <<status, active, queue, asserted>>
       ELSE /\ Wake(queue, "active", {"inactive", "timeout"})
            /\ active' = active \o queue
            /\ queue' = <<>>
    /\ UNCHANGED <<loop, cur, avail, need, timing, sizes, terminated, call, arrived>>

\* Mutant: the entry of the multimap is not erased.
WakeupByTimeoutKeeps ==
    /\ At("timeout")
    /\ pc' = "self"
    /\ IF terminated
       THEN UNCHANGED <<status, active, asserted>>
       ELSE /\ Wake(due, "active", {"inactive", "timeout"})
            /\ active' = active \o due
    /\ UNCHANGED <<loop, cur, avail, queue, need, timing, sizes, terminated, call, arrived>>

WakeupByTimeout ==
    /\ At("timeout")
    /\ pc' = "self"
    /\ IF terminated
       THEN UNCHANGED <<status, active, due, asserted>>
       ELSE /\ Wake(due, "active", {"inactive", "timeout"})
            /\ active' = active \o due
            /\ due' = <<>>
    /\ UNCHANGED <<loop, cur, avail, queue, need, asleep, sizes, terminated, call, arrived>>

\* Mutant: who yielded goes before who waits for its turn.
WakeupBySelfFirst ==
    /\ At("self")
    /\ pc' = "active" /\ loop' = Batch
    /\ IF terminated
       THEN UNCHANGED <<status, avail, need, asserted>>
       ELSE /\ Wake(need, "avail", {"inactive"})
            /\ avail' = need \o avail
            /\ need' = <<>>
    /\ UNCHANGED <<cur, active, queue, timing, sizes, terminated, call, arrived>>

WakeupBySelf ==
    /\ At("self")
    /\ pc' = "active" /\ loop' = Batch
    /\ IF terminated
       THEN UNCHANGED <<status, avail, need, asserted>>
       ELSE /\ Wake(need, "avail", {"inactive"})
            /\ avail' = avail \o need
            /\ need' = <<>>
    /\ UNCHANGED <<cur, active, queue, timing, sizes, terminated, call, arrived>>

\* switchCoro: the coroutine stays on its list; a call it waited for returns.
SwitchTo(c) ==
    /\ cur' = c
    /\ call' = [call EXCEPT ![c] = "no"]

(* Up to Batch active coroutines, then one available coroutine. *)
RunActive ==
    /\ At("active")
    /\ IF loop > 0 /\ active # <<>>
       THEN SwitchTo(Head(active)) /\ loop' = loop - 1 /\ UNCHANGED pc
       ELSE pc' = "avail" /\ UNCHANGED <<cur, call, loop>>
    /\ UNCHANGED <<status, avail, active, queue, need, timing, sizes,
                   terminated, arrived, asserted>>

RunAvail ==
    /\ At("avail")
    /\ pc' = "check"
    /\ IF avail # <<>> THEN SwitchTo(Head(avail)) ELSE UNCHANGED <<cur, call>>
    /\ UNCHANGED <<loop, status, avail, active, queue, need, timing, sizes,
                   terminated, arrived, asserted>>

Check ==
    /\ At("check")
    /\ pc' = "top"
    /\ terminated' = (terminated \/ (usedSize = 0 /\ EndsWhenIdle))
    /\ UNCHANGED <<loop, cur, status, avail, active, queue, need, timing, sizes,
                   call, arrived, asserted>>

-----------------------------------------------------------------------------
(* From outside: another thread, the network, and time. *)

Terminate ==
    /\ ~terminated /\ pc # "ended"
    /\ terminated' = TRUE
    /\ UNCHANGED <<pc, loop, cur, status, avail, active, queue, need, timing, sizes,
                   call, arrived, asserted>>

\* The answer, or the timeout of the call.
Arrive(c) ==
    /\ call[c] = "sent" /\ pc # "ended"
    /\ call' = [call EXCEPT ![c] = "arrived"]
    /\ arrived' = Append(arrived, c)
    /\ UNCHANGED <<pc, loop, cur, status, avail, active, queue, need, timing, sizes,
                   terminated, asserted>>

Expire(c) ==
    /\ c \in asleep /\ pc # "ended"
    /\ asleep' = asleep \ {c}
    /\ due' = Append(due, c)
    /\ UNCHANGED <<pc, loop, cur, status, avail, active, queue, need, sizes,
                   terminated, call, arrived, asserted>>

-----------------------------------------------------------------------------
GiveUp == Yield \/ Sleep \/ Call \/ Finish

RunLoop == Run \/ Top \/ Done \/ Wakeup \/ WakeupByTimeout \/ WakeupBySelf
           \/ RunActive \/ RunAvail \/ Check

Ended == pc = "ended" /\ UNCHANGED vars

Next ==
    \/ Go \/ GiveUp \/ RunLoop \/ Terminate \/ Ended
    \/ \E c \in Coros : Arrive(c) \/ Expire(c)

Spec == Init /\ [][Next]_vars

(* The thread goes on, time passes, and a coroutine does not keep the      *)
(* thread for ever.                                                        *)
FairSpec ==
    /\ Spec
    /\ WF_vars(RunLoop) /\ WF_vars(GiveUp)
    /\ \A c \in Coros : WF_vars(Expire(c))

-----------------------------------------------------------------------------
Statuses == {"none", "free", "avail", "active", "inactive", "timeout"}

TypeOK ==
    /\ pc \in {"start", "top", "epoll", "wakeup", "timeout", "self", "active",
               "avail", "check", "ended"}
    /\ loop \in 0..Batch /\ cur \in Coros \cup {Main}
    /\ status \in [Coros -> Statuses]
    /\ avail \in Seq(Coros) /\ active \in Seq(Coros)
    /\ queue \in Seq(Coros) /\ need \in Seq(Coros)
    /\ asleep \subseteq Coros /\ due \in Seq(Coros)
    /\ currentSize \in Nat /\ usedSize \in Nat
    /\ terminated \in BOOLEAN /\ asserted \in BOOLEAN
    /\ call \in [Coros -> {"no", "sent", "arrived", "put"}] /\ arrived \in Seq(Coros)

Distinct(s) == Cardinality(Elements(s)) = Len(s)

(* A coroutine is on the list of its status and on no other, the one that  *)
(* runs is on a list of runnable ones, and the sizes that go and full      *)
(* compare are those of the pool, so that go never takes from an empty     *)
(* list.                                                                   *)
ListsAgree ==
    /\ TypeOK
    /\ Distinct(avail) /\ Elements(avail) = {c \in Coros : status[c] = "avail"}
    /\ Distinct(active) /\ Elements(active) = {c \in Coros : status[c] = "active"}
    /\ cur # Main => status[cur] \in Runnable
    /\ currentSize = Cardinality({c \in Coros : status[c] # "none"})
    /\ usedSize = Cardinality({c \in Coros : status[c] \notin {"none", "free"}})

\* Why c will be woken.
Reasons(c) ==
    {<<"call", 0>> : d \in {d \in {c} : call[d] \in {"sent", "arrived"}}}
    \cup {<<"queue", i>> : i \in {i \in DOMAIN queue : queue[i] = c}}
    \cup {<<"need", i>> : i \in {i \in DOMAIN need : need[i] = c}}
    \cup {<<"asleep", 0>> : d \in asleep \cap {c}}
    \cup {<<"due", i>> : i \in {i \in DOMAIN due : due[i] = c}}

(* As long as the scheduler is not told to end, a coroutine that waits has *)
(* exactly one wake-up to come, of the kind it waits for, and one that     *)
(* does not wait has none: none is lost, none wakes a later wait of the    *)
(* same coroutine or of the next one with its id, and no assert of the     *)
(* moveTo functions fails.                                                 *)
OneReason ==
    /\ ~asserted
    /\ ~terminated => \A c \in Coros :
         /\ Cardinality(Reasons(c)) = IF status[c] \in {"inactive", "timeout"} THEN 1 ELSE 0
         /\ status[c] = "timeout" <=> c \in asleep \cup Elements(due)
         /\ call[c] = "arrived" <=> c \in Elements(arrived)
         /\ call[c] = "put" => c \in Elements(queue) \/ status[c] = "active"

(* A coroutine that was started or has yielded gets its turn, however many *)
(* others do the same or are woken meanwhile.                              *)
TurnComes == \A c \in Coros : status[c] = "avail" ~> cur = c \/ terminated

(* As long as the loop keeps coming to the epoller, a coroutine whose      *)
(* answer arrived goes on.                                                 *)
AnswerWakes ==
    []<>(pc = "epoll") => \A c \in Coros : call[c] = "arrived" ~> call[c] = "no" \/ terminated
=============================================================================
