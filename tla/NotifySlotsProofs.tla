------------------------- MODULE NotifySlotsProofs -------------------------
(***************************************************************************)
(* First the numbers, for any number of them and any set of threads; then  *)
(* the notify slots, as long as the exit of a thread is handled before its *)
(* number comes round again (~NetLags).  The inductive invariant SlotInv   *)
(* follows a descriptor through its life: bound to the slot of its owner's *)
(* number, left in that slot by an owner that has exited while the exit is *)
(* posted, then out of the table, signalled or served until its queue is   *)
(* empty, then gone.                                                       *)
(***************************************************************************)
EXTENDS NotifySlots, TLAPS

-----------------------------------------------------------------------------
(* The free list of SeqManager is correct for every number of numbers and  *)
(* every set of threads.  The inductive invariant SeqInv says what the     *)
(* asserts of the code need: the linked list is a repetition-free          *)
(* sequence, and the numbers off the list are held, each by one thread.    *)

\* The constructor builds a list of all numbers.
LEMMA SeqInitInv == SeqInit => SeqInv
<1> SUFFICES ASSUME SeqInit PROVE SeqInv
  OBVIOUS
<1> USE NumAssumption
<1>1. order \in Seq(Seqs) /\ Len(order) = Num /\ \A i \in 1..Num : order[i] = i - 1
  <2>1. \A i \in 1..Num : i - 1 \in Seqs
    BY DEF Seqs
  <2>2. order = [i \in 1..Num |-> i - 1]
    BY DEF SeqInit
  <2>3. order \in [1..Num -> Seqs] /\ Num \in Nat
    BY <2>1, <2>2
  <2>4. order \in Seq(Seqs)
    BY <2>3
  <2>5. Len(order) \in Nat /\ DOMAIN order = 1..Len(order)
    BY <2>4
  <2>6. DOMAIN order = 1..Num
    BY <2>3
  <2>7. Len(order) = Num
    BY <2>3, <2>5, <2>6
  <2> QED BY <2>2, <2>4, <2>7
<1>2. SeqTypeOK
  BY <1>1 DEF SeqTypeOK, SeqInit, Seqs
<1>3. Linked
  <2>1. order # <<>> /\ order[1] = 0 /\ order[Len(order)] = Num - 1
    BY <1>1
  <2>2. next[order[Len(order)]] = End
    BY <2>1 DEF SeqInit, Seqs
  <2>3. ASSUME NEW i \in 1..(Len(order) - 1) PROVE next[order[i]] = order[i + 1]
    <3>1. i \in 1..Num /\ i + 1 \in 1..Num /\ i - 1 \in Seqs /\ i - 1 # Num - 1
      BY <1>1 DEF Seqs
    <3>2. order[i] = i - 1 /\ order[i + 1] = i
      BY <3>1, <1>1
    <3>3. next[i - 1] = i
      BY <3>1 DEF SeqInit
    <3> QED BY <3>2, <3>3
  <2> QED BY <2>1, <2>2, <2>3 DEF Linked, SeqInit
<1>4. OnList
  <2>1. \A i \in Seqs : i + 1 \in 1..Len(order) /\ order[i + 1] = i
    BY <1>1 DEF Seqs
  <2>2. \A i, j \in 1..Len(order) : order[i] = order[j] => i = j
    BY <1>1
  <2>3. \A i \in Seqs : isFree[i]
    BY DEF SeqInit
  <2> QED BY <2>1, <2>2, <2>3 DEF OnList
<1>5. Taken /\ AssertsHold /\ NumberUnique
  BY DEF Taken, AssertsHold, NumberUnique, SeqInit, Seqs
<1> QED BY <1>2, <1>3, <1>4, <1>5 DEF SeqInv

\* get takes the head of the list.
LEMMA GetInv ==
  ASSUME SeqInv, NEW t \in Threads, Get(t)
  PROVE  SeqInv'
<1> USE NumAssumption
<1>0. SeqTypeOK /\ Linked /\ OnList /\ Taken /\ AssertsHold /\ NumberUnique
  BY DEF SeqInv
<1>1. /\ order # <<>> /\ order \in Seq(Seqs) /\ Len(order) \in Nat \ {0}
      /\ free = order[1] /\ free \in Seqs /\ freeTail = order[Len(order)] /\ End \notin Seqs
  BY <1>0 DEF Get, SeqTypeOK, Linked, Seqs
<1>2. /\ order' \in Seq(Seqs) /\ Len(order') = Len(order) - 1
      /\ \A i \in 1..(Len(order) - 1) : order'[i] = order[i + 1]
  <2>1. order' = Tail(order)
    BY DEF Get
  <2>2. /\ Tail(order) \in Seq(Seqs) /\ Len(Tail(order)) = Len(order) - 1
        /\ \A i \in 1..(Len(order) - 1) : Tail(order)[i] = order[i + 1]
    BY <1>1
  <2> QED BY <2>1, <2>2
<1>3. free = freeTail <=> Len(order) = 1
  <2>1. 1 \in 1..Len(order) /\ Len(order) \in 1..Len(order)
    BY <1>1
  <2>2. order[1] = order[Len(order)] => 1 = Len(order)
    BY <2>1, <1>0 DEF OnList
  <2> QED BY <2>2, <1>1
<1>4. SeqTypeOK'
  BY <1>0, <1>1, <1>2 DEF Get, SeqTypeOK
<1>5. Linked'
  <2>1. CASE Len(order) = 1
    <3>1. order' = <<>> /\ free' = End /\ freeTail' = End
      BY <2>1, <1>0, <1>1, <1>2, <1>3 DEF Get, Linked
    <3> QED BY <3>1 DEF Linked
  <2>2. CASE Len(order) # 1
    <3>1. Len(order) > 1 /\ Len(order') = Len(order) - 1 /\ order' # <<>>
      BY <2>2, <1>1, <1>2
    <3>2. free' = order'[1] /\ freeTail' = order'[Len(order')]
      BY <3>1, <2>2, <1>0, <1>1, <1>2, <1>3 DEF Get, Linked
    <3>3. next'[order'[Len(order')]] = End
      BY <3>1, <1>0, <1>1, <1>2 DEF Get, Linked
    <3>4. \A i \in 1..(Len(order') - 1) : next'[order'[i]] = order'[i + 1]
      BY <3>1, <1>0, <1>1, <1>2 DEF Get, Linked
    <3> QED BY <3>1, <3>2, <3>3, <3>4 DEF Linked
  <2> QED BY <2>1, <2>2
<1>6. OnList'
  <2>1. \A i, j \in 1..Len(order') : order'[i] = order'[j] => i = j
    BY <1>0, <1>1, <1>2 DEF OnList
  <2>2. ASSUME NEW i \in Seqs PROVE isFree'[i] <=> \E k \in 1..Len(order') : order'[k] = i
    <3>1. CASE i = free
      <4>1. ~isFree'[i]
        BY <3>1, <1>0 DEF Get, SeqTypeOK
      <4>2. \A k \in 1..Len(order') : order'[k] # i
        BY <3>1, <1>0, <1>1, <1>2 DEF OnList
      <4> QED BY <4>1, <4>2
    <3>2. CASE i # free
      <4>1. isFree'[i] = isFree[i]
        BY <3>2, <1>0 DEF Get, SeqTypeOK
      <4>2. (\E k \in 1..Len(order) : order[k] = i) => \E k \in 1..Len(order') : order'[k] = i
        <5> SUFFICES ASSUME NEW k \in 1..Len(order), order[k] = i
                     PROVE  \E j \in 1..Len(order') : order'[j] = i
          OBVIOUS
        <5>1. k - 1 \in 1..Len(order')
          BY <3>2, <1>1, <1>2
        <5>2. order'[k - 1] = i
          BY <5>1, <1>1, <1>2
        <5> QED BY <5>1, <5>2
      <4>3. (\E k \in 1..Len(order') : order'[k] = i) => \E k \in 1..Len(order) : order[k] = i
        <5> SUFFICES ASSUME NEW k \in 1..Len(order'), order'[k] = i
                     PROVE  \E j \in 1..Len(order) : order[j] = i
          OBVIOUS
        <5>1. k + 1 \in 1..Len(order) /\ order[k + 1] = i
          BY <1>1, <1>2
        <5> QED BY <5>1
      <4> QED BY <4>1, <4>2, <4>3, <1>0 DEF OnList
    <3> QED BY <3>1, <3>2
  <2> QED BY <2>1, <2>2 DEF OnList
<1>7. Taken'
  <2> SUFFICES ASSUME NEW i \in Seqs, ~isFree'[i] PROVE \E u \in Threads : seq'[u] = i
    BY DEF Taken
  <2>1. CASE i = free
    BY <2>1, <1>0 DEF Get, SeqTypeOK
  <2>2. CASE i # free
    <3>1. ~isFree[i]
      BY <2>2, <1>0 DEF Get, SeqTypeOK
    <3>2. PICK u \in Threads : seq[u] = i
      BY <3>1, <1>0 DEF Taken
    <3>3. u # t
      BY <3>2, <1>1 DEF Get
    <3> QED BY <3>2, <3>3, <1>0 DEF Get, SeqTypeOK
  <2> QED BY <2>1, <2>2
<1>8. \A u \in Threads : seq'[u] # End => ~isFree'[seq'[u]]
  BY <1>0, <1>1 DEF Get, SeqTypeOK, AssertsHold
<1>9. free' # End => isFree'[free'] /\ (free' = freeTail' => next'[free'] = End)
  <2>1. free' # End => Len(order) # 1
    BY <1>5, <1>2, <1>1, <1>0 DEF Linked, Get
  <2>2. ASSUME free' # End PROVE 1 \in 1..Len(order') /\ free' = order'[1] /\ order'[1] \in Seqs
    BY <2>1, <2>2, <1>1, <1>2, <1>5 DEF Linked
  <2>3. free' # End => isFree'[free']
    BY <2>2, <1>6 DEF OnList
  <2>4. free' # End /\ free' = freeTail' => next'[free'] = End
    BY <2>2, <1>5, <1>2 DEF Linked
  <2> QED BY <2>3, <2>4
<1>10. AssertsHold'
  BY <1>8, <1>9 DEF AssertsHold
<1>11. NumberUnique'
  BY <1>0, <1>1 DEF Get, SeqTypeOK, AssertsHold, NumberUnique
<1> QED BY <1>4, <1>5, <1>6, <1>7, <1>10, <1>11 DEF SeqInv

\* del appends the number to the list.
LEMMA DelInv ==
  ASSUME SeqInv, NEW t \in Threads, Del(t)
  PROVE  SeqInv'
<1> USE NumAssumption
<1>0. SeqTypeOK /\ Linked /\ OnList /\ Taken /\ AssertsHold /\ NumberUnique
  BY DEF SeqInv
<1> DEFINE s == seq[t]
<1>1. /\ s \in Seqs /\ s # End /\ ~isFree[s] /\ order \in Seq(Seqs) /\ Len(order) \in Nat
      /\ End \notin Seqs
  BY <1>0 DEF Del, SeqTypeOK, AssertsHold, Seqs
<1>2. /\ order' = Append(order, s) /\ order' \in Seq(Seqs) /\ Len(order') = Len(order) + 1
      /\ \A i \in 1..Len(order) : order'[i] = order[i]
      /\ order'[Len(order) + 1] = s
  BY <1>1 DEF Del
<1>3. \A k \in 1..Len(order) : order[k] \in Seqs /\ order[k] # s
  BY <1>0, <1>1 DEF OnList
<1>4. freeTail = End <=> order = <<>>
  BY <1>0, <1>1, <1>3 DEF Linked
<1>5. SeqTypeOK'
  <2>1. next' \in [Seqs -> Seqs \cup {End}]
    BY <1>0, <1>1 DEF Del, SeqTypeOK
  <2>2. isFree' \in [Seqs -> BOOLEAN] /\ seq' \in [Threads -> Seqs \cup {End}]
    BY <1>0, <1>1 DEF Del, SeqTypeOK
  <2>3. free' \in Seqs \cup {End} /\ freeTail' \in Seqs \cup {End}
    BY <1>0, <1>1 DEF Del, SeqTypeOK
  <2> QED BY <2>1, <2>2, <2>3, <1>2 DEF SeqTypeOK
<1>6. next'[s] = End
  <2>1. CASE freeTail = End
    BY <2>1, <1>0, <1>1 DEF Del, SeqTypeOK
  <2>2. CASE freeTail # End
    <3>1. freeTail # s /\ freeTail \in Seqs
      BY <2>2, <1>0, <1>1, <1>3, <1>4 DEF Linked
    <3> QED BY <3>1, <2>2, <1>0, <1>1 DEF Del, SeqTypeOK
  <2> QED BY <2>1, <2>2
<1>7. Linked'
  <2>1. CASE order = <<>>
    <3>1. Len(order') = 1 /\ order'[1] = s /\ order' # <<>>
      BY <2>1, <1>2
    <3>2. free' = s /\ freeTail' = s
      BY <2>1, <1>4 DEF Del
    <3> QED BY <3>1, <3>2, <1>6 DEF Linked
  <2>2. CASE order # <<>>
    <3>1. Len(order) \in Nat \ {0} /\ order' # <<>> /\ freeTail # End /\ freeTail = order[Len(order)]
      BY <2>2, <1>0, <1>1, <1>2, <1>4 DEF Linked
    <3>2. free' = order'[1] /\ freeTail' = order'[Len(order')]
      BY <2>2, <3>1, <1>0, <1>2 DEF Del, Linked
    <3>3. next'[order'[Len(order')]] = End
      BY <1>2, <1>6
    <3>4. ASSUME NEW i \in 1..(Len(order') - 1) PROVE next'[order'[i]] = order'[i + 1]
      <4>1. CASE i = Len(order)
        <5>1. order'[i] = freeTail /\ order'[i + 1] = s
          BY <4>1, <3>1, <1>2
        <5>2. next'[freeTail] = s
          BY <3>1, <1>0, <1>1, <1>3 DEF Del, SeqTypeOK
        <5> QED BY <5>1, <5>2
      <4>2. CASE i # Len(order)
        <5>1. i \in 1..(Len(order) - 1) /\ i \in 1..Len(order) /\ i + 1 \in 1..Len(order)
          BY <4>2, <1>1, <1>2
        <5>2. order'[i] = order[i] /\ order'[i + 1] = order[i + 1]
          BY <5>1, <1>2
        <5>3. order[i] # s /\ order[i] # freeTail /\ order[i] \in Seqs
          BY <5>1, <4>2, <3>1, <1>0, <1>3 DEF OnList
        <5>4. next'[order[i]] = next[order[i]]
          BY <5>3, <1>0, <1>1 DEF Del, SeqTypeOK
        <5> QED BY <5>1, <5>2, <5>4, <1>0 DEF Linked
      <4> QED BY <4>1, <4>2
    <3> QED BY <3>1, <3>2, <3>3, <3>4 DEF Linked
  <2> QED BY <2>1, <2>2
<1>8. OnList'
  <2>1. \A i, j \in 1..Len(order') : order'[i] = order'[j] => i = j
    BY <1>0, <1>1, <1>2, <1>3 DEF OnList
  <2>2. ASSUME NEW i \in Seqs PROVE isFree'[i] <=> \E k \in 1..Len(order') : order'[k] = i
    <3>1. CASE i = s
      <4>1. isFree'[i]
        BY <3>1, <1>0, <1>1 DEF Del, SeqTypeOK
      <4>2. Len(order) + 1 \in 1..Len(order') /\ order'[Len(order) + 1] = i
        BY <3>1, <1>1, <1>2
      <4> QED BY <4>1, <4>2
    <3>2. CASE i # s
      <4>1. isFree'[i] = isFree[i]
        BY <3>2, <1>0, <1>1 DEF Del, SeqTypeOK
      <4>2. (\E k \in 1..Len(order) : order[k] = i) <=> \E k \in 1..Len(order') : order'[k] = i
        BY <3>2, <1>1, <1>2
      <4> QED BY <4>1, <4>2, <1>0 DEF OnList
    <3> QED BY <3>1, <3>2
  <2> QED BY <2>1, <2>2 DEF OnList
<1>9. Taken'
  <2> SUFFICES ASSUME NEW i \in Seqs, ~isFree'[i] PROVE \E u \in Threads : seq'[u] = i
    BY DEF Taken
  <2>1. i # s /\ ~isFree[i]
    BY <1>0, <1>1 DEF Del, SeqTypeOK
  <2>2. PICK u \in Threads : seq[u] = i
    BY <2>1, <1>0 DEF Taken
  <2> QED BY <2>1, <2>2, <1>0 DEF Del, SeqTypeOK
<1>10. \A u \in Threads : seq'[u] # End => ~isFree'[seq'[u]]
  <2> SUFFICES ASSUME NEW u \in Threads, seq'[u] # End PROVE ~isFree'[seq'[u]]
    OBVIOUS
  <2>1. u # t /\ seq'[u] = seq[u]
    BY <1>0 DEF Del, SeqTypeOK
  <2>2. seq[u] # s /\ ~isFree[seq[u]] /\ seq[u] \in Seqs
    BY <2>1, <1>0, <1>1 DEF NumberUnique, AssertsHold, SeqTypeOK
  <2> QED BY <2>1, <2>2, <1>0 DEF Del, SeqTypeOK
<1>11. free' # End => isFree'[free'] /\ (free' = freeTail' => next'[free'] = End)
  <2>1. 1 \in 1..Len(order') /\ order'[1] \in Seqs /\ free' = order'[1]
    BY <1>1, <1>2, <1>7 DEF Linked
  <2>2. isFree'[free']
    BY <2>1, <1>8 DEF OnList
  <2>3. free' = freeTail' => next'[free'] = End
    BY <1>6 DEF Del
  <2> QED BY <2>2, <2>3
<1>12. AssertsHold'
  BY <1>10, <1>11 DEF AssertsHold
<1>13. NumberUnique'
  BY <1>0 DEF Del, SeqTypeOK, NumberUnique
<1> QED BY <1>5, <1>7, <1>8, <1>9, <1>12, <1>13 DEF SeqInv

\* The list of SeqManager stays well formed whatever threads take and return
\* numbers: the inductive invariant.
THEOREM SeqInvariant == SeqSpec => []SeqInv
<1>1. ASSUME SeqInv, [SeqNext]_seqVars PROVE SeqInv'
  <2>1. CASE SeqNext
    BY <2>1, <1>1, GetInv, DelInv DEF SeqNext
  <2>2. CASE UNCHANGED seqVars
    BY <2>2, <1>1 DEF SeqInv, SeqTypeOK, Linked, OnList, Taken, AssertsHold, NumberUnique, seqVars
  <2> QED BY <1>1, <2>1, <2>2
<1> QED BY <1>1, SeqInitInv, PTL DEF SeqSpec

\* No two threads are ever given the same number.
THEOREM UniqueNumbers == SeqSpec => []NumberUnique
<1>1. SeqInv => NumberUnique
  BY DEF SeqInv
<1> QED BY <1>1, SeqInvariant, PTL

\* The asserts of get (on a non-empty list) and of del never fail.
THEOREM NoAssertFails == SeqSpec => []AssertsHold
<1>1. SeqInv => AssertsHold
  BY DEF SeqInv
<1> QED BY <1>1, SeqInvariant, PTL

\* get finds the list empty only when all numbers are held.
THEOREM NoNumberLost == SeqSpec => []NumberKept
<1>1. SeqInv => NumberKept
  <2> SUFFICES ASSUME SeqInv PROVE NumberKept
    OBVIOUS
  <2>1. \A i \in Seqs : isFree[i] \/ \E t \in Threads : seq[t] = i
    BY DEF SeqInv, Taken
  <2>2. free = End => Len(order) = 0
    <3>1. order \in Seq(Seqs) /\ End \notin Seqs
      BY NumAssumption DEF SeqInv, SeqTypeOK, Seqs
    <3>2. order # <<>> => Len(order) \in Nat \ {0} /\ order[1] \in Seqs
      BY <3>1
    <3> QED BY <3>1, <3>2 DEF SeqInv, Linked
  <2>3. free = End => \A i \in Seqs : ~isFree[i]
    BY <2>2 DEF SeqInv, OnList
  <2> QED BY <2>1, <2>3 DEF NumberKept
<1> QED BY <1>1, SeqInvariant, PTL

-----------------------------------------------------------------------------
(* The slots. *)

\* A thread holds a number from its first use to the end of its exit.
Numbered == \A t \in Threads : pc[t] \in {"new", "dead"} <=> seq[t] = End

\* What the slot of a number holds, by where the owner of the number is.
Owners ==
    \A t \in Threads :
        /\ pc[t] \in {"new", "bind"} => fd[t].msgQueue = None
        /\ pc[t] = "bind" => slot[seq[t]] = None
        /\ pc[t] \in {"ready", "notify"} => slot[seq[t]] = t
        /\ pc[t] = "quit" /\ slot[seq[t]] = t => seq[t] \in Pending

\* A descriptor in the table serves the thread that created it, stands in one slot
\* only, and outlives its owner there only while the exit is posted.
Slotted ==
    /\ \A i \in Seqs : slot[i] # None =>
          /\ fd[slot[i]].msgQueue = slot[i] /\ ~fd[slot[i]].autoDestroy
          /\ IF pc[slot[i]] = "dead" THEN i \in Pending ELSE seq[slot[i]] = i
    /\ \A i, j \in Seqs : slot[i] = slot[j] /\ slot[i] # None => i = j

\* An exit is posted once, by a thread whose descriptor is still in the slot.
Posted ==
    /\ \A i, j \in DOMAIN quits : quits[i] = quits[j] => i = j
    /\ \A i \in Pending : slot[i] # None /\ pc[slot[i]] \in {"quit", "dead"}

\* A descriptor serves its creator until it is destroyed; out of the table it is
\* signalled, being served, or left by an exception.
Serving ==
    /\ net.at = "idle" <=> net.fd = None
    /\ \A f \in Threads :
          /\ fd[f].msgQueue \in {None, f}
          /\ fd[f].armed \/ net.fd = f => fd[f].msgQueue = f
          /\ fd[f].autoDestroy => pc[f] \in {"quit", "dead"}
          /\ fd[f].msgQueue = f => IF fd[f].autoDestroy THEN fd[f].armed \/ fd[f].threw \/ net.fd = f
                                   ELSE \E i \in Seqs : slot[i] = f

\* Requests wait only where a signal has been or is about to be given, or an
\* exception ended the last drain.
Waiting ==
    \A t \in Threads :
        /\ queue[t] <= made[t]
        /\ queue[t] > 0 => /\ fd[t].msgQueue = t
                           /\ \/ pc[t] = "notify" \/ fd[t].armed \/ fd[t].threw
                              \/ net.fd = t /\ net.at = "drain"

SlotInv == SeqInv /\ SlotTypeOK /\ Numbered /\ Owners /\ Slotted /\ Posted /\ Serving /\ Waiting

-----------------------------------------------------------------------------
\* Before any thread has made a call the table is empty.
LEMMA SlotInitInv == Init => SlotInv
<1> SUFFICES ASSUME Init PROVE SlotInv
  OBVIOUS
<1> USE SlotAssumption, NumAssumption DEF Init
<1>1. SeqInv
  BY SeqInitInv
<1>2. SlotTypeOK
  BY DEF SlotTypeOK, Idle, NoFd
<1>3. Pending = {} /\ DOMAIN quits = {}
  BY DEF Pending
<1>4. Numbered /\ Owners
  BY <1>3 DEF Numbered, Owners, SeqInit, NoFd
<1>5. Slotted /\ Posted
  BY <1>3 DEF Slotted, Posted
<1>6. Serving /\ Waiting
  BY DEF Serving, Waiting, Idle, NoFd
<1> QED BY <1>1, <1>2, <1>4, <1>5, <1>6 DEF SlotInv

\* The list of numbers changes only where a thread takes or returns its number.
LEMMA SeqUnchanged == ASSUME SeqInv, UNCHANGED seqVars PROVE SeqInv'
BY DEF SeqInv, SeqTypeOK, Linked, OnList, Taken, AssertsHold, NumberUnique, seqVars

FDInfos == [msgQueue : Threads \cup {None}, autoDestroy : BOOLEAN, armed : BOOLEAN,
            threw : BOOLEAN]

Signalled(F, f) == [F EXCEPT ![f].armed = TRUE]
Unsignalled(F, f) == [F EXCEPT ![f].armed = FALSE, ![f].threw = FALSE]
Thrown(F, f) == [F EXCEPT ![f].threw = TRUE]
Released(F, f) == [F EXCEPT ![f].autoDestroy = TRUE, ![f].armed = TRUE]

\* Signalling a descriptor changes nothing else in the table of descriptors.
LEMMA Signal ==
  ASSUME NEW F \in [Threads -> FDInfos], NEW f \in Threads
  PROVE  /\ Signalled(F, f) \in [Threads -> FDInfos] /\ Signalled(F, f)[f].armed /\ Signalled(F, f)[f].threw = F[f].threw
         /\ \A h \in Threads : /\ Signalled(F, f)[h].msgQueue = F[h].msgQueue
                               /\ Signalled(F, f)[h].autoDestroy = F[h].autoDestroy
                               /\ h # f => Signalled(F, f)[h] = F[h]
<1> DEFINE G == Signalled(F, f)
           r == [F[f] EXCEPT !.armed = TRUE]
<1>1. F[f] \in FDInfos
  OBVIOUS
<1>2. G = [F EXCEPT ![f] = r]
  BY DEF Signalled
<1> HIDE DEF G
<1>3. r \in FDInfos
  BY <1>1 DEF FDInfos
<1>4. G[f] = r /\ \A h \in Threads : h # f => G[h] = F[h]
  BY <1>2
<1>5. G[f].armed /\ G[f].threw = F[f].threw /\ G[f].msgQueue = F[f].msgQueue /\ G[f].autoDestroy = F[f].autoDestroy
  BY <1>1, <1>4 DEF FDInfos
<1>6. G \in [Threads -> FDInfos]
  BY <1>2, <1>3
<1>7. /\ G \in [Threads -> FDInfos] /\ G[f].armed /\ G[f].threw = F[f].threw
      /\ \A h \in Threads : /\ G[h].msgQueue = F[h].msgQueue
                            /\ G[h].autoDestroy = F[h].autoDestroy
                            /\ h # f => G[h] = F[h]
  BY <1>4, <1>5, <1>6
<1> QED BY <1>7 DEF G

\* Neither does taking the signal of a descriptor.
LEMMA TakeSignal ==
  ASSUME NEW F \in [Threads -> FDInfos], NEW f \in Threads
  PROVE  /\ Unsignalled(F, f) \in [Threads -> FDInfos] /\ ~Unsignalled(F, f)[f].armed
         /\ \A h \in Threads : /\ Unsignalled(F, f)[h].msgQueue = F[h].msgQueue
                               /\ Unsignalled(F, f)[h].autoDestroy = F[h].autoDestroy
                               /\ h # f => Unsignalled(F, f)[h] = F[h]
<1> DEFINE G == Unsignalled(F, f)
           r == [F[f] EXCEPT !.armed = FALSE, !.threw = FALSE]
<1>1. F[f] \in FDInfos
  OBVIOUS
<1>2. G = [F EXCEPT ![f] = r]
  BY DEF Unsignalled
<1> HIDE DEF G
<1>3. r \in FDInfos
  BY <1>1 DEF FDInfos
<1>4. G[f] = r /\ \A h \in Threads : h # f => G[h] = F[h]
  BY <1>2
<1>5. ~G[f].armed /\ G[f].msgQueue = F[f].msgQueue /\ G[f].autoDestroy = F[f].autoDestroy
  BY <1>1, <1>4 DEF FDInfos
<1>6. G \in [Threads -> FDInfos]
  BY <1>2, <1>3
<1>7. /\ G \in [Threads -> FDInfos] /\ ~G[f].armed
      /\ \A h \in Threads : /\ G[h].msgQueue = F[h].msgQueue
                            /\ G[h].autoDestroy = F[h].autoDestroy
                            /\ h # f => G[h] = F[h]
  BY <1>4, <1>5, <1>6
<1> QED BY <1>7 DEF G

\* Nor an exception that ends the drain of its queue.
LEMMA Throw ==
  ASSUME NEW F \in [Threads -> FDInfos], NEW f \in Threads
  PROVE  /\ Thrown(F, f) \in [Threads -> FDInfos] /\ Thrown(F, f)[f].threw /\ Thrown(F, f)[f].armed = F[f].armed
         /\ \A h \in Threads : /\ Thrown(F, f)[h].msgQueue = F[h].msgQueue
                               /\ Thrown(F, f)[h].autoDestroy = F[h].autoDestroy
                               /\ h # f => Thrown(F, f)[h] = F[h]
<1> DEFINE G == Thrown(F, f)
           r == [F[f] EXCEPT !.threw = TRUE]
<1>1. F[f] \in FDInfos
  OBVIOUS
<1>2. G = [F EXCEPT ![f] = r]
  BY DEF Thrown
<1> HIDE DEF G
<1>3. r \in FDInfos
  BY <1>1 DEF FDInfos
<1>4. G[f] = r /\ \A h \in Threads : h # f => G[h] = F[h]
  BY <1>2
<1>5. G[f].threw /\ G[f].armed = F[f].armed /\ G[f].msgQueue = F[f].msgQueue /\ G[f].autoDestroy = F[f].autoDestroy
  BY <1>1, <1>4 DEF FDInfos
<1>6. G \in [Threads -> FDInfos]
  BY <1>2, <1>3
<1>7. /\ G \in [Threads -> FDInfos] /\ G[f].threw /\ G[f].armed = F[f].armed
      /\ \A h \in Threads : /\ G[h].msgQueue = F[h].msgQueue
                            /\ G[h].autoDestroy = F[h].autoDestroy
                            /\ h # f => G[h] = F[h]
  BY <1>4, <1>5, <1>6
<1> QED BY <1>7 DEF G

\* Releasing a descriptor marks and signals it and leaves the others alone.
LEMMA Release ==
  ASSUME NEW F \in [Threads -> FDInfos], NEW f \in Threads
  PROVE  /\ Released(F, f) \in [Threads -> FDInfos]
         /\ Released(F, f)[f].autoDestroy /\ Released(F, f)[f].armed
         /\ Released(F, f)[f].msgQueue = F[f].msgQueue
         /\ \A h \in Threads : h # f => Released(F, f)[h] = F[h]
<1> DEFINE G == Released(F, f)
           H == [F EXCEPT ![f].autoDestroy = TRUE]
<1>1. F[f] \in FDInfos
  OBVIOUS
<1>2. /\ H \in [Threads -> FDInfos] /\ H[f].autoDestroy /\ H[f].msgQueue = F[f].msgQueue
      /\ \A h \in Threads : h # f => H[h] = F[h]
  <2>1. H = [F EXCEPT ![f] = [F[f] EXCEPT !.autoDestroy = TRUE]]
    OBVIOUS
  <2>2. [F[f] EXCEPT !.autoDestroy = TRUE] \in FDInfos
    BY <1>1 DEF FDInfos
  <2>3. H[f] = [F[f] EXCEPT !.autoDestroy = TRUE] /\ \A h \in Threads : h # f => H[h] = F[h]
    BY <2>1
  <2> QED BY <1>1, <2>1, <2>2, <2>3 DEF FDInfos
<1>3. G = Signalled(H, f)
  BY DEF Signalled, Released
<1>4. \A h \in Threads : h # f => G[h] = H[h]
  BY <1>2, <1>3 DEF Signalled
<1> HIDE DEF H, G
<1>5. /\ G \in [Threads -> FDInfos] /\ G[f].armed
      /\ G[f].msgQueue = H[f].msgQueue /\ G[f].autoDestroy = H[f].autoDestroy
  BY <1>2, <1>3, Signal
<1>6. /\ G \in [Threads -> FDInfos] /\ G[f].autoDestroy /\ G[f].armed
      /\ G[f].msgQueue = F[f].msgQueue /\ \A h \in Threads : h # f => G[h] = F[h]
  BY <1>2, <1>4, <1>5
<1> QED BY <1>6 DEF G

\* Binding, calling and leaving as far as the calling thread goes.
LEMMA ThreadStepInv ==
  ASSUME ~NetLags, SlotInv, NEW t \in Threads, ThreadStep(t)
  PROVE  SlotInv'
<1> USE SlotAssumption, NumAssumption
<1>0. SeqInv /\ SlotTypeOK /\ Numbered /\ Owners /\ Slotted /\ Posted /\ Serving /\ Waiting
  BY DEF SlotInv
<1>a. seq \in [Threads -> Seqs \cup {End}] /\ End \notin Seqs /\ NumberUnique
  BY <1>0 DEF SeqInv, SeqTypeOK, Seqs
<1>b. fd \in [Threads -> FDInfos]
  BY <1>0 DEF SlotTypeOK, FDInfos
<1>1. CASE Start(t)
  <2>1. SeqInv'
    BY <1>1, <1>0, GetInv DEF Start
  <2>2. free \in Seqs /\ free \notin Pending /\ isFree[free] /\ Pending' = Pending
    BY <1>1, <1>0 DEF Start, Get, SeqInv, SeqTypeOK, AssertsHold, Pending
  <2>3. \A u \in Threads : seq[u] # free
    BY <2>2, <1>0, <1>a DEF SeqInv, AssertsHold
  <2>4. slot[free] = None
    BY <2>2, <2>3, <1>0 DEF Slotted, SlotTypeOK
  <2>5. seq' = [seq EXCEPT ![t] = free] /\ pc' = [pc EXCEPT ![t] = "bind"] /\ pc[t] = "new"
    BY <1>1 DEF Start, Get
  <2>6. SlotTypeOK'
    BY <1>1, <1>0, <2>5 DEF Start, SlotTypeOK
  <2>7. Numbered'
    BY <1>0, <1>a, <2>2, <2>5 DEF Numbered, SlotTypeOK
  <2>8. Owners'
    BY <1>1, <1>0, <1>a, <2>2, <2>4, <2>5 DEF Start, Owners, SlotTypeOK
  <2>9. \A i \in Seqs : slot[i] # t
    BY <2>5, <1>0 DEF Owners, Slotted
  <2>10. Slotted'
    BY <1>1, <1>0, <1>a, <2>2, <2>5, <2>9 DEF Start, Slotted, SlotTypeOK
  <2>11. Posted'
    BY <1>1, <1>0, <2>2, <2>5 DEF Start, Posted, SlotTypeOK
  <2>12. Serving'
    BY <1>1, <1>0, <2>5 DEF Start, Serving, SlotTypeOK
  <2>13. Waiting'
    BY <1>1, <1>0, <2>5 DEF Start, Waiting, SlotTypeOK
  <2> QED BY <2>1, <2>6, <2>7, <2>8, <2>10, <2>11, <2>12, <2>13 DEF SlotInv
<1>2. CASE Bind(t)
  <2> DEFINE s == seq[t]
  <2>1. SeqInv' /\ seq' = seq /\ Pending' = Pending /\ quits' = quits
    BY <1>2, <1>0, SeqUnchanged DEF Bind, seqVars, Pending
  <2>2. s \in Seqs /\ slot[s] = None /\ pc[t] = "bind" /\ fd[t].msgQueue = None
    BY <1>2, <1>0, <1>a DEF Bind, Owners, Numbered
  <2>3. /\ slot' = [slot EXCEPT ![s] = t] /\ pc' = [pc EXCEPT ![t] = "ready"]
        /\ fd' = [fd EXCEPT ![t] = [msgQueue |-> t, autoDestroy |-> FALSE, armed |-> TRUE, threw |-> FALSE]]
        /\ UNCHANGED <<made, queue, net>>
    BY <1>2, <2>2 DEF Bind, NoFd
  <2>4. \A i \in Seqs : slot[i] # t
    BY <2>2, <1>0 DEF Slotted
  <2>5. s \notin Pending
    BY <2>2, <1>0 DEF Posted
  <2>6. \A u \in Threads : u # t /\ seq[u] = s => FALSE
    BY <2>2, <1>a DEF NumberUnique
  <2>7. SlotTypeOK'
    BY <1>0, <2>1, <2>2, <2>3 DEF SlotTypeOK
  <2>8. Numbered'
    BY <1>0, <1>a, <2>1, <2>2, <2>3 DEF Numbered, SlotTypeOK
  <2>9. Owners'
    BY <1>0, <1>a, <2>1, <2>2, <2>3, <2>6 DEF Owners, SlotTypeOK, Numbered
  <2>10. Slotted'
    BY <1>0, <1>a, <2>1, <2>2, <2>3, <2>4 DEF Slotted, SlotTypeOK
  <2>11. Posted'
    BY <1>0, <2>1, <2>2, <2>3, <2>5 DEF Posted, SlotTypeOK
  <2>12. Serving'
    BY <1>0, <2>1, <2>2, <2>3 DEF Serving, SlotTypeOK
  <2>13. Waiting'
    BY <1>0, <2>1, <2>2, <2>3 DEF Waiting, SlotTypeOK
  <2> QED BY <2>1, <2>7, <2>8, <2>9, <2>10, <2>11, <2>12, <2>13 DEF SlotInv
<1>3. CASE Push(t)
  <2>1. SeqInv' /\ seq' = seq /\ Pending' = Pending /\ UNCHANGED <<slot, fd, quits, net>>
    BY <1>3, <1>0, SeqUnchanged DEF Push, seqVars, Pending
  <2>2. /\ pc[t] = "ready" /\ pc' = [pc EXCEPT ![t] = "notify"] /\ made[t] < MaxRequests
        /\ made' = [made EXCEPT ![t] = @ + 1] /\ queue' = [queue EXCEPT ![t] = @ + 1]
    BY <1>3 DEF Push
  <2>3. slot[seq[t]] = t /\ seq[t] \in Seqs /\ fd[t].msgQueue = t
    BY <2>2, <1>0, <1>a DEF Owners, Numbered, Slotted
  <2>4. made'[t] = made[t] + 1 /\ queue'[t] = queue[t] + 1 /\ queue[t] <= made[t]
    BY <2>2, <1>0 DEF SlotTypeOK, Waiting
  <2>5. SlotTypeOK'
    BY <1>0, <2>1, <2>2, <2>4 DEF SlotTypeOK
  <2>6. Numbered' /\ Owners'
    BY <1>0, <1>a, <2>1, <2>2, <2>3 DEF Numbered, Owners, SlotTypeOK
  <2>7. Slotted'
    BY <1>0, <2>1, <2>2 DEF Slotted, SlotTypeOK
  <2>8. Posted'
    BY <1>0, <2>1, <2>2 DEF Posted, SlotTypeOK
  <2>9. Serving'
    BY <1>0, <2>1, <2>2 DEF Serving, SlotTypeOK
  <2>10. Waiting'
    BY <1>0, <2>1, <2>2, <2>3, <2>4 DEF Waiting, SlotTypeOK
  <2> QED BY <2>1, <2>5, <2>6, <2>7, <2>8, <2>9, <2>10 DEF SlotInv
<1>4. CASE Notify(t)
  <2>1. SeqInv' /\ seq' = seq /\ Pending' = Pending /\ UNCHANGED <<made, queue, slot, quits, net>>
    BY <1>4, <1>0, SeqUnchanged DEF Notify, seqVars, Pending
  <2>2. slot[seq[t]] = t /\ seq[t] \in Seqs /\ fd[t].msgQueue = t /\ pc[t] = "notify"
    BY <1>4, <1>0, <1>a DEF Notify, Owners, Numbered, Slotted
  <2>3. pc' = [pc EXCEPT ![t] = "ready"] /\ fd' = Signalled(fd, t)
    BY <1>4, <2>2 DEF Notify, Signalled
  <2>4. \A f \in Threads : /\ fd'[f].msgQueue = fd[f].msgQueue
                           /\ fd'[f].autoDestroy = fd[f].autoDestroy
                           /\ fd'[f].threw = fd[f].threw
                           /\ f # t => fd'[f].armed = fd[f].armed
    BY <2>3, <1>b, Signal
  <2>5. fd' \in [Threads -> FDInfos] /\ fd'[t].armed
    BY <2>3, <1>b, Signal
  <2>11. SlotTypeOK'
    BY <1>0, <2>1, <2>3, <2>5 DEF SlotTypeOK, FDInfos
  <2>6. Numbered' /\ Owners'
    BY <1>0, <1>a, <2>1, <2>2, <2>3, <2>4 DEF Numbered, Owners, SlotTypeOK
  <2>7. Slotted'
    BY <1>0, <2>1, <2>2, <2>3, <2>4 DEF Slotted, SlotTypeOK
  <2>8. Posted'
    BY <1>0, <2>1, <2>2, <2>3 DEF Posted, SlotTypeOK
  <2>9. Serving'
    BY <1>0, <2>1, <2>2, <2>3, <2>4 DEF Serving, SlotTypeOK
  <2>10. Waiting'
    BY <1>0, <2>1, <2>3, <2>4, <2>5 DEF Waiting, SlotTypeOK
  <2> QED BY <2>1, <2>6, <2>7, <2>8, <2>9, <2>10, <2>11 DEF SlotInv
<1>5. CASE PostQuit(t)
  <2>1. SeqInv' /\ seq' = seq /\ UNCHANGED <<made, queue, slot, fd, net>>
    BY <1>5, <1>0, SeqUnchanged DEF PostQuit, seqVars
  <2>2. /\ pc[t] = "ready" /\ pc' = [pc EXCEPT ![t] = "quit"] /\ quits' = Append(quits, seq[t])
        /\ slot[seq[t]] = t /\ seq[t] \in Seqs
    BY <1>5, <1>0, <1>a DEF PostQuit, Owners, Numbered
  <2>3. seq[t] \notin Pending
    BY <2>2, <1>0 DEF Posted
  <2>4. /\ quits \in Seq(Seqs) /\ DOMAIN quits = 1..Len(quits) /\ Len(quits) \in Nat
        /\ quits' \in Seq(Seqs) /\ DOMAIN quits' = 1..(Len(quits) + 1)
        /\ \A i \in 1..Len(quits) : quits'[i] = quits[i]
        /\ quits'[Len(quits) + 1] = seq[t]
    BY <2>2, <1>0 DEF SlotTypeOK
  <2>5. Pending' = Pending \cup {seq[t]}
    BY <2>4 DEF Pending
  <2>6. \A i, j \in DOMAIN quits' : quits'[i] = quits'[j] => i = j
    BY <2>3, <2>4, <1>0 DEF Pending, Posted
  <2>7. SlotTypeOK'
    BY <1>0, <2>1, <2>2, <2>4 DEF SlotTypeOK
  <2>8. Numbered' /\ Owners'
    BY <1>0, <1>a, <2>1, <2>2, <2>5 DEF Numbered, Owners, SlotTypeOK
  <2>9. Slotted'
    BY <1>0, <2>1, <2>2, <2>5 DEF Slotted, SlotTypeOK
  <2>10. Posted'
    BY <1>0, <2>1, <2>2, <2>5, <2>6 DEF Posted, SlotTypeOK
  <2>11. Serving'
    BY <1>0, <2>1, <2>2 DEF Serving, SlotTypeOK
  <2>12. Waiting'
    BY <1>0, <2>1, <2>2 DEF Waiting, SlotTypeOK
  <2> QED BY <2>1, <2>7, <2>8, <2>9, <2>10, <2>11, <2>12 DEF SlotInv
<1>6. CASE ReturnNumber(t)
  <2>1. SeqInv' /\ Pending' = Pending /\ UNCHANGED <<made, queue, slot, fd, quits, net>>
    BY <1>6, <1>0, DelInv DEF ReturnNumber, Pending
  <2>2. /\ pc[t] \in {"bind", "quit"} /\ pc' = [pc EXCEPT ![t] = "dead"]
        /\ seq' = [seq EXCEPT ![t] = End]
    BY <1>6 DEF ReturnNumber, Del
  <2>3. SlotTypeOK'
    BY <1>0, <2>1, <2>2 DEF SlotTypeOK
  <2>4. Numbered' /\ Owners'
    BY <1>0, <1>a, <2>1, <2>2 DEF Numbered, Owners, SlotTypeOK
  <2>5. \A i \in Seqs : slot[i] = t => i \in Pending
    BY <1>0, <1>a, <2>2 DEF Slotted, Owners
  <2>6. Slotted'
    BY <1>0, <1>a, <2>1, <2>2, <2>5 DEF Slotted, SlotTypeOK
  <2>7. Posted'
    BY <1>0, <2>1, <2>2 DEF Posted, SlotTypeOK
  <2>8. Serving'
    BY <1>0, <2>1, <2>2 DEF Serving, SlotTypeOK
  <2>9. Waiting'
    BY <1>0, <2>1, <2>2 DEF Waiting, SlotTypeOK
  <2> QED BY <2>1, <2>3, <2>4, <2>6, <2>7, <2>8, <2>9 DEF SlotInv
<1> QED BY <1>1, <1>2, <1>3, <1>4, <1>5, <1>6 DEF ThreadStep

\* The network thread handles a posted exit, or serves one descriptor.
LEMMA NetStepInv ==
  ASSUME SlotInv, NetStep
  PROVE  SlotInv'
<1> USE SlotAssumption, NumAssumption
<1>0. SeqInv /\ SlotTypeOK /\ Numbered /\ Owners /\ Slotted /\ Posted /\ Serving /\ Waiting
  BY DEF SlotInv
<1>a. seq \in [Threads -> Seqs \cup {End}] /\ End \notin Seqs /\ NumberUnique
  BY <1>0 DEF SeqInv, SeqTypeOK, Seqs
<1>b. SeqInv' /\ seq' = seq /\ UNCHANGED <<pc, made>>
  <2>1. UNCHANGED seqVars /\ UNCHANGED <<pc, made>>
    BY DEF NetStep, HandleQuit, Wake, PopRequest, QueueDrained, CheckDestroy
  <2> QED BY <2>1, <1>0, SeqUnchanged DEF seqVars
<1>c. fd \in [Threads -> FDInfos]
  BY <1>0 DEF SlotTypeOK, FDInfos
<1>d. Numbered'
  BY <1>0, <1>b DEF Numbered
<1>1. CASE HandleQuit
  <2> DEFINE s == Head(quits)
             f == slot[s]
  <2>1. /\ quits \in Seq(Seqs) /\ quits # <<>> /\ Len(quits) \in Nat \ {0} /\ s = quits[1]
        /\ DOMAIN quits = 1..Len(quits) /\ quits' = Tail(quits) /\ quits' \in Seq(Seqs)
        /\ DOMAIN quits' = 1..(Len(quits) - 1)
        /\ \A i \in 1..(Len(quits) - 1) : quits'[i] = quits[i + 1]
    BY <1>1, <1>0 DEF HandleQuit, SlotTypeOK
  <2>2. s \in Pending /\ s \in Seqs
    BY <2>1 DEF Pending
  <2>3. Pending' = Pending \ {s}
    <3>1. \A i \in DOMAIN quits' : quits'[i] \in Pending /\ quits'[i] # s
      BY <2>1, <1>0 DEF Pending, Posted
    <3>2. ASSUME NEW x \in Pending, x # s PROVE x \in Pending'
      <4>1. PICK i \in DOMAIN quits : quits[i] = x
        BY <3>2 DEF Pending
      <4>2. i - 1 \in DOMAIN quits' /\ quits'[i - 1] = x
        BY <4>1, <3>2, <2>1
      <4> QED BY <4>2 DEF Pending
    <3> QED BY <3>1, <3>2 DEF Pending
  <2>4. f \in Threads /\ f # None /\ pc[f] \in {"quit", "dead"} /\ fd[f].msgQueue = f
    BY <2>2, <1>0 DEF Posted, Slotted, SlotTypeOK
  <2>5. /\ slot' = [slot EXCEPT ![s] = None] /\ net' = net /\ net = Idle /\ queue' = queue
        /\ fd' = Released(fd, f)
    BY <1>1, <2>4 DEF HandleQuit, Released
  <2>6. /\ fd' \in [Threads -> FDInfos] /\ fd'[f].autoDestroy /\ fd'[f].armed
        /\ fd'[f].msgQueue = f /\ \A h \in Threads : h # f => fd'[h] = fd[h]
    BY <2>4, <2>5, <1>c, Release
  <2>7. \A i \in Seqs : i # s => slot'[i] = slot[i] /\ slot[i] # f
    BY <2>2, <2>4, <2>5, <1>0 DEF Slotted, SlotTypeOK
  <2>8. slot'[s] = None
    BY <2>2, <2>5, <1>0 DEF SlotTypeOK
  <2>9. SlotTypeOK'
    BY <1>0, <1>b, <2>1, <2>2, <2>5, <2>6 DEF SlotTypeOK, FDInfos
  <2>10. Owners'
    <3> SUFFICES ASSUME NEW u \in Threads
                 PROVE  /\ pc[u] \in {"new", "bind"} => fd'[u].msgQueue = None
                        /\ pc[u] = "bind" => slot'[seq[u]] = None
                        /\ pc[u] \in {"ready", "notify"} => slot'[seq[u]] = u
                        /\ pc[u] = "quit" /\ slot'[seq[u]] = u => seq[u] \in Pending'
      BY <1>b DEF Owners
    <3>1. pc[u] \in {"bind", "ready", "notify", "quit"} => seq[u] \in Seqs
      BY <1>0, <1>a DEF Numbered, SlotTypeOK
    <3>2. CASE u = f
      BY <3>1, <3>2, <2>4, <2>7, <2>8
    <3>3. CASE u # f
      BY <3>1, <3>3, <2>3, <2>6, <2>7, <2>8, <1>0 DEF Owners
    <3> QED BY <3>2, <3>3
  <2>11. Slotted'
    <3>1. ASSUME NEW i \in Seqs, slot'[i] # None
          PROVE  /\ fd'[slot'[i]].msgQueue = slot'[i] /\ ~fd'[slot'[i]].autoDestroy
                 /\ IF pc'[slot'[i]] = "dead" THEN i \in Pending' ELSE seq'[slot'[i]] = i
      <4>1. i # s /\ slot'[i] = slot[i] /\ slot[i] # f /\ slot[i] \in Threads
        BY <3>1, <2>7, <2>8, <1>0 DEF SlotTypeOK
      <4>2. fd'[slot[i]] = fd[slot[i]]
        BY <4>1, <2>6
      <4> QED BY <4>1, <4>2, <3>1, <2>3, <1>0, <1>b DEF Slotted
    <3>2. \A i, j \in Seqs : slot'[i] = slot'[j] /\ slot'[i] # None => i = j
      BY <2>7, <2>8, <1>0 DEF Slotted
    <3> QED BY <3>1, <3>2 DEF Slotted
  <2>12. \A i, j \in DOMAIN quits' : quits'[i] = quits'[j] => i = j
    BY <1>0, <2>1 DEF Posted
  <2>13. Posted'
    <3>1. Pending \subseteq Seqs
      BY <2>1 DEF Pending
    <3> QED BY <1>0, <1>b, <2>3, <2>7, <2>12, <3>1 DEF Posted
  <2>14. Serving'
    <3>1. net'.at = "idle" <=> net'.fd = None
      BY <2>5, <1>0 DEF Serving
    <3>2. ASSUME NEW h \in Threads
          PROVE  /\ fd'[h].msgQueue \in {None, h}
                 /\ fd'[h].armed \/ net'.fd = h => fd'[h].msgQueue = h
                 /\ fd'[h].autoDestroy => pc'[h] \in {"quit", "dead"}
                 /\ fd'[h].msgQueue = h => IF fd'[h].autoDestroy THEN fd'[h].armed \/ fd'[h].threw \/ net'.fd = h
                                           ELSE \E i \in Seqs : slot'[i] = h
      <4>1. CASE h = f
        BY <4>1, <1>b, <2>4, <2>6
      <4>2. CASE h # f
        <5>1. fd'[h] = fd[h] /\ net' = net /\ pc' = pc
          BY <4>2, <2>5, <2>6, <1>b
        <5>2. ASSUME NEW i \in Seqs, slot[i] = h PROVE slot'[i] = h
          BY <5>2, <4>2, <2>7
        <5> QED BY <5>1, <5>2, <1>0 DEF Serving
      <4> QED BY <4>1, <4>2
    <3> QED BY <3>1, <3>2 DEF Serving
  <2>15. Waiting'
    BY <1>0, <1>b, <2>4, <2>5, <2>6 DEF Waiting
  <2> QED BY <1>b, <1>d, <2>9, <2>10, <2>11, <2>13, <2>14, <2>15 DEF SlotInv
<1>2. ASSUME NEW f \in Threads, Wake(f) PROVE SlotInv'
  <2>1. /\ Pending' = Pending /\ UNCHANGED <<queue, slot, quits>> /\ net = Idle /\ fd[f].armed
        /\ fd' = Unsignalled(fd, f) /\ net' = [fd |-> f, at |-> "drain"]
    BY <1>2 DEF Wake, Pending, Unsignalled
  <2>2. /\ fd' \in [Threads -> FDInfos] /\ ~fd'[f].armed
        /\ \A h \in Threads : /\ fd'[h].msgQueue = fd[h].msgQueue
                              /\ fd'[h].autoDestroy = fd[h].autoDestroy
                              /\ h # f => fd'[h] = fd[h]
    BY <2>1, <1>c, TakeSignal
  <2>3. SlotTypeOK'
    BY <1>0, <1>b, <2>1, <2>2 DEF SlotTypeOK, FDInfos
  <2>4. Owners'
    BY <1>0, <1>b, <2>1, <2>2 DEF Owners
  <2>5. Slotted'
    BY <1>0, <1>b, <2>1, <2>2 DEF Slotted, SlotTypeOK
  <2>6. Posted'
    BY <1>0, <1>b, <2>1 DEF Posted
  <2>7. Serving'
    BY <1>0, <1>b, <2>1, <2>2 DEF Serving, Idle
  <2>8. Waiting'
    BY <1>0, <1>b, <2>1, <2>2 DEF Waiting, Idle
  <2> QED BY <1>b, <1>d, <2>3, <2>4, <2>5, <2>6, <2>7, <2>8 DEF SlotInv
<1>e. ASSUME net.at # "idle" PROVE net.fd \in Threads /\ fd[net.fd].msgQueue = net.fd
  BY <1>e, <1>0 DEF Serving, SlotTypeOK
<1>3. CASE PopRequest
  <2> DEFINE f == net.fd
  <2>1. /\ Pending' = Pending /\ UNCHANGED <<slot, quits>> /\ net.at = "drain" /\ f \in Threads
        /\ fd[f].msgQueue = f /\ queue[f] > 0 /\ queue' = [queue EXCEPT ![f] = @ - 1]
    <3>1. f \in Threads /\ fd[f].msgQueue = f
      BY <1>3, <1>e DEF PopRequest
    <3> QED BY <3>1, <1>3 DEF PopRequest, Pending
  <2>2. /\ queue' \in [Threads -> 0..MaxRequests] /\ queue'[f] <= made[f]
        /\ \A u \in Threads : u # f => queue'[u] = queue[u]
    BY <2>1, <1>0 DEF SlotTypeOK, Waiting
  <2>3. \/ UNCHANGED <<net, fd>>
        \/ net' = [net EXCEPT !.at = "check"] /\ fd' = Signalled(fd, f)
        \/ net' = Idle /\ fd' = Thrown(fd, f)
    BY <1>3 DEF PopRequest, Signalled, Thrown
  <2>4. /\ fd' \in [Threads -> FDInfos]
        /\ \/ net'.fd = f /\ net'.at = "drain"
           \/ net'.fd = f /\ net'.at = "check" /\ fd'[f].armed
           \/ net'.fd = None /\ net'.at = "idle" /\ fd'[f].threw
        /\ net' \in [fd : Threads \cup {None}, at : {"idle", "drain", "check"}]
        /\ \A h \in Threads : /\ fd'[h].msgQueue = fd[h].msgQueue
                              /\ fd'[h].autoDestroy = fd[h].autoDestroy
                              /\ h # f => fd'[h] = fd[h]
    <3>1. CASE UNCHANGED <<net, fd>>
      BY <3>1, <2>1, <1>c, <1>0 DEF SlotTypeOK
    <3>2. CASE net' = [net EXCEPT !.at = "check"] /\ fd' = Signalled(fd, f)
      <4>1. net'.fd = f /\ net'.at = "check" /\ net' \in [fd : Threads \cup {None}, at : {"idle", "drain", "check"}]
        BY <3>2, <1>0 DEF SlotTypeOK
      <4>2. /\ fd' \in [Threads -> FDInfos] /\ fd'[f].armed
            /\ \A h \in Threads : /\ fd'[h].msgQueue = fd[h].msgQueue
                                  /\ fd'[h].autoDestroy = fd[h].autoDestroy
                                  /\ h # f => fd'[h] = fd[h]
        BY <3>2, <2>1, <1>c, Signal
      <4> QED BY <4>1, <4>2
    <3>3. CASE net' = Idle /\ fd' = Thrown(fd, f)
      <4>1. net'.fd = None /\ net'.at = "idle" /\ net' \in [fd : Threads \cup {None}, at : {"idle", "drain", "check"}]
        BY <3>3 DEF Idle
      <4>2. /\ fd' \in [Threads -> FDInfos] /\ fd'[f].threw
            /\ \A h \in Threads : /\ fd'[h].msgQueue = fd[h].msgQueue
                                  /\ fd'[h].autoDestroy = fd[h].autoDestroy
                                  /\ h # f => fd'[h] = fd[h]
        BY <3>3, <2>1, <1>c, Throw
      <4> QED BY <4>1, <4>2
    <3> QED BY <3>1, <3>2, <3>3, <2>3
  <2>5. SlotTypeOK'
    BY <1>0, <1>b, <2>1, <2>2, <2>4 DEF SlotTypeOK, FDInfos
  <2>6. Owners'
    BY <1>0, <1>b, <2>1, <2>4 DEF Owners
  <2>7. Slotted'
    BY <1>0, <1>b, <2>1, <2>4 DEF Slotted, SlotTypeOK
  <2>8. Posted'
    BY <1>0, <1>b, <2>1 DEF Posted
  <2>9. Serving'
    <3>1. net'.at = "idle" <=> net'.fd = None
      BY <2>1, <2>4
    <3>2. ASSUME NEW h \in Threads
          PROVE  /\ fd'[h].msgQueue \in {None, h}
                 /\ fd'[h].armed \/ net'.fd = h => fd'[h].msgQueue = h
                 /\ fd'[h].autoDestroy => pc'[h] \in {"quit", "dead"}
                 /\ fd'[h].msgQueue = h => IF fd'[h].autoDestroy THEN fd'[h].armed \/ fd'[h].threw \/ net'.fd = h
                                           ELSE \E i \in Seqs : slot'[i] = h
      <4>1. CASE h = f
        BY <4>1, <1>b, <2>1, <2>4, <1>0 DEF Serving
      <4>2. CASE h # f
        <5>1. fd'[h] = fd[h] /\ pc' = pc /\ slot' = slot /\ net'.fd # h
          BY <4>2, <1>b, <2>1, <2>4
        <5> QED BY <4>2, <5>1, <1>0 DEF Serving
      <4> QED BY <4>1, <4>2
    <3> QED BY <3>1, <3>2 DEF Serving
  <2>10. Waiting'
    BY <1>0, <1>b, <2>1, <2>2, <2>4 DEF Waiting
  <2> QED BY <1>b, <1>d, <2>5, <2>6, <2>7, <2>8, <2>9, <2>10 DEF SlotInv
<1>4. CASE QueueDrained
  <2> DEFINE f == net.fd
  <2>1. /\ Pending' = Pending /\ UNCHANGED <<queue, slot, fd, quits>> /\ net.at = "drain"
        /\ f \in Threads /\ fd[f].msgQueue = f /\ queue[f] = 0
        /\ net' = [net EXCEPT !.at = "check"]
    BY <1>4, <1>e DEF QueueDrained, Pending
  <2>2. net'.fd = f /\ net'.at = "check" /\ SlotTypeOK'
    BY <1>0, <1>b, <2>1 DEF SlotTypeOK
  <2>3. Owners' /\ Slotted' /\ Posted'
    BY <1>0, <1>b, <2>1 DEF Owners, Slotted, Posted
  <2>4. Serving'
    BY <1>0, <1>b, <2>1, <2>2 DEF Serving
  <2>5. Waiting'
    BY <1>0, <1>b, <2>1, <2>2 DEF Waiting
  <2> QED BY <1>b, <1>d, <2>2, <2>3, <2>4, <2>5 DEF SlotInv
<1>5. CASE CheckDestroy
  <2> DEFINE f == net.fd
  <2>1. /\ Pending' = Pending /\ UNCHANGED <<queue, slot, quits>> /\ net.at = "check"
        /\ f \in Threads /\ fd[f].msgQueue = f /\ net' = Idle
    BY <1>5, <1>e DEF CheckDestroy, Pending
  <2>2. CASE fd[f].autoDestroy /\ queue[f] = 0
    <3>1. fd' = [fd EXCEPT ![f] = [msgQueue |-> None, autoDestroy |-> TRUE, armed |-> FALSE, threw |-> FALSE]]
      BY <2>1, <2>2, <1>5 DEF CheckDestroy, NoFd
    <3>2. SlotTypeOK'
      BY <1>0, <1>b, <2>1, <3>1 DEF SlotTypeOK, Idle
    <3>3. \A i \in Seqs : slot[i] # f
      BY <2>1, <2>2, <1>0 DEF Slotted
    <3>4. Owners'
      BY <1>0, <1>b, <2>1, <3>1 DEF Owners, SlotTypeOK
    <3>5. Slotted'
      BY <1>0, <1>b, <2>1, <3>1, <3>3 DEF Slotted, SlotTypeOK
    <3>6. Posted'
      BY <1>0, <1>b, <2>1 DEF Posted
    <3>7. Serving'
      BY <1>0, <1>b, <2>1, <2>2, <3>1 DEF Serving, SlotTypeOK, Idle
    <3>8. Waiting'
      BY <1>0, <1>b, <2>1, <2>2, <3>1 DEF Waiting, SlotTypeOK, Idle
    <3> QED BY <1>b, <1>d, <3>2, <3>4, <3>5, <3>6, <3>7, <3>8 DEF SlotInv
  <2>3. CASE ~(fd[f].autoDestroy /\ queue[f] = 0)
    <3>1. fd' = fd
      BY <2>1, <2>3, <1>5 DEF CheckDestroy
    <3>2. SlotTypeOK'
      BY <1>0, <1>b, <2>1, <3>1 DEF SlotTypeOK, Idle
    <3>3. Owners' /\ Slotted' /\ Posted'
      BY <1>0, <1>b, <2>1, <3>1 DEF Owners, Slotted, Posted
    <3>4. fd[f].autoDestroy => fd[f].armed \/ fd[f].threw
      <4>1. fd[f].autoDestroy => pc[f] # "notify" /\ queue[f] # 0
        BY <2>1, <2>3, <1>0 DEF Serving
      <4>2. queue[f] \in Nat
        BY <2>1, <1>0 DEF SlotTypeOK
      <4> QED BY <4>1, <4>2, <2>1, <1>0 DEF Waiting
    <3>5. Serving'
      BY <1>0, <1>b, <2>1, <3>1, <3>4 DEF Serving, Idle
    <3>6. Waiting'
      BY <1>0, <1>b, <2>1, <3>1 DEF Waiting, Idle
    <3> QED BY <1>b, <1>d, <3>2, <3>3, <3>5, <3>6 DEF SlotInv
  <2> QED BY <2>2, <2>3
<1> QED BY <1>1, <1>2, <1>3, <1>4, <1>5 DEF NetStep

\* The invariant holds throughout.
LEMMA SlotInvariance == ASSUME ~NetLags PROVE Spec => []SlotInv
<1>1. ASSUME SlotInv, [Next]_vars PROVE SlotInv'
  <2>1. CASE UNCHANGED vars
    <3>1. UNCHANGED seqVars /\ UNCHANGED slotVars /\ Pending' = Pending
      BY <2>1 DEF vars, slotVars, Pending
    <3>2. SeqInv'
      BY <3>1, <1>1, SeqUnchanged DEF SlotInv
    <3> QED BY <3>1, <3>2, <1>1 DEF SlotInv, slotVars, seqVars, SlotTypeOK, Numbered, Owners,
                                    Slotted, Posted, Serving, Waiting
  <2>2. CASE Next
    BY <2>1, <2>2, <1>1, ThreadStepInv, NetStepInv DEF Next, AllGone
  <2> QED BY <1>1, <2>1, <2>2
<1> QED BY <1>1, SlotInitInv, PTL DEF Spec

\* A thread that may call finds in the slot of its number a live descriptor that
\* serves its own queue, for every number of threads and numbers: the assert of
\* CommunicatorEpoll::notify holds and no signal goes to another thread's queue.
THEOREM SlotsValid == ASSUME ~NetLags PROVE Spec => []SlotValid
<1>1. SlotInv => SlotValid
  <2> SUFFICES ASSUME SlotInv PROVE SlotValid
    OBVIOUS
  <2>1. SlotTypeOK /\ Numbered /\ Owners /\ Slotted
    BY DEF SlotInv
  <2>2. seq \in [Threads -> Seqs \cup {End}]
    BY DEF SlotInv, SeqInv, SeqTypeOK
  <2>3. ASSUME NEW t \in Threads, pc[t] \in {"ready", "notify"}
        PROVE  slot[seq[t]] = t /\ fd[t].msgQueue = t /\ ~fd[t].autoDestroy
    <3>1. seq[t] \in Seqs /\ slot[seq[t]] = t /\ t # None
      BY <2>1, <2>2, <2>3, SlotAssumption DEF Numbered, Owners
    <3> QED BY <3>1, <2>1 DEF Slotted
  <2> QED BY <2>1, <2>3, SlotAssumption DEF SlotValid
<1> QED BY <1>1, SlotInvariance, PTL

\* No request is left in a queue whose descriptor nobody will look at, whatever the
\* order of pushes, signals, drains and exits, but by an exception of invoke that
\* handleNotify caught since the descriptor was last dispatched.
THEOREM WakeupsKept == ASSUME ~NetLags PROVE Spec => []NoLostWakeup
<1>1. SlotInv => NoLostWakeup
  BY DEF SlotInv, Waiting, NoLostWakeup
<1> QED BY <1>1, SlotInvariance, PTL

\* The descriptor of a thread that has exited is destroyed only after its last
\* request, and until then its exit is posted or it is signalled or being served,
\* unless an exception of invoke ended its last handleNotify.
THEOREM ExitsServed == ASSUME ~NetLags PROVE Spec => []ExitServed
<1>1. SlotInv => ExitServed
  <2> SUFFICES ASSUME SlotInv, NEW t \in Threads, pc[t] = "dead", fd[t].msgQueue # None,
                      ~(fd[t].autoDestroy /\ (fd[t].armed \/ fd[t].threw \/ net.fd = t))
               PROVE  \E i \in DOMAIN quits : slot[quits[i]] = t
    BY DEF ExitServed
  <2>1. PICK i \in Seqs : slot[i] = t
    BY DEF SlotInv, Serving
  <2>2. i \in Pending
    BY <2>1, SlotAssumption DEF SlotInv, Slotted
  <2> QED BY <2>1, <2>2 DEF Pending
<1> QED BY <1>1, SlotInvariance, PTL

\* The threads use the numbers only through get and del, so what holds of every
\* user of SeqManager holds of them, whether or not the network thread lags.
THEOREM UsesNumbers == Spec => SeqSpec
<1>1. Init => SeqInit
  BY DEF Init
<1>2. [Next]_vars => [SeqNext]_seqVars
  BY DEF Next, vars, SeqNext, seqVars, NetStep, ThreadStep, AllGone, Start, Bind, Push, Notify, PostQuit,
         ReturnNumber, HandleQuit, Wake, PopRequest, QueueDrained, CheckDestroy
<1> QED BY <1>1, <1>2, PTL DEF Spec, SeqSpec
=============================================================================
