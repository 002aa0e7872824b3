--------------------------- MODULE LoopQueueProofs ---------------------------
(***************************************************************************)
(* TC_LoopQueue is a bounded first-in first-out queue for every size of    *)
(* the ring: the proofs behind the properties of LoopQueue.                *)
(***************************************************************************)
EXTENDS LoopQueue, TLAPS

USE SizeAssumption, BatchAssumption, ValueAssumption

-----------------------------------------------------------------------------
(* The arithmetic of the two indices.                                      *)

\* size() lies between 0 and Size and is 0 exactly when the indices meet.
LEMMA CountRange ==
    ASSUME NEW b \in 0..Size, NEW e \in 0..Size
    PROVE  /\ Count(b, e) \in 0..Size
           /\ Count(b, e) = 0 <=> b = e
BY DEF Count, Capacity

\* Publishing one value adds one to size(), unless the ring is full.
LEMMA CountPublish ==
    ASSUME NEW b \in 0..Size, NEW e \in 0..Size, Count(b, e) < Size
    PROVE  /\ After(b) \in 0..Size
           /\ Count(After(b), e) = Count(b, e) + 1
BY DEF Count, Capacity, After

\* Releasing one value takes one from size().
LEMMA CountRelease ==
    ASSUME NEW b \in 0..Size, NEW e \in 0..Size, Count(b, e) > 0
    PROVE  /\ After(e) \in 0..Size
           /\ Count(b, After(e)) = Count(b, e) - 1
BY DEF Count, Capacity, After

\* The comparisons of push_back say "full" exactly when n values do not fit.
LEMMA IsFullExact ==
    ASSUME NEW b \in 0..Size, NEW e \in 0..Size, NEW n \in Nat \ {0}
    PROVE  IsFull(b, e, n) <=> Count(b, e) + n > Size
BY DEF IsFull, Count, Capacity

-----------------------------------------------------------------------------
(* The inductive invariant.                                                *)

Pushing == ppc \in {"copy", "test", "publish"}

\* A push_back that has passed the test has room for all it still stores; the
\* room can only grow, because the other side only releases cells.
Room == Pushing => /\ todo # <<>>
                   /\ Count(iBegin, iEnd) + Len(todo) <= Size
                   /\ ~batch => Len(todo) = 1

\* The cell about to be published holds the value being pushed.
Stored == /\ ppc \in {"test", "publish"} => slot[iBegin] = Head(todo)
          /\ ppc \in {"test", "hint"} => ~batch

\* A pop_front that found a value still finds it, and has copied it.
Popping == /\ cpc \in {"copy", "release"} => Count(iBegin, iEnd) > 0
           /\ cpc = "release" => cell = slot[iEnd]

\* What a sleeping consumer may have missed.
Sleeping == asleep => /\ cpc = "idle"
                      /\ (ppc = "idle" \/ (~batch /\ Pushing)) => iBegin = iEnd
                      /\ ppc = "hint" => Count(iBegin, iEnd) <= 1

IInv == TypeOK /\ Room /\ Stored /\ Popping /\ Sleeping

LEMMA BatchesType ==
    ASSUME NEW vt \in Batches
    PROVE  /\ vt \in Seq(Value)
           /\ Len(vt) \in 1..MaxBatch
           /\ vt # <<>>
BY DEF Batches

LEMMA InitIInv == Init => IInv
BY DEF Init, IInv, TypeOK, Room, Pushing, Stored, Popping, Sleeping

LEMMA NextIInv == IInv /\ [Next]_vars => IInv'
<1> SUFFICES ASSUME IInv, [Next]_vars PROVE IInv'
  OBVIOUS
<1> USE DEF IInv, TypeOK
<1>c. Count(iBegin, iEnd) \in 0..Size /\ (Count(iBegin, iEnd) = 0 <=> iBegin = iEnd)
  BY CountRange
<1>1. ASSUME NEW vt \in Batches, NEW b \in BOOLEAN, PushStart(vt, b)
      PROVE  IInv'
  <2>1. /\ vt \in Seq(Value) /\ Len(vt) \in Nat \ {0} /\ vt # <<>>
        /\ IsFull(iBegin, iEnd, Len(vt)) <=> Count(iBegin, iEnd) + Len(vt) > Size
    BY BatchesType, IsFullExact
  <2>2. TypeOK'
    BY <1>1, <2>1 DEF PushStart, cvars
  <2>3. (Room /\ Stored /\ Popping /\ Sleeping)'
    BY <1>1, <2>1, <1>c
       DEF PushStart, cvars, Room, Stored, Popping, Sleeping, Pushing
  <2> QED BY <2>2, <2>3
<1>2. CASE PushCopy
  <2>1. todo # <<>> /\ Head(todo) \in Value
    BY <1>2 DEF PushCopy, Room, Pushing
  <2>2. cpc \in {"copy", "release"} => iEnd # iBegin
    BY <1>c DEF Popping
  <2>3. TypeOK'
    BY <1>2, <2>1 DEF PushCopy, cvars
  <2>4. (Room /\ Stored /\ Popping /\ Sleeping)'
    BY <1>2, <1>c, <2>1, <2>2
       DEF PushCopy, cvars, Room, Stored, Popping, Sleeping, Pushing
  <2> QED BY <2>3, <2>4
<1>3. CASE PushTest
  BY <1>3 DEF PushTest, cvars, Room, Stored, Popping, Sleeping, Pushing
<1>4. CASE PushPublish
  <2>1. todo # <<>> /\ Count(iBegin, iEnd) < Size /\ Len(todo) \in Nat \ {0}
    BY <1>4, <1>c DEF PushPublish, Room, Pushing
  <2>2. /\ iBegin' \in 0..Size
        /\ Count(iBegin', iEnd) = Count(iBegin, iEnd) + 1
    BY <1>4, <2>1, CountPublish DEF PushPublish
  <2>3. Tail(todo) \in Seq(Value) /\ Len(Tail(todo)) = Len(todo) - 1
    BY <2>1
  <2>4. TypeOK'
    BY <1>4, <2>2, <2>3 DEF PushPublish, cvars
  <2>5. (Room /\ Stored)'
    <3>1. /\ ppc' \in {"copy", "idle", "hint"}
          /\ ppc' = "copy" => batch' /\ Len(todo) > 1
          /\ ppc' = "hint" => ~batch'
      BY <1>4 DEF PushPublish
    <3>2. Count(iBegin', iEnd') + Len(todo') <= Size
      <4>1. iEnd' = iEnd /\ todo' = Tail(todo)
        BY <1>4 DEF PushPublish
      <4>2. Count(iBegin, iEnd) + Len(todo) <= Size
        BY <1>4 DEF PushPublish, Room, Pushing
      <4> QED BY <4>1, <4>2, <2>1, <2>2, <2>3, <1>c
    <3>3. Len(todo) > 1 => todo' # <<>>
      <4>1. todo' = Tail(todo)
        BY <1>4 DEF PushPublish
      <4>2. Len(todo) > 1 => Len(todo') # 0
        BY <4>1, <2>1, <2>3
      <4>3. Len(<<>>) = 0
        OBVIOUS
      <4> QED BY <4>2, <4>3
    <3>4. Room'
      BY <3>1, <3>2, <3>3 DEF Room, Pushing
    <3>5. Stored'
      BY <3>1 DEF Stored
    <3> QED BY <3>4, <3>5
  <2>6. (Popping /\ Sleeping)'
    BY <1>4, <2>1, <2>2, <2>3, <1>c
       DEF PushPublish, cvars, Room, Popping, Sleeping, Pushing
  <2> QED BY <2>4, <2>5, <2>6
<1>5. CASE PushHint
  BY <1>5, <1>c DEF PushHint, cvars, Room, Stored, Popping, Sleeping, Pushing
<1>6. CASE PopEmpty
  BY <1>6, <1>c DEF PopEmpty, pvars, cvars, Room, Stored, Popping, Sleeping, Pushing
<1>7. CASE PopStart
  <2>1. Count(iBegin, iEnd) > 0
    BY <1>7, <1>c DEF PopStart
  <2>2. TypeOK'
    BY <1>7 DEF PopStart, pvars
  <2>3. (Room /\ Stored /\ Popping /\ Sleeping)'
    BY <1>7, <2>1 DEF PopStart, pvars, Room, Stored, Popping, Sleeping, Pushing
  <2> QED BY <2>2, <2>3
<1>8. CASE PopCopy
  BY <1>8, <1>c DEF PopCopy, pvars, cvars, Room, Stored, Popping, Sleeping, Pushing
<1>9. CASE PopRelease
  <2>1. /\ iEnd' \in 0..Size
        /\ Count(iBegin, iEnd') = Count(iBegin, iEnd) - 1
    BY <1>9, <1>c, CountRelease DEF PopRelease, Popping
  <2>2. TypeOK'
    BY <1>9, <2>1 DEF PopRelease, pvars
  <2>3. (Room /\ Stored /\ Popping /\ Sleeping)'
    BY <1>9, <1>c, <2>1 DEF PopRelease, pvars, Room, Stored, Popping, Sleeping, Pushing
  <2> QED BY <2>2, <2>3
<1>10. CASE UNCHANGED vars
  BY <1>10 DEF vars, pvars, cvars, Room, Stored, Popping, Sleeping, Pushing
<1> QED
  BY <1>1, <1>2, <1>3, <1>4, <1>5, <1>6, <1>7, <1>8, <1>9, <1>10
     DEF Next, Producer, Consumer

\* The invariant holds in every reachable state of the ring.
THEOREM Invariant == Spec => []IInv
BY InitIInv, NextIInv, PTL DEF Spec

\* Type correctness: in particular both indices stay inside the array that the
\* constructor allocated.
THEOREM TypeCorrect == Spec => []TypeOK
<1>1. IInv => TypeOK
  BY DEF IInv
<1> QED BY Invariant, <1>1, PTL

\* push_back and pop_front never copy into and out of the same cell at once.
THEOREM CellRaceFree == Spec => []NoCellRace
<1>1. IInv => NoCellRace
  <2> SUFFICES ASSUME IInv, cpc = "copy" PROVE iBegin # iEnd
    BY DEF NoCellRace
  <2>1. iBegin \in 0..Size /\ iEnd \in 0..Size /\ Count(iBegin, iEnd) > 0
    BY DEF IInv, TypeOK, Popping
  <2>2. Count(iBegin, iEnd) = 0 <=> iBegin = iEnd
    BY <2>1, CountRange
  <2> QED BY <2>1, <2>2
<1> QED BY Invariant, <1>1, PTL

\* A caller that wakes the consumer only when push_back reports bEmpty never
\* leaves it asleep beside a value.
THEOREM HintIsSound == Spec => []HintSound
<1>1. IInv => HintSound
  BY DEF IInv, Sleeping, HintSound
<1> QED BY Invariant, <1>1, PTL

-----------------------------------------------------------------------------
(* The ring implements the bounded queue.                                  *)

\* The values between two indices of a ring form a sequence.
LEMMA RingIsSeq ==
    ASSUME NEW s \in [0..Size -> Value], NEW b \in 0..Size, NEW e \in 0..Size
    PROVE  LET h == [i \in 1..Count(b, e) |-> s[At(e, i)]]
           IN  h \in Seq(Value) /\ Len(h) = Count(b, e)
<1>1. Count(b, e) \in 0..Size
  BY CountRange
<1>2. \A i \in 1..Count(b, e) : At(e, i) \in 0..Size
  BY <1>1 DEF At, Capacity
<1> QED BY <1>1, <1>2

\* The ring, with Held as its contents, is a bounded first-in first-out queue.
THEOREM Refinement == Spec => FifoSpec
<1>1. Init => Fifo!Init
  BY DEF Init, Fifo!Init, Held, Count
<1>2. IInv /\ IInv' /\ [Next]_vars => [Fifo!Next]_(Fifo!vars)
  <2> SUFFICES ASSUME IInv, IInv', [Next]_vars
               PROVE  Fifo!Next \/ (Held' = Held /\ out' = out /\ refused' = refused)
    BY DEF Fifo!vars
  <2>c. /\ Count(iBegin, iEnd) \in 0..Size
        /\ Count(iBegin, iEnd) = 0 <=> iBegin = iEnd
        /\ iBegin \in 0..Size /\ iEnd \in 0..Size
    BY CountRange DEF IInv, TypeOK
  <2>h. /\ Held = [i \in 1..Count(iBegin, iEnd) |-> slot[At(iEnd, i)]]
        /\ Held \in Seq(Value)
        /\ Len(Held) = Count(iBegin, iEnd)
    BY RingIsSeq DEF Held, IInv, TypeOK
  <2>p. /\ Held' = [i \in 1..Count(iBegin', iEnd') |-> slot'[At(iEnd', i)]]
        /\ Held' \in Seq(Value)
        /\ Len(Held') = Count(iBegin', iEnd')
    <3>1. Held' = [i \in 1..Count(iBegin', iEnd') |-> slot'[At(iEnd', i)]]
      BY DEF Held, Count, At
    <3>2. slot' \in [0..Size -> Value] /\ iBegin' \in 0..Size /\ iEnd' \in 0..Size
      BY DEF IInv, TypeOK
    <3> QED BY <3>1, <3>2, RingIsSeq
  <2>s. ASSUME UNCHANGED <<slot, iBegin, iEnd>> PROVE Held' = Held
    BY <2>s, <2>p, <2>h
  <2>1. ASSUME NEW vt \in Batches, NEW b \in BOOLEAN, PushStart(vt, b)
        PROVE  Fifo!Next \/ (Held' = Held /\ out' = out /\ refused' = refused)
    <3>1. CASE IsFull(iBegin, iEnd, Len(vt))
      <4>1. Len(vt) \in 1..MaxBatch /\ Len(Held) + Len(vt) > Size
        BY <3>1, <2>c, <2>h, BatchesType, IsFullExact
      <4>2. refused' = 1 - refused /\ out' = out /\ Held' = Held
        BY <2>1, <3>1, <2>s DEF PushStart, cvars
      <4> QED BY <4>1, <4>2 DEF Fifo!Next, Fifo!Refuse
    <3>2. CASE ~IsFull(iBegin, iEnd, Len(vt))
      BY <2>1, <3>2, <2>s DEF PushStart, cvars
    <3> QED BY <3>1, <3>2
  <2>2. CASE PushCopy
    <3>1. Count(iBegin, iEnd) < Size
      BY <2>2, <2>c DEF PushCopy, IInv, TypeOK, Room, Pushing
    <3>2. \A i \in 1..Count(iBegin, iEnd) : At(iEnd, i) # iBegin /\ At(iEnd, i) \in 0..Size
      BY <3>1, <2>c DEF At, Count, Capacity
    <3>3. \A i \in 1..Count(iBegin, iEnd) : slot'[At(iEnd, i)] = slot[At(iEnd, i)]
      BY <3>2, <2>2 DEF PushCopy, IInv, TypeOK
    <3> QED BY <3>3, <2>h, <2>p, <2>2 DEF PushCopy, cvars
  <2>3. CASE PushTest
    BY <2>3, <2>s DEF PushTest, cvars
  <2>4. CASE PushPublish
    <3>1. Count(iBegin, iEnd) < Size /\ Head(todo) \in Value /\ slot[iBegin] = Head(todo)
      BY <2>4, <2>c DEF PushPublish, IInv, TypeOK, Room, Stored, Pushing
    <3>2. Count(iBegin', iEnd') = Count(iBegin, iEnd) + 1 /\ slot' = slot /\ iEnd' = iEnd
      BY <2>4, <3>1, <2>c, CountPublish DEF PushPublish
    <3>3. At(iEnd, Count(iBegin, iEnd) + 1) = iBegin
      BY <2>c DEF At, Count, Capacity
    <3>4. Held' = Append(Held, Head(todo))
      BY <3>1, <3>2, <3>3, <2>h, <2>p, <2>c
    <3>5. out' = out /\ refused' = refused
      BY <2>4 DEF PushPublish, cvars
    <3> QED BY <3>1, <3>4, <3>5, <2>h DEF Fifo!Next, Fifo!Put
  <2>5. CASE PushHint
    BY <2>5, <2>s DEF PushHint, cvars
  <2>6. CASE PopEmpty
    BY <2>6, <2>s DEF PopEmpty, cvars
  <2>7. CASE PopStart
    BY <2>7, <2>s DEF PopStart
  <2>8. CASE PopCopy
    BY <2>8, <2>s DEF PopCopy
  <2>9. CASE PopRelease
    <3>1. Count(iBegin, iEnd) > 0 /\ cell = slot[iEnd]
      BY <2>9 DEF PopRelease, IInv, Popping
    <3>2. Count(iBegin', iEnd') = Count(iBegin, iEnd) - 1 /\ slot' = slot /\ iEnd' = After(iEnd)
      BY <2>9, <3>1, <2>c, CountRelease DEF PopRelease
    <3>3. At(iEnd, 1) = iEnd
      BY <2>c DEF At
    <3>4. \A i \in 1..(Count(iBegin, iEnd) - 1) : At(iEnd', i) = At(iEnd, i + 1)
      BY <3>2, <2>c DEF At, After, Capacity
    <3>5. Held # <<>> /\ Head(Held) = cell
      BY <3>1, <3>3, <2>h, <2>c
    <3>6. Held' = Tail(Held)
      BY <3>1, <3>2, <3>4, <2>h, <2>p, <2>c
    <3>7. out' = cell /\ refused' = refused
      BY <2>9 DEF PopRelease
    <3> QED BY <3>5, <3>6, <3>7 DEF Fifo!Next, Fifo!Get
  <2>10. CASE UNCHANGED vars
    BY <2>10, <2>s DEF vars, cvars
  <2> QED
    BY <2>1, <2>2, <2>3, <2>4, <2>5, <2>6, <2>7, <2>8, <2>9, <2>10
       DEF Next, Producer, Consumer
<1> QED
  BY <1>1, <1>2, Invariant, PTL DEF Spec, FifoSpec, Fifo!Spec
=============================================================================
