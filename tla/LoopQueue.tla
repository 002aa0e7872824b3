------------------------------ MODULE LoopQueue ------------------------------
(***************************************************************************)
(* TC_LoopQueue (util/include/util/tc_loop_queue.h): the lock-free ring    *)
(* through which a caller thread (the producer) hands its requests to a    *)
(* network thread (the consumer).  There is no lock and no atomic: the     *)
(* producer alone writes _iBegin, the consumer alone writes _iEnd, and     *)
(* each reads the other's index.  Every step below makes at most one       *)
(* access to a variable the other side writes, so the two sides interleave *)
(* at every such access.                                                   *)
(***************************************************************************)
EXTENDS Integers, Sequences

CONSTANTS Value,    \* the values a caller may push
          Size,     \* iSize of the constructor
          MaxBatch  \* the longest vector given to push_back(vector)

ASSUME SizeAssumption == Size \in Nat \ {0}
ASSUME BatchAssumption == MaxBatch \in Nat \ {0}
ASSUME ValueAssumption == Value # {}

VARIABLES
    slot,      \* _p, the array of _iCapacity = Size + 1 cells
    iBegin,    \* _iBegin, where the producer writes next
    iEnd,      \* _iEnd, where the consumer reads next
    ppc,       \* the producer's next step
    todo,      \* the values of the current push_back still to be stored
    batch,     \* the current push_back is the one that takes a vector
    bEmpty,    \* the out-parameter of push_back(t, bEmpty)
    cpc,       \* the consumer's next step
    cell,      \* the value memcpy'd by the current pop_front
    out,       \* the value the last pop_front returned
    refused,   \* how often push_back returned false, modulo 2
    asleep     \* pop_front returned false and nobody was told to wake up the
               \* consumer since

pvars == <<ppc, todo, batch, bEmpty>>
cvars == <<cpc, cell, out>>
vars == <<slot, iBegin, iEnd, pvars, cvars, refused, asleep>>

Capacity == Size + 1

\* Variant of After that forgets to go back to cell 0.
AfterNoWrap(i) == i + 1

\* The index after i: the cell of index _iCapacitySub is followed by cell 0.
After(i) == IF i = Size THEN 0 ELSE i + 1

\* size(): the number of values between the indices e (read) and b (write).
Count(b, e) == IF b < e THEN b + Capacity - e ELSE b - e

\* Variant of IsFull that uses the whole array, the spare cell included.
IsFullNoSpareCell(b, e, n) == \/ n > Capacity - 1
                              \/ e > b /\ e - b < n
                              \/ b > e /\ b - e > Capacity - n

\* The test both push_back make before they store n values.
IsFull(b, e, n) == \/ n > Capacity - 1
                   \/ e > b /\ e - b < n + 1
                   \/ b > e /\ b - e > Capacity - n - 1

Batches == UNION {[1..n -> Value] : n \in 1..MaxBatch}

Init == /\ slot \in [0..Size -> Value]
        /\ iBegin = 0
        /\ iEnd = 0
        /\ ppc = "idle"
        /\ todo = <<>>
        /\ batch = FALSE
        /\ bEmpty = FALSE
        /\ cpc = "idle"
        /\ cell \in Value
        /\ out = cell
        /\ refused = 0
        /\ asleep = FALSE

-----------------------------------------------------------------------------
(* The producer.                                                           *)

\* push_back reads _iEnd once and decides whether the values fit.
PushStart(vt, isBatch) ==
    /\ ppc = "idle"
    /\ isBatch \/ Len(vt) = 1
    /\ bEmpty' = FALSE
    /\ IF IsFull(iBegin, iEnd, Len(vt))
         THEN /\ refused' = 1 - refused
              /\ UNCHANGED <<ppc, todo, batch>>
         ELSE /\ ppc' = "copy"
              /\ todo' = vt
              /\ batch' = isBatch
              /\ UNCHANGED refused
    /\ UNCHANGED <<slot, iBegin, iEnd, cvars, asleep>>

\* memcpy of one value into the cell _iBegin.
PushCopy ==
    /\ ppc = "copy"
    /\ slot' = [slot EXCEPT ![iBegin] = Head(todo)]
    /\ ppc' = IF batch THEN "publish" ELSE "test"
    /\ UNCHANGED <<iBegin, iEnd, todo, batch, bEmpty, cvars, refused, asleep>>

\* if(_iEnd == _iBegin) bEmpty = true, before the value is published.
PushTest ==
    /\ ppc = "test"
    /\ bEmpty' = (iEnd = iBegin)
    /\ ppc' = "publish"
    /\ UNCHANGED <<slot, iBegin, iEnd, todo, batch, cvars, refused, asleep>>

\* _iBegin moves on.  A vector goes on with its next value, and its caller has
\* no hint: it wakes the consumer up in any case.
PushPublish ==
    /\ ppc = "publish"
    /\ iBegin' = After(iBegin)
    /\ todo' = Tail(todo)
    /\ ppc' = IF ~batch THEN "hint" ELSE IF Len(todo) > 1 THEN "copy" ELSE "idle"
    /\ asleep' = IF batch /\ Len(todo) = 1 THEN FALSE ELSE asleep
    /\ UNCHANGED <<slot, iEnd, batch, bEmpty, cvars, refused>>

\* Variant of PushHint without the second look at the indices.
PushHintNoSizeTest ==
    /\ ppc = "hint"
    /\ asleep' = (asleep /\ ~bEmpty)
    /\ ppc' = "idle"
    /\ UNCHANGED <<slot, iBegin, iEnd, todo, batch, bEmpty, cvars, refused>>

\* if(!bEmpty && 1 == size()) bEmpty = true; a caller that goes by the hint
\* wakes the consumer up when push_back comes back with bEmpty.
PushHint ==
    /\ ppc = "hint"
    /\ LET hint == bEmpty \/ Count(iBegin, iEnd) = 1
       IN  /\ bEmpty' = hint
           /\ asleep' = (asleep /\ ~hint)
    /\ ppc' = "idle"
    /\ UNCHANGED <<slot, iBegin, iEnd, todo, batch, cvars, refused>>

Producer == \/ \E vt \in Batches, b \in BOOLEAN : PushStart(vt, b)
            \/ PushCopy
            \/ PushTest
            \/ PushPublish
            \/ PushHint

-----------------------------------------------------------------------------
(* The consumer.                                                           *)

\* pop_front finds the queue empty and returns false.
PopEmpty ==
    /\ cpc = "idle"
    /\ iEnd = iBegin
    /\ asleep' = TRUE
    /\ UNCHANGED <<slot, iBegin, iEnd, pvars, cvars, refused>>

\* Variant of PopStart that does not look whether there is a value.
PopStartUnchecked ==
    /\ cpc = "idle"
    /\ asleep' = FALSE
    /\ cpc' = "copy"
    /\ UNCHANGED <<slot, iBegin, iEnd, pvars, cell, out, refused>>

\* pop_front finds a value.
PopStart ==
    /\ cpc = "idle"
    /\ iEnd # iBegin
    /\ asleep' = FALSE
    /\ cpc' = "copy"
    /\ UNCHANGED <<slot, iBegin, iEnd, pvars, cell, out, refused>>

PopCopy ==
    /\ cpc = "copy"
    /\ cell' = slot[iEnd]
    /\ cpc' = "release"
    /\ UNCHANGED <<slot, iBegin, iEnd, pvars, out, refused, asleep>>

\* _iEnd moves on and pop_front returns the value.
PopRelease ==
    /\ cpc = "release"
    /\ iEnd' = After(iEnd)
    /\ out' = cell
    /\ cpc' = "idle"
    /\ UNCHANGED <<slot, iBegin, pvars, cell, refused, asleep>>

Consumer == PopEmpty \/ PopStart \/ PopCopy \/ PopRelease

-----------------------------------------------------------------------------
Next == Producer \/ Consumer

Spec == Init /\ [][Next]_vars

-----------------------------------------------------------------------------
(* Properties.                                                             *)

TypeOK == /\ slot \in [0..Size -> Value]
          /\ iBegin \in 0..Size
          /\ iEnd \in 0..Size
          /\ ppc \in {"idle", "copy", "test", "publish", "hint"}
          /\ todo \in Seq(Value)
          /\ batch \in BOOLEAN
          /\ bEmpty \in BOOLEAN
          /\ cpc \in {"idle", "copy", "release"}
          /\ cell \in Value
          /\ out \in Value
          /\ refused \in 0..1
          /\ asleep \in BOOLEAN

\* The producer never memcpy's into the cell that the consumer is about to
\* memcpy out of: the unlocked copies of push_back and pop_front never touch
\* the same cell at the same time.
NoCellRace == (ppc = "copy" /\ cpc = "copy") => iBegin # iEnd

\* The hint of push_back(t, bEmpty) is good enough to wake the consumer by: a
\* consumer that found the queue empty and was not woken since has nothing
\* to pop, unless a push_back is still on its way to tell it.
HintSound == (asleep /\ ppc = "idle") => iBegin = iEnd

\* The cell that holds the i-th oldest value.
At(e, i) == IF e + i - 1 > Size THEN e + i - 1 - Capacity ELSE e + i - 1

\* The values between the two indices, oldest first.
Held == [i \in 1..Count(iBegin, iEnd) |-> slot[At(iEnd, i)]]

\* The ring is a bounded first-in first-out queue: what pop_front returns is
\* the oldest published value, nothing is lost, repeated or overwritten, and
\* push_back refuses only what does not fit.
Fifo == INSTANCE BoundedFifo WITH q <- Held
FifoSpec == Fifo!Spec
=============================================================================
