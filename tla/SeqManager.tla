----------------------------- MODULE SeqManager -----------------------------
(***************************************************************************)
(* SeqManager: the numbers 0..Num-1 that identify the threads making calls *)
(* (ServantProxyThreadData::_reqQNo), kept free in a linked list threaded  *)
(* through an array, taken at its head and returned at its tail.           *)
(***************************************************************************)
EXTENDS Integers, Sequences

CONSTANTS
    Num,       \* how many numbers there are
    Threads,   \* the threads that take one
    End        \* MAX_UNSIGN_SHORT, the end of the list

ASSUME NumAssumption == Num \in Nat \ {0} /\ End \notin 0..(Num - 1)

VARIABLES
    free, freeTail,   \* _free and _freeTail
    next, isFree,     \* _p[i].next and _p[i].free
    seq,              \* seq[t]: the number t holds, End when it holds none
    order             \* auxiliary: the numbers on the list, first to last

seqVars == <<free, freeTail, next, isFree, seq, order>>

Seqs == 0..(Num - 1)

SeqInit ==
    /\ free = 0 /\ freeTail = Num - 1
    /\ next = [i \in Seqs |-> IF i = Num - 1 THEN End ELSE i + 1]
    /\ isFree = [i \in Seqs |-> TRUE]
    /\ seq = [t \in Threads |-> End]
    /\ order = [i \in 1..Num |-> i - 1]

\* Mutants: the head stays where it is; the tail is not cleared with the last number.
GetKeepsHead(t) ==
    /\ seq[t] = End /\ free # End
    /\ seq' = [seq EXCEPT ![t] = free]
    /\ isFree' = [isFree EXCEPT ![free] = FALSE]
    /\ order' = Tail(order)
    /\ UNCHANGED <<free, freeTail, next>>

GetKeepsTail(t) ==
    /\ seq[t] = End /\ free # End
    /\ seq' = [seq EXCEPT ![t] = free]
    /\ freeTail' = freeTail
    /\ free' = next[free]
    /\ isFree' = [isFree EXCEPT ![free] = FALSE]
    /\ order' = Tail(order)
    /\ UNCHANGED next

\* SeqManager::get; with no number left the process aborts.
Get(t) ==
    /\ seq[t] = End /\ free # End
    /\ seq' = [seq EXCEPT ![t] = free]
    /\ freeTail' = IF free = freeTail THEN End ELSE freeTail
    /\ free' = next[free]
    /\ isFree' = [isFree EXCEPT ![free] = FALSE]
    /\ order' = Tail(order)
    /\ UNCHANGED next

\* Mutant: the returned number keeps the successor it had when it was taken.
DelKeepsNext(t) ==
    /\ seq[t] # End
    /\ next' = IF freeTail = End THEN next ELSE [next EXCEPT ![freeTail] = seq[t]]
    /\ free' = IF freeTail = End THEN seq[t] ELSE free
    /\ isFree' = [isFree EXCEPT ![seq[t]] = TRUE]
    /\ freeTail' = seq[t]
    /\ seq' = [seq EXCEPT ![t] = End]
    /\ order' = Append(order, seq[t])

\* SeqManager::del.
Del(t) ==
    /\ seq[t] # End
    /\ next' = IF freeTail = End
               THEN [next EXCEPT ![seq[t]] = End]
               ELSE [next EXCEPT ![seq[t]] = End, ![freeTail] = seq[t]]
    /\ free' = IF freeTail = End THEN seq[t] ELSE free
    /\ isFree' = [isFree EXCEPT ![seq[t]] = TRUE]
    /\ freeTail' = seq[t]
    /\ seq' = [seq EXCEPT ![t] = End]
    /\ order' = Append(order, seq[t])

SeqNext == \E t \in Threads : Get(t) \/ Del(t)

SeqSpec == SeqInit /\ [][SeqNext]_seqVars

-----------------------------------------------------------------------------
SeqTypeOK ==
    /\ free \in Seqs \cup {End} /\ freeTail \in Seqs \cup {End}
    /\ next \in [Seqs -> Seqs \cup {End}] /\ isFree \in [Seqs -> BOOLEAN]
    /\ seq \in [Threads -> Seqs \cup {End}]
    /\ order \in Seq(Seqs)

\* No two threads hold one number, so no two threads share a request ring and a
\* notify descriptor.
NumberUnique ==
    \A t, u \in Threads : seq[t] = seq[u] /\ seq[t] # End => t = u

\* No number is lost: get fails only while every number is held.
NumberKept ==
    /\ \A i \in Seqs : isFree[i] \/ \E t \in Threads : seq[t] = i
    /\ free = End => \A i \in Seqs : ~isFree[i]

\* The asserts of get and del.
AssertsHold ==
    /\ free # End => isFree[free]
    /\ free # End /\ free = freeTail => next[free] = End
    /\ \A t \in Threads : seq[t] # End => ~isFree[seq[t]]

\* The list: order is what following next from free meets, without repetition,
\* and exactly the numbers marked free are on it.
Linked ==
    /\ order = <<>> => free = End /\ freeTail = End
    /\ order # <<>> => /\ free = order[1] /\ freeTail = order[Len(order)]
                       /\ next[order[Len(order)]] = End
    /\ \A i \in 1..(Len(order) - 1) : next[order[i]] = order[i + 1]

OnList ==
    /\ \A i, j \in 1..Len(order) : order[i] = order[j] => i = j
    /\ \A i \in Seqs : isFree[i] <=> \E k \in 1..Len(order) : order[k] = i

Taken == \A i \in Seqs : ~isFree[i] => \E t \in Threads : seq[t] = i

SeqInv == SeqTypeOK /\ Linked /\ OnList /\ Taken /\ AssertsHold /\ NumberUnique
=============================================================================
