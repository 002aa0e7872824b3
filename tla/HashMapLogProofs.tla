-------------------------- MODULE HashMapLogProofs --------------------------
(***************************************************************************)
(* The modification log of TC_HashMap.                                     *)
(*                                                                         *)
(* ModifyLog: for any set of cells and values and any length of the log,   *)
(* its invariant survives every crash, and it implements the atomic group  *)
(* of writes.                                                              *)
(*                                                                         *)
(* HashMap: what the groups of entries that the operations record do, once *)
(* they are applied, to the two lists, the chains of the buckets, the      *)
(* chunks of the blocks and the cursors, for any number of units.          *)
(***************************************************************************)
EXTENDS HashMap, ModifyLog, FiniteSetTheorems, NaturalsInduction, WellFoundedInduction, TLAPS

(* What makes the log fit to be replayed: it is inductive. *)
LogInv == LogTypeOK /\ Covered /\ LastWins /\ StatusAgrees

(* A map that is attached with an empty log has nothing to replay. *)
LEMMA LogInvInit == LogInit => LogInv
BY LogSizeAssumption DEF LogInit, LogInv, LogTypeOK, Covered, LastWins, StatusAgrees

(* Every write of update and doUpdate, and every crash, keeps the log fit  *)
(* to be replayed from its beginning.                                      *)
LEMMA LogInvStep == LogInv /\ [LogNext]_logVars => LogInv'
<1> SUFFICES ASSUME LogInv, [LogNext]_logVars PROVE LogInv'
  OBVIOUS
<1> USE LogSizeAssumption DEF LogInv
<1>1. CASE UNCHANGED logVars
  BY <1>1 DEF logVars, LogTypeOK, Covered, LastWins, StatusAgrees
<1>2. ASSUME NEW c \in Cells, NEW v \in Values, RecordEntry(c, v) PROVE LogInv'
  <2>1. LogTypeOK' /\ StatusAgrees'
    BY <1>2 DEF RecordEntry, LogTypeOK, LogEntry, StatusAgrees
  <2>2. \A j \in 1..index : data'[j] = data[j]
    BY <1>2 DEF RecordEntry, LogTypeOK
  <2>3. Covered'
    BY <1>2, <2>2 DEF RecordEntry, LogTypeOK, Covered
  <2>4. LastWins'
    BY <1>2, <2>2 DEF RecordEntry, LogTypeOK, LastWins
  <2> QED BY <2>1, <2>3, <2>4
<1>3. CASE RecordIndex
  <2>1. index + 1 \in 1..LogSize /\ index' = index + 1 /\ data' = data /\ memory' = memory
    BY <1>3 DEF RecordIndex, LogTypeOK, StatusAgrees
  <2> DEFINE e == data[index + 1]
  <2>2. e.cell \in Cells /\ e.val \in Values
    BY <2>1 DEF LogTypeOK, LogEntry
  <2>3. want' = [want EXCEPT ![e.cell] = e.val]
    BY <1>3 DEF RecordIndex
  <2>4. LogTypeOK' /\ StatusAgrees'
    BY <1>3, <2>1, <2>2, <2>3 DEF RecordIndex, LogTypeOK, StatusAgrees
  <2>5. Covered'
    BY <1>3, <2>1, <2>2, <2>3 DEF RecordIndex, LogTypeOK, Covered
  <2>6. LastWins'
    <3> SUFFICES ASSUME NEW j \in 1..(index + 1),
                        \A k \in (j + 1)..(index + 1) : data[k].cell # data[j].cell
                 PROVE  want'[data[j].cell] = data[j].val
      BY <2>1 DEF LastWins
    <3>1. CASE j = index + 1
      BY <3>1, <2>2, <2>3 DEF LogTypeOK
    <3>2. CASE j # index + 1
      <4>1. j \in 1..index /\ e.cell # data[j].cell
        BY <3>2 DEF LogTypeOK
      <4>2. want[data[j].cell] = data[j].val
        BY <4>1 DEF LastWins, LogTypeOK
      <4>3. data[j].cell \in Cells
        BY <2>1 DEF LogTypeOK, LogEntry
      <4> QED BY <4>1, <4>2, <4>3, <2>3 DEF LogTypeOK
    <3> QED BY <3>1, <3>2
  <2> QED BY <2>4, <2>5, <2>6
<1>4. CASE LogCommit
  BY <1>4 DEF LogCommit, LogTypeOK, Covered, LastWins, StatusAgrees
<1>5. CASE Inspect
  BY <1>5 DEF Inspect, LogTypeOK, Covered, LastWins, StatusAgrees
<1>6. CASE Redo
  <2>1. cursor \in 1..LogSize /\ cursor <= index /\ status = 2
    BY <1>6 DEF Redo, LogTypeOK, StatusAgrees
  <2> DEFINE e == data[cursor]
  <2>2. e.cell \in Cells /\ e.val \in Values
    BY <2>1 DEF LogTypeOK, LogEntry
  <2>3. memory' = [memory EXCEPT ![e.cell] = e.val] /\ cursor' = cursor + 1
    BY <1>6 DEF Redo
  <2>4. LogTypeOK' /\ StatusAgrees'
    BY <1>6, <2>1, <2>2, <2>3 DEF Redo, LogTypeOK, StatusAgrees
  <2>5. LastWins'
    BY <1>6 DEF Redo, LastWins
  <2>6. ASSUME NEW d \in Cells, memory'[d] # want[d]
        PROVE  \E j \in (cursor + 1)..index : data[j].cell = d
    <3>1. CASE d = e.cell
      <4>1. memory'[d] = e.val
        BY <3>1, <2>2, <2>3 DEF LogTypeOK
      <4>2. want[e.cell] # e.val
        BY <4>1, <2>6, <3>1
      <4>3. cursor \in 1..index
        BY <2>1 DEF LogTypeOK
      <4> QED BY <4>2, <4>3, <3>1 DEF LastWins
    <3>2. CASE d # e.cell
      <4>1. memory[d] # want[d]
        BY <3>2, <2>3, <2>6, <2>2 DEF LogTypeOK
      <4>2. PICK j \in cursor..index : data[j].cell = d
        BY <4>1, <1>6 DEF Covered, Redo
      <4>3. j # cursor
        BY <4>2, <3>2
      <4> QED BY <4>2, <4>3 DEF LogTypeOK
    <3> QED BY <3>1, <3>2
  <2>7. Covered'
    BY <2>6, <2>1, <1>6 DEF Covered, Redo, LogTypeOK
  <2> QED BY <2>4, <2>5, <2>7
<1>7. CASE RedoClear
  <2>1. memory = want
    <3>1. \A c \in Cells : memory[c] = want[c]
      BY <1>7 DEF RedoClear, Covered, LogTypeOK
    <3> QED BY <3>1 DEF LogTypeOK
  <2> QED BY <1>7, <2>1 DEF RedoClear, LogTypeOK, Covered, LastWins, StatusAgrees
<1>8. CASE DropClear
  BY <1>8 DEF DropClear, LogTypeOK, Covered, LastWins, StatusAgrees
<1>9. CASE Finish
  BY <1>9 DEF Finish, LogTypeOK, Covered, LastWins, StatusAgrees
<1>10. CASE LogCrash
  BY <1>10 DEF LogCrash, LogTypeOK, Covered, LastWins, StatusAgrees
<1> QED BY <1>1, <1>2, <1>3, <1>4, <1>5, <1>6, <1>7, <1>8, <1>9, <1>10 DEF LogNext

(* The log keeps its invariant whatever is written and whenever it dies. *)
LEMMA LogInvariant == LogSpec => []LogInv
BY LogInvInit, LogInvStep, PTL DEF LogSpec

(* The index and the loop of doUpdate stay inside the array of entries. *)
THEOREM LogTyped == LogSpec => []LogTypeOK
BY LogInvariant, PTL DEF LogInv

(* A replay may be interrupted and repeated: every cell that is not yet    *)
(* right has an entry ahead, the last of which holds the value asked for,  *)
(* and the status byte tells the next process what to do.                  *)
THEOREM ReplaySafe == LogSpec => []Replayable
BY LogInvariant, PTL DEF LogInv, Replayable

(* The log implements the atomic group of writes. *)
THEOREM LogIsAtomic == LogSpec => AllOrNothing
<1> DEFINE store == IF status = 2 THEN want ELSE memory
<1>1. LogInit => Atomic!Init
  BY DEF LogInit, Atomic!Init
<1>2. LogInv /\ [LogNext]_logVars => [Atomic!Next]_Atomic!vars
  <2> SUFFICES ASSUME LogInv, [LogNext]_logVars PROVE [Atomic!Next]_Atomic!vars
    OBVIOUS
  <2> USE DEF LogInv, Atomic!vars
  <2>1. CASE UNCHANGED logVars
    BY <2>1 DEF logVars
  <2>2. ASSUME NEW c \in Cells, NEW v \in Values, RecordEntry(c, v)
        PROVE  UNCHANGED Atomic!vars
    BY <2>2 DEF RecordEntry, StatusAgrees
  <2>3. CASE RecordIndex
    <3>1. index + 1 \in 1..LogSize /\ status = 1 /\ status' = 1
      BY <2>3, LogSizeAssumption DEF RecordIndex, StatusAgrees, LogTypeOK
    <3>2. data[index + 1].cell \in Cells /\ data[index + 1].val \in Values
      BY <3>1 DEF LogTypeOK, LogEntry
    <3>3. Atomic!Ask(data[index + 1].cell, data[index + 1].val)
      BY <2>3, <3>1 DEF RecordIndex, Atomic!Ask
    <3> QED BY <3>2, <3>3 DEF Atomic!Next
  <2>4. CASE LogCommit
    BY <2>4 DEF LogCommit, Atomic!Next, Atomic!Commit
  <2>5. CASE Inspect
    BY <2>5 DEF Inspect
  <2>6. CASE Redo
    BY <2>6 DEF Redo, StatusAgrees
  <2>7. CASE RedoClear
    BY <2>7 DEF RedoClear, StatusAgrees
  <2>8. CASE DropClear
    BY <2>8 DEF DropClear, StatusAgrees, Atomic!Next, Atomic!Discard
  <2>9. CASE Finish
    <3>1. \A c \in Cells : memory[c] = want[c]
      BY <2>9 DEF Finish, StatusAgrees, Covered, LogTypeOK
    <3>2. memory = want
      BY <3>1 DEF LogTypeOK
    <3> QED BY <2>9, <3>2 DEF Finish
  <2>10. CASE LogCrash
    BY <2>10 DEF LogCrash
  <2> QED BY <2>1, <2>2, <2>3, <2>4, <2>5, <2>6, <2>7, <2>8, <2>9, <2>10 DEF LogNext
<1>3. QED
  BY <1>1, <1>2, LogInvariant, PTL DEF LogSpec, AllOrNothing, Atomic!Spec

-----------------------------------------------------------------------------
(* Lists: what a walk along links returns. *)

\* No unit is twice in s.
Once(s) == \A i, j \in 1..Len(s) : s[i] = s[j] => i = j

\* The last unit of s, 0 if there is none.
End(s) == IF Len(s) = 0 THEN 0 ELSE s[Len(s)]

\* The links next lead from a along s and nowhere else.
Forth(s, next, a) ==
    /\ s \in Seq(Units) /\ Once(s)
    /\ a = IF Len(s) = 0 THEN 0 ELSE s[1]
    /\ \A i \in 1..Len(s) : next[s[i]] = IF i = Len(s) THEN 0 ELSE s[i + 1]

\* The links prev lead back along s.
Back(s, prev) == \A i \in 1..Len(s) : prev[s[i]] = IF i = 1 THEN 0 ELSE s[i - 1]

\* Less than, as a relation.
Less == OpToRel(<, Nat)

\* A set of naturals that is not empty has a smallest member.
LEMMA Smallest ==
  ASSUME NEW S, S \subseteq Nat, S # {}
  PROVE  \E m \in S : \A n \in S : m <= n
<1>1. IsWellFoundedOn(Less, Nat)
  BY NatLessThanWellFounded DEF Less
<1>2. PICK m \in S : \A n \in S : ~(<<n, m>> \in Less)
  BY <1>1, WFMin
<1>3. \A x, y \in Nat : <<x, y>> \in Less <=> x < y
  BY DEF Less, OpToRel
<1>4. ASSUME NEW n \in S PROVE m <= n
  <2>1. m \in Nat /\ n \in Nat
    OBVIOUS
  <2>2. ~(n < m)
    BY <2>1, <1>2, <1>3
  <2> QED BY <2>1, <2>2
<1> QED BY <1>4

\* A function on 1..n is a sequence of length n.
LEMMA AsSeq ==
  ASSUME NEW S, NEW n \in Nat, NEW t \in [1..n -> S]
  PROVE  t \in Seq(S) /\ Len(t) = n /\ DOMAIN t = 1..n
  OBVIOUS

\* A sequence of length 0 is the empty one.
LEMMA NoneIn == ASSUME NEW S, NEW s \in Seq(S), Len(s) = 0 PROVE s = <<>>
  OBVIOUS

\* The number of units.
Size == Cardinality(Units)

\* The number of units is a natural number.
LEMMA SizeNat == Size \in Nat
  BY HashMapAssumption, FS_CardinalityType DEF Size

\* A sequence of units without repetition is no longer than the number of units.
LEMMA OnceShort ==
  ASSUME NEW s \in Seq(Units), Once(s)
  PROVE  Len(s) <= Size /\ Len(s) = Cardinality(Elements(s)) /\ IsFiniteSet(Elements(s))
<1>1. s \in [1..Len(s) -> Elements(s)] /\ Len(s) \in Nat /\ DOMAIN s = 1..Len(s)
  BY DEF Elements
<1>2. s \in Bijection(1..Len(s), Elements(s))
  BY <1>1 DEF Bijection, Injection, IsInjective, Surjection, Once, Elements
<1>3. ExistsBijection(1..Len(s), Elements(s))
  BY <1>2 DEF ExistsBijection
<1>4. Elements(s) \subseteq Units
  BY DEF Elements
<1>5. IsFiniteSet(Elements(s)) /\ Cardinality(Elements(s)) <= Size
  BY <1>4, HashMapAssumption, FS_Subset DEF Size
<1> QED  BY <1>1, <1>3, <1>5, FS_CountingElements

\* Path, the walk along a link field, returns the sequence those links really describe.
LEMMA PathIs ==
  ASSUME NEW s, NEW next, NEW a, Forth(s, next, a)
  PROVE  Path(next, a) = s
<1> DEFINE L == Len(s)
           S == 0..Size
           Until(f, n) == IF n = 0 THEN IF a = 0 THEN <<>> ELSE <<a>>
                          ELSE LET t == f[n - 1]
                               IN  IF t = <<>> \/ next[t[Len(t)]] = 0 THEN t
                                   ELSE Append(t, next[t[Len(t)]])
           up == CHOOSE f : f = [n \in S |-> Until(f, n)]
           part(n) == [i \in 1..(IF n < L THEN n + 1 ELSE L) |-> s[i]]
           w == [n \in S |-> part(n)]
<1>1. Path(next, a) = up[Size]
  BY DEF Path, Size
<1>2. s \in Seq(Units) /\ L \in Nat /\ DOMAIN s = 1..L /\ L <= Size /\ Size \in Nat
  BY OnceShort, SizeNat DEF Forth
<1> HIDE DEF L
<1>3. /\ s = <<>> <=> L = 0
      /\ a = IF L = 0 THEN 0 ELSE s[1]
      /\ \A i \in 1..L : s[i] \in Units /\ s[i] # 0
      /\ \A i \in 1..L : next[s[i]] = IF i = L THEN 0 ELSE s[i + 1]
  <2>1. \A i \in 1..L : s[i] \in Units
    BY <1>2
  <2>2. a = IF L = 0 THEN 0 ELSE s[1]
    BY DEF Forth, L
  <2>3. \A i \in 1..L : next[s[i]] = IF i = L THEN 0 ELSE s[i + 1]
    BY DEF Forth, L
  <2>4. s = <<>> <=> L = 0
    BY <1>2, NoneIn DEF L
  <2> QED  BY <2>1, <2>2, <2>3, <2>4, HashMapAssumption
<1>4. ASSUME NEW n \in S PROVE part(n) = Until(w, n)
  <2>1. CASE n = 0
    <3>1. CASE L = 0
      BY <1>2, <1>3, <2>1, <3>1
    <3>2. CASE L # 0
      <4>1. part(n) = [i \in 1..1 |-> s[i]]
        BY <1>2, <2>1, <3>2
      <4>2. Until(w, n) = <<s[1]>> /\ 1 \in 1..L
        BY <1>2, <1>3, <2>1, <3>2
      <4>3. [i \in 1..1 |-> s[i]] = <<s[1]>>
        OBVIOUS
      <4> QED  BY <4>1, <4>2, <4>3
    <3> QED  BY <3>1, <3>2
  <2>2. CASE n # 0
    <3> DEFINE t == part(n - 1)
    <3>1. n - 1 \in S /\ w[n - 1] = t
      BY <1>2, <2>2
    <3>2. CASE n >= L
      <4>1. part(n) = [i \in 1..L |-> s[i]] /\ t = [i \in 1..L |-> s[i]]
        BY <1>2, <2>2, <3>2
      <4>2. t = <<>> \/ (Len(t) = L /\ L \in 1..L /\ t[L] = s[L])
        BY <1>2, <4>1
      <4>3. t = <<>> \/ next[t[Len(t)]] = 0
        BY <1>2, <1>3, <4>2
      <4> HIDE DEF t
      <4>4. Until(w, n) = t
        BY <2>2, <3>1, <4>3
      <4> QED  BY <4>1, <4>4
    <3>3. CASE n < L
      <4>1. t = [i \in 1..n |-> s[i]] /\ part(n) = [i \in 1..(n + 1) |-> s[i]]
        BY <1>2, <2>2, <3>3
      <4>2. n \in 1..L /\ n + 1 \in 1..L /\ \A i \in 1..(n + 1) : s[i] \in Units
        BY <1>2, <1>3, <2>2, <3>3
      <4>3. t \in Seq(Units) /\ Len(t) = n /\ t # <<>> /\ t[Len(t)] = s[n]
        <5>1. t \in [1..n -> Units] /\ n \in Nat /\ DOMAIN t = 1..n /\ t[n] = s[n]
          BY <1>2, <4>1, <4>2
        <5> HIDE DEF t
        <5>2. t \in Seq(Units) /\ Len(t) = n
          BY <5>1, AsSeq
        <5> QED  BY <4>2, <5>1, <5>2
      <4>4. next[t[Len(t)]] = s[n + 1] /\ s[n + 1] # 0
        <5>1. n # L
          BY <1>2, <3>3
        <5> QED  BY <1>3, <4>2, <4>3, <5>1
      <4> HIDE DEF t
      <4>5. Until(w, n) = Append(t, s[n + 1])
        BY <2>2, <3>1, <4>3, <4>4
      <4>6. Append(t, s[n + 1]) = [i \in 1..(n + 1) |-> s[i]]
        BY <4>1, <4>2, <4>3
      <4> QED  BY <4>1, <4>5, <4>6
    <3>4. n >= L \/ n < L
      BY <1>2
    <3> HIDE DEF part, Until, w, S
    <3> QED  BY <3>2, <3>3, <3>4
  <2> QED  BY <2>1, <2>2
<1>5. w = [n \in S |-> Until(w, n)]
  BY <1>4
<1>6. up = [n \in S |-> Until(up, n)]
  BY <1>5
<1> HIDE DEF up, w, part
<1>7. \A n \in S : up[n] = w[n]
  <2> SUFFICES ASSUME \E n \in S : up[n] # w[n] PROVE FALSE
    OBVIOUS
  <2> DEFINE Bad == {n \in S : up[n] # w[n]}
  <2>1. Bad # {} /\ Bad \subseteq Nat
    BY <1>2
  <2>2. PICK n \in Bad : \A k \in Bad : n <= k
    BY <2>1, Smallest
  <2>3. n \in S /\ up[n] = Until(up, n) /\ w[n] = Until(w, n)
    BY <1>5, <1>6
  <2>4. n # 0 => up[n - 1] = w[n - 1]
    BY <1>2, <2>2
  <2>5. Until(up, n) = Until(w, n)
    BY <2>4
  <2> QED  BY <2>2, <2>3, <2>5
<1>8. w[Size] = [i \in 1..L |-> s[i]]
  BY <1>2 DEF w, part
<1>9. s = [i \in 1..L |-> s[i]]
  BY <1>2
<1> QED  BY <1>1, <1>2, <1>7, <1>8, <1>9

\* The walk from address 0 visits nothing.
LEMMA PathOfNone == ASSUME NEW next PROVE Path(next, 0) = <<>>
<1>1. Forth(<<>>, next, 0)
  BY DEF Forth, Once
<1> QED  BY <1>1, PathIs

\* The members of s up to c.
Upto(s, c) == {s[j] : j \in {j \in 1..Len(s) : \E k \in j..Len(s) : s[k] = c}}

\* s is a doubly linked list with these links and these ends.
Listed(s, next, prev, first, last) ==
    Forth(s, next, first) /\ Back(s, prev) /\ last = End(s)

\* What membership in a sequence of units means.
LEMMA InElements ==
  ASSUME NEW s \in Seq(Units)
  PROVE  /\ \A x : x \in Elements(s) <=> \E i \in 1..Len(s) : s[i] = x
         /\ \A i \in 1..Len(s) : s[i] \in Elements(s) /\ s[i] \in Units /\ s[i] # 0
         /\ Elements(s) \subseteq Units /\ 0 \notin Elements(s)
         /\ Len(s) \in Nat
<1>1. DOMAIN s = 1..Len(s) /\ Len(s) \in Nat
  OBVIOUS
<1>2. \A x : x \in Elements(s) <=> \E i \in 1..Len(s) : s[i] = x
  BY <1>1 DEF Elements
<1>3. \A i \in 1..Len(s) : s[i] \in Units
  OBVIOUS
<1> QED  BY <1>1, <1>2, <1>3, HashMapAssumption

\* The units up to the one at place k are the first k.
LEMMA UptoAt ==
  ASSUME NEW s \in Seq(Units), Once(s), NEW k \in 1..Len(s), NEW c, s[k] = c
  PROVE  /\ Upto(s, c) = {s[j] : j \in 1..k}
         /\ Upto(s, c) \subseteq Elements(s)
<1>1. ASSUME NEW x PROVE x \in Upto(s, c) <=> \E j \in 1..k : s[j] = x
  <2>1. ASSUME x \in Upto(s, c) PROVE \E j \in 1..k : s[j] = x
    <3>1. PICK j \in 1..Len(s) : s[j] = x /\ \E i \in j..Len(s) : s[i] = c
      BY <2>1 DEF Upto
    <3>2. PICK i \in j..Len(s) : s[i] = c
      BY <3>1
    <3>3. i \in 1..Len(s)
      OBVIOUS
    <3>4. i = k
      BY <3>2, <3>3 DEF Once
    <3> QED  BY <3>1, <3>4
  <2>2. ASSUME NEW j \in 1..k, s[j] = x PROVE x \in Upto(s, c)
    <3>1. j \in 1..Len(s) /\ k \in j..Len(s)
      OBVIOUS
    <3> QED  BY <2>2, <3>1 DEF Upto
  <2> QED  BY <2>1, <2>2
<1>2. \A j \in 1..k : j \in 1..Len(s)
  OBVIOUS
<1> QED  BY <1>1, <1>2, InElements

\* Nothing is up to a unit that is not in the sequence.
LEMMA UptoNone ==
  ASSUME NEW s \in Seq(Units), NEW c, c \notin Elements(s)
  PROVE  Upto(s, c) = {}
<1> SUFFICES ASSUME NEW j \in 1..Len(s), NEW k \in j..Len(s), s[k] = c PROVE FALSE
  BY DEF Upto
<1>1. k \in 1..Len(s)
  OBVIOUS
<1> QED  BY <1>1, InElements

\* Walking the back links from place k returns the first k units in reverse.
LEMMA WayBack ==
  ASSUME NEW s \in Seq(Units), Once(s), NEW prev, Back(s, prev), NEW k \in 1..Len(s)
  PROVE  Path(prev, s[k]) = [i \in 1..k |-> s[k + 1 - i]]
<1> DEFINE r == [i \in 1..k |-> s[k + 1 - i]]
<1>1. k \in Nat /\ \A i \in 1..k : k + 1 - i \in 1..Len(s) /\ s[k + 1 - i] \in Units
  OBVIOUS
<1>2. r \in [1..k -> Units] /\ \A i \in 1..k : r[i] = s[k + 1 - i]
  BY <1>1
<1> HIDE DEF r
<1>3. r \in Seq(Units) /\ Len(r) = k
  BY <1>1, <1>2, AsSeq
<1>4. Once(r)
  <2> SUFFICES ASSUME NEW i \in 1..k, NEW j \in 1..k, r[i] = r[j] PROVE i = j
    BY <1>3 DEF Once
  <2>1. k + 1 - i = k + 1 - j
    BY <1>1, <1>2 DEF Once
  <2> QED  BY <2>1
<1>5. ASSUME NEW i \in 1..k PROVE prev[r[i]] = IF i = k THEN 0 ELSE r[i + 1]
  <2>0. PICK j \in 1..Len(s) : j = k + 1 - i
    BY <1>1
  <2>1. prev[r[i]] = IF j = 1 THEN 0 ELSE s[j - 1]
    BY <1>2, <2>0 DEF Back
  <2>2. CASE i = k
    BY <2>0, <2>1, <2>2
  <2>3. CASE i # k
    <3>1. i + 1 \in 1..k /\ j # 1 /\ k + 1 - (i + 1) = j - 1
      BY <2>0, <2>3
    <3> QED  BY <1>2, <2>1, <3>1, <2>3
  <2> QED  BY <2>2, <2>3
<1>6. r[1] = s[k] /\ k # 0
  BY <1>2
<1>7. Forth(r, prev, s[k])
  BY <1>3, <1>4, <1>5, <1>6 DEF Forth
<1> QED  BY <1>7, PathIs DEF r

\* Walking the back links from a cursor visits exactly the units up to it.
LEMMA UptoPath ==
  ASSUME NEW s \in Seq(Units), Once(s), NEW prev, Back(s, prev), NEW c \in Elements(s) \cup {0}
  PROVE  Elements(Path(prev, c)) = Upto(s, c)
<1>1. CASE c = 0
  <2>1. Path(prev, c) = <<>> /\ Upto(s, c) = {}
    BY <1>1, PathOfNone, UptoNone, InElements
  <2> QED  BY <2>1 DEF Elements
<1>2. CASE c # 0
  <2>1. PICK k \in 1..Len(s) : s[k] = c
    BY <1>2, InElements
  <2> DEFINE r == [i \in 1..k |-> s[k + 1 - i]]
  <2>2. Path(prev, c) = r
    BY <2>1, WayBack
  <2>3. Elements(r) = {s[k + 1 - i] : i \in 1..k}
    BY DEF Elements
  <2>4. ASSUME NEW x \in Elements(r) PROVE x \in Upto(s, c)
    <3>1. PICK i \in 1..k : x = s[k + 1 - i]
      BY <2>3
    <3>2. k + 1 - i \in 1..k
      OBVIOUS
    <3>3. Upto(s, c) = {s[j] : j \in 1..k}
      BY <2>1, UptoAt
    <3> QED  BY <3>1, <3>2, <3>3
  <2>5. ASSUME NEW x \in Upto(s, c) PROVE x \in Elements(r)
    <3>1. PICK j \in 1..k : s[j] = x
      BY <2>1, UptoAt
    <3>2. k + 1 - j \in 1..k /\ k + 1 - (k + 1 - j) = j
      OBVIOUS
    <3> QED  BY <2>3, <3>1, <3>2
  <2> QED  BY <2>2, <2>4, <2>5
<1> QED  BY <1>1, <1>2

-----------------------------------------------------------------------------
(* What happens to a doubly linked list. *)

\* The neighbours of a unit in a doubly linked list are in the list and differ from it.
LEMMA Neighbours ==
  ASSUME NEW s, NEW next, NEW prev, NEW h, NEW t, Listed(s, next, prev, h, t),
         NEW u \in Elements(s)
  PROVE  /\ prev[u] \in Elements(s) \cup {0} /\ next[u] \in Elements(s) \cup {0}
         /\ prev[u] # u /\ next[u] # u
         /\ prev[u] = 0 <=> h = u
         /\ next[u] = 0 <=> t = u
         /\ prev[u] = next[u] => prev[u] = 0
         /\ next[u] # h /\ prev[u] # t
         /\ h \in Elements(s) /\ t \in Elements(s) /\ u \in Units
<1>1. s \in Seq(Units) /\ Once(s)
  BY DEF Listed, Forth
<1>2. PICK k \in 1..Len(s) : s[k] = u
  BY <1>1, InElements
<1>3. /\ Len(s) \in Nat /\ Len(s) # 0 /\ 1 \in 1..Len(s) /\ Len(s) \in 1..Len(s)
      /\ h = s[1] /\ t = s[Len(s)]
  BY <1>1, <1>2 DEF Listed, Forth, End
<1>4. next[u] = (IF k = Len(s) THEN 0 ELSE s[k + 1]) /\ prev[u] = (IF k = 1 THEN 0 ELSE s[k - 1])
  BY <1>2 DEF Listed, Forth, Back
<1>5. k # 1 => k - 1 \in 1..Len(s)
  BY <1>3
<1>6. k # Len(s) => k + 1 \in 1..Len(s)
  BY <1>3
<1>7. \A i, j \in 1..Len(s) : s[i] = s[j] => i = j
  BY <1>1 DEF Once
<1>8. \A i \in 1..Len(s) : s[i] \in Elements(s) /\ s[i] # 0 /\ s[i] \in Units
  BY <1>1, InElements
<1>9. prev[u] \in Elements(s) \cup {0} /\ next[u] \in Elements(s) \cup {0}
  BY <1>4, <1>5, <1>6, <1>8
<1>10. prev[u] # u /\ (prev[u] = 0 <=> h = u) /\ prev[u] # t
  <2>1. CASE k = 1
    BY <1>2, <1>3, <1>4, <1>8, <2>1
  <2>2. CASE k # 1
    <3>1. prev[u] = s[k - 1] /\ k - 1 # k /\ k - 1 # Len(s)
      BY <1>2, <1>3, <1>4, <2>2
    <3> QED  BY <1>2, <1>3, <1>5, <1>7, <1>8, <2>2, <3>1
  <2> QED  BY <2>1, <2>2
<1>11. next[u] # u /\ (next[u] = 0 <=> t = u) /\ next[u] # h
  <2>1. CASE k = Len(s)
    BY <1>2, <1>3, <1>4, <1>8, <2>1
  <2>2. CASE k # Len(s)
    <3>1. next[u] = s[k + 1] /\ k + 1 # k /\ k + 1 # 1
      BY <1>2, <1>3, <1>4, <2>2
    <3> QED  BY <1>2, <1>3, <1>6, <1>7, <1>8, <2>2, <3>1
  <2> QED  BY <2>1, <2>2
<1>12. prev[u] = next[u] => prev[u] = 0
  <2> SUFFICES ASSUME k # 1, k # Len(s), s[k - 1] = s[k + 1] PROVE FALSE
    BY <1>4, <1>8, <1>5, <1>6
  <2>1. k - 1 = k + 1
    BY <1>5, <1>6, <1>7
  <2> QED  BY <2>1
<1> QED  BY <1>2, <1>3, <1>8, <1>9, <1>10, <1>11, <1>12

\* The links of the list s when u is put in front of it, is taken out, or moves to
\* its front.
Puts(s, u, h, next, prev, next2, prev2) ==
    /\ next2[u] = h /\ prev2[u] = 0
    /\ \A x \in Elements(s) : next2[x] = next[x] /\ prev2[x] = IF x = h THEN u ELSE prev[x]

\* The links of the neighbours of u when u is taken out.
Takes(s, u, next, prev, next2, prev2) ==
    \A x \in Elements(s) \ {u} :
        /\ next2[x] = IF x = prev[u] THEN next[u] ELSE next[x]
        /\ prev2[x] = IF x = next[u] THEN prev[u] ELSE prev[x]

\* The links when u is brought to the front.
Shifts(s, u, h, next, prev, next2, prev2) ==
    /\ next2[u] = h /\ prev2[u] = 0
    /\ \A x \in Elements(s) \ {u} :
         /\ next2[x] = IF x = prev[u] THEN next[u] ELSE next[x]
         /\ prev2[x] = IF x = h THEN u ELSE IF x = next[u] THEN prev[u] ELSE prev[x]

\* A unit put in front of a doubly linked list leaves a doubly linked list with that unit first.
LEMMA Pushed ==
  ASSUME NEW s, NEW next, NEW prev, NEW h, NEW t, Listed(s, next, prev, h, t),
         NEW u \in Units, u \notin Elements(s),
         NEW next2, NEW prev2, Puts(s, u, h, next, prev, next2, prev2)
  PROVE  \E r : /\ Listed(r, next2, prev2, u, IF h = 0 THEN u ELSE t)
                /\ Len(r) = Len(s) + 1 /\ Elements(r) = Elements(s) \cup {u}
                /\ \A c \in Elements(s) : Upto(r, c) = Upto(s, c) \cup {u}
<1>1. /\ s \in Seq(Units) /\ Once(s) /\ Len(s) \in Nat
      /\ h = (IF Len(s) = 0 THEN 0 ELSE s[1]) /\ t = (IF Len(s) = 0 THEN 0 ELSE s[Len(s)])
      /\ \A i \in 1..Len(s) : s[i] \in Elements(s) /\ s[i] \in Units /\ s[i] # 0
  BY InElements DEF Listed, Forth, End
<1>p. /\ next2[u] = h /\ prev2[u] = 0
      /\ \A x \in Elements(s) : next2[x] = next[x] /\ prev2[x] = IF x = h THEN u ELSE prev[x]
  BY DEF Puts
<1> DEFINE n == Len(s) + 1
           r == [i \in 1..n |-> IF i = 1 THEN u ELSE s[i - 1]]
<1>2. r \in [1..n -> Units] /\ n \in Nat /\ r[1] = u
  <2>1. \A i \in 1..n : i # 1 => i - 1 \in 1..Len(s)
    BY <1>1
  <2> QED  BY <1>1, <2>1
<1>3. \A i \in 1..n : i # 1 => i - 1 \in 1..Len(s) /\ r[i] = s[i - 1]
  BY <1>1
<1>4. \A i \in 1..Len(s) : i + 1 \in 1..n /\ r[i + 1] = s[i]
  BY <1>1
<1> HIDE DEF r
<1>5. r \in Seq(Units) /\ Len(r) = n
  BY <1>2, AsSeq
<1>6. Once(r)
  <2> SUFFICES ASSUME NEW i \in 1..n, NEW j \in 1..n, r[i] = r[j] PROVE i = j
    BY <1>5 DEF Once
  <2>1. CASE i = 1 \/ j = 1
    BY <1>1, <1>2, <1>3, <2>1
  <2>2. CASE i # 1 /\ j # 1
    <3>1. i - 1 = j - 1
      BY <1>1, <1>3, <2>2 DEF Once
    <3> QED  BY <3>1
  <2> QED  BY <2>1, <2>2
<1>7. ASSUME NEW i \in 1..n PROVE next2[r[i]] = IF i = n THEN 0 ELSE r[i + 1]
  <2>1. CASE i = 1
    <3>1. n # 1 => 1 \in 1..Len(s) /\ r[2] = s[1]
      BY <1>1, <1>4
    <3> QED  BY <1>1, <1>2, <1>p, <2>1, <3>1
  <2>2. CASE i # 1
    <3>1. PICK j \in 1..Len(s) : j = i - 1 /\ r[i] = s[j]
      BY <1>3, <2>2
    <3>2. next2[r[i]] = IF j = Len(s) THEN 0 ELSE s[j + 1]
      BY <1>1, <1>p, <3>1 DEF Listed, Forth
    <3>3. j # Len(s) => j + 1 \in 1..Len(s) /\ r[j + 1 + 1] = s[j + 1]
      BY <1>1, <1>4
    <3> QED  BY <1>1, <3>1, <3>2, <3>3
  <2> QED  BY <2>1, <2>2
<1>8. ASSUME NEW i \in 1..n PROVE prev2[r[i]] = IF i = 1 THEN 0 ELSE r[i - 1]
  <2>1. CASE i = 1
    BY <1>2, <1>p, <2>1
  <2>2. CASE i # 1
    <3>1. PICK j \in 1..Len(s) : j = i - 1 /\ r[i] = s[j]
      BY <1>3, <2>2
    <3>2. CASE j = 1
      BY <1>1, <1>2, <1>p, <3>1, <3>2
    <3>3. CASE j # 1
      <4>1. s[j] # h /\ j - 1 \in 1..Len(s)
        BY <1>1, <3>3 DEF Once
      <4>2. prev2[s[j]] = s[j - 1]
        BY <1>1, <1>p, <3>3, <4>1 DEF Listed, Back
      <4>3. r[(j - 1) + 1] = s[j - 1]
        BY <1>4, <4>1
      <4> QED  BY <2>2, <3>1, <4>2, <4>3
    <3> QED  BY <3>2, <3>3
  <2> QED  BY <2>1, <2>2
<1>9. Elements(r) = Elements(s) \cup {u}
  <2>1. ASSUME NEW x \in Elements(r) PROVE x \in Elements(s) \cup {u}
    <3>1. PICK i \in 1..n : r[i] = x
      BY <1>5, InElements
    <3> QED  BY <1>1, <1>2, <1>3, <3>1
  <2>2. ASSUME NEW x \in Elements(s) PROVE x \in Elements(r)
    <3>1. PICK i \in 1..Len(s) : s[i] = x
      BY <1>1, InElements
    <3> QED  BY <1>4, <1>5, <3>1, InElements
  <2>3. u \in Elements(r)
    <3>1. 1 \in 1..n
      BY <1>1
    <3> QED  BY <1>2, <1>5, <3>1, InElements
  <2> QED  BY <2>1, <2>2, <2>3
<1>10. Listed(r, next2, prev2, u, IF h = 0 THEN u ELSE t)
  <2>1. End(r) = IF h = 0 THEN u ELSE t
    <3>1. CASE Len(s) = 0
      BY <1>1, <1>2, <1>5, <3>1 DEF End
    <3>2. CASE Len(s) # 0
      <4>1. Len(s) \in 1..Len(s) /\ 1 \in 1..Len(s)
        BY <1>1, <3>2
      <4>2. r[n] = s[Len(s)] /\ h # 0 /\ n # 0
        BY <1>1, <1>4, <4>1
      <4> QED  BY <1>1, <1>5, <3>2, <4>2 DEF End
    <3> QED  BY <3>1, <3>2
  <2>2. n # 0
    BY <1>1
  <2>3. Forth(r, next2, u)
    BY <1>2, <1>5, <1>6, <1>7, <2>2 DEF Forth
  <2>4. Back(r, prev2)
    BY <1>5, <1>8 DEF Back
  <2> QED  BY <2>1, <2>3, <2>4 DEF Listed
<1>11. ASSUME NEW c \in Elements(s) PROVE Upto(r, c) = Upto(s, c) \cup {u}
  <2>1. PICK k \in 1..Len(s) : s[k] = c
    BY <1>1, InElements
  <2>2. k + 1 \in 1..Len(r) /\ r[k + 1] = c
    BY <1>4, <1>5, <2>1
  <2>3. Upto(r, c) = {r[j] : j \in 1..(k + 1)}
    BY <1>5, <1>6, <2>2, UptoAt
  <2>4. Upto(s, c) = {s[j] : j \in 1..k}
    BY <1>1, <2>1, UptoAt
  <2>5. ASSUME NEW x \in Upto(r, c) PROVE x \in Upto(s, c) \cup {u}
    <3>1. PICK j \in 1..(k + 1) : r[j] = x
      BY <2>3
    <3>2. j \in 1..n /\ (j # 1 => j - 1 \in 1..k)
      BY <1>1
    <3> QED  BY <1>2, <1>3, <2>4, <3>1, <3>2
  <2>6. ASSUME NEW x \in Upto(s, c) PROVE x \in Upto(r, c)
    <3>1. PICK j \in 1..k : s[j] = x
      BY <2>4
    <3>2. j \in 1..Len(s) /\ j + 1 \in 1..(k + 1)
      BY <1>1
    <3> QED  BY <1>4, <2>3, <3>1, <3>2
  <2>7. u \in Upto(r, c)
    <3>1. 1 \in 1..(k + 1)
      OBVIOUS
    <3> QED  BY <1>2, <2>3, <3>1
  <2> QED  BY <2>5, <2>6, <2>7
<1> QED  BY <1>5, <1>9, <1>10, <1>11

\* A unit taken out of a doubly linked list leaves a doubly linked list of the others.
LEMMA Removed ==
  ASSUME NEW s, NEW next, NEW prev, NEW h, NEW t, Listed(s, next, prev, h, t),
         NEW u \in Elements(s), NEW next2, NEW prev2, Takes(s, u, next, prev, next2, prev2)
  PROVE  \E r : /\ Listed(r, next2, prev2, IF h = u THEN next[u] ELSE h,
                          IF t = u THEN prev[u] ELSE t)
                /\ Len(r) = Len(s) - 1 /\ Elements(r) = Elements(s) \ {u}
                /\ \A c \in Elements(s) : Upto(r, IF c = u THEN prev[u] ELSE c) = Upto(s, c) \ {u}
<1>1. /\ s \in Seq(Units) /\ Once(s) /\ Len(s) \in Nat
      /\ \A i \in 1..Len(s) : s[i] \in Elements(s) /\ s[i] \in Units /\ s[i] # 0
  BY InElements DEF Listed, Forth, End
<1>2. PICK k \in 1..Len(s) : s[k] = u
  BY <1>1, InElements
<1>3. /\ h = s[1] /\ t = s[Len(s)] /\ Len(s) # 0
      /\ 1 \in 1..Len(s) /\ Len(s) \in 1..Len(s)
  BY <1>1, <1>2 DEF Listed, Forth, End
<1>4. /\ \A i \in 1..Len(s) : next[s[i]] = IF i = Len(s) THEN 0 ELSE s[i + 1]
      /\ \A i \in 1..Len(s) : prev[s[i]] = IF i = 1 THEN 0 ELSE s[i - 1]
      /\ \A i, j \in 1..Len(s) : s[i] = s[j] => i = j
  BY <1>1 DEF Listed, Forth, Back, Once
<1> DEFINE n == Len(s) - 1
           r == [i \in 1..n |-> IF i < k THEN s[i] ELSE s[i + 1]]
<1>5. n \in Nat /\ \A i \in 1..n : i \in 1..Len(s) /\ i + 1 \in 1..Len(s)
  BY <1>1, <1>2
<1>6. r \in [1..n -> Units]
  BY <1>1, <1>5
<1>7. /\ \A i \in 1..n : i < k => r[i] = s[i]
      /\ \A i \in 1..n : i >= k => r[i] = s[i + 1]
  BY <1>5
<1> HIDE DEF r
<1>8. r \in Seq(Units) /\ Len(r) = n
  BY <1>5, <1>6, AsSeq
<1>9. \* where an element of s other than u is in r
      ASSUME NEW j \in 1..Len(s), j # k
      PROVE  /\ j < k => j \in 1..n /\ r[j] = s[j]
             /\ j > k => j - 1 \in 1..n /\ r[j - 1] = s[j]
  <2>1. ASSUME j < k PROVE j \in 1..n /\ r[j] = s[j]
    <3>1. j \in 1..n
      BY <1>1, <2>1
    <3> QED  BY <1>7, <2>1, <3>1
  <2>2. ASSUME j > k PROVE j - 1 \in 1..n /\ r[j - 1] = s[j]
    <3>1. j - 1 \in 1..n /\ j - 1 >= k /\ (j - 1) + 1 = j
      BY <1>1, <2>2
    <3> QED  BY <1>7, <3>1
  <2> QED  BY <2>1, <2>2
<1>10. \* and what an element of r is in s
      ASSUME NEW i \in 1..n
      PROVE  \E j \in 1..Len(s) : j # k /\ r[i] = s[j] /\ j = IF i < k THEN i ELSE i + 1
  <2>1. CASE i < k
    BY <1>5, <1>7, <2>1
  <2>2. CASE i >= k
    <3>1. i + 1 \in 1..Len(s) /\ i + 1 # k /\ r[i] = s[i + 1] /\ ~(i < k)
      BY <1>5, <1>7, <2>2
    <3> QED  BY <3>1
  <2>3. i < k \/ i >= k
    BY <1>5
  <2> QED  BY <2>1, <2>2, <2>3
<1>11. Once(r)
  <2> SUFFICES ASSUME NEW i \in 1..n, NEW j \in 1..n, r[i] = r[j] PROVE i = j
    BY <1>8 DEF Once
  <2>1. PICK a \in 1..Len(s) : r[i] = s[a] /\ a = IF i < k THEN i ELSE i + 1
    BY <1>10
  <2>2. PICK b \in 1..Len(s) : r[j] = s[b] /\ b = IF j < k THEN j ELSE j + 1
    BY <1>10
  <2>3. s[a] = s[b]
    BY <2>1, <2>2
  <2>4. a = b
    BY <1>4, <2>3
  <2> QED  BY <2>1, <2>2, <2>4
<1>12. Elements(r) = Elements(s) \ {u}
  <2>1. ASSUME NEW x \in Elements(r) PROVE x \in Elements(s) \ {u}
    <3>1. PICK i \in 1..n : r[i] = x
      BY <1>8, InElements
    <3>2. PICK j \in 1..Len(s) : j # k /\ x = s[j]
      BY <1>10, <3>1
    <3> QED  BY <1>1, <1>2, <1>4, <3>2
  <2>2. ASSUME NEW x \in Elements(s), x # u PROVE x \in Elements(r)
    <3>1. PICK j \in 1..Len(s) : s[j] = x /\ j # k
      BY <1>1, <1>2, <2>2, InElements
    <3>2. j < k \/ j > k
      BY <3>1
    <3> QED  BY <1>8, <1>9, <3>1, <3>2, InElements
  <2> QED  BY <2>1, <2>2
<1>13. next[u] = (IF k = Len(s) THEN 0 ELSE s[k + 1]) /\ prev[u] = (IF k = 1 THEN 0 ELSE s[k - 1])
  BY <1>2, <1>4
<1>14. ASSUME NEW i \in 1..n PROVE next2[r[i]] = IF i = n THEN 0 ELSE r[i + 1]
  <2>1. PICK j \in 1..Len(s) : j # k /\ r[i] = s[j] /\ j = IF i < k THEN i ELSE i + 1
    BY <1>10
  <2>2. s[j] \in Elements(s) /\ s[j] # u
    BY <1>1, <1>2, <1>4, <2>1
  <2>3. next2[r[i]] = IF s[j] = prev[u] THEN next[u] ELSE next[s[j]]
    BY <2>1, <2>2 DEF Takes
  <2>4. s[j] = prev[u] <=> j = k - 1
    <3>1. CASE k = 1
      BY <1>1, <1>13, <3>1
    <3>2. CASE k # 1
      <4>1. k - 1 \in 1..Len(s) /\ prev[u] = s[k - 1]
        BY <1>1, <1>13, <3>2
      <4> QED  BY <1>4, <4>1
    <3> QED  BY <3>1, <3>2
  <2>5. CASE j = k - 1
    <3>1. i = k - 1 /\ next2[r[i]] = IF k = Len(s) THEN 0 ELSE s[k + 1]
      BY <1>13, <2>1, <2>3, <2>4, <2>5
    <3>2. k # Len(s) => k \in 1..n /\ r[k] = s[k + 1]
      BY <1>1, <1>7
    <3> QED  BY <1>1, <3>1, <3>2
  <2>6. CASE j # k - 1
    <3>1. next2[r[i]] = IF j = Len(s) THEN 0 ELSE s[j + 1]
      BY <1>4, <2>3, <2>4, <2>6
    <3>2. j = Len(s) <=> i = n
      BY <1>1, <2>1, <2>6
    <3>3. CASE j # Len(s)
      <4>1. j + 1 \in 1..Len(s) /\ j + 1 # k /\ (i < k <=> j < k) /\ (j < k => j + 1 < k)
        BY <1>1, <2>1, <2>6, <3>3
      <4>2. s[j + 1] = r[i + 1]
        <5>1. CASE j < k
          BY <1>9, <2>1, <4>1, <5>1
        <5>2. CASE j > k
          <6>1. j + 1 > k /\ (j + 1) - 1 = i + 1
            BY <2>1, <4>1, <5>2
          <6> QED  BY <1>9, <4>1, <6>1
        <5> QED  BY <2>1, <5>1, <5>2
      <4> QED  BY <3>1, <3>2, <3>3, <4>2
    <3> QED  BY <3>1, <3>2, <3>3
  <2> QED  BY <2>5, <2>6
<1>15. ASSUME NEW i \in 1..n PROVE prev2[r[i]] = IF i = 1 THEN 0 ELSE r[i - 1]
  <2>1. PICK j \in 1..Len(s) : j # k /\ r[i] = s[j] /\ j = IF i < k THEN i ELSE i + 1
    BY <1>10
  <2>2. s[j] \in Elements(s) /\ s[j] # u
    BY <1>1, <1>2, <1>4, <2>1
  <2>3. prev2[r[i]] = IF s[j] = next[u] THEN prev[u] ELSE prev[s[j]]
    BY <2>1, <2>2 DEF Takes
  <2>4. s[j] = next[u] <=> j = k + 1
    <3>1. CASE k = Len(s)
      BY <1>1, <1>13, <3>1
    <3>2. CASE k # Len(s)
      <4>1. k + 1 \in 1..Len(s) /\ next[u] = s[k + 1]
        BY <1>1, <1>13, <3>2
      <4> QED  BY <1>4, <4>1
    <3> QED  BY <3>1, <3>2
  <2>5. CASE j = k + 1
    <3>1. i = k /\ prev2[r[i]] = IF k = 1 THEN 0 ELSE s[k - 1]
      BY <1>13, <2>1, <2>3, <2>4, <2>5
    <3>2. k # 1 => k - 1 \in 1..n /\ r[k - 1] = s[k - 1]
      BY <1>1, <1>7
    <3> QED  BY <1>1, <3>1, <3>2
  <2>6. CASE j # k + 1
    <3>1. prev2[r[i]] = IF j = 1 THEN 0 ELSE s[j - 1]
      BY <1>4, <2>3, <2>4, <2>6
    <3>2. j = 1 <=> i = 1
      BY <1>1, <2>1, <2>6
    <3>3. CASE j # 1
      <4>1. j - 1 \in 1..Len(s) /\ j - 1 # k /\ (i < k <=> j < k) /\ (j > k => j - 1 > k)
        BY <1>1, <2>1, <2>6, <3>3
      <4>2. s[j - 1] = r[i - 1]
        <5>1. CASE j < k
          <6>1. j - 1 < k
            BY <5>1
          <6> QED  BY <1>9, <2>1, <4>1, <5>1, <6>1
        <5>2. CASE j > k
          <6>1. (j - 1) - 1 = i - 1
            BY <2>1, <4>1, <5>2
          <6> QED  BY <1>9, <4>1, <5>2, <6>1
        <5> QED  BY <2>1, <5>1, <5>2
      <4> QED  BY <3>1, <3>2, <3>3, <4>2
    <3> QED  BY <3>1, <3>2, <3>3
  <2> QED  BY <2>5, <2>6
<1>16. End(r) = IF t = u THEN prev[u] ELSE t
  <2>1. CASE k = Len(s)
    <3>1. t = u
      BY <1>2, <1>3, <2>1
    <3>2. CASE k = 1
      BY <1>8, <1>13, <2>1, <3>1, <3>2 DEF End
    <3>3. CASE k # 1
      <4>1. n \in 1..n /\ n < k /\ n = k - 1 /\ n # 0
        BY <1>1, <2>1, <3>3
      <4>2. r[n] = s[k - 1]
        BY <1>7, <4>1
      <4> QED  BY <1>8, <1>13, <3>1, <3>3, <4>1, <4>2 DEF End
    <3> QED  BY <3>2, <3>3
  <2>2. CASE k # Len(s)
    <3>1. t # u
      BY <1>2, <1>3, <1>4, <2>2
    <3>2. n \in 1..n /\ n >= k /\ n + 1 = Len(s) /\ n # 0
      BY <1>1, <2>2
    <3>3. r[n] = t
      BY <1>3, <1>7, <3>2
    <3> QED  BY <1>8, <3>1, <3>2, <3>3 DEF End
  <2> QED  BY <2>1, <2>2
<1>17. (IF h = u THEN next[u] ELSE h) = IF n = 0 THEN 0 ELSE r[1]
  <2>1. CASE k = 1
    <3>1. h = u /\ next[u] = IF Len(s) = 1 THEN 0 ELSE s[2]
      BY <1>2, <1>3, <1>13, <2>1
    <3>2. \A i \in 1..n : i = 1 => r[i] = s[2]
      BY <1>7, <2>1
    <3>3. ASSUME n # 0 PROVE 1 \in 1..n
      <4>1. Len(s) - 1 \in Nat /\ Len(s) - 1 # 0
        BY <1>5, <3>3
      <4>2. \A i \in Nat : i # 0 => 1 \in 1..i
        OBVIOUS
      <4> QED  BY <4>1, <4>2
    <3>4. n # 0 => r[1] = s[2]
      BY <3>2, <3>3
    <3> QED  BY <1>1, <3>1, <3>4
  <2>2. CASE k # 1
    <3>1. h # u
      BY <1>2, <1>3, <1>4, <2>2
    <3>2. 1 \in 1..n /\ 1 < k /\ n # 0
      BY <1>1, <2>2
    <3> QED  BY <1>3, <1>7, <3>1, <3>2
  <2> QED  BY <2>1, <2>2
<1>18. Listed(r, next2, prev2, IF h = u THEN next[u] ELSE h, IF t = u THEN prev[u] ELSE t)
  <2>1. Forth(r, next2, IF h = u THEN next[u] ELSE h)
    BY <1>8, <1>11, <1>14, <1>17 DEF Forth
  <2>2. Back(r, prev2)
    BY <1>8, <1>15 DEF Back
  <2> QED  BY <1>16, <2>1, <2>2 DEF Listed
<1>19. ASSUME NEW b \in 1..n, NEW a \in 1..Len(s), a = IF b < k THEN b ELSE b + 1
       PROVE  Upto(r, r[b]) = Upto(s, s[a]) \ {u}
  <2>1. b \in 1..Len(r) /\ Once(r)
    BY <1>8, <1>11
  <2>2. Upto(r, r[b]) = {r[i] : i \in 1..b}
    BY <1>8, <2>1, UptoAt
  <2>3. Upto(s, s[a]) = {s[i] : i \in 1..a}
    BY <1>1, UptoAt
  <2>4. ASSUME NEW x \in Upto(r, r[b]) PROVE x \in Upto(s, s[a]) /\ x # u
    <3>1. PICK i \in 1..b : r[i] = x
      BY <2>2
    <3>2. i \in 1..n
      BY <1>5
    <3>3. PICK j \in 1..Len(s) : j # k /\ x = s[j] /\ j = IF i < k THEN i ELSE i + 1
      BY <1>10, <3>1, <3>2
    <3>4. j \in 1..a
      BY <1>19, <3>3
    <3> QED  BY <1>2, <1>4, <2>3, <3>3, <3>4
  <2>5. ASSUME NEW x \in Upto(s, s[a]), x # u PROVE x \in Upto(r, r[b])
    <3>1. PICK j \in 1..a : s[j] = x
      BY <2>3
    <3>2. j \in 1..Len(s) /\ j # k
      BY <1>1, <1>2, <2>5, <3>1
    <3>3. CASE j < k
      <4>1. j \in 1..b /\ r[j] = x
        BY <1>9, <1>19, <3>1, <3>2, <3>3
      <4> QED  BY <2>2, <4>1
    <3>4. CASE j > k
      <4>1. j - 1 \in 1..b /\ r[j - 1] = x
        BY <1>9, <1>19, <3>1, <3>2, <3>4
      <4> QED  BY <2>2, <4>1
    <3> QED  BY <3>2, <3>3, <3>4
  <2> QED  BY <2>4, <2>5
<1>20. ASSUME NEW c \in Elements(s)
       PROVE  Upto(r, IF c = u THEN prev[u] ELSE c) = Upto(s, c) \ {u}
  <2>1. PICK a \in 1..Len(s) : s[a] = c
    BY <1>1, InElements
  <2>2. CASE a < k
    <3>1. a \in 1..n /\ r[a] = c /\ c # u
      BY <1>2, <1>4, <1>9, <2>1, <2>2
    <3> QED  BY <1>19, <2>1, <2>2, <3>1
  <2>3. CASE a > k
    <3>1. a - 1 \in 1..n /\ r[a - 1] = c /\ c # u /\ a = IF a - 1 < k THEN a - 1 ELSE (a - 1) + 1
      BY <1>2, <1>4, <1>9, <2>1, <2>3
    <3> QED  BY <1>19, <2>1, <3>1
  <2>4. CASE a = k /\ k = 1
    <3>1. c = u /\ prev[u] = 0
      BY <1>2, <1>13, <2>1, <2>4
    <3>2. Upto(r, 0) = {}
      BY <1>8, InElements, UptoNone
    <3>3. \A x \in Upto(s, c) : x = u
      <4>1. Upto(s, c) = {s[j] : j \in 1..1}
        BY <1>1, <2>1, <2>4, UptoAt
      <4> QED  BY <1>2, <2>4, <4>1
    <3> QED  BY <3>1, <3>2, <3>3
  <2>5. CASE a = k /\ k # 1
    <3>1. c = u /\ prev[u] = s[k - 1] /\ k - 1 \in 1..n /\ k - 1 \in 1..Len(s) /\ k - 1 < k
      BY <1>1, <1>2, <1>13, <2>1, <2>5
    <3>2. r[k - 1] = s[k - 1]
      BY <1>7, <3>1
    <3>3. Upto(r, s[k - 1]) = Upto(s, s[k - 1]) \ {u}
      BY <1>19, <3>1, <3>2
    <3>4. Upto(s, s[k - 1]) = {s[j] : j \in 1..(k - 1)}
      BY <1>1, <3>1, UptoAt
    <3>5. Upto(s, c) = {s[j] : j \in 1..k}
      BY <1>1, <1>2, <3>1, UptoAt
    <3>6. \A x : x # u => (x \in Upto(s, c) <=> x \in Upto(s, s[k - 1]))
      <4>1. ASSUME NEW x, x # u, x \in Upto(s, c) PROVE x \in Upto(s, s[k - 1])
        <5>1. PICK j \in 1..k : s[j] = x
          BY <3>5, <4>1
        <5>2. j \in 1..(k - 1)
          BY <1>2, <4>1, <5>1
        <5> QED  BY <3>4, <5>1, <5>2
      <4>2. ASSUME NEW x, x \in Upto(s, s[k - 1]) PROVE x \in Upto(s, c)
        <5>1. PICK j \in 1..(k - 1) : s[j] = x
          BY <3>4, <4>2
        <5>2. j \in 1..k
          OBVIOUS
        <5> QED  BY <3>5, <5>1, <5>2
      <4> QED  BY <4>1, <4>2
    <3> QED  BY <3>1, <3>3, <3>6
  <2> QED  BY <2>2, <2>3, <2>4, <2>5
<1> QED  BY <1>8, <1>12, <1>18, <1>20

\* A unit brought to the front of a doubly linked list leaves a list of the same units.
LEMMA Moved ==
  ASSUME NEW s, NEW next, NEW prev, NEW h, NEW t, Listed(s, next, prev, h, t),
         NEW u \in Elements(s), u # h, NEW next2, NEW prev2,
         Shifts(s, u, h, next, prev, next2, prev2)
  PROVE  \E r : /\ Listed(r, next2, prev2, u, IF t = u THEN prev[u] ELSE t)
                /\ Len(r) = Len(s) /\ Elements(r) = Elements(s)
                /\ \A c \in Elements(s) :
                     Upto(r, IF c = u THEN prev[u] ELSE c) = Upto(s, c) \cup {u}
<1> DEFINE next1 == [x \in Units |-> IF x = prev[u] THEN next[u] ELSE next[x]]
           prev1 == [x \in Units |-> IF x = next[u] THEN prev[u] ELSE prev[x]]
           t1 == IF t = u THEN prev[u] ELSE t
<1>1. s \in Seq(Units) /\ Elements(s) \subseteq Units /\ Len(s) \in Nat /\ 0 \notin Elements(s)
  BY InElements DEF Listed, Forth
<1>2. Takes(s, u, next, prev, next1, prev1)
  BY <1>1 DEF Takes
<1> HIDE DEF next1, prev1
<1>h. (IF h = u THEN next[u] ELSE h) = h
  OBVIOUS
<1>r. \E q : /\ Listed(q, next1, prev1, IF h = u THEN next[u] ELSE h, IF t = u THEN prev[u] ELSE t)
             /\ Len(q) = Len(s) - 1 /\ Elements(q) = Elements(s) \ {u}
             /\ \A c \in Elements(s) : Upto(q, IF c = u THEN prev[u] ELSE c) = Upto(s, c) \ {u}
  BY <1>2, Removed
<1>3. PICK q : /\ Listed(q, next1, prev1, h, t1)
               /\ Len(q) = Len(s) - 1 /\ Elements(q) = Elements(s) \ {u}
               /\ \A c \in Elements(s) : Upto(q, IF c = u THEN prev[u] ELSE c) = Upto(s, c) \ {u}
  BY <1>h, <1>r
<1>4. h # 0 /\ u \in Units /\ u \notin Elements(q) /\ prev[u] \in Elements(s) /\ prev[u] # u
  BY <1>1, <1>3, Neighbours
<1>5. Puts(q, u, h, next1, prev1, next2, prev2)
  BY <1>2, <1>3 DEF Takes, Puts, Shifts
<1> HIDE DEF t1
<1>6. PICK r : /\ Listed(r, next2, prev2, u, IF h = 0 THEN u ELSE t1)
               /\ Len(r) = Len(q) + 1 /\ Elements(r) = Elements(q) \cup {u}
               /\ \A c \in Elements(q) : Upto(r, c) = Upto(q, c) \cup {u}
  BY <1>3, <1>4, <1>5, Pushed
<1>7. Len(r) = Len(s) /\ Elements(r) = Elements(s)
  BY <1>1, <1>3, <1>6
<1>8. ASSUME NEW c \in Elements(s)
      PROVE  Upto(r, IF c = u THEN prev[u] ELSE c) = Upto(s, c) \cup {u}
  <2>1. (IF c = u THEN prev[u] ELSE c) \in Elements(q)
    BY <1>3, <1>4
  <2> QED  BY <1>3, <1>6, <2>1
<1> QED  BY <1>4, <1>6, <1>7, <1>8 DEF t1

-----------------------------------------------------------------------------
(* Chains without a way back: the chunks of a block. *)

\* A chain stays when the links of its members stay.
LEMMA ForthKept ==
  ASSUME NEW s, NEW next, NEW a, Forth(s, next, a), NEW next2,
         \A x \in Elements(s) : next2[x] = next[x]
  PROVE  Forth(s, next2, a)
<1>1. s \in Seq(Units)
  BY DEF Forth
<1>2. \A i \in 1..Len(s) : s[i] \in Elements(s)
  BY <1>1, InElements
<1> QED  BY <1>2 DEF Forth

\* A unit whose link is 0 is a chain by itself.
LEMMA Alone ==
  ASSUME NEW u \in Units, NEW next, next[u] = 0
  PROVE  Forth(<<u>>, next, u) /\ Elements(<<u>>) = {u}
<1>1. <<u>> \in Seq(Units) /\ Len(<<u>>) = 1 /\ <<u>>[1] = u
  OBVIOUS
<1>2. Forth(<<u>>, next, u)
  BY <1>1 DEF Forth, Once
<1>3. \A x : x \in Elements(<<u>>) <=> \E i \in 1..1 : <<u>>[i] = x
  BY <1>1, InElements
<1> QED  BY <1>1, <1>2, <1>3

\* The elements of a part of a list.
Part(s, i, j) == {s[k] : k \in i..j}

\* A chain whose k-th link is cleared has the first k members left.
LEMMA Shortened ==
  ASSUME NEW s, NEW next, NEW a, Forth(s, next, a), NEW k \in 1..Len(s), NEW next2,
         next2[s[k]] = 0, \A x \in Elements(s) \ {s[k]} : next2[x] = next[x]
  PROVE  \E r : /\ Forth(r, next2, a) /\ Len(r) = k
                /\ Elements(r) = Part(s, 1, k)
<1>1. /\ s \in Seq(Units) /\ Len(s) \in Nat
      /\ \A i \in 1..Len(s) : s[i] \in Elements(s) /\ s[i] \in Units
      /\ \A i, j \in 1..Len(s) : s[i] = s[j] => i = j
      /\ \A i \in 1..Len(s) : next[s[i]] = IF i = Len(s) THEN 0 ELSE s[i + 1]
  BY InElements DEF Forth, Once
<1>2. k \in Nat /\ k # 0 /\ \A i \in 1..k : i \in 1..Len(s)
  BY <1>1
<1> DEFINE r == [i \in 1..k |-> s[i]]
<1>3. r \in [1..k -> Units] /\ \A i \in 1..k : r[i] = s[i]
  BY <1>1, <1>2
<1>4. Elements(r) = Part(s, 1, k)
  BY DEF Elements, Part
<1> HIDE DEF r
<1>5. r \in Seq(Units) /\ Len(r) = k
  BY <1>2, <1>3, AsSeq
<1>6. Once(r)
  BY <1>1, <1>2, <1>3, <1>5 DEF Once
<1>7. ASSUME NEW i \in 1..k PROVE next2[r[i]] = IF i = k THEN 0 ELSE r[i + 1]
  <2>1. CASE i = k
    BY <1>3, <2>1
  <2>2. CASE i # k
    <3>1. i + 1 \in 1..k /\ i # Len(s) /\ i \in 1..Len(s)
      BY <1>1, <2>2
    <3>2. s[i] # s[k] /\ next[s[i]] = s[i + 1]
      BY <1>1, <2>2, <3>1
    <3> QED  BY <1>1, <1>3, <2>2, <3>1, <3>2
  <2> QED  BY <2>1, <2>2
<1>8. a = r[1]
  <2>1. 1 \in 1..k /\ Len(s) # 0
    BY <1>1, <1>2
  <2> QED  BY <1>3, <2>1 DEF Forth
<1>9. Forth(r, next2, a)
  BY <1>2, <1>5, <1>6, <1>7, <1>8 DEF Forth
<1> QED  BY <1>4, <1>5, <1>9

\* A chain whose last link is set to a unit that points nowhere is one longer.
LEMMA Lengthened ==
  ASSUME NEW s, NEW next, NEW a, Forth(s, next, a), a # 0, NEW u \in Units, u \notin Elements(s),
         NEW next2, next2[End(s)] = u, next2[u] = 0,
         \A x \in Elements(s) \ {End(s)} : next2[x] = next[x]
  PROVE  \E r : /\ Forth(r, next2, a) /\ Len(r) = Len(s) + 1 /\ End(r) = u
                /\ Elements(r) = Elements(s) \cup {u}
<1>1. /\ s \in Seq(Units) /\ Len(s) \in Nat /\ Len(s) # 0
      /\ \A i \in 1..Len(s) : s[i] \in Elements(s) /\ s[i] \in Units
      /\ \A i, j \in 1..Len(s) : s[i] = s[j] => i = j
      /\ \A i \in 1..Len(s) : next[s[i]] = IF i = Len(s) THEN 0 ELSE s[i + 1]
      /\ a = s[1] /\ End(s) = s[Len(s)]
  BY InElements DEF Forth, Once, End
<1> DEFINE n == Len(s) + 1
           r == Append(s, u)
<1>2. /\ r \in Seq(Units) /\ Len(r) = n /\ r[n] = u /\ n \in Nat /\ n # 0
      /\ \A i \in 1..Len(s) : r[i] = s[i] /\ i \in 1..n
  BY <1>1
<1> HIDE DEF r
<1>3. \A i \in 1..n : i = n \/ i \in 1..Len(s)
  BY <1>1
<1>4. Once(r)
  BY <1>1, <1>2, <1>3 DEF Once
<1>5. ASSUME NEW i \in 1..n PROVE next2[r[i]] = IF i = n THEN 0 ELSE r[i + 1]
  <2>1. CASE i = n
    BY <1>2, <2>1
  <2>2. CASE i = Len(s)
    <3>1. i # n /\ i + 1 = n /\ Len(s) \in 1..Len(s)
      BY <1>1, <2>2
    <3> QED  BY <1>1, <1>2, <2>2, <3>1
  <2>3. CASE i # n /\ i # Len(s)
    <3>1. i \in 1..Len(s) /\ i + 1 \in 1..Len(s) /\ Len(s) \in 1..Len(s)
      BY <1>1, <1>3, <2>3
    <3>2. s[i] # s[Len(s)]
      BY <1>1, <2>3, <3>1
    <3> QED  BY <1>1, <1>2, <2>3, <3>1, <3>2
  <2> QED  BY <2>1, <2>2, <2>3
<1>6. Forth(r, next2, a)
  <2>1. 1 \in 1..Len(s)
    BY <1>1
  <2>2. a = r[1]
    BY <1>1, <1>2, <2>1
  <2> QED  BY <1>2, <1>4, <1>5, <2>2 DEF Forth
<1>7. ASSUME NEW x PROVE x \in Elements(r) <=> x \in Elements(s) \cup {u}
  <2>1. x \in Elements(r) <=> \E i \in 1..n : r[i] = x
    BY <1>2, InElements
  <2>2. x \in Elements(s) <=> \E i \in 1..Len(s) : s[i] = x
    BY <1>1, InElements
  <2>3. n \in 1..n
    BY <1>2
  <2> QED  BY <1>2, <1>3, <2>1, <2>2, <2>3
<1>8. End(r) = u
  BY <1>2 DEF End
<1>9. Elements(r) = Elements(s) \cup {u}
  BY <1>7
<1> QED  BY <1>2, <1>6, <1>8, <1>9

-----------------------------------------------------------------------------
(* What a group of log entries writes. *)

\* Max of a finite set of positive naturals is its largest member.
LEMMA Largest ==
  ASSUME NEW S, NEW n \in Nat, S \subseteq 1..n, S # {}
  PROVE  Max(S) \in S /\ \A i \in S : i <= Max(S)
<1> DEFINE D == {n - i : i \in S}
<1>1. D \subseteq Nat /\ D # {}
  OBVIOUS
<1>2. PICK d \in D : \A e \in D : d <= e
  BY <1>1, Smallest
<1>3. PICK k \in S : d = n - k
  OBVIOUS
<1>4. ASSUME NEW i \in S PROVE k >= i
  <2>1. n - i \in D /\ n - k <= n - i
    BY <1>2, <1>3
  <2> QED  BY <2>1
<1>5. \E x \in S : \A y \in S : x >= y
  BY <1>4
<1>6. Max(S) \in S /\ \A y \in S : Max(S) >= y
  BY <1>5 DEF Max
<1> QED  BY <1>6

\* The word <<f, x>> when one entry is written.
CellOf(e, f, x, v) == IF e[1] = f /\ e[2] = x THEN e[3] ELSE v

\* The value of a cell after a log is that of the last entry for it, or the old value.
LEMMA CellFrom ==
  ASSUME NEW S, NEW g \in Seq(S), NEW f, NEW x, NEW v
  PROVE  \/ Hits(g, f, x) = {} /\ Cell(g, f, x, v) = v
         \/ \E i \in 1..Len(g) : /\ g[i][1] = f /\ g[i][2] = x /\ Cell(g, f, x, v) = g[i][3]
                                 /\ \A j \in Hits(g, f, x) : j <= i
<1> DEFINE H == Hits(g, f, x)
<1>1. H \subseteq 1..Len(g) /\ Len(g) \in Nat /\ \A i \in H : g[i][1] = f /\ g[i][2] = x
  BY DEF Hits
<1>2. CASE H = {}
  BY <1>2 DEF Cell
<1>3. CASE H # {}
  <2>1. Max(H) \in H /\ \A i \in H : i <= Max(H)
    BY <1>1, <1>3, Largest
  <2>2. Cell(g, f, x, v) = g[Max(H)][3]
    BY <1>3 DEF Cell
  <2> HIDE DEF H
  <2> QED  BY <1>1, <2>1, <2>2 DEF H
<1> QED  BY <1>2, <1>3

\* An empty log changes no cell.
LEMMA CellNone == ASSUME NEW f, NEW x, NEW v PROVE Cell(<<>>, f, x, v) = v
  BY DEF Cell, Hits

\* What a log of one entry leaves in a cell.
LEMMA CellOne ==
  ASSUME NEW e, NEW f, NEW x, NEW v
  PROVE  Cell(<<e>>, f, x, v) = CellOf(e, f, x, v)
<1>1. <<e>> \in Seq({e}) /\ Len(<<e>>) = 1 /\ <<e>>[1] = e /\ DOMAIN <<e>> = {1}
  OBVIOUS
<1>2. CASE e[1] = f /\ e[2] = x
  <2>1. Hits(<<e>>, f, x) = {1}
    BY <1>1, <1>2 DEF Hits
  <2>2. {1} \subseteq 1..1 /\ {1} # {} /\ 1 \in Nat
    OBVIOUS
  <2>3. Max({1}) \in {1}
    BY <2>2, Largest
  <2>4. Cell(<<e>>, f, x, v) = <<e>>[1][3]
    BY <2>1, <2>3 DEF Cell
  <2> QED  BY <1>1, <1>2, <2>4 DEF CellOf
<1>3. CASE ~(e[1] = f /\ e[2] = x)
  <2>1. Hits(<<e>>, f, x) = {}
    BY <1>1, <1>3 DEF Hits
  <2> QED  BY <1>3, <2>1 DEF Cell, CellOf
<1> QED  BY <1>2, <1>3

\* A log followed by another: the second is applied to the outcome of the first.
LEMMA CellJoin ==
  ASSUME NEW S, NEW g \in Seq(S), NEW k \in Seq(S), NEW f, NEW x, NEW v
  PROVE  Cell(g \o k, f, x, v) = Cell(k, f, x, Cell(g, f, x, v))
<1> DEFINE j == g \o k
<1>1. /\ j \in Seq(S) /\ Len(j) = Len(g) + Len(k) /\ Len(g) \in Nat /\ Len(k) \in Nat
      /\ \A i \in 1..Len(g) : j[i] = g[i]
      /\ \A i \in 1..Len(k) : j[Len(g) + i] = k[i]
      /\ DOMAIN j = 1..Len(j) /\ DOMAIN g = 1..Len(g) /\ DOMAIN k = 1..Len(k)
  OBVIOUS
<1> HIDE DEF j
<1>a. \A i \in 1..Len(g) : i \in 1..Len(j)
  BY <1>1
<1>b. \A i \in 1..Len(k) : Len(g) + i \in 1..Len(j)
  BY <1>1
<1>2. \A i \in Hits(g, f, x) : i \in Hits(j, f, x)
  BY <1>1, <1>a DEF Hits
<1>3. \A i \in Hits(k, f, x) : Len(g) + i \in Hits(j, f, x)
  BY <1>1, <1>b DEF Hits
<1>4. ASSUME NEW i \in Hits(j, f, x)
      PROVE  i \in Hits(g, f, x) \/ i - Len(g) \in Hits(k, f, x)
  <2>1. i \in 1..Len(j) /\ j[i][1] = f /\ j[i][2] = x
    BY <1>1 DEF Hits
  <2>2. CASE i <= Len(g)
    BY <1>1, <2>1, <2>2 DEF Hits
  <2>3. CASE i > Len(g)
    <3>1. i - Len(g) \in 1..Len(k) /\ Len(g) + (i - Len(g)) = i
      BY <1>1, <2>1, <2>3
    <3> QED  BY <1>1, <2>1, <3>1 DEF Hits
  <2> QED  BY <1>1, <2>1, <2>2, <2>3
<1>5. CASE Hits(k, f, x) # {}
  <2>1. PICK i \in 1..Len(k) : /\ \A w : Cell(k, f, x, w) = k[i][3]
                               /\ i \in Hits(k, f, x)
                               /\ \A n \in Hits(k, f, x) : n <= i
    <3>1. Hits(k, f, x) \subseteq 1..Len(k)
      BY <1>1 DEF Hits
    <3>2. Max(Hits(k, f, x)) \in Hits(k, f, x) /\ \A n \in Hits(k, f, x) : n <= Max(Hits(k, f, x))
      BY <1>1, <1>5, <3>1, Largest
    <3>3. \A w : Cell(k, f, x, w) = k[Max(Hits(k, f, x))][3]
      BY <1>5 DEF Cell
    <3> QED  BY <3>1, <3>2, <3>3
  <2>2. Len(g) + i \in Hits(j, f, x)
    BY <1>3, <2>1
  <2>3. PICK n \in 1..Len(j) : /\ n \in Hits(j, f, x) /\ Cell(j, f, x, v) = j[n][3]
                               /\ \A y \in Hits(j, f, x) : y <= n
    <3>1. PICK n \in 1..Len(j) : /\ j[n][1] = f /\ j[n][2] = x /\ Cell(j, f, x, v) = j[n][3]
                                 /\ \A y \in Hits(j, f, x) : y <= n
      <4>1. \/ Hits(j, f, x) = {} /\ Cell(j, f, x, v) = v
            \/ \E n \in 1..Len(j) : /\ j[n][1] = f /\ j[n][2] = x /\ Cell(j, f, x, v) = j[n][3]
                                     /\ \A y \in Hits(j, f, x) : y <= n
        <5>1. j \in Seq(S)
          BY <1>1
        <5> QED  BY <5>1, CellFrom
      <4> QED  BY <2>2, <4>1
    <3> QED  BY <1>1, <3>1 DEF Hits
  <2>4. n = Len(g) + i
    <3>1. n >= Len(g) + i
      BY <2>2, <2>3
    <3>2. n \notin Hits(g, f, x)
      BY <1>1, <2>1, <3>1 DEF Hits
    <3>3. n - Len(g) \in Hits(k, f, x)
      BY <1>4, <2>3, <3>2
    <3>4. n - Len(g) <= i
      BY <2>1, <3>3
    <3>5. n \in Nat /\ i \in Nat /\ Len(g) \in Nat
      BY <1>1
    <3> QED  BY <3>1, <3>4, <3>5
  <2> QED  BY <1>1, <2>1, <2>3, <2>4 DEF j
<1>6. CASE Hits(k, f, x) = {}
  <2>1. Hits(j, f, x) = Hits(g, f, x)
    <3>1. \A i \in Hits(j, f, x) : i \in Hits(g, f, x)
      BY <1>4, <1>6
    <3> QED  BY <1>2, <3>1
  <2>2. Cell(k, f, x, Cell(g, f, x, v)) = Cell(g, f, x, v)
    BY <1>6 DEF Cell
  <2>3. CASE Hits(g, f, x) = {}
    BY <2>1, <2>2, <2>3 DEF Cell, j
  <2>4. CASE Hits(g, f, x) # {}
    <3> DEFINE n == Max(Hits(g, f, x))
    <3>0. Hits(g, f, x) \subseteq 1..Len(g)
      BY <1>1 DEF Hits
    <3>1. n \in Hits(g, f, x) /\ n \in 1..Len(g)
      BY <1>1, <2>4, <3>0, Largest
    <3>2. Cell(j, f, x, v) = j[n][3] /\ Cell(g, f, x, v) = g[n][3]
      BY <2>1, <2>4 DEF Cell
    <3> HIDE DEF n
    <3> QED  BY <1>1, <2>2, <3>1, <3>2 DEF j
  <2> QED  BY <2>3, <2>4
<1> QED  BY <1>5, <1>6

\* What a conditional log leaves in a cell.
LEMMA CellWhen ==
  ASSUME NEW c \in BOOLEAN, NEW g, NEW f, NEW x, NEW v
  PROVE  Cell(When(c, g), f, x, v) = IF c THEN Cell(g, f, x, v) ELSE v
  BY CellNone DEF When

-----------------------------------------------------------------------------
(* The memory, and the entries that keep it one. *)

\* The arrays the memory consists of.
Fields == UnitLinks \cup {"head", "index", "data", "dirty", "onlyKey", "bucket", "listCount"}

\* The words of the head of the map.
Heads == HeadLinks \cup HeadCounts

\* m has a value of the right kind in every cell.
IsMemory(m) ==
    /\ m = [f \in Fields |-> m[f]]
    /\ \A f \in UnitLinks : m[f] \in [Units -> Addr]
    /\ m.head = [h \in Heads |-> m.head[h]]
    /\ \A h \in HeadLinks : m.head[h] \in Addr
    /\ \A h \in HeadCounts : m.head[h] \in Int
    /\ m.head.getCount = 0 /\ m.head.hitCount = 0
    /\ m.index \in [Units -> Buckets] /\ m.data \in [Units -> Datum]
    /\ m.dirty \in [Units -> BOOLEAN] /\ m.onlyKey \in [Units -> BOOLEAN]
    /\ m.bucket \in [Buckets -> Addr] /\ m.listCount \in [Buckets -> Int]

\* The entries of incGetCount and incHitCount.
Quiet == {<<"head", "getCount", 0>>, <<"head", "hitCount", 0>>}

\* Entries that name a word and fit into it.
Entry ==
    (UnitLinks \X Units \X Addr) \cup ({"head"} \X HeadLinks \X Addr)
    \cup ({"head"} \X {"elements", "dirtyCount", "onlyKeyCount"} \X Int) \cup Quiet
    \cup ({"data"} \X Units \X Datum) \cup ({"dirty"} \X Units \X BOOLEAN)
    \cup ({"bucket"} \X Buckets \X Addr) \cup ({"listCount"} \X Buckets \X Int)

\* An entry of the log names a cell and a value that this cell may hold.
LEMMA EntryFits ==
  ASSUME NEW e \in Entry
  PROVE  /\ e[1] \in UnitLinks => e[2] \in Units /\ e[3] \in Addr
         /\ e[1] = "head" => /\ e[2] \in HeadLinks => e[3] \in Addr
                             /\ e[2] \in HeadCounts => e[3] \in Int
                             /\ e[2] \in {"getCount", "hitCount"} => e[3] = 0
         /\ e[1] = "data" => e[3] \in Datum
         /\ e[1] = "dirty" => e[3] \in BOOLEAN
         /\ e[1] = "bucket" => e[3] \in Addr
         /\ e[1] = "listCount" => e[3] \in Int
         /\ e[1] \notin {"index", "onlyKey"}
  BY DEF Entry, Quiet, UnitLinks, HeadLinks, HeadCounts

\* The entries the operations record are entries.
LEMMA EntryMade ==
  /\ \A f \in UnitLinks, x \in Units, v \in Addr : <<f, x, v>> \in Entry
  /\ \A h \in HeadLinks, v \in Addr : <<"head", h, v>> \in Entry
  /\ \A h \in {"elements", "dirtyCount", "onlyKeyCount"}, v \in Int : <<"head", h, v>> \in Entry
  /\ \A x \in Units, v \in Datum : <<"data", x, v>> \in Entry
  /\ \A x \in Units, v \in BOOLEAN : <<"dirty", x, v>> \in Entry
  /\ \A i \in Buckets, v \in Addr : <<"bucket", i, v>> \in Entry
  /\ \A i \in Buckets, v \in Int : <<"listCount", i, v>> \in Entry
  /\ Quiet \subseteq Entry
  BY DEF Entry

\* Applying a log, field by field.
LEMMA ApplyAt ==
  ASSUME NEW m, IsMemory(m), NEW g
  PROVE  /\ \A f \in Fields : \A x : x \in DOMAIN m[f] => Apply(m, g)[f][x] = Cell(g, f, x, m[f][x])
         /\ \A f \in Fields : Apply(m, g)[f] = [x \in DOMAIN m[f] |-> Cell(g, f, x, m[f][x])]
         /\ Apply(m, g) = [f \in Fields |-> Apply(m, g)[f]]
<1>1. DOMAIN m = Fields
  BY DEF IsMemory
<1>2. Apply(m, g) = [f \in Fields |-> [x \in DOMAIN m[f] |-> Cell(g, f, x, m[f][x])]]
  BY <1>1 DEF Apply
<1> QED  BY <1>2

\* A log of entries applied to a memory gives a memory.
LEMMA ApplyTyped ==
  ASSUME NEW m, IsMemory(m), NEW g \in Seq(Entry)
  PROVE  IsMemory(Apply(m, g))
<1> DEFINE m2 == Apply(m, g)
<1>1. /\ \A f \in Fields : m2[f] = [x \in DOMAIN m[f] |-> Cell(g, f, x, m[f][x])]
      /\ m2 = [f \in Fields |-> m2[f]]
  BY ApplyAt
<1> HIDE DEF m2
<1>2. ASSUME NEW f, NEW x, NEW v
      PROVE  Cell(g, f, x, v) = v \/ \E e \in Entry : e[1] = f /\ e[2] = x /\ Cell(g, f, x, v) = e[3]
  <2>1. \A i \in 1..Len(g) : g[i] \in Entry
    OBVIOUS
  <2>2. \/ Hits(g, f, x) = {} /\ Cell(g, f, x, v) = v
        \/ \E i \in 1..Len(g) : /\ g[i][1] = f /\ g[i][2] = x /\ Cell(g, f, x, v) = g[i][3]
                                /\ \A j \in Hits(g, f, x) : j <= i
    BY CellFrom
  <2> QED  BY <2>1, <2>2
<1>3. ASSUME NEW f \in UnitLinks PROVE m2[f] \in [Units -> Addr]
  <2>1. f \in Fields /\ m[f] \in [Units -> Addr]
    BY DEF IsMemory, Fields
  <2>2. m2[f] = [x \in Units |-> Cell(g, f, x, m[f][x])]
    BY <1>1, <2>1
  <2>3. \A x \in Units : Cell(g, f, x, m[f][x]) \in Addr
    BY <1>2, <2>1, EntryFits
  <2> QED  BY <2>2, <2>3
<1>4. /\ m2.head = [h \in Heads |-> m2.head[h]]
      /\ \A h \in Heads : m2.head[h] = Cell(g, "head", h, m.head[h])
  <2>1. "head" \in Fields /\ DOMAIN m.head = Heads
    BY DEF IsMemory, Fields
  <2>2. m2.head = [h \in Heads |-> Cell(g, "head", h, m.head[h])]
    BY <1>1, <2>1
  <2> QED  BY <2>2
<1>5. ASSUME NEW h \in Heads
      PROVE  \/ m2.head[h] = m.head[h]
             \/ \E e \in Entry : e[1] = "head" /\ e[2] = h /\ m2.head[h] = e[3]
  BY <1>2, <1>4
<1>6. /\ \A h \in HeadLinks : m2.head[h] \in Addr
      /\ \A h \in HeadCounts : m2.head[h] \in Int
      /\ \A h \in {"getCount", "hitCount"} : m2.head[h] = 0
  <2>1. ASSUME NEW h \in HeadLinks PROVE m2.head[h] \in Addr
    <3>1. h \in Heads /\ m.head[h] \in Addr
      BY DEF Heads, IsMemory
    <3> QED  BY <1>5, <3>1, EntryFits
  <2>2. ASSUME NEW h \in HeadCounts PROVE m2.head[h] \in Int
    <3>1. h \in Heads /\ m.head[h] \in Int
      BY DEF Heads, IsMemory
    <3> QED  BY <1>5, <3>1, EntryFits
  <2>3. ASSUME NEW h \in {"getCount", "hitCount"} PROVE m2.head[h] = 0
    <3>1. h \in Heads /\ m.head[h] = 0
      BY DEF Heads, HeadCounts, IsMemory
    <3> QED  BY <1>5, <3>1, EntryFits
  <2> QED  BY <2>1, <2>2, <2>3
<1>8. m2.index \in [Units -> Buckets] /\ m2.onlyKey \in [Units -> BOOLEAN]
  <2>1. ASSUME NEW f \in {"index", "onlyKey"}, NEW x, NEW v PROVE Cell(g, f, x, v) = v
    BY <1>2, EntryFits
  <2>2. m2["index"] = [x \in Units |-> Cell(g, "index", x, m["index"][x])]
    BY <1>1 DEF IsMemory, Fields
  <2>3. m2["onlyKey"] = [x \in Units |-> Cell(g, "onlyKey", x, m["onlyKey"][x])]
    BY <1>1 DEF IsMemory, Fields
  <2>4. m2["index"] = [x \in Units |-> m["index"][x]]
    BY <2>1, <2>2
  <2>5. m2["onlyKey"] = [x \in Units |-> m["onlyKey"][x]]
    BY <2>1, <2>3
  <2> QED  BY <2>4, <2>5 DEF IsMemory
<1>9. m2.data \in [Units -> Datum]
  <2>1. m2["data"] = [x \in Units |-> Cell(g, "data", x, m["data"][x])]
    BY <1>1 DEF IsMemory, Fields
  <2>2. \A x \in Units : m["data"][x] \in Datum
    BY DEF IsMemory
  <2>3. \A x \in Units : Cell(g, "data", x, m["data"][x]) \in Datum
    BY <1>2, <2>2, EntryFits
  <2> QED  BY <2>1, <2>3
<1>10. m2.dirty \in [Units -> BOOLEAN]
  <2>1. m2["dirty"] = [x \in Units |-> Cell(g, "dirty", x, m["dirty"][x])]
    BY <1>1 DEF IsMemory, Fields
  <2>2. \A x \in Units : m["dirty"][x] \in BOOLEAN
    BY DEF IsMemory
  <2>3. \A x \in Units : Cell(g, "dirty", x, m["dirty"][x]) \in BOOLEAN
    BY <1>2, <2>2, EntryFits
  <2> QED  BY <2>1, <2>3
<1>11. m2.bucket \in [Buckets -> Addr]
  <2>1. m2["bucket"] = [x \in Buckets |-> Cell(g, "bucket", x, m["bucket"][x])]
    BY <1>1 DEF IsMemory, Fields
  <2>2. \A x \in Buckets : m["bucket"][x] \in Addr
    BY DEF IsMemory
  <2>3. \A x \in Buckets : Cell(g, "bucket", x, m["bucket"][x]) \in Addr
    BY <1>2, <2>2, EntryFits
  <2> QED  BY <2>1, <2>3
<1>12. m2.listCount \in [Buckets -> Int]
  <2>1. m2["listCount"] = [x \in Buckets |-> Cell(g, "listCount", x, m["listCount"][x])]
    BY <1>1 DEF IsMemory, Fields
  <2>2. \A x \in Buckets : m["listCount"][x] \in Int
    BY DEF IsMemory
  <2>3. \A x \in Buckets : Cell(g, "listCount", x, m["listCount"][x]) \in Int
    BY <1>2, <2>2, EntryFits
  <2> QED  BY <2>1, <2>3
<1> QED  BY <1>1, <1>3, <1>4, <1>6, <1>8, <1>9, <1>10, <1>11, <1>12 DEF IsMemory, m2

\* A log of statistics entries leaves the memory as it is.
LEMMA QuietKeeps ==
  ASSUME NEW m, IsMemory(m), NEW g \in Seq(Quiet)
  PROVE  Apply(m, g) = m /\ g \in Seq(Entry)
<1>1. /\ \A f \in Fields : Apply(m, g)[f] = [x \in DOMAIN m[f] |-> Cell(g, f, x, m[f][x])]
      /\ Apply(m, g) = [f \in Fields |-> Apply(m, g)[f]]
  BY ApplyAt
<1>2. \A i \in 1..Len(g) : g[i] \in Quiet
  OBVIOUS
<1>3. ASSUME NEW f \in Fields, NEW x \in DOMAIN m[f] PROVE Cell(g, f, x, m[f][x]) = m[f][x]
  <2>1. \/ Hits(g, f, x) = {} /\ Cell(g, f, x, m[f][x]) = m[f][x]
        \/ \E i \in 1..Len(g) : /\ g[i][1] = f /\ g[i][2] = x /\ Cell(g, f, x, m[f][x]) = g[i][3]
                                /\ \A j \in Hits(g, f, x) : j <= i
    BY CellFrom
  <2>2. ASSUME NEW i \in 1..Len(g), g[i][1] = f, g[i][2] = x PROVE g[i][3] = m[f][x]
    <3>1. g[i] = <<"head", "getCount", 0>> \/ g[i] = <<"head", "hitCount", 0>>
      BY <1>2 DEF Quiet
    <3> QED  BY <2>2, <3>1 DEF IsMemory
  <2> QED  BY <2>1, <2>2
<1>4. ASSUME NEW f \in Fields PROVE m[f] = [x \in DOMAIN m[f] |-> m[f][x]]
  BY DEF IsMemory, Fields
<1>5. \A f \in Fields : Apply(m, g)[f] = m[f]
  BY <1>1, <1>3, <1>4
<1>6. m = [f \in Fields |-> m[f]]
  BY DEF IsMemory
<1>7. Apply(m, g) = m
  BY <1>1, <1>5, <1>6
<1> QED  BY <1>7, EntryMade

\* Two logs of entries, one after the other.
LEMMA Joined ==
  ASSUME NEW g \in Seq(Entry), NEW k \in Seq(Entry)
  PROVE  /\ g \o k \in Seq(Entry) /\ Len(g \o k) = Len(g) + Len(k)
         /\ \A f, x, v : Cell(g \o k, f, x, v) = Cell(k, f, x, Cell(g, f, x, v))
  BY CellJoin

\* A group behind entries that change nothing.
LEMMA AfterQuiet ==
  ASSUME NEW m, IsMemory(m), NEW q \in Seq(Quiet), NEW g \in Seq(Entry)
  PROVE  Apply(m, q \o g) = Apply(m, g)
<1>1. Apply(m, q) = m /\ q \in Seq(Entry)
  BY QuietKeeps
<1>2. ASSUME NEW f \in Fields, NEW x \in DOMAIN m[f]
      PROVE  Cell(q \o g, f, x, m[f][x]) = Cell(g, f, x, m[f][x])
  <2>1. Cell(q, f, x, m[f][x]) = m[f][x]
    BY <1>1, ApplyAt
  <2> QED  BY <1>1, <2>1, Joined
<1>3. DOMAIN m = Fields
  BY DEF IsMemory
<1> QED  BY <1>2, <1>3 DEF Apply

-----------------------------------------------------------------------------
(* The groups, piece by piece: their entries fit, and what they write. *)

\* Two sequences that agree at every place are the same.
LEMMA SameSeq ==
  ASSUME NEW S, NEW s \in Seq(S), NEW t \in Seq(S), Len(s) = Len(t),
         \A i \in 1..Len(s) : s[i] = t[i]
  PROVE  s = t
<1>1. s = [i \in 1..Len(s) |-> s[i]] /\ t = [i \in 1..Len(s) |-> t[i]]
  OBVIOUS
<1> QED  BY <1>1

\* What a log of one entry leaves in every cell.
LEMMA OneEntry ==
  ASSUME NEW a \in Entry
  PROVE  /\ <<a>> \in Seq(Entry) /\ Len(<<a>>) = 1
         /\ \A f, x, v : Cell(<<a>>, f, x, v) = CellOf(a, f, x, v)
  BY CellOne

\* What a log of two entries leaves in every cell.
LEMMA TwoEntries ==
  ASSUME NEW a \in Entry, NEW b \in Entry
  PROVE  /\ <<a, b>> \in Seq(Entry) /\ Len(<<a, b>>) = 2
         /\ \A f, x, v : Cell(<<a, b>>, f, x, v) = CellOf(b, f, x, CellOf(a, f, x, v))
<1> DEFINE s == <<a, b>>
           t == <<a>> \o <<b>>
<1>1. s \in Seq(Entry) /\ Len(s) = 2 /\ s[1] = a /\ s[2] = b
  OBVIOUS
<1>2. t \in Seq(Entry) /\ Len(t) = 2 /\ t[1] = a /\ t[2] = b
  OBVIOUS
<1>3. \A f, x, v : Cell(t, f, x, v) = Cell(<<b>>, f, x, Cell(<<a>>, f, x, v))
  <2>1. <<a>> \in Seq(Entry) /\ <<b>> \in Seq(Entry)
    OBVIOUS
  <2> QED  BY <2>1, Joined
<1> HIDE DEF s, t
<1>4. s = t
  <2>1. \A i \in 1..Len(s) : s[i] = t[i]
    BY <1>1, <1>2
  <2> QED  BY <1>1, <1>2, <2>1, SameSeq
<1>5. \A f, x, v : Cell(s, f, x, v) = CellOf(b, f, x, CellOf(a, f, x, v))
  BY <1>3, <1>4, OneEntry
<1> QED  BY <1>1, <1>5 DEF s

\* What a log of three entries leaves in every cell.
LEMMA ThreeEntries ==
  ASSUME NEW a \in Entry, NEW b \in Entry, NEW c \in Entry
  PROVE  /\ <<a, b, c>> \in Seq(Entry) /\ Len(<<a, b, c>>) = 3
         /\ \A f, x, v : Cell(<<a, b, c>>, f, x, v)
                           = CellOf(c, f, x, CellOf(b, f, x, CellOf(a, f, x, v)))
<1> DEFINE s == <<a, b, c>>
           t == <<a, b>> \o <<c>>
<1>1. s \in Seq(Entry) /\ Len(s) = 3 /\ s[1] = a /\ s[2] = b /\ s[3] = c
  OBVIOUS
<1>2. t \in Seq(Entry) /\ Len(t) = 3 /\ t[1] = a /\ t[2] = b /\ t[3] = c
  OBVIOUS
<1>3. \A f, x, v : Cell(t, f, x, v) = Cell(<<c>>, f, x, Cell(<<a, b>>, f, x, v))
  <2>1. <<a, b>> \in Seq(Entry) /\ <<c>> \in Seq(Entry)
    OBVIOUS
  <2> QED  BY <2>1, Joined
<1> HIDE DEF s, t
<1>4. s = t
  <2>1. \A i \in 1..Len(s) : s[i] = t[i]
    BY <1>1, <1>2
  <2> QED  BY <1>1, <1>2, <2>1, SameSeq
<1>5. \A f, x, v : Cell(s, f, x, v) = CellOf(c, f, x, CellOf(b, f, x, CellOf(a, f, x, v)))
  BY <1>3, <1>4, OneEntry, TwoEntries
<1> QED  BY <1>1, <1>5 DEF s

\* What a log of six entries leaves in every cell.
LEMMA SixEntries ==
  ASSUME NEW a \in Entry, NEW b \in Entry, NEW c \in Entry,
         NEW d \in Entry, NEW e \in Entry, NEW g \in Entry
  PROVE  /\ <<a, b, c, d, e, g>> \in Seq(Entry) /\ Len(<<a, b, c, d, e, g>>) = 6
         /\ \A f, x, v : Cell(<<a, b, c, d, e, g>>, f, x, v)
               = CellOf(g, f, x, CellOf(e, f, x, CellOf(d, f, x,
                   CellOf(c, f, x, CellOf(b, f, x, CellOf(a, f, x, v))))))
<1> DEFINE s == <<a, b, c, d, e, g>>
           s1 == <<a, b, c>>
           s2 == <<d, e, g>>
           t == s1 \o s2
<1>1. /\ s \in Seq(Entry) /\ Len(s) = 6
      /\ s[1] = a /\ s[2] = b /\ s[3] = c /\ s[4] = d /\ s[5] = e /\ s[6] = g
  OBVIOUS
<1>2. /\ t \in Seq(Entry) /\ Len(t) = 6
      /\ t[1] = a /\ t[2] = b /\ t[3] = c /\ t[4] = d /\ t[5] = e /\ t[6] = g
  OBVIOUS
<1>3. s1 \in Seq(Entry) /\ s2 \in Seq(Entry)
  OBVIOUS
<1>4. \A f, x, v : Cell(s1, f, x, v) = CellOf(c, f, x, CellOf(b, f, x, CellOf(a, f, x, v)))
  BY ThreeEntries
<1>5. \A f, x, v : Cell(s2, f, x, v) = CellOf(g, f, x, CellOf(e, f, x, CellOf(d, f, x, v)))
  BY ThreeEntries
<1> HIDE DEF s1, s2
<1>6. \A f, x, v : Cell(t, f, x, v) = Cell(s2, f, x, Cell(s1, f, x, v))
  BY <1>3, Joined
<1> HIDE DEF s, t
<1>7. s = t
  <2>1. \A i \in 1..Len(s) : s[i] = t[i]
    BY <1>1, <1>2
  <2> QED  BY <1>1, <1>2, <2>1, SameSeq
<1>8. ASSUME NEW f, NEW x, NEW v
      PROVE  Cell(s, f, x, v) = CellOf(g, f, x, CellOf(e, f, x, CellOf(d, f, x,
                                  CellOf(c, f, x, CellOf(b, f, x, CellOf(a, f, x, v))))))
  BY <1>4, <1>5, <1>6, <1>7
<1> QED  BY <1>1, <1>8 DEF s

\* A conditional log of entries is a log of entries.
LEMMA WhenFits ==
  ASSUME NEW c \in BOOLEAN, NEW g \in Seq(Entry)
  PROVE  /\ When(c, g) \in Seq(Entry) /\ Len(When(c, g)) = IF c THEN Len(g) ELSE 0
         /\ \A f, x, v : Cell(When(c, g), f, x, v) = IF c THEN Cell(g, f, x, v) ELSE v
<1>1. \A f, x, v : Cell(When(c, g), f, x, v) = IF c THEN Cell(g, f, x, v) ELSE v
  BY CellWhen
<1>2. When(c, g) \in Seq(Entry) /\ Len(When(c, g)) = IF c THEN Len(g) ELSE 0
  BY DEF When
<1> QED  BY <1>1, <1>2

\* Count records one entry, for the counter it names.
LEMMA CountCells ==
  ASSUME IsMemory(mem), NEW c \in {"elements", "dirtyCount", "onlyKeyCount"}, NEW d \in Int
  PROVE  /\ Count(c, d) \in Seq(Entry) /\ Len(Count(c, d)) = 1
         /\ \A f, x, v : Cell(Count(c, d), f, x, v)
                           = IF f = "head" /\ x = c THEN mem.head[c] + d ELSE v
<1>1. c \in HeadCounts
  BY DEF HeadCounts
<1>2. mem.head[c] + d \in Int
  <2>1. mem.head[c] \in Int
    BY <1>1 DEF IsMemory
  <2> QED  BY <2>1
<1>3. <<"head", c, mem.head[c] + d>> \in Entry
  BY <1>2, EntryMade
<1>4. Count(c, d) = <<<<"head", c, mem.head[c] + d>>>>
  BY DEF Count, ToHead
<1> QED  BY <1>3, <1>4, OneEntry DEF CellOf

\* StepOff records one entry if the cursor stands on the unit, and none otherwise.
LEMMA StepOffCells ==
  ASSUME IsMemory(mem), NEW c \in HeadLinks, NEW p \in UnitLinks, NEW u \in Units
  PROVE  /\ StepOff(c, p, u) \in Seq(Entry) /\ Len(StepOff(c, p, u)) <= 1
         /\ Len(StepOff(c, p, u)) \in Nat
         /\ \A f, x, v : Cell(StepOff(c, p, u), f, x, v)
              = IF mem.head[c] = u /\ f = "head" /\ x = c THEN mem[p][u] ELSE v
<1> DEFINE e == <<"head", c, mem[p][u]>>
<1>1. e \in Entry
  BY EntryMade DEF IsMemory
<1>2. <<e>> \in Seq(Entry) /\ Len(<<e>>) = 1 /\ \A f, x, v : Cell(<<e>>, f, x, v) = CellOf(e, f, x, v)
  BY <1>1, OneEntry
<1>3. StepOff(c, p, u) = When(mem.head[c] = u, <<e>>)
  BY DEF StepOff, ToHead
<1>4. \A f, x, v : CellOf(e, f, x, v) = IF f = "head" /\ x = c THEN mem[p][u] ELSE v
  BY DEF CellOf
<1> HIDE DEF e
<1>5. /\ StepOff(c, p, u) \in Seq(Entry)
      /\ Len(StepOff(c, p, u)) = IF mem.head[c] = u THEN 1 ELSE 0
      /\ \A f, x, v : Cell(StepOff(c, p, u), f, x, v)
                        = IF mem.head[c] = u THEN Cell(<<e>>, f, x, v) ELSE v
  <2> DEFINE on == mem.head[c] = u
  <2>1. on \in BOOLEAN
    OBVIOUS
  <2>2. StepOff(c, p, u) = When(on, <<e>>)
    BY <1>3
  <2> HIDE DEF on
  <2>3. /\ When(on, <<e>>) \in Seq(Entry) /\ Len(When(on, <<e>>)) = IF on THEN Len(<<e>>) ELSE 0
        /\ \A f, x, v : Cell(When(on, <<e>>), f, x, v) = IF on THEN Cell(<<e>>, f, x, v) ELSE v
    BY <1>2, <2>1, WhenFits
  <2> QED  BY <1>2, <2>2, <2>3 DEF on
<1> QED  BY <1>2, <1>4, <1>5

\* The two lists of the map.
MapLists == {SetList, GetList}

\* The two lists of all blocks use different fields.
LEMMA ListFields ==
  ASSUME NEW l \in MapLists
  PROVE  /\ l.next \in UnitLinks /\ l.prev \in UnitLinks /\ l.next # l.prev
         /\ l.head \in HeadLinks /\ l.tail \in HeadLinks /\ l.head # l.tail
         /\ l.next # "head" /\ l.prev # "head"
  BY DEF MapLists, SetList, GetList, UnitLinks, HeadLinks

\* What PushFront records, cell by cell.
LEMMA PushFrontCells ==
  ASSUME IsMemory(mem), NEW l \in MapLists, NEW u \in Units
  PROVE  LET first == mem.head[l.head]
         IN  /\ PushFront(l, u) \in Seq(Entry) /\ Len(PushFront(l, u)) <= 3
             /\ \A f, x, v : Cell(PushFront(l, u), f, x, v)
                  = IF f = "head" /\ x = l.head THEN u
                    ELSE IF f = "head" /\ x = l.tail THEN IF first = 0 THEN u ELSE v
                    ELSE IF first # 0 /\ f = l.next /\ x = u THEN first
                    ELSE IF first # 0 /\ f = l.prev /\ x = first THEN u ELSE v
<1> DEFINE first == mem.head[l.head]
<1>1. first \in Addr
  BY ListFields DEF IsMemory
<1>2. CASE first = 0
  <2> DEFINE a == <<"head", l.head, u>>
             b == <<"head", l.tail, u>>
  <2>1. a \in Entry /\ b \in Entry
    BY EntryMade, ListFields DEF Addr
  <2>2. PushFront(l, u) = <<a, b>>
    BY <1>2 DEF PushFront, ToHead
  <2>3. \A f, x, v : CellOf(b, f, x, CellOf(a, f, x, v))
          = IF f = "head" /\ x = l.head THEN u ELSE IF f = "head" /\ x = l.tail THEN u ELSE v
    BY DEF CellOf
  <2> HIDE DEF a, b
  <2> QED  BY <1>2, <2>1, <2>2, <2>3, TwoEntries
<1>3. CASE first # 0
  <2> DEFINE a == <<l.next, u, first>>
             b == <<l.prev, first, u>>
             c == <<"head", l.head, u>>
  <2>1. a \in Entry /\ b \in Entry /\ c \in Entry
    BY <1>1, <1>3, EntryMade, ListFields DEF Addr
  <2>2. PushFront(l, u) = <<a, b, c>>
    BY <1>3 DEF PushFront, ToHead
  <2>3. \A f, x, v : CellOf(c, f, x, CellOf(b, f, x, CellOf(a, f, x, v)))
          = IF f = "head" /\ x = l.head THEN u
            ELSE IF f = l.next /\ x = u THEN first
            ELSE IF f = l.prev /\ x = first THEN u ELSE v
    BY ListFields DEF CellOf
  <2> HIDE DEF a, b, c, first
  <2>4. /\ PushFront(l, u) \in Seq(Entry) /\ Len(PushFront(l, u)) <= 3
        /\ \A f, x, v : Cell(PushFront(l, u), f, x, v)
             = IF f = "head" /\ x = l.head THEN u
               ELSE IF f = l.next /\ x = u THEN first
               ELSE IF f = l.prev /\ x = first THEN u ELSE v
    BY <2>1, <2>2, <2>3, ThreeEntries
  <2> QED  BY <1>3, <2>4, ListFields DEF first
<1> QED  BY <1>2, <1>3

\* What Unlink records, cell by cell.
LEMMA UnlinkCells ==
  ASSUME IsMemory(mem), NEW l \in MapLists, NEW u \in Units,
         mem.head[l.head] = u <=> mem[l.prev][u] = 0,
         mem.head[l.tail] = u <=> mem[l.next][u] = 0
  PROVE  LET p == mem[l.prev][u]
             n == mem[l.next][u]
         IN  /\ Unlink(l, u) \in Seq(Entry) /\ Len(Unlink(l, u)) <= 2
             /\ \A f, x, v : Cell(Unlink(l, u), f, x, v)
                  = IF f = "head" /\ x = l.head THEN IF p = 0 THEN n ELSE v
                    ELSE IF f = "head" /\ x = l.tail THEN IF n = 0 THEN p ELSE v
                    ELSE IF p # 0 /\ f = l.next /\ x = p THEN n
                    ELSE IF n # 0 /\ f = l.prev /\ x = n THEN p ELSE v
<1> DEFINE p == mem[l.prev][u]
           n == mem[l.next][u]
           isHead == mem.head[l.head] = u
           isTail == mem.head[l.tail] = u
           Result(f, x, v) == IF f = "head" /\ x = l.head THEN IF p = 0 THEN n ELSE v
                              ELSE IF f = "head" /\ x = l.tail THEN IF n = 0 THEN p ELSE v
                              ELSE IF p # 0 /\ f = l.next /\ x = p THEN n
                              ELSE IF n # 0 /\ f = l.prev /\ x = n THEN p ELSE v
<1>1. p \in Addr /\ n \in Addr /\ (isHead <=> p = 0) /\ (isTail <=> n = 0) /\ 0 \in Addr
  BY ListFields DEF IsMemory, Addr
<1>2. ASSUME NEW a \in Entry, NEW b \in Entry, Unlink(l, u) = <<a, b>>,
             \A f, x, v : CellOf(b, f, x, CellOf(a, f, x, v)) = Result(f, x, v)
      PROVE  /\ Unlink(l, u) \in Seq(Entry) /\ Len(Unlink(l, u)) <= 2
             /\ \A f, x, v : Cell(Unlink(l, u), f, x, v) = Result(f, x, v)
  <2> HIDE DEF Result
  <2> QED  BY <1>2, TwoEntries
<1>3. CASE p # 0 /\ n = 0
  <2> DEFINE a == <<"head", l.tail, p>>
             b == <<l.next, p, 0>>
  <2>1. a \in Entry /\ b \in Entry
    BY <1>1, <1>3, EntryMade, ListFields DEF Addr
  <2>2. Unlink(l, u) = <<a, b>>
    BY <1>1, <1>3 DEF Unlink, ToHead
  <2>3. \A f, x, v : CellOf(b, f, x, CellOf(a, f, x, v)) = Result(f, x, v)
    BY <1>3, ListFields DEF CellOf
  <2> HIDE DEF a, b, Result
  <2> QED  BY <1>2, <2>1, <2>2, <2>3 DEF Result
<1>4. CASE p # 0 /\ n # 0
  <2> DEFINE a == <<l.next, p, n>>
             b == <<l.prev, n, p>>
  <2>1. a \in Entry /\ b \in Entry
    BY <1>1, <1>4, EntryMade, ListFields DEF Addr
  <2>2. Unlink(l, u) = <<a, b>>
    BY <1>1, <1>4 DEF Unlink, ToHead
  <2>3. \A f, x, v : CellOf(b, f, x, CellOf(a, f, x, v)) = Result(f, x, v)
    BY <1>4, ListFields DEF CellOf
  <2> HIDE DEF a, b, Result
  <2> QED  BY <1>2, <2>1, <2>2, <2>3 DEF Result
<1>5. CASE p = 0 /\ n = 0
  <2> DEFINE a == <<"head", l.head, 0>>
             b == <<"head", l.tail, 0>>
  <2>1. a \in Entry /\ b \in Entry
    BY <1>1, EntryMade, ListFields
  <2>2. Unlink(l, u) = <<a, b>>
    BY <1>1, <1>5 DEF Unlink, ToHead
  <2>3. \A f, x, v : CellOf(b, f, x, CellOf(a, f, x, v)) = Result(f, x, v)
    BY <1>5, ListFields DEF CellOf
  <2> HIDE DEF a, b, Result
  <2> QED  BY <1>2, <2>1, <2>2, <2>3 DEF Result
<1>6. CASE p = 0 /\ n # 0
  <2> DEFINE a == <<"head", l.head, n>>
             b == <<l.prev, n, 0>>
  <2>1. a \in Entry /\ b \in Entry
    BY <1>1, <1>6, EntryMade, ListFields DEF Addr
  <2>2. Unlink(l, u) = <<a, b>>
    BY <1>1, <1>6 DEF Unlink, ToHead
  <2>3. \A f, x, v : CellOf(b, f, x, CellOf(a, f, x, v)) = Result(f, x, v)
    BY <1>6, ListFields DEF CellOf
  <2> HIDE DEF a, b, Result
  <2> QED  BY <1>2, <2>1, <2>2, <2>3 DEF Result
<1> QED  BY <1>3, <1>4, <1>5, <1>6

\* What MoveFront records, cell by cell.
LEMMA MoveFrontCells ==
  ASSUME IsMemory(mem), NEW l \in MapLists, NEW u \in Units,
         mem.head[l.head] \notin {0, u}, mem[l.prev][u] \notin {0, u},
         mem[l.next][u] \notin {u, mem.head[l.head]}
  PROVE  LET p == mem[l.prev][u]
             n == mem[l.next][u]
             first == mem.head[l.head]
         IN  /\ MoveFront(l, u) \in Seq(Entry) /\ Len(MoveFront(l, u)) = 6
             /\ \A f, x, v : Cell(MoveFront(l, u), f, x, v)
                  = IF f = "head" /\ x = l.head THEN u
                    ELSE IF f = "head" /\ x = l.tail THEN IF n = 0 THEN p ELSE v
                    ELSE IF f = l.next THEN IF x = p THEN n ELSE IF x = u THEN first ELSE v
                    ELSE IF f = l.prev
                         THEN IF n # 0 /\ x = n THEN p ELSE IF x = u THEN 0
                              ELSE IF x = first THEN u ELSE v
                    ELSE v
<1> DEFINE p == mem[l.prev][u]
           n == mem[l.next][u]
           first == mem.head[l.head]
           a == <<l.next, u, first>>
           b == <<l.prev, first, u>>
           c == <<"head", l.head, u>>
           d == <<l.prev, u, 0>>
           e == <<l.next, p, n>>
           g == IF n # 0 THEN <<l.prev, n, p>> ELSE <<"head", l.tail, p>>
           Result(f, x, v) == IF f = "head" /\ x = l.head THEN u
                    ELSE IF f = "head" /\ x = l.tail THEN IF n = 0 THEN p ELSE v
                    ELSE IF f = l.next THEN IF x = p THEN n ELSE IF x = u THEN first ELSE v
                    ELSE IF f = l.prev
                         THEN IF n # 0 /\ x = n THEN p ELSE IF x = u THEN 0
                              ELSE IF x = first THEN u ELSE v
                    ELSE v
<1>1. /\ p \in Addr /\ n \in Addr /\ first \in Addr /\ 0 \in Addr /\ u \in Addr
      /\ p # 0 /\ first # 0 /\ p # u /\ n # u /\ n # first /\ first # u
  BY ListFields DEF IsMemory, Addr
<1>2. p \in Units /\ first \in Units /\ (n # 0 => n \in Units)
  BY <1>1 DEF Addr
<1>3. MoveFront(l, u) = <<a, b, c, d, e, g>>
  BY DEF MoveFront, ToHead
<1> HIDE DEF p, n, first
<1>4. /\ a \in Entry /\ b \in Entry /\ c \in Entry /\ d \in Entry /\ e \in Entry /\ g \in Entry
  BY <1>1, <1>2, EntryMade, ListFields
<1>5. ASSUME NEW f, NEW x, NEW v
      PROVE  CellOf(g, f, x, CellOf(e, f, x, CellOf(d, f, x,
                   CellOf(c, f, x, CellOf(b, f, x, CellOf(a, f, x, v)))))) = Result(f, x, v)
  <2>1. CASE f = "head"
    BY <1>1, <2>1, ListFields DEF CellOf
  <2>2. CASE f = l.next
    BY <1>1, <2>2, ListFields DEF CellOf
  <2>3. CASE f = l.prev
    BY <1>1, <2>3, ListFields DEF CellOf
  <2>4. CASE f \notin {"head", l.next, l.prev}
    BY <1>1, <2>4, ListFields DEF CellOf
  <2> QED  BY <2>1, <2>2, <2>3, <2>4
<1> HIDE DEF a, b, c, d, e, g, Result
<1>6. /\ MoveFront(l, u) \in Seq(Entry) /\ Len(MoveFront(l, u)) = 6
      /\ \A f, x, v : Cell(MoveFront(l, u), f, x, v) = Result(f, x, v)
  BY <1>3, <1>4, <1>5, SixEntries
<1> QED  BY <1>6 DEF Result, p, n, first

-----------------------------------------------------------------------------
(* The shape of the memory. *)

\* The blocks in the order of the set list.
SetOf(m) == Path(m.setNext, m.head.setHead)

\* The blocks in the order of the get list.
GetOf(m) == Path(m.getNext, m.head.getHead)

\* The blocks of bucket i.
ChainOf(m, i) == Path(m.blockNext, m.bucket[i])

\* The units of block u in order.
ChunksIn(m, u) == Path(m.chunk, u)

\* The blocks of the map.
BlocksOf(m) == Elements(SetOf(m))

\* The units block u owns.
Own(m, u) == Elements(ChunksIn(m, u))

\* The units that blocks own.
Owned(m) == UNION {Own(m, u) : u \in BlocksOf(m)}

\* The set list is a doubly linked list.
SetFits(m) == Listed(SetOf(m), m.setNext, m.setPrev, m.head.setHead, m.head.setTail)

\* So is the get list, and it has the same blocks.
GetFits(m) ==
    /\ Listed(GetOf(m), m.getNext, m.getPrev, m.head.getHead, m.head.getTail)
    /\ Elements(GetOf(m)) = BlocksOf(m)

\* The chain of bucket i has the blocks of this bucket, and its count.
ChainFits(m, i) ==
    /\ Listed(ChainOf(m, i), m.blockNext, m.blockPrev, m.bucket[i], End(ChainOf(m, i)))
    /\ Elements(ChainOf(m, i)) = {u \in BlocksOf(m) : m.index[u] = i}
    /\ m.listCount[i] = Len(ChainOf(m, i))

\* The chains of all buckets fit.
Chains(m) == \A i \in Buckets : ChainFits(m, i)

\* The chunks of each block are a chain, and no unit belongs to two blocks.
Chunks(m) ==
    /\ \A u \in BlocksOf(m) : Forth(ChunksIn(m, u), m.chunk, u)
    /\ \A u, v \in BlocksOf(m) : u # v => Own(m, u) \cap Own(m, v) = {}

\* No key is in two blocks, and a block is in the bucket of its key.
Keyed(m) ==
    \A u \in BlocksOf(m) : m.data[u].key # None =>
        /\ m.index[u] = HashOf[m.data[u].key]
        /\ \A v \in BlocksOf(m) : m.data[u].key = m.data[v].key => u = v

\* The cursors stand on blocks.
Cursors(m) ==
    /\ m.head.dirtyTail \in BlocksOf(m) \cup {0}
    /\ m.head.syncTail \in BlocksOf(m) \cup {0}
    /\ m.head.backupTail \in BlocksOf(m) \cup {0}

\* What is always true of the memory, whenever the process dies.
Shape(m) ==
    /\ IsMemory(m)
    /\ SetFits(m) /\ m.head.elements = Len(SetOf(m))
    /\ GetFits(m)
    /\ Chains(m) /\ Chunks(m) /\ Keyed(m) /\ Cursors(m)

\* The members of a chain are units, each once, and the walk returns them.
LEMMA ForthElements ==
  ASSUME NEW s, NEW next, NEW a, Forth(s, next, a)
  PROVE  /\ s \in Seq(Units) /\ Once(s) /\ Len(s) \in Nat
         /\ Elements(s) \subseteq Units /\ 0 \notin Elements(s)
         /\ Path(next, a) = s
         /\ a # 0 => a \in Elements(s) /\ Len(s) # 0
<1>1. s \in Seq(Units) /\ Once(s) /\ (a = IF Len(s) = 0 THEN 0 ELSE s[1])
  BY DEF Forth
<1>2. /\ Elements(s) \subseteq Units /\ 0 \notin Elements(s) /\ Len(s) \in Nat
      /\ \A i \in 1..Len(s) : s[i] \in Elements(s)
  BY <1>1, InElements
<1>3. Path(next, a) = s
  BY PathIs
<1> QED  BY <1>1, <1>2, <1>3

\* The blocks are units, finitely many, and the list of them has their number.
LEMMA BlockUnits ==
  ASSUME NEW m, SetFits(m)
  PROVE  /\ BlocksOf(m) \subseteq Units /\ 0 \notin BlocksOf(m) /\ IsFiniteSet(BlocksOf(m))
         /\ Len(SetOf(m)) = Cardinality(BlocksOf(m)) /\ Len(SetOf(m)) <= Size
<1>1. Forth(SetOf(m), m.setNext, m.head.setHead)
  BY DEF SetFits, Listed
<1>2. /\ SetOf(m) \in Seq(Units) /\ Once(SetOf(m))
      /\ Elements(SetOf(m)) \subseteq Units /\ 0 \notin Elements(SetOf(m))
  BY <1>1, ForthElements
<1> QED  BY <1>2, OnceShort DEF BlocksOf

\* A block owns its first unit, and what blocks own are units.
LEMMA OwnUnits ==
  ASSUME NEW m, SetFits(m), Chunks(m)
  PROVE  /\ \A u \in BlocksOf(m) : u \in Own(m, u) /\ Own(m, u) \subseteq Owned(m)
         /\ BlocksOf(m) \subseteq Owned(m) /\ Owned(m) \subseteq Units
<1>1. ASSUME NEW u \in BlocksOf(m)
      PROVE  u \in Own(m, u) /\ Own(m, u) \subseteq Owned(m) /\ Own(m, u) \subseteq Units
  <2>1. Forth(ChunksIn(m, u), m.chunk, u) /\ u # 0
    BY BlockUnits DEF Chunks
  <2>2. u \in Own(m, u) /\ Own(m, u) \subseteq Units
    BY <2>1, ForthElements DEF Own
  <2> QED  BY <2>2 DEF Owned
<1> QED  BY <1>1 DEF Owned

\* A doubly linked list stays when the links of its members stay.
LEMMA ListedKept ==
  ASSUME NEW s, NEW next, NEW prev, NEW h, NEW t, Listed(s, next, prev, h, t),
         NEW next2, NEW prev2, \A x \in Elements(s) : next2[x] = next[x] /\ prev2[x] = prev[x]
  PROVE  Listed(s, next2, prev2, h, t)
<1>1. Forth(s, next2, h)
  BY ForthKept DEF Listed
<1>2. \A i \in 1..Len(s) : s[i] \in Elements(s)
  BY InElements DEF Listed, Forth
<1>3. Back(s, prev2)
  BY <1>2 DEF Listed, Back
<1> QED  BY <1>1, <1>3 DEF Listed

-----------------------------------------------------------------------------
(* What a change that leaves a part of the memory alone keeps. *)

\* The set list is not touched.
SameSet(m, m2) ==
    /\ \A x \in BlocksOf(m) : m2.setNext[x] = m.setNext[x] /\ m2.setPrev[x] = m.setPrev[x]
    /\ m2.head.setHead = m.head.setHead /\ m2.head.setTail = m.head.setTail

\* The get list is not touched.
SameGet(m, m2) ==
    /\ \A x \in BlocksOf(m) : m2.getNext[x] = m.getNext[x] /\ m2.getPrev[x] = m.getPrev[x]
    /\ m2.head.getHead = m.head.getHead /\ m2.head.getTail = m.head.getTail

\* The chains of the buckets are not touched.
SameChains(m, m2) ==
    /\ \A x \in BlocksOf(m) : /\ m2.blockNext[x] = m.blockNext[x]
                              /\ m2.blockPrev[x] = m.blockPrev[x] /\ m2.index[x] = m.index[x]
    /\ \A i \in Buckets : m2.bucket[i] = m.bucket[i] /\ m2.listCount[i] = m.listCount[i]

\* The chunks of blocks are not touched.
SameChunks(m, m2) == \A x \in Owned(m) : m2.chunk[x] = m.chunk[x]

\* Keys and buckets of blocks are not touched.
SameKeys(m, m2) == \A x \in BlocksOf(m) : m2.data[x].key = m.data[x].key /\ m2.index[x] = m.index[x]

\* The set list stays when its links and ends stay.
LEMMA SetKept ==
  ASSUME NEW m, NEW m2, SetFits(m), SameSet(m, m2)
  PROVE  SetFits(m2) /\ SetOf(m2) = SetOf(m) /\ BlocksOf(m2) = BlocksOf(m)
<1>1. Listed(SetOf(m), m2.setNext, m2.setPrev, m.head.setHead, m.head.setTail)
  BY ListedKept DEF SetFits, SameSet, BlocksOf
<1>2. Path(m2.setNext, m.head.setHead) = SetOf(m)
  BY <1>1, PathIs DEF Listed
<1> QED  BY <1>1, <1>2 DEF SetFits, SameSet, SetOf, BlocksOf

\* The get list stays when its links and ends stay.
LEMMA GetKept ==
  ASSUME NEW m, NEW m2, GetFits(m), SameGet(m, m2), BlocksOf(m2) = BlocksOf(m)
  PROVE  GetFits(m2) /\ GetOf(m2) = GetOf(m)
<1>1. Listed(GetOf(m), m2.getNext, m2.getPrev, m.head.getHead, m.head.getTail)
  BY ListedKept DEF GetFits, SameGet
<1>2. Path(m2.getNext, m.head.getHead) = GetOf(m)
  BY <1>1, PathIs DEF Listed
<1> QED  BY <1>1, <1>2 DEF GetFits, SameGet, GetOf

\* The chains of the buckets stay when their links and heads stay.
LEMMA ChainsKept ==
  ASSUME NEW m, NEW m2, Chains(m), SameChains(m, m2), BlocksOf(m2) = BlocksOf(m)
  PROVE  Chains(m2) /\ \A i \in Buckets : ChainOf(m2, i) = ChainOf(m, i)
<1>1. ASSUME NEW i \in Buckets PROVE ChainFits(m2, i) /\ ChainOf(m2, i) = ChainOf(m, i)
  <2>1. /\ Listed(ChainOf(m, i), m.blockNext, m.blockPrev, m.bucket[i], End(ChainOf(m, i)))
        /\ Elements(ChainOf(m, i)) = {u \in BlocksOf(m) : m.index[u] = i}
        /\ m.listCount[i] = Len(ChainOf(m, i))
    BY DEF Chains, ChainFits
  <2>2. Listed(ChainOf(m, i), m2.blockNext, m2.blockPrev, m2.bucket[i], End(ChainOf(m, i)))
    <3>1. \A x \in Elements(ChainOf(m, i)) : /\ m2.blockNext[x] = m.blockNext[x]
                                             /\ m2.blockPrev[x] = m.blockPrev[x]
      BY <2>1 DEF SameChains
    <3>2. m2.bucket[i] = m.bucket[i]
      BY DEF SameChains
    <3> QED  BY <2>1, <3>1, <3>2, ListedKept
  <2>3. ChainOf(m2, i) = ChainOf(m, i)
    BY <2>2, PathIs DEF Listed, ChainOf
  <2>4. Elements(ChainOf(m, i)) = {u \in BlocksOf(m2) : m2.index[u] = i}
    BY <2>1 DEF SameChains
  <2> QED  BY <2>1, <2>2, <2>3, <2>4 DEF ChainFits, SameChains
<1> QED  BY <1>1 DEF Chains

\* The chunks of the blocks stay when the links of owned units stay.
LEMMA ChunksKept ==
  ASSUME NEW m, NEW m2, Chunks(m), SameChunks(m, m2), BlocksOf(m2) \subseteq BlocksOf(m)
  PROVE  /\ Chunks(m2) /\ \A u \in BlocksOf(m) : ChunksIn(m2, u) = ChunksIn(m, u)
         /\ \A u \in BlocksOf(m) : Own(m2, u) = Own(m, u)
<1>1. ASSUME NEW u \in BlocksOf(m)
      PROVE  Forth(ChunksIn(m, u), m2.chunk, u) /\ ChunksIn(m2, u) = ChunksIn(m, u)
  <2>1. Forth(ChunksIn(m, u), m.chunk, u)
    BY DEF Chunks
  <2>2. \A x \in Elements(ChunksIn(m, u)) : m2.chunk[x] = m.chunk[x]
    BY DEF SameChunks, Owned, Own
  <2>3. Forth(ChunksIn(m, u), m2.chunk, u)
    BY <2>1, <2>2, ForthKept
  <2> QED  BY <2>3, PathIs DEF ChunksIn
<1>2. \A u \in BlocksOf(m) : Own(m2, u) = Own(m, u)
  BY <1>1 DEF Own
<1>3. Chunks(m2)
  BY <1>1, <1>2 DEF Chunks
<1> QED  BY <1>1, <1>2, <1>3

\* No key is in two blocks when the keys stay.
LEMMA KeyedKept ==
  ASSUME NEW m, NEW m2, Keyed(m), SameKeys(m, m2), BlocksOf(m2) \subseteq BlocksOf(m)
  PROVE  Keyed(m2)
<1> SUFFICES ASSUME NEW u \in BlocksOf(m2), m2.data[u].key # None
             PROVE  /\ m2.index[u] = HashOf[m2.data[u].key]
                    /\ \A v \in BlocksOf(m2) : m2.data[u].key = m2.data[v].key => u = v
  BY DEF Keyed
<1>1. \A x \in BlocksOf(m2) : m2.data[x].key = m.data[x].key /\ m2.index[x] = m.index[x]
  BY DEF SameKeys
<1> QED  BY <1>1 DEF Keyed

-----------------------------------------------------------------------------
(* Block::erase takes a block out of all its lists. *)

\* What Block::erase does to the memory.
Erases(m, m2, u) ==
    /\ Takes(SetOf(m), u, m.setNext, m.setPrev, m2.setNext, m2.setPrev)
    /\ m2.head.setHead = IF m.head.setHead = u THEN m.setNext[u] ELSE m.head.setHead
    /\ m2.head.setTail = IF m.head.setTail = u THEN m.setPrev[u] ELSE m.head.setTail
    /\ Takes(GetOf(m), u, m.getNext, m.getPrev, m2.getNext, m2.getPrev)
    /\ m2.head.getHead = IF m.head.getHead = u THEN m.getNext[u] ELSE m.head.getHead
    /\ m2.head.getTail = IF m.head.getTail = u THEN m.getPrev[u] ELSE m.head.getTail
    /\ \A x \in BlocksOf(m) \ {u} :
         /\ m2.blockNext[x] = IF x = m.blockPrev[u] THEN m.blockNext[u] ELSE m.blockNext[x]
         /\ m2.blockPrev[x] = IF x = m.blockNext[u] THEN m.blockPrev[u] ELSE m.blockPrev[x]
    /\ \A i \in Buckets :
         /\ m2.bucket[i] = IF i = m.index[u] /\ m.blockPrev[u] = 0 THEN m.blockNext[u]
                           ELSE m.bucket[i]
         /\ m2.listCount[i] = IF i = m.index[u] THEN m.listCount[i] - 1 ELSE m.listCount[i]
    /\ m2.chunk = m.chunk /\ m2.index = m.index /\ m2.data = m.data
    /\ m2.dirty = m.dirty /\ m2.onlyKey = m.onlyKey
    /\ m2.head.elements = m.head.elements - 1
    /\ m2.head.dirtyCount = m.head.dirtyCount - IF m.dirty[u] THEN 1 ELSE 0
    /\ m2.head.onlyKeyCount = m.head.onlyKeyCount - IF m.onlyKey[u] THEN 1 ELSE 0
    /\ m2.head.dirtyTail = IF m.head.dirtyTail = u THEN m.setPrev[u] ELSE m.head.dirtyTail
    /\ m2.head.syncTail = IF m.head.syncTail = u THEN m.setPrev[u] ELSE m.head.syncTail
    /\ m2.head.backupTail = IF m.head.backupTail = u THEN m.getPrev[u] ELSE m.head.backupTail

\* Block::erase takes the block out of the set list.
LEMMA EraseSet ==
  ASSUME NEW m, NEW m2, SetFits(m), NEW u \in BlocksOf(m), Erases(m, m2, u)
  PROVE  /\ SetFits(m2) /\ BlocksOf(m2) = BlocksOf(m) \ {u} /\ Len(SetOf(m2)) = Len(SetOf(m)) - 1
         /\ \A c \in BlocksOf(m) :
              Upto(SetOf(m2), IF c = u THEN m.setPrev[u] ELSE c) = Upto(SetOf(m), c) \ {u}
<1> DEFINE h == IF m.head.setHead = u THEN m.setNext[u] ELSE m.head.setHead
           t == IF m.head.setTail = u THEN m.setPrev[u] ELSE m.head.setTail
<1>1. /\ Listed(SetOf(m), m.setNext, m.setPrev, m.head.setHead, m.head.setTail)
      /\ Takes(SetOf(m), u, m.setNext, m.setPrev, m2.setNext, m2.setPrev)
      /\ u \in Elements(SetOf(m))
      /\ m2.head.setHead = h /\ m2.head.setTail = t
  BY DEF SetFits, Erases, BlocksOf
<1>2. PICK r : /\ Listed(r, m2.setNext, m2.setPrev, h, t)
               /\ Len(r) = Len(SetOf(m)) - 1 /\ Elements(r) = Elements(SetOf(m)) \ {u}
               /\ \A c \in Elements(SetOf(m)) :
                    Upto(r, IF c = u THEN m.setPrev[u] ELSE c) = Upto(SetOf(m), c) \ {u}
  BY <1>1, Removed
<1> HIDE DEF h, t
<1>3. SetOf(m2) = r
  BY <1>1, <1>2, PathIs DEF Listed, SetOf
<1> QED  BY <1>1, <1>2, <1>3 DEF SetFits, BlocksOf

\* Block::erase takes the block out of the get list.
LEMMA EraseGet ==
  ASSUME NEW m, NEW m2, GetFits(m), NEW u \in BlocksOf(m), Erases(m, m2, u),
         BlocksOf(m2) = BlocksOf(m) \ {u}
  PROVE  /\ GetFits(m2)
         /\ \A c \in BlocksOf(m) :
              Upto(GetOf(m2), IF c = u THEN m.getPrev[u] ELSE c) = Upto(GetOf(m), c) \ {u}
<1> DEFINE h == IF m.head.getHead = u THEN m.getNext[u] ELSE m.head.getHead
           t == IF m.head.getTail = u THEN m.getPrev[u] ELSE m.head.getTail
<1>1. /\ Listed(GetOf(m), m.getNext, m.getPrev, m.head.getHead, m.head.getTail)
      /\ Takes(GetOf(m), u, m.getNext, m.getPrev, m2.getNext, m2.getPrev)
      /\ u \in Elements(GetOf(m)) /\ Elements(GetOf(m)) = BlocksOf(m)
      /\ m2.head.getHead = h /\ m2.head.getTail = t
  BY DEF GetFits, Erases
<1>2. PICK r : /\ Listed(r, m2.getNext, m2.getPrev, h, t)
               /\ Len(r) = Len(GetOf(m)) - 1 /\ Elements(r) = Elements(GetOf(m)) \ {u}
               /\ \A c \in Elements(GetOf(m)) :
                    Upto(r, IF c = u THEN m.getPrev[u] ELSE c) = Upto(GetOf(m), c) \ {u}
  BY <1>1, Removed
<1> HIDE DEF h, t
<1>3. GetOf(m2) = r
  BY <1>1, <1>2, PathIs DEF Listed, GetOf
<1> QED  BY <1>1, <1>2, <1>3 DEF GetFits

\* Block::erase takes the block out of the chain of its bucket.
LEMMA EraseChain ==
  ASSUME NEW m, NEW m2, IsMemory(m), Chains(m), NEW u \in BlocksOf(m), Erases(m, m2, u),
         BlocksOf(m) \subseteq Units, BlocksOf(m2) = BlocksOf(m) \ {u}, NEW i \in Buckets
  PROVE  ChainFits(m2, i)
<1> DEFINE c == ChainOf(m, i)
<1>1. /\ Listed(c, m.blockNext, m.blockPrev, m.bucket[i], End(c))
      /\ Elements(c) = {x \in BlocksOf(m) : m.index[x] = i}
      /\ m.listCount[i] = Len(c)
  BY DEF Chains, ChainFits
<1>2. /\ \A x \in BlocksOf(m) \ {u} :
           /\ m2.blockNext[x] = IF x = m.blockPrev[u] THEN m.blockNext[u] ELSE m.blockNext[x]
           /\ m2.blockPrev[x] = IF x = m.blockNext[u] THEN m.blockPrev[u] ELSE m.blockPrev[x]
      /\ m2.bucket[i] = IF i = m.index[u] /\ m.blockPrev[u] = 0 THEN m.blockNext[u]
                        ELSE m.bucket[i]
      /\ m2.listCount[i] = IF i = m.index[u] THEN m.listCount[i] - 1 ELSE m.listCount[i]
      /\ m2.index = m.index
  BY DEF Erases
<1>3. {x \in BlocksOf(m2) : m2.index[x] = i} = Elements(c) \ {u}
  BY <1>1, <1>2
<1> HIDE DEF c
<1>4. CASE i = m.index[u]
  <2>1. u \in Elements(c)
    BY <1>1, <1>4
  <2> DEFINE h == IF m.bucket[i] = u THEN m.blockNext[u] ELSE m.bucket[i]
             t == IF End(c) = u THEN m.blockPrev[u] ELSE End(c)
  <2>2. Takes(c, u, m.blockNext, m.blockPrev, m2.blockNext, m2.blockPrev)
    BY <1>1, <1>2 DEF Takes
  <2>3. PICK r : /\ Listed(r, m2.blockNext, m2.blockPrev, h, t)
                 /\ Len(r) = Len(c) - 1 /\ Elements(r) = Elements(c) \ {u}
    BY <1>1, <2>1, <2>2, Removed
  <2>4. m2.bucket[i] = h
    <3>1. m.blockPrev[u] = 0 <=> m.bucket[i] = u
      BY <1>1, <2>1, Neighbours
    <3> QED  BY <1>2, <1>4, <3>1
  <2> HIDE DEF h, t
  <2>5. ChainOf(m2, i) = r /\ t = End(r)
    BY <2>3, <2>4, PathIs DEF Listed, ChainOf
  <2> QED  BY <1>1, <1>2, <1>3, <1>4, <2>3, <2>4, <2>5 DEF ChainFits
<1>5. CASE i # m.index[u]
  <2>1. u \notin Elements(c)
    BY <1>1, <1>5
  <2>2. m.index[u] \in Buckets
    BY DEF IsMemory
  <2> DEFINE d == ChainOf(m, m.index[u])
  <2>3. /\ Listed(d, m.blockNext, m.blockPrev, m.bucket[m.index[u]], End(d))
        /\ Elements(d) = {x \in BlocksOf(m) : m.index[x] = m.index[u]}
    BY <2>2 DEF Chains, ChainFits
  <2> HIDE DEF d
  <2>4. u \in Elements(d)
    BY <2>3
  <2>5. m.blockNext[u] \in Elements(d) \cup {0} /\ m.blockPrev[u] \in Elements(d) \cup {0}
    BY <2>3, <2>4, Neighbours
  <2>6. Elements(d) \cap Elements(c) = {} /\ 0 \notin Elements(c)
    <3>1. 0 \notin Elements(c)
      BY <1>1, ForthElements DEF Listed
    <3> QED  BY <1>1, <1>5, <2>3, <3>1
  <2>7. \A x \in Elements(c) : m2.blockNext[x] = m.blockNext[x] /\ m2.blockPrev[x] = m.blockPrev[x]
    BY <1>1, <1>2, <2>1, <2>5, <2>6
  <2>8. Listed(c, m2.blockNext, m2.blockPrev, m.bucket[i], End(c))
    BY <1>1, <2>7, ListedKept
  <2>9. m2.bucket[i] = m.bucket[i] /\ m2.listCount[i] = m.listCount[i]
    BY <1>2, <1>5
  <2>10. ChainOf(m2, i) = c
    BY <2>8, <2>9, PathIs DEF Listed, ChainOf
  <2> QED  BY <1>1, <1>3, <2>1, <2>8, <2>9, <2>10 DEF ChainFits
<1> QED  BY <1>4, <1>5

\* Block::erase leaves a memory of the right shape, without the block.
LEMMA EraseShape ==
  ASSUME NEW m, NEW m2, Shape(m), NEW u \in BlocksOf(m), Erases(m, m2, u), IsMemory(m2)
  PROVE  /\ Shape(m2)
         /\ BlocksOf(m2) = BlocksOf(m) \ {u}
         /\ \A v \in BlocksOf(m) : Own(m2, v) = Own(m, v) /\ ChunksIn(m2, v) = ChunksIn(m, v)
         /\ Owned(m2) = Owned(m) \ Own(m, u)
         /\ \A c \in BlocksOf(m) :
              /\ Upto(SetOf(m2), IF c = u THEN m.setPrev[u] ELSE c) = Upto(SetOf(m), c) \ {u}
              /\ Upto(GetOf(m2), IF c = u THEN m.getPrev[u] ELSE c) = Upto(GetOf(m), c) \ {u}
<1>1. /\ SetFits(m2) /\ BlocksOf(m2) = BlocksOf(m) \ {u} /\ Len(SetOf(m2)) = Len(SetOf(m)) - 1
      /\ \A c \in BlocksOf(m) :
           Upto(SetOf(m2), IF c = u THEN m.setPrev[u] ELSE c) = Upto(SetOf(m), c) \ {u}
  BY EraseSet DEF Shape
<1>2. /\ GetFits(m2)
      /\ \A c \in BlocksOf(m) :
           Upto(GetOf(m2), IF c = u THEN m.getPrev[u] ELSE c) = Upto(GetOf(m), c) \ {u}
  BY <1>1, EraseGet DEF Shape
<1>3. BlocksOf(m) \subseteq Units /\ 0 \notin BlocksOf(m)
  BY BlockUnits DEF Shape
<1>4. Chains(m2)
  BY <1>1, <1>3, EraseChain DEF Shape, Chains
<1>5. /\ Chunks(m2) /\ \A v \in BlocksOf(m) : ChunksIn(m2, v) = ChunksIn(m, v)
      /\ \A v \in BlocksOf(m) : Own(m2, v) = Own(m, v)
  <2>1. SameChunks(m, m2)
    BY DEF Erases, SameChunks
  <2> QED  BY <1>1, <2>1, ChunksKept DEF Shape
<1>6. Keyed(m2)
  <2>1. SameKeys(m, m2)
    BY DEF Erases, SameKeys
  <2> QED  BY <1>1, <2>1, KeyedKept DEF Shape
<1>7. Cursors(m2)
  <2>1. /\ m.head.dirtyTail \in BlocksOf(m) \cup {0} /\ m.head.syncTail \in BlocksOf(m) \cup {0}
        /\ m.head.backupTail \in BlocksOf(m) \cup {0}
    BY DEF Shape, Cursors
  <2>2. m.setPrev[u] \in BlocksOf(m) \cup {0} /\ m.setPrev[u] # u
    BY Neighbours DEF Shape, SetFits, BlocksOf
  <2>3. m.getPrev[u] \in BlocksOf(m) \cup {0} /\ m.getPrev[u] # u
    BY Neighbours DEF Shape, GetFits
  <2>4. m2.head.dirtyTail \in BlocksOf(m2) \cup {0} /\ m2.head.syncTail \in BlocksOf(m2) \cup {0}
    BY <1>1, <2>1, <2>2 DEF Erases
  <2>5. m2.head.backupTail \in BlocksOf(m2) \cup {0}
    BY <1>1, <2>1, <2>3 DEF Erases
  <2> QED  BY <2>4, <2>5 DEF Cursors
<1>8. Owned(m2) = Owned(m) \ Own(m, u)
  <2>1. \A v \in BlocksOf(m) : v # u => Own(m, v) \cap Own(m, u) = {}
    BY DEF Shape, Chunks
  <2> QED  BY <1>1, <1>5, <2>1 DEF Owned
<1>9. m2.head.elements = Len(SetOf(m2))
  BY <1>1 DEF Erases, Shape
<1> QED  BY <1>1, <1>2, <1>4, <1>5, <1>6, <1>7, <1>8, <1>9 DEF Shape

-----------------------------------------------------------------------------
(* Block::makeNew puts a new block in front of all its lists. *)

\* What Block::makeNew does to the memory.
Links(m, m2, u, i) ==
    /\ Puts(SetOf(m), u, m.head.setHead, m.setNext, m.setPrev, m2.setNext, m2.setPrev)
    /\ m2.head.setHead = u
    /\ m2.head.setTail = IF m.head.setHead = 0 THEN u ELSE m.head.setTail
    /\ Puts(GetOf(m), u, m.head.getHead, m.getNext, m.getPrev, m2.getNext, m2.getPrev)
    /\ m2.head.getHead = u
    /\ m2.head.getTail = IF m.head.getHead = 0 THEN u ELSE m.head.getTail
    /\ m2.blockNext[u] = m.bucket[i] /\ m2.blockPrev[u] = 0
    /\ \A x \in BlocksOf(m) :
         /\ m2.blockNext[x] = m.blockNext[x]
         /\ m2.blockPrev[x] = IF x = m.bucket[i] THEN u ELSE m.blockPrev[x]
    /\ \A j \in Buckets :
         /\ m2.bucket[j] = IF j = i THEN u ELSE m.bucket[j]
         /\ m2.listCount[j] = IF j = i THEN m.listCount[j] + 1 ELSE m.listCount[j]
    /\ m2.chunk[u] = 0 /\ m2.index[u] = i /\ m2.data[u] = Empty
    /\ m2.dirty[u] = TRUE /\ m2.onlyKey[u] = FALSE
    /\ \A x \in Units \ {u} :
         /\ m2.chunk[x] = m.chunk[x] /\ m2.index[x] = m.index[x] /\ m2.data[x] = m.data[x]
         /\ m2.dirty[x] = m.dirty[x] /\ m2.onlyKey[x] = m.onlyKey[x]
    /\ m2.head.elements = m.head.elements + 1
    /\ m2.head.dirtyCount = m.head.dirtyCount + 1
    /\ m2.head.onlyKeyCount = m.head.onlyKeyCount
    /\ m2.head.dirtyTail = m.head.dirtyTail /\ m2.head.syncTail = m.head.syncTail
    /\ m2.head.backupTail = m.head.backupTail

\* Block::makeNew puts the block in front of the set list.
LEMMA LinkSet ==
  ASSUME NEW m, NEW m2, SetFits(m), NEW u \in Units, u \notin BlocksOf(m), NEW i, Links(m, m2, u, i)
  PROVE  /\ SetFits(m2) /\ BlocksOf(m2) = BlocksOf(m) \cup {u}
         /\ Len(SetOf(m2)) = Len(SetOf(m)) + 1
         /\ \A c \in BlocksOf(m) : Upto(SetOf(m2), c) = Upto(SetOf(m), c) \cup {u}
<1> DEFINE t == IF m.head.setHead = 0 THEN u ELSE m.head.setTail
<1>1. /\ Listed(SetOf(m), m.setNext, m.setPrev, m.head.setHead, m.head.setTail)
      /\ Puts(SetOf(m), u, m.head.setHead, m.setNext, m.setPrev, m2.setNext, m2.setPrev)
      /\ u \notin Elements(SetOf(m))
      /\ m2.head.setHead = u /\ m2.head.setTail = t
  BY DEF SetFits, Links, BlocksOf
<1>2. PICK r : /\ Listed(r, m2.setNext, m2.setPrev, u, t)
               /\ Len(r) = Len(SetOf(m)) + 1 /\ Elements(r) = Elements(SetOf(m)) \cup {u}
               /\ \A c \in Elements(SetOf(m)) : Upto(r, c) = Upto(SetOf(m), c) \cup {u}
  BY <1>1, Pushed
<1> HIDE DEF t
<1>3. SetOf(m2) = r
  BY <1>1, <1>2, PathIs DEF Listed, SetOf
<1> QED  BY <1>1, <1>2, <1>3 DEF SetFits, BlocksOf

\* Block::makeNew puts the block in front of the get list.
LEMMA LinkGet ==
  ASSUME NEW m, NEW m2, GetFits(m), NEW u \in Units, u \notin BlocksOf(m), NEW i, Links(m, m2, u, i),
         BlocksOf(m2) = BlocksOf(m) \cup {u}
  PROVE  /\ GetFits(m2)
         /\ \A c \in BlocksOf(m) : Upto(GetOf(m2), c) = Upto(GetOf(m), c) \cup {u}
<1> DEFINE t == IF m.head.getHead = 0 THEN u ELSE m.head.getTail
<1>1. /\ Listed(GetOf(m), m.getNext, m.getPrev, m.head.getHead, m.head.getTail)
      /\ Puts(GetOf(m), u, m.head.getHead, m.getNext, m.getPrev, m2.getNext, m2.getPrev)
      /\ u \notin Elements(GetOf(m)) /\ Elements(GetOf(m)) = BlocksOf(m)
      /\ m2.head.getHead = u /\ m2.head.getTail = t
  BY DEF GetFits, Links
<1>2. PICK r : /\ Listed(r, m2.getNext, m2.getPrev, u, t)
               /\ Len(r) = Len(GetOf(m)) + 1 /\ Elements(r) = Elements(GetOf(m)) \cup {u}
               /\ \A c \in Elements(GetOf(m)) : Upto(r, c) = Upto(GetOf(m), c) \cup {u}
  BY <1>1, Pushed
<1> HIDE DEF t
<1>3. GetOf(m2) = r
  BY <1>1, <1>2, PathIs DEF Listed, GetOf
<1> QED  BY <1>1, <1>2, <1>3 DEF GetFits

\* Block::makeNew puts the block in front of the chain of its bucket.
LEMMA LinkChain ==
  ASSUME NEW m, NEW m2, Chains(m), NEW u \in Units, u \notin BlocksOf(m), NEW i \in Buckets,
         Links(m, m2, u, i), BlocksOf(m) \subseteq Units,
         BlocksOf(m2) = BlocksOf(m) \cup {u}, NEW j \in Buckets
  PROVE  ChainFits(m2, j)
<1> DEFINE c == ChainOf(m, j)
<1>1. /\ Listed(c, m.blockNext, m.blockPrev, m.bucket[j], End(c))
      /\ Elements(c) = {x \in BlocksOf(m) : m.index[x] = j}
      /\ m.listCount[j] = Len(c)
  BY DEF Chains, ChainFits
<1>2. /\ m2.blockNext[u] = m.bucket[i] /\ m2.blockPrev[u] = 0 /\ m2.index[u] = i
      /\ \A x \in BlocksOf(m) :
           /\ m2.blockNext[x] = m.blockNext[x] /\ m2.index[x] = m.index[x]
           /\ m2.blockPrev[x] = IF x = m.bucket[i] THEN u ELSE m.blockPrev[x]
      /\ m2.bucket[j] = IF j = i THEN u ELSE m.bucket[j]
      /\ m2.listCount[j] = IF j = i THEN m.listCount[j] + 1 ELSE m.listCount[j]
  BY DEF Links
<1>3. {x \in BlocksOf(m2) : m2.index[x] = j} = Elements(c) \cup (IF j = i THEN {u} ELSE {})
  BY <1>1, <1>2
<1> HIDE DEF c
<1>4. CASE i = j
  <2>1. u \notin Elements(c)
    BY <1>1
  <2> DEFINE t == IF m.bucket[j] = 0 THEN u ELSE End(c)
  <2>2. Puts(c, u, m.bucket[j], m.blockNext, m.blockPrev, m2.blockNext, m2.blockPrev)
    BY <1>1, <1>2, <1>4 DEF Puts
  <2>3. PICK r : /\ Listed(r, m2.blockNext, m2.blockPrev, u, t)
                 /\ Len(r) = Len(c) + 1 /\ Elements(r) = Elements(c) \cup {u}
    BY <1>1, <2>1, <2>2, Pushed
  <2> HIDE DEF t
  <2>4. ChainOf(m2, j) = r /\ t = End(r) /\ m2.bucket[j] = u
    BY <1>2, <1>4, <2>3, PathIs DEF Listed, ChainOf
  <2> QED  BY <1>1, <1>2, <1>3, <1>4, <2>3, <2>4 DEF ChainFits
<1>5. CASE i # j
  <2>1. m.bucket[i] \notin Elements(c)
    <3>1. /\ Forth(ChainOf(m, i), m.blockNext, m.bucket[i])
          /\ Elements(ChainOf(m, i)) = {x \in BlocksOf(m) : m.index[x] = i}
      BY DEF Chains, ChainFits, Listed
    <3>2. m.bucket[i] = 0 \/ m.bucket[i] \in Elements(ChainOf(m, i))
      BY <3>1, ForthElements
    <3>3. 0 \notin Elements(c)
      BY <1>1, ForthElements DEF Listed
    <3> QED  BY <1>1, <1>5, <3>1, <3>2, <3>3
  <2>2. \A x \in Elements(c) : m2.blockNext[x] = m.blockNext[x] /\ m2.blockPrev[x] = m.blockPrev[x]
    BY <1>1, <1>2, <2>1
  <2>3. Listed(c, m2.blockNext, m2.blockPrev, m.bucket[j], End(c))
    BY <1>1, <2>2, ListedKept
  <2>4. m2.bucket[j] = m.bucket[j] /\ m2.listCount[j] = m.listCount[j]
    BY <1>2, <1>5
  <2>5. ChainOf(m2, j) = c
    BY <2>3, <2>4, PathIs DEF Listed, ChainOf
  <2> QED  BY <1>1, <1>3, <1>5, <2>3, <2>4, <2>5 DEF ChainFits
<1> QED  BY <1>4, <1>5

\* Block::makeNew leaves a memory of the right shape, with the new block.
LEMMA LinkShape ==
  ASSUME NEW m, NEW m2, Shape(m), NEW u \in Units, u \notin Owned(m), NEW i \in Buckets,
         Links(m, m2, u, i), IsMemory(m2)
  PROVE  /\ Shape(m2)
         /\ BlocksOf(m2) = BlocksOf(m) \cup {u} /\ u \notin BlocksOf(m)
         /\ \A v \in BlocksOf(m) : Own(m2, v) = Own(m, v) /\ ChunksIn(m2, v) = ChunksIn(m, v)
         /\ Own(m2, u) = {u} /\ Len(ChunksIn(m2, u)) = 1
         /\ Owned(m2) = Owned(m) \cup {u}
         /\ \A c \in BlocksOf(m) : /\ Upto(SetOf(m2), c) = Upto(SetOf(m), c) \cup {u}
                                   /\ Upto(GetOf(m2), c) = Upto(GetOf(m), c) \cup {u}
<1>1. /\ BlocksOf(m) \subseteq Units /\ 0 \notin BlocksOf(m) /\ u \notin BlocksOf(m)
      /\ Owned(m) \subseteq Units /\ \A v \in BlocksOf(m) : Own(m, v) \subseteq Owned(m)
  BY BlockUnits, OwnUnits DEF Shape
<1>2. /\ SetFits(m2) /\ BlocksOf(m2) = BlocksOf(m) \cup {u}
      /\ Len(SetOf(m2)) = Len(SetOf(m)) + 1
      /\ \A c \in BlocksOf(m) : Upto(SetOf(m2), c) = Upto(SetOf(m), c) \cup {u}
  <2>1. SetFits(m)
    BY DEF Shape
  <2> QED  BY <1>1, <2>1, LinkSet
<1>3. /\ GetFits(m2)
      /\ \A c \in BlocksOf(m) : Upto(GetOf(m2), c) = Upto(GetOf(m), c) \cup {u}
  BY <1>1, <1>2, LinkGet DEF Shape
<1>4. Chains(m2)
  BY <1>1, <1>2, LinkChain DEF Shape, Chains
<1>5. ASSUME NEW v \in BlocksOf(m)
      PROVE  /\ Forth(ChunksIn(m, v), m2.chunk, v) /\ ChunksIn(m2, v) = ChunksIn(m, v)
             /\ Own(m2, v) = Own(m, v)
  <2>1. Forth(ChunksIn(m, v), m.chunk, v)
    BY DEF Shape, Chunks
  <2>2. \A x \in Elements(ChunksIn(m, v)) : x \in Units \ {u}
    BY <1>1 DEF Owned, Own
  <2>3. \A x \in Elements(ChunksIn(m, v)) : m2.chunk[x] = m.chunk[x]
    BY <2>2 DEF Links
  <2>4. Forth(ChunksIn(m, v), m2.chunk, v)
    BY <2>1, <2>3, ForthKept
  <2>5. ChunksIn(m2, v) = ChunksIn(m, v)
    BY <2>4, PathIs DEF ChunksIn
  <2> QED  BY <2>4, <2>5 DEF Own
<1>6. Forth(ChunksIn(m2, u), m2.chunk, u) /\ Own(m2, u) = {u} /\ Len(ChunksIn(m2, u)) = 1
  <2>1. m2.chunk[u] = 0
    BY DEF Links
  <2>2. Forth(<<u>>, m2.chunk, u) /\ Elements(<<u>>) = {u}
    BY <2>1, Alone
  <2>3. ChunksIn(m2, u) = <<u>>
    BY <2>2, PathIs DEF ChunksIn
  <2> QED  BY <2>2, <2>3 DEF Own
<1>7. Chunks(m2)
  <2>1. \A v \in BlocksOf(m2) : Forth(ChunksIn(m2, v), m2.chunk, v)
    BY <1>2, <1>5, <1>6
  <2>2. \A v, w \in BlocksOf(m) : v # w => Own(m, v) \cap Own(m, w) = {}
    BY DEF Shape, Chunks
  <2>3. \A v, w \in BlocksOf(m2) : v # w => Own(m2, v) \cap Own(m2, w) = {}
    BY <1>1, <1>2, <1>5, <1>6, <2>2
  <2> QED  BY <2>1, <2>3 DEF Chunks
<1>8. Keyed(m2)
  <2>1. /\ m2.data[u].key = None
        /\ \A x \in BlocksOf(m) : m2.data[x] = m.data[x] /\ m2.index[x] = m.index[x]
    BY <1>1 DEF Links, Empty
  <2> QED  BY <1>2, <2>1 DEF Keyed, Shape
<1>9. Cursors(m2)
  BY <1>2 DEF Links, Shape, Cursors
<1>10. Owned(m2) = Owned(m) \cup {u}
  <2>1. \A v \in BlocksOf(m) : Own(m2, v) = Own(m, v)
    BY <1>5
  <2> QED  BY <1>2, <1>6, <2>1 DEF Owned
<1>11. m2.head.elements = Len(SetOf(m2))
  BY <1>2 DEF Links, Shape
<1> QED  BY <1>1, <1>2, <1>3, <1>4, <1>5, <1>6, <1>7, <1>8, <1>9, <1>10, <1>11 DEF Shape

-----------------------------------------------------------------------------
(* refreshSetList and refreshGetList bring a block to the front of a list. *)

\* What is left when the order of a list may have changed.
LEMMA ShapeFrom ==
  ASSUME NEW m, NEW m2, Shape(m), IsMemory(m2), SetFits(m2), GetFits(m2),
         BlocksOf(m2) = BlocksOf(m), m2.head.elements = Len(SetOf(m2)),
         SameChains(m, m2), SameChunks(m, m2), SameKeys(m, m2), Cursors(m2)
  PROVE  /\ Shape(m2) /\ Owned(m2) = Owned(m)
         /\ \A u \in BlocksOf(m) : ChunksIn(m2, u) = ChunksIn(m, u) /\ Own(m2, u) = Own(m, u)
         /\ \A i \in Buckets : ChainOf(m2, i) = ChainOf(m, i)
<1>1. Chains(m2) /\ \A i \in Buckets : ChainOf(m2, i) = ChainOf(m, i)
  BY ChainsKept DEF Shape
<1>2. /\ Chunks(m2) /\ \A u \in BlocksOf(m) : ChunksIn(m2, u) = ChunksIn(m, u)
      /\ \A u \in BlocksOf(m) : Own(m2, u) = Own(m, u)
  BY ChunksKept DEF Shape
<1>3. Keyed(m2)
  BY KeyedKept DEF Shape
<1>4. Owned(m2) = Owned(m)
  BY <1>2 DEF Owned
<1> QED  BY <1>1, <1>2, <1>3, <1>4 DEF Shape

\* What refreshSetList does to the set list.
MovesSet(m, m2, u) ==
    /\ Shifts(SetOf(m), u, m.head.setHead, m.setNext, m.setPrev, m2.setNext, m2.setPrev)
    /\ m2.head.setHead = u
    /\ m2.head.setTail = IF m.head.setTail = u THEN m.setPrev[u] ELSE m.head.setTail

\* What refreshGetList does to the get list.
MovesGet(m, m2, u) ==
    /\ Shifts(GetOf(m), u, m.head.getHead, m.getNext, m.getPrev, m2.getNext, m2.getPrev)
    /\ m2.head.getHead = u
    /\ m2.head.getTail = IF m.head.getTail = u THEN m.getPrev[u] ELSE m.head.getTail

\* refreshSetList leaves a set list of the same blocks.
LEMMA MoveSet ==
  ASSUME NEW m, NEW m2, SetFits(m), NEW u \in BlocksOf(m), u # m.head.setHead, MovesSet(m, m2, u)
  PROVE  /\ SetFits(m2) /\ BlocksOf(m2) = BlocksOf(m) /\ Len(SetOf(m2)) = Len(SetOf(m))
         /\ \A c \in BlocksOf(m) :
              Upto(SetOf(m2), IF c = u THEN m.setPrev[u] ELSE c) = Upto(SetOf(m), c) \cup {u}
<1> DEFINE t == IF m.head.setTail = u THEN m.setPrev[u] ELSE m.head.setTail
<1>1. /\ Listed(SetOf(m), m.setNext, m.setPrev, m.head.setHead, m.head.setTail)
      /\ Shifts(SetOf(m), u, m.head.setHead, m.setNext, m.setPrev, m2.setNext, m2.setPrev)
      /\ u \in Elements(SetOf(m)) /\ u # m.head.setHead
      /\ m2.head.setHead = u /\ m2.head.setTail = t
  BY DEF SetFits, MovesSet, BlocksOf
<1>2. PICK r : /\ Listed(r, m2.setNext, m2.setPrev, u, t)
               /\ Len(r) = Len(SetOf(m)) /\ Elements(r) = Elements(SetOf(m))
               /\ \A c \in Elements(SetOf(m)) :
                    Upto(r, IF c = u THEN m.setPrev[u] ELSE c) = Upto(SetOf(m), c) \cup {u}
  <2> DEFINE s == SetOf(m)
             next == m.setNext
             prev == m.setPrev
             h == m.head.setHead
             last == m.head.setTail
             next2 == m2.setNext
             prev2 == m2.setPrev
  <2>1. /\ Listed(s, next, prev, h, last) /\ u \in Elements(s) /\ u # h
        /\ Shifts(s, u, h, next, prev, next2, prev2)
    BY <1>1
  <2> HIDE DEF s, next, prev, h, last, next2, prev2
  <2>2. \E r : /\ Listed(r, next2, prev2, u, IF last = u THEN prev[u] ELSE last)
               /\ Len(r) = Len(s) /\ Elements(r) = Elements(s)
               /\ \A c \in Elements(s) :
                    Upto(r, IF c = u THEN prev[u] ELSE c) = Upto(s, c) \cup {u}
    BY <2>1, Moved
  <2> QED  BY <2>2 DEF s, prev, last, next2, prev2
<1> HIDE DEF t
<1>3. SetOf(m2) = r
  BY <1>1, <1>2, PathIs DEF Listed, SetOf
<1> QED  BY <1>1, <1>2, <1>3 DEF SetFits, BlocksOf

\* refreshGetList leaves a get list of the same blocks.
LEMMA MoveGet ==
  ASSUME NEW m, NEW m2, GetFits(m), NEW u \in BlocksOf(m), u # m.head.getHead, MovesGet(m, m2, u),
         BlocksOf(m2) = BlocksOf(m)
  PROVE  /\ GetFits(m2)
         /\ \A c \in BlocksOf(m) :
              Upto(GetOf(m2), IF c = u THEN m.getPrev[u] ELSE c) = Upto(GetOf(m), c) \cup {u}
<1> DEFINE t == IF m.head.getTail = u THEN m.getPrev[u] ELSE m.head.getTail
<1>1. /\ Listed(GetOf(m), m.getNext, m.getPrev, m.head.getHead, m.head.getTail)
      /\ Shifts(GetOf(m), u, m.head.getHead, m.getNext, m.getPrev, m2.getNext, m2.getPrev)
      /\ u \in Elements(GetOf(m)) /\ Elements(GetOf(m)) = BlocksOf(m) /\ u # m.head.getHead
      /\ m2.head.getHead = u /\ m2.head.getTail = t
  BY DEF GetFits, MovesGet
<1>2. PICK r : /\ Listed(r, m2.getNext, m2.getPrev, u, t)
               /\ Len(r) = Len(GetOf(m)) /\ Elements(r) = Elements(GetOf(m))
               /\ \A c \in Elements(GetOf(m)) :
                    Upto(r, IF c = u THEN m.getPrev[u] ELSE c) = Upto(GetOf(m), c) \cup {u}
  <2> DEFINE s == GetOf(m)
             next == m.getNext
             prev == m.getPrev
             h == m.head.getHead
             last == m.head.getTail
             next2 == m2.getNext
             prev2 == m2.getPrev
  <2>1. /\ Listed(s, next, prev, h, last) /\ u \in Elements(s) /\ u # h
        /\ Shifts(s, u, h, next, prev, next2, prev2)
    BY <1>1
  <2> HIDE DEF s, next, prev, h, last, next2, prev2
  <2>2. \E r : /\ Listed(r, next2, prev2, u, IF last = u THEN prev[u] ELSE last)
               /\ Len(r) = Len(s) /\ Elements(r) = Elements(s)
               /\ \A c \in Elements(s) :
                    Upto(r, IF c = u THEN prev[u] ELSE c) = Upto(s, c) \cup {u}
    BY <2>1, Moved
  <2> QED  BY <2>2 DEF s, prev, last, next2, prev2
<1> HIDE DEF t
<1>3. GetOf(m2) = r
  BY <1>1, <1>2, PathIs DEF Listed, GetOf
<1> QED  BY <1>1, <1>2, <1>3 DEF GetFits

-----------------------------------------------------------------------------
(* Changes that leave the lists alone. *)

\* Keys that change leave no key in two blocks.
KeysFit(m, m2) ==
    \A u \in BlocksOf(m) : m2.data[u].key # None =>
        /\ m2.index[u] = HashOf[m2.data[u].key]
        /\ \A v \in BlocksOf(m) : m2.data[u].key = m2.data[v].key => u = v

\* The cursors stand on blocks again.
CursorsFit(m, m2) ==
    /\ m2.head.dirtyTail \in BlocksOf(m) \cup {0}
    /\ m2.head.syncTail \in BlocksOf(m) \cup {0}
    /\ m2.head.backupTail \in BlocksOf(m) \cup {0}

\* Lists and chains are not touched; keys and cursors may change if they fit.
Stays(m, m2) ==
    /\ IsMemory(m2) /\ SameSet(m, m2) /\ SameGet(m, m2) /\ SameChains(m, m2)
    /\ KeysFit(m, m2) /\ CursorsFit(m, m2) /\ m2.head.elements = m.head.elements

\* Keys that stay are keys that fit.
LEMMA KeysStay == ASSUME NEW m, NEW m2, Keyed(m), SameKeys(m, m2) PROVE KeysFit(m, m2)
  BY DEF Keyed, SameKeys, KeysFit

\* A block is given the key it was looked up for.
LEMMA KeyGiven ==
  ASSUME NEW m, NEW m2, Keyed(m), NEW b \in BlocksOf(m), NEW k,
         \A x \in BlocksOf(m) : m2.index[x] = m.index[x],
         \A x \in BlocksOf(m) \ {b} : m2.data[x].key = m.data[x].key,
         m2.data[b].key \in {k, None}, m.index[b] = HashOf[k],
         \A x \in BlocksOf(m) : m.data[x].key = k => x = b
  PROVE  KeysFit(m, m2)
  BY DEF Keyed, KeysFit

\* A change that leaves links and ends alone leaves the lists, the chains and the cursors.
LEMMA ListsStay ==
  ASSUME NEW m, NEW m2, Shape(m), Stays(m, m2)
  PROVE  /\ SetFits(m2) /\ SetOf(m2) = SetOf(m) /\ BlocksOf(m2) = BlocksOf(m)
         /\ m2.head.elements = Len(SetOf(m2)) /\ GetFits(m2) /\ GetOf(m2) = GetOf(m)
         /\ Chains(m2) /\ \A i \in Buckets : ChainOf(m2, i) = ChainOf(m, i)
         /\ Keyed(m2) /\ Cursors(m2) /\ IsMemory(m2)
<1>1. SetFits(m2) /\ SetOf(m2) = SetOf(m) /\ BlocksOf(m2) = BlocksOf(m)
  BY SetKept DEF Shape, Stays
<1>2. GetFits(m2) /\ GetOf(m2) = GetOf(m)
  BY <1>1, GetKept DEF Shape, Stays
<1>3. Chains(m2) /\ \A i \in Buckets : ChainOf(m2, i) = ChainOf(m, i)
  BY <1>1, ChainsKept DEF Shape, Stays
<1>4. Keyed(m2)
  BY <1>1 DEF Stays, KeysFit, Keyed
<1>5. Cursors(m2)
  BY <1>1 DEF Stays, CursorsFit, Cursors
<1>6. m2.head.elements = Len(SetOf(m2)) /\ IsMemory(m2)
  BY <1>1 DEF Stays, Shape
<1> QED  BY <1>1, <1>2, <1>3, <1>4, <1>5, <1>6

\* A change that leaves links, ends and chunks alone leaves the shape.
LEMMA ShapeStays ==
  ASSUME NEW m, NEW m2, Shape(m), Stays(m, m2), SameChunks(m, m2)
  PROVE  /\ Shape(m2) /\ SetOf(m2) = SetOf(m) /\ BlocksOf(m2) = BlocksOf(m) /\ GetOf(m2) = GetOf(m)
         /\ Owned(m2) = Owned(m)
         /\ \A u \in BlocksOf(m) : ChunksIn(m2, u) = ChunksIn(m, u) /\ Own(m2, u) = Own(m, u)
<1>1. /\ SetFits(m2) /\ SetOf(m2) = SetOf(m) /\ BlocksOf(m2) = BlocksOf(m)
      /\ m2.head.elements = Len(SetOf(m2)) /\ GetFits(m2) /\ GetOf(m2) = GetOf(m)
      /\ Chains(m2) /\ Keyed(m2) /\ Cursors(m2) /\ IsMemory(m2)
  BY ListsStay
<1>2. /\ Chunks(m2) /\ \A u \in BlocksOf(m) : ChunksIn(m2, u) = ChunksIn(m, u)
      /\ \A u \in BlocksOf(m) : Own(m2, u) = Own(m, u)
  BY <1>1, ChunksKept DEF Shape
<1>3. Owned(m2) = Owned(m)
  BY <1>1, <1>2 DEF Owned
<1> QED  BY <1>1, <1>2, <1>3 DEF Shape

\* Chunks of other blocks are not touched.
LEMMA ChunksApart ==
  ASSUME NEW m, NEW m2, Chunks(m), NEW b \in BlocksOf(m),
         \A x \in Owned(m) \ Own(m, b) : m2.chunk[x] = m.chunk[x], NEW u \in BlocksOf(m) \ {b}
  PROVE  /\ Forth(ChunksIn(m2, u), m2.chunk, u)
         /\ ChunksIn(m2, u) = ChunksIn(m, u) /\ Own(m2, u) = Own(m, u)
<1>1. Forth(ChunksIn(m, u), m.chunk, u) /\ Own(m, u) \cap Own(m, b) = {}
  BY DEF Chunks
<1>2. \A x \in Elements(ChunksIn(m, u)) : m2.chunk[x] = m.chunk[x]
  BY <1>1 DEF Owned, Own
<1>3. Forth(ChunksIn(m, u), m2.chunk, u)
  BY <1>1, <1>2, ForthKept
<1>4. ChunksIn(m2, u) = ChunksIn(m, u)
  BY <1>3, PathIs DEF ChunksIn
<1> QED  BY <1>3, <1>4 DEF Own

\* A block whose k-th chunk becomes its last leaves a memory of the right shape.
LEMMA CutShape ==
  ASSUME NEW m, NEW m2, Shape(m), Stays(m, m2), NEW b \in BlocksOf(m),
         NEW k \in 1..Len(ChunksIn(m, b)), m2.chunk[ChunksIn(m, b)[k]] = 0,
         \A x \in Owned(m) \ {ChunksIn(m, b)[k]} : m2.chunk[x] = m.chunk[x]
  PROVE  /\ Shape(m2) /\ SetOf(m2) = SetOf(m) /\ BlocksOf(m2) = BlocksOf(m) /\ GetOf(m2) = GetOf(m)
         /\ \A u \in BlocksOf(m) \ {b} : ChunksIn(m2, u) = ChunksIn(m, u) /\ Own(m2, u) = Own(m, u)
         /\ Len(ChunksIn(m2, b)) = k
         /\ Own(m2, b) = Part(ChunksIn(m, b), 1, k)
         /\ Owned(m2) = Owned(m) \ Part(ChunksIn(m, b), k + 1, Len(ChunksIn(m, b)))
<1> DEFINE c == ChunksIn(m, b)
<1>1. /\ SetFits(m2) /\ SetOf(m2) = SetOf(m) /\ BlocksOf(m2) = BlocksOf(m)
      /\ m2.head.elements = Len(SetOf(m2)) /\ GetFits(m2) /\ GetOf(m2) = GetOf(m)
      /\ Chains(m2) /\ Keyed(m2) /\ Cursors(m2) /\ IsMemory(m2)
  BY ListsStay
<1>2. Forth(c, m.chunk, b) /\ Own(m, b) = Elements(c) /\ Chunks(m)
  BY DEF Shape, Chunks, Own
<1>3. /\ c \in Seq(Units) /\ Len(c) \in Nat /\ \A i \in 1..Len(c) : c[i] \in Elements(c)
      /\ \A x : x \in Elements(c) <=> \E i \in 1..Len(c) : c[i] = x
      /\ \A i, j \in 1..Len(c) : c[i] = c[j] => i = j
  BY <1>2, InElements DEF Forth, Once
<1>4. \A x \in Elements(c) : x \in Owned(m)
  BY <1>2 DEF Owned
<1> HIDE DEF c
<1>5. m2.chunk[c[k]] = 0 /\ \A x \in Owned(m) \ {c[k]} : m2.chunk[x] = m.chunk[x]
  BY DEF c
<1>6. k \in 1..Len(c)
  BY DEF c
<1>7. PICK r : Forth(r, m2.chunk, b) /\ Len(r) = k /\ Elements(r) = Part(c, 1, k)
  BY <1>2, <1>4, <1>5, <1>6, Shortened
<1>8. ChunksIn(m2, b) = r
  BY <1>7, PathIs DEF ChunksIn
<1>9. Own(m2, b) = Part(c, 1, k)
  BY <1>7, <1>8 DEF Own
<1>10. ASSUME NEW u \in BlocksOf(m) \ {b}
       PROVE  /\ Forth(ChunksIn(m2, u), m2.chunk, u)
              /\ ChunksIn(m2, u) = ChunksIn(m, u) /\ Own(m2, u) = Own(m, u)
  <2>1. \A x \in Owned(m) \ Own(m, b) : m2.chunk[x] = m.chunk[x]
    BY <1>2, <1>3, <1>5, <1>6
  <2> QED  BY <1>2, <2>1, ChunksApart
<1>11. Own(m2, b) \subseteq Own(m, b)
  BY <1>2, <1>3, <1>6, <1>9 DEF Part
<1>12. Chunks(m2)
  <2>1. \A u \in BlocksOf(m) : Forth(ChunksIn(m2, u), m2.chunk, u) /\ Own(m2, u) \subseteq Own(m, u)
    BY <1>7, <1>8, <1>10, <1>11
  <2>2. \A u, v \in BlocksOf(m) : u # v => Own(m, u) \cap Own(m, v) = {}
    BY <1>2 DEF Chunks
  <2> QED  BY <1>1, <2>1, <2>2 DEF Chunks
<1>13. Owned(m2) = Owned(m) \ Part(c, k + 1, Len(c))
  <2> DEFINE gone == Part(c, k + 1, Len(c))
  <2>1. Own(m2, b) = Own(m, b) \ gone
    <3>1. ASSUME NEW x \in Own(m2, b) PROVE x \in Own(m, b) \ gone
      <4>1. PICK i \in 1..k : x = c[i]
        BY <1>9 DEF Part
      <4>2. i \in 1..Len(c)
        BY <1>3, <1>6
      <4>3. x \notin gone
        BY <1>3, <1>6, <4>1, <4>2 DEF Part
      <4> QED  BY <1>11, <4>3
    <3>2. ASSUME NEW x \in Own(m, b) \ gone PROVE x \in Own(m2, b)
      <4>1. PICK i \in 1..Len(c) : x = c[i]
        BY <1>2, <1>3
      <4>2. i \notin (k + 1)..Len(c)
        BY <4>1 DEF Part
      <4>3. i \in 1..k
        BY <1>3, <1>6, <4>2
      <4> QED  BY <1>9, <4>1, <4>3 DEF Part
    <3> QED  BY <3>1, <3>2
  <2>2. gone \subseteq Own(m, b)
    BY <1>2, <1>3, <1>6 DEF Part
  <2> HIDE DEF gone
  <2>3. \A u \in BlocksOf(m) \ {b} : Own(m, u) \cap Own(m, b) = {} /\ Own(m2, u) = Own(m, u)
    BY <1>2, <1>10 DEF Chunks
  <2>4. Owned(m2) = Owned(m) \ gone
    <3>1. ASSUME NEW x \in Owned(m2) PROVE x \in Owned(m) \ gone
      <4>1. PICK u \in BlocksOf(m) : x \in Own(m2, u)
        BY <1>1 DEF Owned
      <4>2. CASE u = b
        BY <2>1, <4>1, <4>2 DEF Owned
      <4>3. CASE u # b
        BY <2>2, <2>3, <4>1, <4>3 DEF Owned
      <4> QED  BY <4>2, <4>3
    <3>2. ASSUME NEW x \in Owned(m) \ gone PROVE x \in Owned(m2)
      <4>1. PICK u \in BlocksOf(m) : x \in Own(m, u)
        BY DEF Owned
      <4>2. x \in Own(m2, u)
        BY <2>1, <2>3, <4>1
      <4> QED  BY <1>1, <4>2 DEF Owned
    <3> QED  BY <3>1, <3>2
  <2> QED  BY <2>4 DEF gone
<1>14. Len(ChunksIn(m2, b)) = k
  BY <1>7, <1>8
<1> QED  BY <1>1, <1>9, <1>10, <1>12, <1>13, <1>14 DEF Shape, c

\* A block that gets one more chunk leaves a memory of the right shape.
LEMMA LongerShape ==
  ASSUME NEW m, NEW m2, Shape(m), Stays(m, m2), NEW b \in BlocksOf(m), NEW v \in Units \ Owned(m),
         m2.chunk[End(ChunksIn(m, b))] = v, m2.chunk[v] = 0,
         \A x \in Owned(m) \ {End(ChunksIn(m, b))} : m2.chunk[x] = m.chunk[x]
  PROVE  /\ Shape(m2) /\ SetOf(m2) = SetOf(m) /\ BlocksOf(m2) = BlocksOf(m) /\ GetOf(m2) = GetOf(m)
         /\ \A u \in BlocksOf(m) \ {b} : ChunksIn(m2, u) = ChunksIn(m, u) /\ Own(m2, u) = Own(m, u)
         /\ End(ChunksIn(m2, b)) = v /\ Own(m2, b) = Own(m, b) \cup {v}
         /\ Owned(m2) = Owned(m) \cup {v}
<1> DEFINE c == ChunksIn(m, b)
<1>1. /\ SetFits(m2) /\ SetOf(m2) = SetOf(m) /\ BlocksOf(m2) = BlocksOf(m)
      /\ m2.head.elements = Len(SetOf(m2)) /\ GetFits(m2) /\ GetOf(m2) = GetOf(m)
      /\ Chains(m2) /\ Keyed(m2) /\ Cursors(m2) /\ IsMemory(m2)
  BY ListsStay
<1>2. Forth(c, m.chunk, b) /\ Own(m, b) = Elements(c) /\ Chunks(m)
  BY DEF Shape, Chunks, Own
<1>3. b # 0
  BY BlockUnits DEF Shape
<1>4. End(c) \in Elements(c)
  <2>1. Len(c) # 0 /\ c \in Seq(Units) /\ Len(c) \in Nat
    BY <1>2, <1>3, ForthElements
  <2> QED  BY <2>1, InElements DEF End
<1>5. \A x \in Elements(c) : x \in Owned(m)
  BY <1>2 DEF Owned
<1> HIDE DEF c
<1>6. /\ m2.chunk[End(c)] = v /\ m2.chunk[v] = 0 /\ v \notin Elements(c) /\ v \in Units
      /\ \A x \in Owned(m) \ {End(c)} : m2.chunk[x] = m.chunk[x]
  BY <1>5 DEF c
<1>7. PICK r : /\ Forth(r, m2.chunk, b) /\ Len(r) = Len(c) + 1 /\ End(r) = v
               /\ Elements(r) = Elements(c) \cup {v}
  BY <1>2, <1>3, <1>5, <1>6, Lengthened
<1>8. ChunksIn(m2, b) = r
  BY <1>7, PathIs DEF ChunksIn
<1>9. Own(m2, b) = Own(m, b) \cup {v}
  BY <1>2, <1>7, <1>8 DEF Own
<1>10. ASSUME NEW u \in BlocksOf(m) \ {b}
       PROVE  /\ Forth(ChunksIn(m2, u), m2.chunk, u)
              /\ ChunksIn(m2, u) = ChunksIn(m, u) /\ Own(m2, u) = Own(m, u)
  <2>1. \A x \in Owned(m) \ Own(m, b) : m2.chunk[x] = m.chunk[x]
    BY <1>2, <1>4, <1>6
  <2> QED  BY <1>2, <2>1, ChunksApart
<1>11. Chunks(m2)
  <2>1. \A u \in BlocksOf(m) : Forth(ChunksIn(m2, u), m2.chunk, u)
    BY <1>7, <1>8, <1>10
  <2>2. \A u, w \in BlocksOf(m) : u # w => Own(m, u) \cap Own(m, w) = {}
    BY <1>2 DEF Chunks
  <2>3. \A u \in BlocksOf(m) : v \notin Own(m, u)
    BY DEF Owned
  <2>4. \A u, w \in BlocksOf(m) : u # w => Own(m2, u) \cap Own(m2, w) = {}
    BY <1>9, <1>10, <2>2, <2>3
  <2> QED  BY <1>1, <2>1, <2>4 DEF Chunks
<1>12. Owned(m2) = Owned(m) \cup {v}
  BY <1>1, <1>9, <1>10 DEF Owned
<1>13. End(ChunksIn(m2, b)) = v
  BY <1>7, <1>8
<1> QED  BY <1>1, <1>9, <1>10, <1>11, <1>12, <1>13 DEF Shape

-----------------------------------------------------------------------------
(* What Block::erase and Block::makeNew record. *)

\* A conditional entry: what it leaves in every cell.
LEMMA WhenEntry ==
  ASSUME NEW c \in BOOLEAN, NEW e, c => e \in Entry
  PROVE  /\ When(c, <<e>>) \in Seq(Entry) /\ Len(When(c, <<e>>)) = IF c THEN 1 ELSE 0
         /\ \A f, x, v : Cell(When(c, <<e>>), f, x, v)
                           = IF c /\ f = e[1] /\ x = e[2] THEN e[3] ELSE v
<1>1. CASE c
  <2>1. When(c, <<e>>) = <<e>> /\ e \in Entry
    BY <1>1 DEF When
  <2>2. /\ <<e>> \in Seq(Entry) /\ Len(<<e>>) = 1
        /\ \A f, x, v : Cell(<<e>>, f, x, v) = CellOf(e, f, x, v)
    BY <2>1, OneEntry
  <2>3. \A f, x, v : Cell(<<e>>, f, x, v) = IF f = e[1] /\ x = e[2] THEN e[3] ELSE v
    BY <2>2 DEF CellOf
  <2>4. \A f, x, v : Cell(When(c, <<e>>), f, x, v) = IF f = e[1] /\ x = e[2] THEN e[3] ELSE v
    BY <2>1, <2>3
  <2>5. When(c, <<e>>) \in Seq(Entry) /\ Len(When(c, <<e>>)) = 1
    BY <2>1, <2>2
  <2>6. \A f, x, v : (IF c /\ f = e[1] /\ x = e[2] THEN e[3] ELSE v)
                       = IF f = e[1] /\ x = e[2] THEN e[3] ELSE v
    BY <1>1, Zenon
  <2>7. (IF c THEN 1 ELSE 0) = 1
    BY <1>1
  <2> QED  BY <2>4, <2>5, <2>6, <2>7
<1>2. CASE ~c
  <2>1. When(c, <<e>>) = <<>>
    BY <1>2 DEF When
  <2> QED  BY <1>2, <2>1, CellNone
<1> QED  BY <1>1, <1>2

\* Applying a log, cell by cell.
LEMMA AppliedAt ==
  ASSUME NEW m, IsMemory(m), NEW g
  PROVE  /\ \A f \in UnitLinks, x \in Units : Apply(m, g)[f][x] = Cell(g, f, x, m[f][x])
         /\ \A h \in Heads : Apply(m, g).head[h] = Cell(g, "head", h, m.head[h])
         /\ \A i \in Buckets : /\ Apply(m, g).bucket[i] = Cell(g, "bucket", i, m.bucket[i])
                               /\ Apply(m, g).listCount[i] = Cell(g, "listCount", i, m.listCount[i])
         /\ \A x \in Units : /\ Apply(m, g).index[x] = Cell(g, "index", x, m.index[x])
                             /\ Apply(m, g).data[x] = Cell(g, "data", x, m.data[x])
                             /\ Apply(m, g).dirty[x] = Cell(g, "dirty", x, m.dirty[x])
                             /\ Apply(m, g).onlyKey[x] = Cell(g, "onlyKey", x, m.onlyKey[x])
<1>1. \A f \in Fields : \A x : x \in DOMAIN m[f] => Apply(m, g)[f][x] = Cell(g, f, x, m[f][x])
  BY ApplyAt
<1>2. \A f \in UnitLinks : DOMAIN m[f] = Units /\ f \in Fields
  BY DEF IsMemory, Fields
<1>3. DOMAIN m["head"] = Heads /\ "head" \in Fields
  BY DEF IsMemory, Fields
<1>4. /\ DOMAIN m["bucket"] = Buckets /\ "bucket" \in Fields
      /\ DOMAIN m["listCount"] = Buckets /\ "listCount" \in Fields
  BY DEF IsMemory, Fields
<1>5. /\ DOMAIN m["index"] = Units /\ "index" \in Fields
      /\ DOMAIN m["data"] = Units /\ "data" \in Fields
      /\ DOMAIN m["dirty"] = Units /\ "dirty" \in Fields
      /\ DOMAIN m["onlyKey"] = Units /\ "onlyKey" \in Fields
  BY DEF IsMemory, Fields
<1>6. \A f \in UnitLinks, x \in Units : Apply(m, g)[f][x] = Cell(g, f, x, m[f][x])
  BY <1>1, <1>2
<1>7. \A h \in Heads : Apply(m, g)["head"][h] = Cell(g, "head", h, m["head"][h])
  BY <1>1, <1>3
<1>8. \A i \in Buckets : /\ Apply(m, g)["bucket"][i] = Cell(g, "bucket", i, m["bucket"][i])
                         /\ Apply(m, g)["listCount"][i] = Cell(g, "listCount", i, m["listCount"][i])
  BY <1>1, <1>4
<1>9. \A x \in Units : /\ Apply(m, g)["index"][x] = Cell(g, "index", x, m["index"][x])
                       /\ Apply(m, g)["data"][x] = Cell(g, "data", x, m["data"][x])
                       /\ Apply(m, g)["dirty"][x] = Cell(g, "dirty", x, m["dirty"][x])
                       /\ Apply(m, g)["onlyKey"][x] = Cell(g, "onlyKey", x, m["onlyKey"][x])
  BY <1>1, <1>5
<1> QED  BY <1>6, <1>7, <1>8, <1>9

\* The words a group leaves alone.
LEMMA FieldSame ==
  ASSUME NEW m, IsMemory(m), NEW g \in Seq(Entry),
         NEW f \in UnitLinks \cup {"index", "data", "dirty", "onlyKey"},
         \A x, v : Cell(g, f, x, v) = v
  PROVE  Apply(m, g)[f] = m[f]
<1>1. f \in Fields /\ \A h \in Fields : Apply(m, g)[h] = [x \in DOMAIN m[h] |-> Cell(g, h, x, m[h][x])]
  <2>1. f \in Fields
    BY DEF Fields
  <2>2. \A h \in Fields : Apply(m, g)[h] = [x \in DOMAIN m[h] |-> Cell(g, h, x, m[h][x])]
    BY ApplyAt
  <2> QED  BY <2>1, <2>2
<1>2. m[f] = [x \in DOMAIN m[f] |-> m[f][x]]
  BY DEF IsMemory
<1> QED  BY <1>1, <1>2

\* A block is at an end of a list exactly when its link on that side is 0.
LEMMA Ends ==
  ASSUME Shape(mem), NEW u \in BlocksOf(mem)
  PROVE  /\ mem.head.setHead = u <=> mem.setPrev[u] = 0
         /\ mem.head.setTail = u <=> mem.setNext[u] = 0
         /\ mem.head.getHead = u <=> mem.getPrev[u] = 0
         /\ mem.head.getTail = u <=> mem.getNext[u] = 0
         /\ mem.setPrev[u] \in BlocksOf(mem) \cup {0} /\ mem.getPrev[u] \in BlocksOf(mem) \cup {0}
         /\ mem.setPrev[u] # u /\ mem.getPrev[u] # u
         /\ mem.setNext[u] # u /\ mem.getNext[u] # u
         /\ mem.setNext[u] # mem.head.setHead /\ mem.getNext[u] # mem.head.getHead
         /\ mem.head.setHead \in BlocksOf(mem) /\ mem.head.getHead \in BlocksOf(mem)
<1>1. /\ Listed(SetOf(mem), mem.setNext, mem.setPrev, mem.head.setHead, mem.head.setTail)
      /\ u \in Elements(SetOf(mem)) /\ Elements(SetOf(mem)) = BlocksOf(mem)
  BY DEF Shape, SetFits, BlocksOf
<1>2. /\ Listed(GetOf(mem), mem.getNext, mem.getPrev, mem.head.getHead, mem.head.getTail)
      /\ u \in Elements(GetOf(mem)) /\ Elements(GetOf(mem)) = BlocksOf(mem)
  BY DEF Shape, GetFits
<1>3. /\ mem.head.setHead = u <=> mem.setPrev[u] = 0
      /\ mem.head.setTail = u <=> mem.setNext[u] = 0
      /\ mem.setPrev[u] \in BlocksOf(mem) \cup {0} /\ mem.setPrev[u] # u
      /\ mem.setNext[u] # u /\ mem.setNext[u] # mem.head.setHead
      /\ mem.head.setHead \in BlocksOf(mem)
  BY <1>1, Neighbours
<1>4. /\ mem.head.getHead = u <=> mem.getPrev[u] = 0
      /\ mem.head.getTail = u <=> mem.getNext[u] = 0
      /\ mem.getPrev[u] \in BlocksOf(mem) \cup {0} /\ mem.getPrev[u] # u
      /\ mem.getNext[u] # u /\ mem.getNext[u] # mem.head.getHead
      /\ mem.head.getHead \in BlocksOf(mem)
  BY <1>2, Neighbours
<1> QED  BY <1>3, <1>4

\* What Block::erase records, cell by cell.
LEMMA UnlinkBlockCells ==
  ASSUME Shape(mem), NEW u \in BlocksOf(mem)
  PROVE  /\ UnlinkBlock(u) \in Seq(Entry) /\ Len(UnlinkBlock(u)) <= 13
         /\ \A x, v : Cell(UnlinkBlock(u), "setNext", x, v)
                        = IF mem.setPrev[u] # 0 /\ x = mem.setPrev[u] THEN mem.setNext[u] ELSE v
         /\ \A x, v : Cell(UnlinkBlock(u), "setPrev", x, v)
                        = IF mem.setNext[u] # 0 /\ x = mem.setNext[u] THEN mem.setPrev[u] ELSE v
         /\ \A x, v : Cell(UnlinkBlock(u), "getNext", x, v)
                        = IF mem.getPrev[u] # 0 /\ x = mem.getPrev[u] THEN mem.getNext[u] ELSE v
         /\ \A x, v : Cell(UnlinkBlock(u), "getPrev", x, v)
                        = IF mem.getNext[u] # 0 /\ x = mem.getNext[u] THEN mem.getPrev[u] ELSE v
         /\ \A x, v : Cell(UnlinkBlock(u), "blockNext", x, v)
                        = IF mem.blockPrev[u] # 0 /\ x = mem.blockPrev[u] THEN mem.blockNext[u] ELSE v
         /\ \A x, v : Cell(UnlinkBlock(u), "blockPrev", x, v)
                        = IF mem.blockNext[u] # 0 /\ x = mem.blockNext[u] THEN mem.blockPrev[u] ELSE v
         /\ \A x, v : Cell(UnlinkBlock(u), "bucket", x, v)
                        = IF mem.blockPrev[u] = 0 /\ x = mem.index[u] THEN mem.blockNext[u] ELSE v
         /\ \A x, v : Cell(UnlinkBlock(u), "listCount", x, v)
                        = IF x = mem.index[u] THEN mem.listCount[mem.index[u]] - 1 ELSE v
         /\ \A f \in {"chunk", "index", "data", "dirty", "onlyKey"} : \A x, v :
                Cell(UnlinkBlock(u), f, x, v) = v
         /\ \A v : Cell(UnlinkBlock(u), "head", "setHead", v)
                     = IF mem.setPrev[u] = 0 THEN mem.setNext[u] ELSE v
         /\ \A v : Cell(UnlinkBlock(u), "head", "setTail", v)
                     = IF mem.setNext[u] = 0 THEN mem.setPrev[u] ELSE v
         /\ \A v : Cell(UnlinkBlock(u), "head", "getHead", v)
                     = IF mem.getPrev[u] = 0 THEN mem.getNext[u] ELSE v
         /\ \A v : Cell(UnlinkBlock(u), "head", "getTail", v)
                     = IF mem.getNext[u] = 0 THEN mem.getPrev[u] ELSE v
         /\ \A v : Cell(UnlinkBlock(u), "head", "dirtyTail", v)
                     = IF mem.head.dirtyTail = u THEN mem.setPrev[u] ELSE v
         /\ \A v : Cell(UnlinkBlock(u), "head", "syncTail", v)
                     = IF mem.head.syncTail = u THEN mem.setPrev[u] ELSE v
         /\ \A v : Cell(UnlinkBlock(u), "head", "backupTail", v)
                     = IF mem.head.backupTail = u THEN mem.getPrev[u] ELSE v
         /\ \A v : Cell(UnlinkBlock(u), "head", "elements", v) = mem.head.elements - 1
         /\ \A v : Cell(UnlinkBlock(u), "head", "dirtyCount", v)
                     = IF mem.dirty[u] THEN mem.head.dirtyCount - 1 ELSE v
         /\ \A v : Cell(UnlinkBlock(u), "head", "onlyKeyCount", v)
                     = IF mem.onlyKey[u] THEN mem.head.onlyKeyCount - 1 ELSE v
<1> DEFINE p == mem.blockPrev[u]
           n == mem.blockNext[u]
           i == mem.index[u]
           g1 == StepOff("dirtyTail", "setPrev", u)
           g2 == StepOff("syncTail", "setPrev", u)
           g3 == StepOff("backupTail", "getPrev", u)
           g4 == Unlink(SetList, u)
           g5 == Unlink(GetList, u)
           g6 == When(p # 0, <<<<"blockNext", p, n>>>>)
           g7 == When(n # 0, <<<<"blockPrev", n, p>>>>)
           g8 == <<<<"listCount", i, mem.listCount[i] - 1>>>>
           g9 == When(p = 0, <<<<"bucket", i, n>>>>)
           g10 == When(mem.dirty[u], Count("dirtyCount", -1))
           g11 == When(mem.onlyKey[u], Count("onlyKeyCount", -1))
           g12 == Count("elements", -1)
           G2 == g1 \o g2
           G3 == G2 \o g3
           G4 == G3 \o g4
           G5 == G4 \o g5
           G6 == G5 \o g6
           G7 == G6 \o g7
           G8 == G7 \o g8
           G9 == G8 \o g9
           G10 == G9 \o g10
           G11 == G10 \o g11
           G12 == G11 \o g12
<1>1. UnlinkBlock(u) = G12
  BY DEF UnlinkBlock
<1>2. IsMemory(mem) /\ u \in Units /\ u # 0
  BY BlockUnits DEF Shape
<1>3. p \in Addr /\ n \in Addr /\ i \in Buckets /\ mem.listCount[i] \in Int
  BY <1>2 DEF IsMemory, UnitLinks
<1>4. mem.dirty[u] \in BOOLEAN /\ mem.onlyKey[u] \in BOOLEAN
  BY <1>2 DEF IsMemory
<1>g1. /\ g1 \in Seq(Entry) /\ Len(g1) \in Nat /\ Len(g1) <= 1
       /\ \A f, x, v : Cell(g1, f, x, v)
            = IF mem.head.dirtyTail = u /\ f = "head" /\ x = "dirtyTail" THEN mem.setPrev[u] ELSE v
  <2>1. "dirtyTail" \in HeadLinks /\ "setPrev" \in UnitLinks
    BY DEF HeadLinks, UnitLinks
  <2> QED  BY <1>2, <2>1, StepOffCells
<1>g2. /\ g2 \in Seq(Entry) /\ Len(g2) \in Nat /\ Len(g2) <= 1
       /\ \A f, x, v : Cell(g2, f, x, v)
            = IF mem.head.syncTail = u /\ f = "head" /\ x = "syncTail" THEN mem.setPrev[u] ELSE v
  <2>1. "syncTail" \in HeadLinks /\ "setPrev" \in UnitLinks
    BY DEF HeadLinks, UnitLinks
  <2> QED  BY <1>2, <2>1, StepOffCells
<1>g3. /\ g3 \in Seq(Entry) /\ Len(g3) \in Nat /\ Len(g3) <= 1
       /\ \A f, x, v : Cell(g3, f, x, v)
            = IF mem.head.backupTail = u /\ f = "head" /\ x = "backupTail" THEN mem.getPrev[u] ELSE v
  <2>1. "backupTail" \in HeadLinks /\ "getPrev" \in UnitLinks
    BY DEF HeadLinks, UnitLinks
  <2> QED  BY <1>2, <2>1, StepOffCells
<1>g4. /\ g4 \in Seq(Entry) /\ Len(g4) \in Nat /\ Len(g4) <= 2
       /\ \A f, x, v : Cell(g4, f, x, v)
            = IF f = "head" /\ x = "setHead" THEN IF mem.setPrev[u] = 0 THEN mem.setNext[u] ELSE v
              ELSE IF f = "head" /\ x = "setTail" THEN IF mem.setNext[u] = 0 THEN mem.setPrev[u] ELSE v
              ELSE IF mem.setPrev[u] # 0 /\ f = "setNext" /\ x = mem.setPrev[u] THEN mem.setNext[u]
              ELSE IF mem.setNext[u] # 0 /\ f = "setPrev" /\ x = mem.setNext[u] THEN mem.setPrev[u]
              ELSE v
  <2> DEFINE l == SetList
  <2>1. /\ l \in MapLists /\ l.next = "setNext" /\ l.prev = "setPrev"
        /\ l.head = "setHead" /\ l.tail = "setTail"
    BY DEF MapLists, SetList
  <2> HIDE DEF l
  <2>2. /\ mem.head[l.head] = u <=> mem[l.prev][u] = 0
        /\ mem.head[l.tail] = u <=> mem[l.next][u] = 0
    BY <2>1, Ends
  <2>3. /\ Unlink(l, u) \in Seq(Entry) /\ Len(Unlink(l, u)) <= 2
        /\ \A f, x, v : Cell(Unlink(l, u), f, x, v)
             = IF f = "head" /\ x = l.head THEN IF mem[l.prev][u] = 0 THEN mem[l.next][u] ELSE v
               ELSE IF f = "head" /\ x = l.tail THEN IF mem[l.next][u] = 0 THEN mem[l.prev][u] ELSE v
               ELSE IF mem[l.prev][u] # 0 /\ f = l.next /\ x = mem[l.prev][u] THEN mem[l.next][u]
               ELSE IF mem[l.next][u] # 0 /\ f = l.prev /\ x = mem[l.next][u] THEN mem[l.prev][u]
               ELSE v
    BY <1>2, <2>1, <2>2, UnlinkCells
  <2>4. g4 = Unlink(l, u)
    BY DEF l
  <2> QED  BY <2>1, <2>3, <2>4
<1>g5. /\ g5 \in Seq(Entry) /\ Len(g5) \in Nat /\ Len(g5) <= 2
       /\ \A f, x, v : Cell(g5, f, x, v)
            = IF f = "head" /\ x = "getHead" THEN IF mem.getPrev[u] = 0 THEN mem.getNext[u] ELSE v
              ELSE IF f = "head" /\ x = "getTail" THEN IF mem.getNext[u] = 0 THEN mem.getPrev[u] ELSE v
              ELSE IF mem.getPrev[u] # 0 /\ f = "getNext" /\ x = mem.getPrev[u] THEN mem.getNext[u]
              ELSE IF mem.getNext[u] # 0 /\ f = "getPrev" /\ x = mem.getNext[u] THEN mem.getPrev[u]
              ELSE v
  <2> DEFINE l == GetList
  <2>1. /\ l \in MapLists /\ l.next = "getNext" /\ l.prev = "getPrev"
        /\ l.head = "getHead" /\ l.tail = "getTail"
    BY DEF MapLists, GetList
  <2> HIDE DEF l
  <2>2. /\ mem.head[l.head] = u <=> mem[l.prev][u] = 0
        /\ mem.head[l.tail] = u <=> mem[l.next][u] = 0
    BY <2>1, Ends
  <2>3. /\ Unlink(l, u) \in Seq(Entry) /\ Len(Unlink(l, u)) <= 2
        /\ \A f, x, v : Cell(Unlink(l, u), f, x, v)
             = IF f = "head" /\ x = l.head THEN IF mem[l.prev][u] = 0 THEN mem[l.next][u] ELSE v
               ELSE IF f = "head" /\ x = l.tail THEN IF mem[l.next][u] = 0 THEN mem[l.prev][u] ELSE v
               ELSE IF mem[l.prev][u] # 0 /\ f = l.next /\ x = mem[l.prev][u] THEN mem[l.next][u]
               ELSE IF mem[l.next][u] # 0 /\ f = l.prev /\ x = mem[l.next][u] THEN mem[l.prev][u]
               ELSE v
    BY <1>2, <2>1, <2>2, UnlinkCells
  <2>4. g5 = Unlink(l, u)
    BY DEF l
  <2> QED  BY <2>1, <2>3, <2>4
<1>g6. /\ g6 \in Seq(Entry) /\ Len(g6) = IF p # 0 THEN 1 ELSE 0
       /\ \A f, x, v : Cell(g6, f, x, v) = IF p # 0 /\ f = "blockNext" /\ x = p THEN n ELSE v
  <2> DEFINE e == <<"blockNext", p, n>>
             c == p # 0
  <2>1. c \in BOOLEAN /\ (c => e \in Entry) /\ e[1] = "blockNext" /\ e[2] = p /\ e[3] = n
    BY <1>3, EntryMade DEF UnitLinks, Addr
  <2>2. g6 = When(c, <<e>>)
    OBVIOUS
  <2> HIDE DEF c, e
  <2>3. /\ When(c, <<e>>) \in Seq(Entry) /\ Len(When(c, <<e>>)) = IF c THEN 1 ELSE 0
        /\ \A f, x, v : Cell(When(c, <<e>>), f, x, v)
                          = IF c /\ f = e[1] /\ x = e[2] THEN e[3] ELSE v
    BY <2>1, WhenEntry
  <2> QED  BY <2>1, <2>2, <2>3 DEF c
<1>g7. /\ g7 \in Seq(Entry) /\ Len(g7) = IF n # 0 THEN 1 ELSE 0
       /\ \A f, x, v : Cell(g7, f, x, v) = IF n # 0 /\ f = "blockPrev" /\ x = n THEN p ELSE v
  <2> DEFINE e == <<"blockPrev", n, p>>
             c == n # 0
  <2>1. c \in BOOLEAN /\ (c => e \in Entry) /\ e[1] = "blockPrev" /\ e[2] = n /\ e[3] = p
    BY <1>3, EntryMade DEF UnitLinks, Addr
  <2>2. g7 = When(c, <<e>>)
    OBVIOUS
  <2> HIDE DEF c, e
  <2>3. /\ When(c, <<e>>) \in Seq(Entry) /\ Len(When(c, <<e>>)) = IF c THEN 1 ELSE 0
        /\ \A f, x, v : Cell(When(c, <<e>>), f, x, v)
                          = IF c /\ f = e[1] /\ x = e[2] THEN e[3] ELSE v
    BY <2>1, WhenEntry
  <2> QED  BY <2>1, <2>2, <2>3 DEF c
<1>g8. /\ g8 \in Seq(Entry) /\ Len(g8) = 1
       /\ \A f, x, v : Cell(g8, f, x, v)
            = IF f = "listCount" /\ x = i THEN mem.listCount[i] - 1 ELSE v
  <2> DEFINE e == <<"listCount", i, mem.listCount[i] - 1>>
  <2>1. e \in Entry /\ e[1] = "listCount" /\ e[2] = i /\ e[3] = mem.listCount[i] - 1
    BY <1>3, EntryMade
  <2>2. g8 = <<e>>
    OBVIOUS
  <2> HIDE DEF e
  <2> QED  BY <2>1, <2>2, OneEntry DEF CellOf
<1>g9. /\ g9 \in Seq(Entry) /\ Len(g9) = IF p = 0 THEN 1 ELSE 0
       /\ \A f, x, v : Cell(g9, f, x, v) = IF p = 0 /\ f = "bucket" /\ x = i THEN n ELSE v
  <2> DEFINE e == <<"bucket", i, n>>
             c == p = 0
  <2>1. c \in BOOLEAN /\ (c => e \in Entry) /\ e[1] = "bucket" /\ e[2] = i /\ e[3] = n
    BY <1>3, EntryMade DEF Addr
  <2>2. g9 = When(c, <<e>>)
    OBVIOUS
  <2> HIDE DEF c, e
  <2>3. /\ When(c, <<e>>) \in Seq(Entry) /\ Len(When(c, <<e>>)) = IF c THEN 1 ELSE 0
        /\ \A f, x, v : Cell(When(c, <<e>>), f, x, v)
                          = IF c /\ f = e[1] /\ x = e[2] THEN e[3] ELSE v
    BY <2>1, WhenEntry
  <2> QED  BY <2>1, <2>2, <2>3 DEF c
<1>g10. /\ g10 \in Seq(Entry) /\ Len(g10) \in Nat /\ Len(g10) <= 1
        /\ \A f, x, v : Cell(g10, f, x, v)
             = IF mem.dirty[u] /\ f = "head" /\ x = "dirtyCount" THEN mem.head.dirtyCount - 1 ELSE v
  <2> DEFINE k == Count("dirtyCount", -1)
  <2>1. /\ k \in Seq(Entry) /\ Len(k) = 1
        /\ \A f, x, v : Cell(k, f, x, v)
             = IF f = "head" /\ x = "dirtyCount" THEN mem.head.dirtyCount + (-1) ELSE v
    BY <1>2, CountCells
  <2>2. mem.head.dirtyCount + (-1) = mem.head.dirtyCount - 1
    BY <1>2 DEF IsMemory, HeadCounts
  <2> HIDE DEF k
  <2> DEFINE c == mem.dirty[u]
  <2>3. g10 = When(c, k) /\ c \in BOOLEAN
    BY <1>4 DEF k
  <2> HIDE DEF c
  <2>4. /\ When(c, k) \in Seq(Entry) /\ Len(When(c, k)) = IF c THEN Len(k) ELSE 0
        /\ \A f, x, v : Cell(When(c, k), f, x, v) = IF c THEN Cell(k, f, x, v) ELSE v
    BY <2>1, <2>3, WhenFits
  <2> QED  BY <2>1, <2>2, <2>3, <2>4 DEF c
<1>g11. /\ g11 \in Seq(Entry) /\ Len(g11) \in Nat /\ Len(g11) <= 1
        /\ \A f, x, v : Cell(g11, f, x, v)
             = IF mem.onlyKey[u] /\ f = "head" /\ x = "onlyKeyCount"
               THEN mem.head.onlyKeyCount - 1 ELSE v
  <2> DEFINE k == Count("onlyKeyCount", -1)
  <2>1. /\ k \in Seq(Entry) /\ Len(k) = 1
        /\ \A f, x, v : Cell(k, f, x, v)
             = IF f = "head" /\ x = "onlyKeyCount" THEN mem.head.onlyKeyCount + (-1) ELSE v
    BY <1>2, CountCells
  <2>2. mem.head.onlyKeyCount + (-1) = mem.head.onlyKeyCount - 1
    BY <1>2 DEF IsMemory, HeadCounts
  <2> HIDE DEF k
  <2> DEFINE c == mem.onlyKey[u]
  <2>3. g11 = When(c, k) /\ c \in BOOLEAN
    BY <1>4 DEF k
  <2> HIDE DEF c
  <2>4. /\ When(c, k) \in Seq(Entry) /\ Len(When(c, k)) = IF c THEN Len(k) ELSE 0
        /\ \A f, x, v : Cell(When(c, k), f, x, v) = IF c THEN Cell(k, f, x, v) ELSE v
    BY <2>1, <2>3, WhenFits
  <2> QED  BY <2>1, <2>2, <2>3, <2>4 DEF c
<1>g12. /\ g12 \in Seq(Entry) /\ Len(g12) = 1
        /\ \A f, x, v : Cell(g12, f, x, v)
             = IF f = "head" /\ x = "elements" THEN mem.head.elements - 1 ELSE v
  <2>1. /\ g12 \in Seq(Entry) /\ Len(g12) = 1
        /\ \A f, x, v : Cell(g12, f, x, v)
             = IF f = "head" /\ x = "elements" THEN mem.head.elements + (-1) ELSE v
    BY <1>2, CountCells
  <2>2. mem.head.elements + (-1) = mem.head.elements - 1
    BY <1>2 DEF IsMemory, HeadCounts
  <2> QED  BY <2>1, <2>2
<1> HIDE DEF g1, g2, g3, g4, g5, g6, g7, g8, g9, g10, g11, g12
<1>j2. /\ G2 \in Seq(Entry) /\ Len(G2) = Len(g1) + Len(g2)
       /\ \A f, x, v : Cell(G2, f, x, v) = Cell(g2, f, x, Cell(g1, f, x, v))
  BY <1>g1, <1>g2, Joined
<1> HIDE DEF G2
<1>j3. /\ G3 \in Seq(Entry) /\ Len(G3) = Len(G2) + Len(g3)
       /\ \A f, x, v : Cell(G3, f, x, v) = Cell(g3, f, x, Cell(G2, f, x, v))
  BY <1>g3, <1>j2, Joined
<1> HIDE DEF G3
<1>j4. /\ G4 \in Seq(Entry) /\ Len(G4) = Len(G3) + Len(g4)
       /\ \A f, x, v : Cell(G4, f, x, v) = Cell(g4, f, x, Cell(G3, f, x, v))
  BY <1>g4, <1>j3, Joined
<1> HIDE DEF G4
<1>j5. /\ G5 \in Seq(Entry) /\ Len(G5) = Len(G4) + Len(g5)
       /\ \A f, x, v : Cell(G5, f, x, v) = Cell(g5, f, x, Cell(G4, f, x, v))
  BY <1>g5, <1>j4, Joined
<1> HIDE DEF G5
<1>j6. /\ G6 \in Seq(Entry) /\ Len(G6) = Len(G5) + Len(g6)
       /\ \A f, x, v : Cell(G6, f, x, v) = Cell(g6, f, x, Cell(G5, f, x, v))
  BY <1>g6, <1>j5, Joined
<1> HIDE DEF G6
<1>j7. /\ G7 \in Seq(Entry) /\ Len(G7) = Len(G6) + Len(g7)
       /\ \A f, x, v : Cell(G7, f, x, v) = Cell(g7, f, x, Cell(G6, f, x, v))
  BY <1>g7, <1>j6, Joined
<1> HIDE DEF G7
<1>j8. /\ G8 \in Seq(Entry) /\ Len(G8) = Len(G7) + Len(g8)
       /\ \A f, x, v : Cell(G8, f, x, v) = Cell(g8, f, x, Cell(G7, f, x, v))
  BY <1>g8, <1>j7, Joined
<1> HIDE DEF G8
<1>j9. /\ G9 \in Seq(Entry) /\ Len(G9) = Len(G8) + Len(g9)
       /\ \A f, x, v : Cell(G9, f, x, v) = Cell(g9, f, x, Cell(G8, f, x, v))
  BY <1>g9, <1>j8, Joined
<1> HIDE DEF G9
<1>j10. /\ G10 \in Seq(Entry) /\ Len(G10) = Len(G9) + Len(g10)
       /\ \A f, x, v : Cell(G10, f, x, v) = Cell(g10, f, x, Cell(G9, f, x, v))
  BY <1>g10, <1>j9, Joined
<1> HIDE DEF G10
<1>j11. /\ G11 \in Seq(Entry) /\ Len(G11) = Len(G10) + Len(g11)
       /\ \A f, x, v : Cell(G11, f, x, v) = Cell(g11, f, x, Cell(G10, f, x, v))
  BY <1>g11, <1>j10, Joined
<1> HIDE DEF G11
<1>j12. /\ G12 \in Seq(Entry) /\ Len(G12) = Len(G11) + Len(g12)
       /\ \A f, x, v : Cell(G12, f, x, v) = Cell(g12, f, x, Cell(G11, f, x, v))
  BY <1>g12, <1>j11, Joined
<1> HIDE DEF G12
<1>5. Len(G12) <= 13
  <2>1. Len(G5) \in Nat /\ Len(G5) <= 7
    BY <1>g1, <1>g2, <1>g3, <1>g4, <1>g5, <1>j2, <1>j3, <1>j4, <1>j5
  <2>2. Len(g6) + Len(g9) = 1 /\ Len(g6) \in Nat /\ Len(g9) \in Nat
    BY <1>g6, <1>g9
  <2>3. Len(g7) \in Nat /\ Len(g7) <= 1
    BY <1>g7
  <2>4. Len(G9) \in Nat /\ Len(G9) <= 10
    BY <2>1, <2>2, <2>3, <1>g8, <1>j6, <1>j7, <1>j8, <1>j9
  <2> QED  BY <2>4, <1>g10, <1>g11, <1>g12, <1>j10, <1>j11, <1>j12
\* The cursors, the Set list and the Get list come first.
<1>6. \A f, x, v : Cell(G5, f, x, v) = Cell(g5, f, x, Cell(g4, f, x, Cell(g3, f, x,
                                         Cell(g2, f, x, Cell(g1, f, x, v)))))
  BY <1>j2, <1>j3, <1>j4, <1>j5
<1>7. ASSUME NEW f, NEW x, NEW v, f # "head"
      PROVE  Cell(G5, f, x, v) = Cell(g5, f, x, Cell(g4, f, x, v))
  BY <1>6, <1>7, <1>g1, <1>g2, <1>g3
<1>8. \A f, x, v : Cell(G12, f, x, v)
                     = Cell(g12, f, x, Cell(g11, f, x, Cell(g10, f, x, Cell(g9, f, x,
                         Cell(g8, f, x, Cell(g7, f, x, Cell(g6, f, x, Cell(G5, f, x, v))))))))
  BY <1>j6, <1>j7, <1>j8, <1>j9, <1>j10, <1>j11, <1>j12
<1>9. ASSUME NEW f, NEW x, NEW v, f # "head"
      PROVE  Cell(G12, f, x, v)
                     = Cell(g9, f, x, Cell(g8, f, x, Cell(g7, f, x, Cell(g6, f, x, Cell(G5, f, x, v)))))
  BY <1>8, <1>9, <1>g10, <1>g11, <1>g12
<1>10. ASSUME NEW f, NEW x, NEW v, f \notin {"head", "blockNext", "blockPrev", "listCount", "bucket"}
       PROVE  Cell(G12, f, x, v) = Cell(g5, f, x, Cell(g4, f, x, v))
  BY <1>7, <1>9, <1>10, <1>g6, <1>g7, <1>g8, <1>g9
<1>11. ASSUME NEW f \in {"blockNext", "blockPrev", "listCount", "bucket"}, NEW x, NEW v
       PROVE  Cell(G12, f, x, v)
                = Cell(g9, f, x, Cell(g8, f, x, Cell(g7, f, x, Cell(g6, f, x, v))))
  <2>1. Cell(G5, f, x, v) = v
    BY <1>7, <1>g4, <1>g5
  <2> QED  BY <1>9, <2>1
<1>12. ASSUME NEW x, NEW v
       PROVE  Cell(G12, "head", x, v)
                = Cell(g12, "head", x, Cell(g11, "head", x, Cell(g10, "head", x, Cell(G5, "head", x, v))))
  BY <1>8, <1>g6, <1>g7, <1>g8, <1>g9
<1>13. /\ \A x, v : Cell(G12, "setNext", x, v)
                 = IF mem.setPrev[u] # 0 /\ x = mem.setPrev[u] THEN mem.setNext[u] ELSE v
       /\ \A x, v : Cell(G12, "setPrev", x, v)
                 = IF mem.setNext[u] # 0 /\ x = mem.setNext[u] THEN mem.setPrev[u] ELSE v
  BY <1>10, <1>g4, <1>g5
<1>14. /\ \A x, v : Cell(G12, "getNext", x, v)
                 = IF mem.getPrev[u] # 0 /\ x = mem.getPrev[u] THEN mem.getNext[u] ELSE v
       /\ \A x, v : Cell(G12, "getPrev", x, v)
                 = IF mem.getNext[u] # 0 /\ x = mem.getNext[u] THEN mem.getPrev[u] ELSE v
  BY <1>10, <1>g4, <1>g5
<1>15. /\ \A x, v : Cell(G12, "blockNext", x, v) = IF p # 0 /\ x = p THEN n ELSE v
       /\ \A x, v : Cell(G12, "blockPrev", x, v) = IF n # 0 /\ x = n THEN p ELSE v
  BY <1>11, <1>g6, <1>g7, <1>g8, <1>g9
<1>16. /\ \A x, v : Cell(G12, "bucket", x, v) = IF p = 0 /\ x = i THEN n ELSE v
       /\ \A x, v : Cell(G12, "listCount", x, v) = IF x = i THEN mem.listCount[i] - 1 ELSE v
  BY <1>11, <1>g6, <1>g7, <1>g8, <1>g9
<1>17. \A f \in {"chunk", "index", "data", "dirty", "onlyKey"} : \A x, v : Cell(G12, f, x, v) = v
  BY <1>10, <1>g4, <1>g5
<1>18. \A x \in {"setHead", "setTail", "getHead", "getTail", "dirtyTail", "syncTail", "backupTail"} : \A v :
         Cell(G12, "head", x, v) = Cell(G5, "head", x, v)
  BY <1>12, <1>g10, <1>g11, <1>g12
<1>19. /\ \A v : Cell(G12, "head", "setHead", v) = IF mem.setPrev[u] = 0 THEN mem.setNext[u] ELSE v
       /\ \A v : Cell(G12, "head", "setTail", v) = IF mem.setNext[u] = 0 THEN mem.setPrev[u] ELSE v
  BY <1>6, <1>18, <1>g1, <1>g2, <1>g3, <1>g4, <1>g5
<1>20. /\ \A v : Cell(G12, "head", "getHead", v) = IF mem.getPrev[u] = 0 THEN mem.getNext[u] ELSE v
       /\ \A v : Cell(G12, "head", "getTail", v) = IF mem.getNext[u] = 0 THEN mem.getPrev[u] ELSE v
  BY <1>6, <1>18, <1>g1, <1>g2, <1>g3, <1>g4, <1>g5
<1>21. /\ \A v : Cell(G12, "head", "dirtyTail", v) = IF mem.head.dirtyTail = u THEN mem.setPrev[u] ELSE v
       /\ \A v : Cell(G12, "head", "syncTail", v) = IF mem.head.syncTail = u THEN mem.setPrev[u] ELSE v
       /\ \A v : Cell(G12, "head", "backupTail", v) = IF mem.head.backupTail = u THEN mem.getPrev[u] ELSE v
  BY <1>6, <1>18, <1>g1, <1>g2, <1>g3, <1>g4, <1>g5
<1>22. \A x \in {"elements", "dirtyCount", "onlyKeyCount"} : \A v : Cell(G5, "head", x, v) = v
  BY <1>6, <1>g1, <1>g2, <1>g3, <1>g4, <1>g5
<1>23. /\ \A v : Cell(G12, "head", "elements", v) = mem.head.elements - 1
       /\ \A v : Cell(G12, "head", "dirtyCount", v)
                   = IF mem.dirty[u] THEN mem.head.dirtyCount - 1 ELSE v
       /\ \A v : Cell(G12, "head", "onlyKeyCount", v)
                   = IF mem.onlyKey[u] THEN mem.head.onlyKeyCount - 1 ELSE v
  BY <1>12, <1>22, <1>g10, <1>g11, <1>g12
<1> QED  BY <1>1, <1>j12, <1>5, <1>13, <1>14, <1>15, <1>16, <1>17, <1>19, <1>20, <1>21, <1>23

\* What Block::erase records takes the block out of all lists, in at most 13 entries.
LEMMA EraseEffect ==
  ASSUME Shape(mem), NEW u \in BlocksOf(mem)
  PROVE  /\ UnlinkBlock(u) \in Seq(Entry) /\ Len(UnlinkBlock(u)) <= 13
         /\ Erases(mem, Apply(mem, UnlinkBlock(u)), u)
         /\ IsMemory(Apply(mem, UnlinkBlock(u)))
<1> DEFINE g == UnlinkBlock(u)
           m2 == Apply(mem, g)
<1>1. g \in Seq(Entry) /\ Len(g) <= 13
  BY UnlinkBlockCells
<1>2. IsMemory(mem) /\ u \in Units /\ BlocksOf(mem) \subseteq Units /\ 0 \notin Units
  BY BlockUnits, HashMapAssumption DEF Shape
<1>3. IsMemory(m2)
  BY <1>1, <1>2, ApplyTyped
<1>c. /\ \A x, v : Cell(g, "setNext", x, v)
              = IF mem.setPrev[u] # 0 /\ x = mem.setPrev[u] THEN mem.setNext[u] ELSE v
      /\ \A x, v : Cell(g, "setPrev", x, v)
              = IF mem.setNext[u] # 0 /\ x = mem.setNext[u] THEN mem.setPrev[u] ELSE v
      /\ \A x, v : Cell(g, "getNext", x, v)
              = IF mem.getPrev[u] # 0 /\ x = mem.getPrev[u] THEN mem.getNext[u] ELSE v
      /\ \A x, v : Cell(g, "getPrev", x, v)
              = IF mem.getNext[u] # 0 /\ x = mem.getNext[u] THEN mem.getPrev[u] ELSE v
  BY UnlinkBlockCells
<1>d. /\ \A x, v : Cell(g, "blockNext", x, v)
              = IF mem.blockPrev[u] # 0 /\ x = mem.blockPrev[u] THEN mem.blockNext[u] ELSE v
      /\ \A x, v : Cell(g, "blockPrev", x, v)
              = IF mem.blockNext[u] # 0 /\ x = mem.blockNext[u] THEN mem.blockPrev[u] ELSE v
      /\ \A x, v : Cell(g, "bucket", x, v)
              = IF mem.blockPrev[u] = 0 /\ x = mem.index[u] THEN mem.blockNext[u] ELSE v
      /\ \A x, v : Cell(g, "listCount", x, v)
              = IF x = mem.index[u] THEN mem.listCount[mem.index[u]] - 1 ELSE v
      /\ \A f \in {"chunk", "index", "data", "dirty", "onlyKey"} : \A x, v : Cell(g, f, x, v) = v
  BY UnlinkBlockCells
<1>e. /\ \A v : Cell(g, "head", "setHead", v) = IF mem.setPrev[u] = 0 THEN mem.setNext[u] ELSE v
      /\ \A v : Cell(g, "head", "setTail", v) = IF mem.setNext[u] = 0 THEN mem.setPrev[u] ELSE v
      /\ \A v : Cell(g, "head", "getHead", v) = IF mem.getPrev[u] = 0 THEN mem.getNext[u] ELSE v
      /\ \A v : Cell(g, "head", "getTail", v) = IF mem.getNext[u] = 0 THEN mem.getPrev[u] ELSE v
      /\ \A v : Cell(g, "head", "dirtyTail", v)
                  = IF mem.head.dirtyTail = u THEN mem.setPrev[u] ELSE v
      /\ \A v : Cell(g, "head", "syncTail", v)
                  = IF mem.head.syncTail = u THEN mem.setPrev[u] ELSE v
      /\ \A v : Cell(g, "head", "backupTail", v)
                  = IF mem.head.backupTail = u THEN mem.getPrev[u] ELSE v
  BY UnlinkBlockCells
<1>f. /\ \A v : Cell(g, "head", "elements", v) = mem.head.elements - 1
      /\ \A v : Cell(g, "head", "dirtyCount", v)
                  = IF mem.dirty[u] THEN mem.head.dirtyCount - 1 ELSE v
      /\ \A v : Cell(g, "head", "onlyKeyCount", v)
                  = IF mem.onlyKey[u] THEN mem.head.onlyKeyCount - 1 ELSE v
  BY UnlinkBlockCells
<1> HIDE DEF g
<1>4. /\ \A f \in UnitLinks, x \in Units : m2[f][x] = Cell(g, f, x, mem[f][x])
      /\ \A h \in Heads : m2.head[h] = Cell(g, "head", h, mem.head[h])
      /\ \A i \in Buckets : /\ m2.bucket[i] = Cell(g, "bucket", i, mem.bucket[i])
                            /\ m2.listCount[i] = Cell(g, "listCount", i, mem.listCount[i])
  BY <1>2, AppliedAt
<1>5. /\ m2["chunk"] = mem["chunk"] /\ m2["index"] = mem["index"] /\ m2["data"] = mem["data"]
      /\ m2["dirty"] = mem["dirty"] /\ m2["onlyKey"] = mem["onlyKey"]
  <2>1. ASSUME NEW f \in {"chunk", "index", "data", "dirty", "onlyKey"} PROVE m2[f] = mem[f]
    <3>1. f \in UnitLinks \cup {"index", "data", "dirty", "onlyKey"}
      BY DEF UnitLinks
    <3>2. \A x, v : Cell(g, f, x, v) = v
      BY <1>d
    <3> QED  BY <1>1, <1>2, <3>1, <3>2, FieldSame
  <2> QED  BY <2>1
<1> HIDE DEF m2
<1>6. \A f \in {"setNext", "setPrev", "getNext", "getPrev", "blockNext", "blockPrev"} : f \in UnitLinks
  BY DEF UnitLinks
<1>7. /\ \A x \in Units : m2.setNext[x] = IF x = mem.setPrev[u] THEN mem.setNext[u] ELSE mem.setNext[x]
      /\ \A x \in Units : m2.setPrev[x] = IF x = mem.setNext[u] THEN mem.setPrev[u] ELSE mem.setPrev[x]
      /\ \A x \in Units : m2.getNext[x] = IF x = mem.getPrev[u] THEN mem.getNext[u] ELSE mem.getNext[x]
      /\ \A x \in Units : m2.getPrev[x] = IF x = mem.getNext[u] THEN mem.getPrev[u] ELSE mem.getPrev[x]
  BY <1>2, <1>4, <1>6, <1>c
<1>8. \A x \in Units :
        /\ m2.blockNext[x] = IF x = mem.blockPrev[u] THEN mem.blockNext[u] ELSE mem.blockNext[x]
        /\ m2.blockPrev[x] = IF x = mem.blockNext[u] THEN mem.blockPrev[u] ELSE mem.blockPrev[x]
  BY <1>2, <1>4, <1>6, <1>d
<1>9. \A i \in Buckets :
         /\ m2.bucket[i] = IF i = mem.index[u] /\ mem.blockPrev[u] = 0 THEN mem.blockNext[u]
                           ELSE mem.bucket[i]
         /\ m2.listCount[i] = IF i = mem.index[u] THEN mem.listCount[i] - 1 ELSE mem.listCount[i]
  BY <1>4, <1>d
<1>10. \A h \in {"setHead", "setTail", "getHead", "getTail", "dirtyTail", "syncTail", "backupTail",
                 "elements", "dirtyCount", "onlyKeyCount"} : h \in Heads
  BY DEF Heads, HeadLinks, HeadCounts
<1>11. /\ m2.head.setHead = IF mem.head.setHead = u THEN mem.setNext[u] ELSE mem.head.setHead
       /\ m2.head.setTail = IF mem.head.setTail = u THEN mem.setPrev[u] ELSE mem.head.setTail
       /\ m2.head.getHead = IF mem.head.getHead = u THEN mem.getNext[u] ELSE mem.head.getHead
       /\ m2.head.getTail = IF mem.head.getTail = u THEN mem.getPrev[u] ELSE mem.head.getTail
  BY <1>4, <1>10, <1>e, Ends
<1>12. /\ m2.head.dirtyTail = IF mem.head.dirtyTail = u THEN mem.setPrev[u] ELSE mem.head.dirtyTail
       /\ m2.head.syncTail = IF mem.head.syncTail = u THEN mem.setPrev[u] ELSE mem.head.syncTail
       /\ m2.head.backupTail = IF mem.head.backupTail = u THEN mem.getPrev[u] ELSE mem.head.backupTail
  BY <1>4, <1>10, <1>e
<1>13. /\ m2.head.elements = mem.head.elements - 1
       /\ m2.head.dirtyCount = mem.head.dirtyCount - IF mem.dirty[u] THEN 1 ELSE 0
       /\ m2.head.onlyKeyCount = mem.head.onlyKeyCount - IF mem.onlyKey[u] THEN 1 ELSE 0
  <2>1. /\ m2.head.elements = mem.head.elements - 1
        /\ m2.head.dirtyCount = IF mem.dirty[u] THEN mem.head.dirtyCount - 1 ELSE mem.head.dirtyCount
        /\ m2.head.onlyKeyCount
             = IF mem.onlyKey[u] THEN mem.head.onlyKeyCount - 1 ELSE mem.head.onlyKeyCount
    BY <1>4, <1>10, <1>f
  <2>2. mem.head.dirtyCount \in Int /\ mem.head.onlyKeyCount \in Int
    BY <1>2 DEF IsMemory, HeadCounts
  <2> QED  BY <2>1, <2>2
<1>14. /\ Takes(SetOf(mem), u, mem.setNext, mem.setPrev, m2.setNext, m2.setPrev)
       /\ Takes(GetOf(mem), u, mem.getNext, mem.getPrev, m2.getNext, m2.getPrev)
  <2>1. Elements(SetOf(mem)) \subseteq Units /\ Elements(GetOf(mem)) \subseteq Units
    BY <1>2 DEF BlocksOf, Shape, GetFits
  <2> QED  BY <1>7, <2>1 DEF Takes
<1>15. Erases(mem, m2, u)
  BY <1>2, <1>5, <1>8, <1>9, <1>11, <1>12, <1>13, <1>14 DEF Erases
<1> QED  BY <1>1, <1>3, <1>15 DEF m2, g

\* What Block::makeNew records, cell by cell.
LEMMA LinkNewCells ==
  ASSUME IsMemory(mem), NEW u \in Units, NEW i \in Buckets, u # mem.bucket[i]
  PROVE  /\ LinkNew(u, i) \in Seq(Entry) /\ Len(LinkNew(u, i)) <= 13
         /\ \A x, v : Cell(LinkNew(u, i), "setNext", x, v)
                        = IF mem.head.setHead # 0 /\ x = u THEN mem.head.setHead ELSE v
         /\ \A x, v : Cell(LinkNew(u, i), "setPrev", x, v)
                        = IF mem.head.setHead # 0 /\ x = mem.head.setHead THEN u ELSE v
         /\ \A x, v : Cell(LinkNew(u, i), "getNext", x, v)
                        = IF mem.head.getHead # 0 /\ x = u THEN mem.head.getHead ELSE v
         /\ \A x, v : Cell(LinkNew(u, i), "getPrev", x, v)
                        = IF mem.head.getHead # 0 /\ x = mem.head.getHead THEN u ELSE v
         /\ \A x, v : Cell(LinkNew(u, i), "blockNext", x, v) = IF x = u THEN mem.bucket[i] ELSE v
         /\ \A x, v : Cell(LinkNew(u, i), "blockPrev", x, v)
                        = IF x = u THEN 0
                          ELSE IF mem.bucket[i] # 0 /\ x = mem.bucket[i] THEN u ELSE v
         /\ \A x, v : Cell(LinkNew(u, i), "bucket", x, v) = IF x = i THEN u ELSE v
         /\ \A x, v : Cell(LinkNew(u, i), "listCount", x, v)
                        = IF x = i THEN mem.listCount[i] + 1 ELSE v
         /\ \A f \in {"chunk", "index", "data", "dirty", "onlyKey"} : \A x, v :
                Cell(LinkNew(u, i), f, x, v) = v
         /\ \A v : Cell(LinkNew(u, i), "head", "setHead", v) = u
         /\ \A v : Cell(LinkNew(u, i), "head", "setTail", v) = IF mem.head.setHead = 0 THEN u ELSE v
         /\ \A v : Cell(LinkNew(u, i), "head", "getHead", v) = u
         /\ \A v : Cell(LinkNew(u, i), "head", "getTail", v) = IF mem.head.getHead = 0 THEN u ELSE v
         /\ \A x \in {"dirtyTail", "syncTail", "backupTail", "onlyKeyCount"} : \A v :
                Cell(LinkNew(u, i), "head", x, v) = v
         /\ \A v : Cell(LinkNew(u, i), "head", "elements", v) = mem.head.elements + 1
         /\ \A v : Cell(LinkNew(u, i), "head", "dirtyCount", v) = mem.head.dirtyCount + 1
<1> DEFINE first == mem.bucket[i]
           g1 == Count("dirtyCount", 1)
           g2 == Count("elements", 1)
           g3 == <<<<"listCount", i, mem.listCount[i] + 1>>>>
           g4 == When(first # 0, <<<<"blockPrev", first, u>>>>)
           g5 == <<<<"blockNext", u, first>>, <<"bucket", i, u>>, <<"blockPrev", u, 0>>>>
           g6 == PushFront(SetList, u)
           g7 == PushFront(GetList, u)
           G2 == g1 \o g2
           G3 == G2 \o g3
           G4 == G3 \o g4
           G5 == G4 \o g5
           G6 == G5 \o g6
           G7 == G6 \o g7
<1>1. LinkNew(u, i) = G7
  BY DEF LinkNew
<1>2. first \in Addr /\ mem.listCount[i] \in Int /\ u \in Addr /\ 0 \in Addr /\ first # u
  BY DEF IsMemory, Addr
<1>g1. /\ g1 \in Seq(Entry) /\ Len(g1) = 1
       /\ \A f, x, v : Cell(g1, f, x, v)
            = IF f = "head" /\ x = "dirtyCount" THEN mem.head.dirtyCount + 1 ELSE v
  BY CountCells
<1>g2. /\ g2 \in Seq(Entry) /\ Len(g2) = 1
       /\ \A f, x, v : Cell(g2, f, x, v)
            = IF f = "head" /\ x = "elements" THEN mem.head.elements + 1 ELSE v
  BY CountCells
<1>g3. /\ g3 \in Seq(Entry) /\ Len(g3) = 1
       /\ \A f, x, v : Cell(g3, f, x, v)
            = IF f = "listCount" /\ x = i THEN mem.listCount[i] + 1 ELSE v
  <2> DEFINE e == <<"listCount", i, mem.listCount[i] + 1>>
  <2>1. e \in Entry /\ e[1] = "listCount" /\ e[2] = i /\ e[3] = mem.listCount[i] + 1
    BY <1>2, EntryMade
  <2>2. g3 = <<e>>
    OBVIOUS
  <2> HIDE DEF e
  <2> QED  BY <2>1, <2>2, OneEntry DEF CellOf
<1>g4. /\ g4 \in Seq(Entry) /\ Len(g4) = IF first # 0 THEN 1 ELSE 0
       /\ \A f, x, v : Cell(g4, f, x, v) = IF first # 0 /\ f = "blockPrev" /\ x = first THEN u ELSE v
  <2> DEFINE e == <<"blockPrev", first, u>>
             c == first # 0
  <2>1. c \in BOOLEAN /\ (c => e \in Entry) /\ e[1] = "blockPrev" /\ e[2] = first /\ e[3] = u
    BY <1>2, EntryMade DEF UnitLinks, Addr
  <2>2. g4 = When(c, <<e>>)
    OBVIOUS
  <2> HIDE DEF c, e
  <2>3. /\ When(c, <<e>>) \in Seq(Entry) /\ Len(When(c, <<e>>)) = IF c THEN 1 ELSE 0
        /\ \A f, x, v : Cell(When(c, <<e>>), f, x, v)
                          = IF c /\ f = e[1] /\ x = e[2] THEN e[3] ELSE v
    BY <2>1, WhenEntry
  <2> QED  BY <2>1, <2>2, <2>3 DEF c
<1>g5. /\ g5 \in Seq(Entry) /\ Len(g5) = 3
       /\ \A f, x, v : Cell(g5, f, x, v) = IF f = "blockNext" /\ x = u THEN first
                                           ELSE IF f = "bucket" /\ x = i THEN u
                                           ELSE IF f = "blockPrev" /\ x = u THEN 0 ELSE v
  <2> DEFINE a == <<"blockNext", u, first>>
             b == <<"bucket", i, u>>
             c == <<"blockPrev", u, 0>>
  <2>1. a \in Entry /\ b \in Entry /\ c \in Entry
    BY <1>2, EntryMade DEF UnitLinks
  <2>2. \A f, x, v : CellOf(c, f, x, CellOf(b, f, x, CellOf(a, f, x, v)))
          = IF f = "blockNext" /\ x = u THEN first ELSE IF f = "bucket" /\ x = i THEN u
            ELSE IF f = "blockPrev" /\ x = u THEN 0 ELSE v
    BY DEF CellOf
  <2>3. g5 = <<a, b, c>>
    OBVIOUS
  <2> HIDE DEF a, b, c
  <2> QED  BY <2>1, <2>2, <2>3, ThreeEntries
<1>g6. /\ g6 \in Seq(Entry) /\ Len(g6) \in Nat /\ Len(g6) <= 3
       /\ \A f, x, v : Cell(g6, f, x, v)
            = IF f = "head" /\ x = "setHead" THEN u
              ELSE IF f = "head" /\ x = "setTail" THEN IF mem.head.setHead = 0 THEN u ELSE v
              ELSE IF mem.head.setHead # 0 /\ f = "setNext" /\ x = u THEN mem.head.setHead
              ELSE IF mem.head.setHead # 0 /\ f = "setPrev" /\ x = mem.head.setHead THEN u ELSE v
  <2> DEFINE l == SetList
  <2>1. /\ l \in MapLists /\ l.next = "setNext" /\ l.prev = "setPrev"
        /\ l.head = "setHead" /\ l.tail = "setTail"
    BY DEF MapLists, SetList
  <2> HIDE DEF l
  <2>2. /\ PushFront(l, u) \in Seq(Entry) /\ Len(PushFront(l, u)) <= 3
        /\ \A f, x, v : Cell(PushFront(l, u), f, x, v)
             = IF f = "head" /\ x = l.head THEN u
               ELSE IF f = "head" /\ x = l.tail THEN IF mem.head[l.head] = 0 THEN u ELSE v
               ELSE IF mem.head[l.head] # 0 /\ f = l.next /\ x = u THEN mem.head[l.head]
               ELSE IF mem.head[l.head] # 0 /\ f = l.prev /\ x = mem.head[l.head] THEN u ELSE v
    BY <2>1, PushFrontCells
  <2>3. g6 = PushFront(l, u)
    BY DEF l
  <2> QED  BY <2>1, <2>2, <2>3
<1>g7. /\ g7 \in Seq(Entry) /\ Len(g7) \in Nat /\ Len(g7) <= 3
       /\ \A f, x, v : Cell(g7, f, x, v)
            = IF f = "head" /\ x = "getHead" THEN u
              ELSE IF f = "head" /\ x = "getTail" THEN IF mem.head.getHead = 0 THEN u ELSE v
              ELSE IF mem.head.getHead # 0 /\ f = "getNext" /\ x = u THEN mem.head.getHead
              ELSE IF mem.head.getHead # 0 /\ f = "getPrev" /\ x = mem.head.getHead THEN u ELSE v
  <2> DEFINE l == GetList
  <2>1. /\ l \in MapLists /\ l.next = "getNext" /\ l.prev = "getPrev"
        /\ l.head = "getHead" /\ l.tail = "getTail"
    BY DEF MapLists, GetList
  <2> HIDE DEF l
  <2>2. /\ PushFront(l, u) \in Seq(Entry) /\ Len(PushFront(l, u)) <= 3
        /\ \A f, x, v : Cell(PushFront(l, u), f, x, v)
             = IF f = "head" /\ x = l.head THEN u
               ELSE IF f = "head" /\ x = l.tail THEN IF mem.head[l.head] = 0 THEN u ELSE v
               ELSE IF mem.head[l.head] # 0 /\ f = l.next /\ x = u THEN mem.head[l.head]
               ELSE IF mem.head[l.head] # 0 /\ f = l.prev /\ x = mem.head[l.head] THEN u ELSE v
    BY <2>1, PushFrontCells
  <2>3. g7 = PushFront(l, u)
    BY DEF l
  <2> QED  BY <2>1, <2>2, <2>3
<1> HIDE DEF first, g1, g2, g3, g4, g5, g6, g7
<1>j2. /\ G2 \in Seq(Entry) /\ Len(G2) = Len(g1) + Len(g2)
       /\ \A f, x, v : Cell(G2, f, x, v) = Cell(g2, f, x, Cell(g1, f, x, v))
  BY <1>g1, <1>g2, Joined
<1> HIDE DEF G2
<1>j3. /\ G3 \in Seq(Entry) /\ Len(G3) = Len(G2) + Len(g3)
       /\ \A f, x, v : Cell(G3, f, x, v) = Cell(g3, f, x, Cell(G2, f, x, v))
  BY <1>g3, <1>j2, Joined
<1> HIDE DEF G3
<1>j4. /\ G4 \in Seq(Entry) /\ Len(G4) = Len(G3) + Len(g4)
       /\ \A f, x, v : Cell(G4, f, x, v) = Cell(g4, f, x, Cell(G3, f, x, v))
  BY <1>g4, <1>j3, Joined
<1> HIDE DEF G4
<1>j5. /\ G5 \in Seq(Entry) /\ Len(G5) = Len(G4) + Len(g5)
       /\ \A f, x, v : Cell(G5, f, x, v) = Cell(g5, f, x, Cell(G4, f, x, v))
  BY <1>g5, <1>j4, Joined
<1> HIDE DEF G5
<1>j6. /\ G6 \in Seq(Entry) /\ Len(G6) = Len(G5) + Len(g6)
       /\ \A f, x, v : Cell(G6, f, x, v) = Cell(g6, f, x, Cell(G5, f, x, v))
  BY <1>g6, <1>j5, Joined
<1> HIDE DEF G6
<1>j7. /\ G7 \in Seq(Entry) /\ Len(G7) = Len(G6) + Len(g7)
       /\ \A f, x, v : Cell(G7, f, x, v) = Cell(g7, f, x, Cell(G6, f, x, v))
  BY <1>g7, <1>j6, Joined
<1> HIDE DEF G7
<1>3. Len(G7) <= 13
  BY <1>g1, <1>g2, <1>g3, <1>g4, <1>g5, <1>g6, <1>g7, <1>j2, <1>j3, <1>j4, <1>j5, <1>j6, <1>j7
<1>4. \A f, x, v : Cell(G5, f, x, v) = Cell(g5, f, x, Cell(g4, f, x, Cell(g3, f, x,
                                         Cell(g2, f, x, Cell(g1, f, x, v)))))
  BY <1>j2, <1>j3, <1>j4, <1>j5
<1>5. \A f, x, v : Cell(G7, f, x, v) = Cell(g7, f, x, Cell(g6, f, x, Cell(G5, f, x, v)))
  BY <1>j6, <1>j7
<1>6. ASSUME NEW f \in {"blockNext", "blockPrev", "bucket", "listCount"}, NEW x, NEW v
      PROVE  Cell(G7, f, x, v) = Cell(g5, f, x, Cell(g4, f, x, Cell(g3, f, x, v)))
  <2>1. Cell(G7, f, x, v) = Cell(G5, f, x, v)
    BY <1>5, <1>g6, <1>g7
  <2>2. Cell(G5, f, x, v) = Cell(g5, f, x, Cell(g4, f, x, Cell(g3, f, x, v)))
    BY <1>4, <1>g1, <1>g2
  <2> QED  BY <2>1, <2>2
<1>7. ASSUME NEW f, f \notin {"head", "blockNext", "blockPrev", "bucket", "listCount"}, NEW x, NEW v
      PROVE  Cell(G7, f, x, v) = Cell(g7, f, x, Cell(g6, f, x, v))
  <2>1. Cell(G5, f, x, v) = v
    BY <1>4, <1>7, <1>g1, <1>g2, <1>g3, <1>g4, <1>g5
  <2> QED  BY <1>5, <2>1
<1>8. ASSUME NEW x, NEW v
      PROVE  Cell(G7, "head", x, v)
               = Cell(g7, "head", x, Cell(g6, "head", x, Cell(g2, "head", x, Cell(g1, "head", x, v))))
  <2>1. Cell(G5, "head", x, v) = Cell(g2, "head", x, Cell(g1, "head", x, v))
    BY <1>4, <1>g3, <1>g4, <1>g5
  <2> QED  BY <1>5, <2>1
<1>9. /\ \A x, v : Cell(G7, "setNext", x, v)
                     = IF mem.head.setHead # 0 /\ x = u THEN mem.head.setHead ELSE v
      /\ \A x, v : Cell(G7, "setPrev", x, v)
                     = IF mem.head.setHead # 0 /\ x = mem.head.setHead THEN u ELSE v
  BY <1>7, <1>g6, <1>g7
<1>10. /\ \A x, v : Cell(G7, "getNext", x, v)
                     = IF mem.head.getHead # 0 /\ x = u THEN mem.head.getHead ELSE v
       /\ \A x, v : Cell(G7, "getPrev", x, v)
                     = IF mem.head.getHead # 0 /\ x = mem.head.getHead THEN u ELSE v
  BY <1>7, <1>g6, <1>g7
<1>11. /\ \A x, v : Cell(G7, "blockNext", x, v) = IF x = u THEN first ELSE v
       /\ \A x, v : Cell(G7, "blockPrev", x, v)
                      = IF x = u THEN 0 ELSE IF first # 0 /\ x = first THEN u ELSE v
  BY <1>6, <1>g3, <1>g4, <1>g5
<1>12. /\ \A x, v : Cell(G7, "bucket", x, v) = IF x = i THEN u ELSE v
       /\ \A x, v : Cell(G7, "listCount", x, v) = IF x = i THEN mem.listCount[i] + 1 ELSE v
  BY <1>6, <1>g3, <1>g4, <1>g5
<1>13. \A f \in {"chunk", "index", "data", "dirty", "onlyKey"} : \A x, v : Cell(G7, f, x, v) = v
  BY <1>7, <1>g6, <1>g7
<1>14. /\ \A v : Cell(G7, "head", "setHead", v) = u
       /\ \A v : Cell(G7, "head", "setTail", v) = IF mem.head.setHead = 0 THEN u ELSE v
       /\ \A v : Cell(G7, "head", "getHead", v) = u
       /\ \A v : Cell(G7, "head", "getTail", v) = IF mem.head.getHead = 0 THEN u ELSE v
  BY <1>8, <1>g1, <1>g2, <1>g6, <1>g7
<1>15. /\ \A x \in {"dirtyTail", "syncTail", "backupTail", "onlyKeyCount"} : \A v :
                Cell(G7, "head", x, v) = v
       /\ \A v : Cell(G7, "head", "elements", v) = mem.head.elements + 1
       /\ \A v : Cell(G7, "head", "dirtyCount", v) = mem.head.dirtyCount + 1
  BY <1>8, <1>g1, <1>g2, <1>g6, <1>g7
<1> QED  BY <1>1, <1>j7, <1>3, <1>9, <1>10, <1>11, <1>12, <1>13, <1>14, <1>15 DEF first

\* BlockAllocator::allocateMemBlock: a unit is written before it is linked.
Fresh(m, m1, u, i) ==
    /\ IsMemory(m1)
    /\ m1.head = m.head /\ m1.bucket = m.bucket /\ m1.listCount = m.listCount
    /\ \A f \in UnitLinks : m1[f][u] = 0 /\ \A x \in Units \ {u} : m1[f][x] = m[f][x]
    /\ m1.index[u] = i /\ m1.data[u] = Empty /\ m1.dirty[u] = TRUE /\ m1.onlyKey[u] = FALSE
    /\ \A x \in Units \ {u} :
         /\ m1.index[x] = m.index[x] /\ m1.data[x] = m.data[x]
         /\ m1.dirty[x] = m.dirty[x] /\ m1.onlyKey[x] = m.onlyKey[x]

\* What Block::makeNew records puts the block in front of all lists, in at most 13 entries.
LEMMA LinkEffect ==
  ASSUME Shape(mem), NEW u \in Units, u \notin Owned(mem), NEW i \in Buckets,
         NEW m1, Fresh(mem, m1, u, i)
  PROVE  /\ LinkNew(u, i) \in Seq(Entry) /\ Len(LinkNew(u, i)) <= 13
         /\ Links(mem, Apply(m1, LinkNew(u, i)), u, i)
         /\ IsMemory(Apply(m1, LinkNew(u, i)))
<1> DEFINE g == LinkNew(u, i)
           m2 == Apply(m1, g)
<1>1. /\ IsMemory(mem) /\ BlocksOf(mem) \subseteq Units /\ 0 \notin Units /\ 0 \notin BlocksOf(mem)
      /\ u \notin BlocksOf(mem) /\ u # 0
  BY BlockUnits, OwnUnits, HashMapAssumption DEF Shape
<1>2. /\ Forth(SetOf(mem), mem.setNext, mem.head.setHead) /\ Elements(SetOf(mem)) = BlocksOf(mem)
      /\ Forth(GetOf(mem), mem.getNext, mem.head.getHead) /\ Elements(GetOf(mem)) = BlocksOf(mem)
  BY DEF Shape, SetFits, GetFits, Listed, BlocksOf
<1>3. mem.head.setHead \in BlocksOf(mem) \cup {0} /\ mem.head.getHead \in BlocksOf(mem) \cup {0}
  BY <1>2, ForthElements
<1>4. mem.bucket[i] \in BlocksOf(mem) \cup {0}
  <2>1. /\ Forth(ChainOf(mem, i), mem.blockNext, mem.bucket[i])
        /\ Elements(ChainOf(mem, i)) = {x \in BlocksOf(mem) : mem.index[x] = i}
    BY DEF Shape, Chains, ChainFits, Listed
  <2>2. mem.bucket[i] = 0 \/ mem.bucket[i] \in Elements(ChainOf(mem, i))
    BY <2>1, ForthElements
  <2> QED  BY <2>1, <2>2
<1>5. mem.bucket[i] # u
  BY <1>1, <1>4
<1>6. g \in Seq(Entry) /\ Len(g) <= 13
  BY <1>1, <1>5, LinkNewCells
<1>c. /\ \A x, v : Cell(g, "setNext", x, v)
              = IF mem.head.setHead # 0 /\ x = u THEN mem.head.setHead ELSE v
      /\ \A x, v : Cell(g, "setPrev", x, v)
              = IF mem.head.setHead # 0 /\ x = mem.head.setHead THEN u ELSE v
      /\ \A x, v : Cell(g, "getNext", x, v)
              = IF mem.head.getHead # 0 /\ x = u THEN mem.head.getHead ELSE v
      /\ \A x, v : Cell(g, "getPrev", x, v)
              = IF mem.head.getHead # 0 /\ x = mem.head.getHead THEN u ELSE v
  BY <1>1, <1>5, LinkNewCells
<1>d. /\ \A x, v : Cell(g, "blockNext", x, v) = IF x = u THEN mem.bucket[i] ELSE v
      /\ \A x, v : Cell(g, "blockPrev", x, v)
              = IF x = u THEN 0 ELSE IF mem.bucket[i] # 0 /\ x = mem.bucket[i] THEN u ELSE v
      /\ \A x, v : Cell(g, "bucket", x, v) = IF x = i THEN u ELSE v
      /\ \A x, v : Cell(g, "listCount", x, v) = IF x = i THEN mem.listCount[i] + 1 ELSE v
      /\ \A f \in {"chunk", "index", "data", "dirty", "onlyKey"} : \A x, v : Cell(g, f, x, v) = v
  BY <1>1, <1>5, LinkNewCells
<1>e. /\ \A v : Cell(g, "head", "setHead", v) = u
      /\ \A v : Cell(g, "head", "setTail", v) = IF mem.head.setHead = 0 THEN u ELSE v
      /\ \A v : Cell(g, "head", "getHead", v) = u
      /\ \A v : Cell(g, "head", "getTail", v) = IF mem.head.getHead = 0 THEN u ELSE v
      /\ \A x \in {"dirtyTail", "syncTail", "backupTail", "onlyKeyCount"} : \A v :
             Cell(g, "head", x, v) = v
      /\ \A v : Cell(g, "head", "elements", v) = mem.head.elements + 1
      /\ \A v : Cell(g, "head", "dirtyCount", v) = mem.head.dirtyCount + 1
  BY <1>1, <1>5, LinkNewCells
<1> HIDE DEF g
<1>7. IsMemory(m2)
  BY <1>6, ApplyTyped DEF Fresh
<1>8. IsMemory(m1)
  BY DEF Fresh
<1>9. /\ \A f \in UnitLinks, x \in Units : m2[f][x] = Cell(g, f, x, m1[f][x])
      /\ \A h \in Heads : m2.head[h] = Cell(g, "head", h, m1.head[h])
      /\ \A j \in Buckets : /\ m2.bucket[j] = Cell(g, "bucket", j, m1.bucket[j])
                            /\ m2.listCount[j] = Cell(g, "listCount", j, m1.listCount[j])
      /\ \A x \in Units : /\ m2.index[x] = Cell(g, "index", x, m1.index[x])
                          /\ m2.data[x] = Cell(g, "data", x, m1.data[x])
                          /\ m2.dirty[x] = Cell(g, "dirty", x, m1.dirty[x])
                          /\ m2.onlyKey[x] = Cell(g, "onlyKey", x, m1.onlyKey[x])
  BY <1>8, AppliedAt
<1> HIDE DEF m2
<1>10. \A f \in {"setNext", "setPrev", "getNext", "getPrev", "blockNext", "blockPrev", "chunk"} :
         f \in UnitLinks
  BY DEF UnitLinks
<1>11. \A f \in {"setNext", "setPrev", "getNext", "getPrev", "blockNext", "blockPrev", "chunk"} :
         m1[f][u] = 0 /\ \A x \in Units \ {u} : m1[f][x] = mem[f][x]
  BY <1>10 DEF Fresh
<1>12. /\ m2.setNext[u] = mem.head.setHead /\ m2.setPrev[u] = 0
       /\ \A x \in Units \ {u} : m2.setNext[x] = mem.setNext[x]
       /\ \A x \in Units \ {u} : m2.setPrev[x] = IF x = mem.head.setHead THEN u ELSE mem.setPrev[x]
  BY <1>1, <1>3, <1>9, <1>10, <1>11, <1>c
<1>13. /\ m2.getNext[u] = mem.head.getHead /\ m2.getPrev[u] = 0
       /\ \A x \in Units \ {u} : m2.getNext[x] = mem.getNext[x]
       /\ \A x \in Units \ {u} : m2.getPrev[x] = IF x = mem.head.getHead THEN u ELSE mem.getPrev[x]
  BY <1>1, <1>3, <1>9, <1>10, <1>11, <1>c
<1>14. /\ m2.blockNext[u] = mem.bucket[i] /\ m2.blockPrev[u] = 0
       /\ \A x \in Units \ {u} : m2.blockNext[x] = mem.blockNext[x]
       /\ \A x \in Units \ {u} : m2.blockPrev[x] = IF x = mem.bucket[i] THEN u ELSE mem.blockPrev[x]
  BY <1>1, <1>9, <1>10, <1>11, <1>d
<1>15. \A x \in Units : /\ m2.chunk[x] = m1.chunk[x] /\ m2.index[x] = m1.index[x]
                        /\ m2.data[x] = m1.data[x]
                        /\ m2.dirty[x] = m1.dirty[x] /\ m2.onlyKey[x] = m1.onlyKey[x]
  BY <1>9, <1>10, <1>d
<1>16. /\ m2.chunk[u] = 0 /\ m2.index[u] = i /\ m2.data[u] = Empty
       /\ m2.dirty[u] = TRUE /\ m2.onlyKey[u] = FALSE
       /\ \A x \in Units \ {u} :
            /\ m2.chunk[x] = mem.chunk[x] /\ m2.index[x] = mem.index[x] /\ m2.data[x] = mem.data[x]
            /\ m2.dirty[x] = mem.dirty[x] /\ m2.onlyKey[x] = mem.onlyKey[x]
  BY <1>11, <1>15 DEF Fresh
<1>17. \A j \in Buckets :
         /\ m2.bucket[j] = IF j = i THEN u ELSE mem.bucket[j]
         /\ m2.listCount[j] = IF j = i THEN mem.listCount[j] + 1 ELSE mem.listCount[j]
  BY <1>9, <1>d DEF Fresh
<1>18. \A h \in {"setHead", "setTail", "getHead", "getTail", "dirtyTail", "syncTail", "backupTail",
                 "elements", "dirtyCount", "onlyKeyCount"} :
         m2.head[h] = Cell(g, "head", h, mem.head[h])
  BY <1>9 DEF Heads, HeadLinks, HeadCounts, Fresh
<1>19. /\ m2.head.setHead = u
       /\ m2.head.setTail = IF mem.head.setHead = 0 THEN u ELSE mem.head.setTail
       /\ m2.head.getHead = u
       /\ m2.head.getTail = IF mem.head.getHead = 0 THEN u ELSE mem.head.getTail
       /\ m2.head.elements = mem.head.elements + 1
       /\ m2.head.dirtyCount = mem.head.dirtyCount + 1
       /\ m2.head.onlyKeyCount = mem.head.onlyKeyCount
       /\ m2.head.dirtyTail = mem.head.dirtyTail /\ m2.head.syncTail = mem.head.syncTail
       /\ m2.head.backupTail = mem.head.backupTail
  BY <1>18, <1>e
<1>20. /\ Puts(SetOf(mem), u, mem.head.setHead, mem.setNext, mem.setPrev, m2.setNext, m2.setPrev)
       /\ Puts(GetOf(mem), u, mem.head.getHead, mem.getNext, mem.getPrev, m2.getNext, m2.getPrev)
  BY <1>1, <1>2, <1>12, <1>13 DEF Puts
<1>21. \A x \in BlocksOf(mem) : x \in Units \ {u}
  BY <1>1
<1>22. Links(mem, m2, u, i)
  BY <1>14, <1>16, <1>17, <1>19, <1>20, <1>21 DEF Links
<1> QED  BY <1>6, <1>7, <1>22 DEF m2, g

\* The cells makeNew writes directly belong to no block.
LEMMA FreshStays ==
  ASSUME NEW m, Shape(m), NEW u \in Units, u \notin Owned(m), NEW m1, NEW i, Fresh(m, m1, u, i)
  PROVE  Stays(m, m1) /\ SameChunks(m, m1)
<1>1. /\ BlocksOf(m) \subseteq Units \ {u} /\ Owned(m) \subseteq Units \ {u}
  BY BlockUnits, OwnUnits DEF Shape
<1>2. \A f \in {"setNext", "setPrev", "getNext", "getPrev", "blockNext", "blockPrev", "chunk"} :
        \A x \in Units \ {u} : m1[f][x] = m[f][x]
  BY DEF Fresh, UnitLinks
<1>3. SameSet(m, m1) /\ SameGet(m, m1)
  BY <1>1, <1>2 DEF Fresh, SameSet, SameGet
<1>4. SameChains(m, m1)
  BY <1>1, <1>2 DEF Fresh, SameChains
<1>5. SameChunks(m, m1)
  BY <1>1, <1>2 DEF SameChunks
<1>6. KeysFit(m, m1)
  <2>1. SameKeys(m, m1)
    BY <1>1 DEF Fresh, SameKeys
  <2> QED  BY <2>1, KeysStay DEF Shape
<1>7. CursorsFit(m, m1) /\ m1.head.elements = m.head.elements /\ IsMemory(m1)
  BY DEF Fresh, CursorsFit, Shape, Cursors
<1> QED  BY <1>3, <1>4, <1>5, <1>6, <1>7 DEF Stays

-----------------------------------------------------------------------------
(* What refreshSetList, refreshGetList and erase of a dirty block record. *)

\* A field without entries stays.
LEMMA AppliedSame ==
  ASSUME NEW m, IsMemory(m), NEW g \in Seq(Entry), NEW f \in Fields,
         \A x, v : Cell(g, f, x, v) = v
  PROVE  Apply(m, g)[f] = m[f]
<1>1. Apply(m, g)[f] = [x \in DOMAIN m[f] |-> Cell(g, f, x, m[f][x])]
  BY ApplyAt
<1>2. m[f] = [x \in DOMAIN m[f] |-> m[f][x]]
  BY DEF IsMemory, Fields
<1> QED  BY <1>1, <1>2

\* A unit is up to itself, and so is the first one.
LEMMA UptoSelf ==
  ASSUME NEW s, NEW next, NEW a, Forth(s, next, a), NEW c \in Elements(s)
  PROVE  c \in Upto(s, c) /\ a \in Upto(s, c) /\ Upto(s, c) \subseteq Elements(s)
<1>1. /\ s \in Seq(Units) /\ Once(s) /\ Len(s) \in Nat
      /\ a = IF Len(s) = 0 THEN 0 ELSE s[1]
  BY ForthElements DEF Forth
<1>2. PICK k \in 1..Len(s) : s[k] = c
  BY <1>1, InElements
<1>3. Upto(s, c) = {s[j] : j \in 1..k} /\ Upto(s, c) \subseteq Elements(s)
  BY <1>1, <1>2, UptoAt
<1>4. 1 \in 1..k /\ k \in 1..k /\ Len(s) # 0
  BY <1>1, <1>2
<1> QED  BY <1>1, <1>2, <1>3, <1>4

\* What refreshGetList does to the memory.
MovedGet(m, m2, u) ==
    /\ MovesGet(m, m2, u) /\ IsMemory(m2)
    /\ \A f \in Fields \ {"head", "getNext", "getPrev"} : m2[f] = m[f]
    /\ \A h \in Heads \ {"getHead", "getTail", "backupTail"} : m2.head[h] = m.head[h]
    /\ m2.head.backupTail = IF m.head.backupTail = u THEN m.getPrev[u] ELSE m.head.backupTail

\* What refreshSetList does to the memory.
MovedSet(m, m2, u) ==
    /\ IF m.head.setHead = u THEN SameSet(m, m2) ELSE MovesSet(m, m2, u)
    /\ IsMemory(m2)
    /\ \A f \in Fields \ {"head", "setNext", "setPrev"} : m2[f] = m[f]
    /\ \A h \in Heads \ {"setHead", "setTail", "dirtyTail", "syncTail"} : m2.head[h] = m.head[h]
    /\ m2.head.dirtyTail = IF m.head.dirtyTail = 0 THEN u
                           ELSE IF m.head.dirtyTail = u /\ m.head.setHead # u THEN m.setPrev[u]
                           ELSE m.head.dirtyTail
    /\ m2.head.syncTail = IF m.head.syncTail = u /\ m.head.setHead # u THEN m.setPrev[u]
                          ELSE m.head.syncTail

\* A block moved in the get list leaves a memory of the right shape.
LEMMA MovedGetShape ==
  ASSUME NEW m, NEW m2, Shape(m), NEW u \in BlocksOf(m), u # m.head.getHead, MovedGet(m, m2, u)
  PROVE  /\ Shape(m2) /\ SetOf(m2) = SetOf(m) /\ BlocksOf(m2) = BlocksOf(m) /\ Owned(m2) = Owned(m)
         /\ \A v \in BlocksOf(m) : ChunksIn(m2, v) = ChunksIn(m, v) /\ Own(m2, v) = Own(m, v)
         /\ Upto(GetOf(m), m.head.backupTail) \subseteq Upto(GetOf(m2), m2.head.backupTail)
<1>1. \A f \in {"setNext", "setPrev", "blockNext", "blockPrev", "chunk", "index", "data",
                "bucket", "listCount"} : m2[f] = m[f]
  BY DEF MovedGet, Fields, UnitLinks
<1>2. \A h \in {"setHead", "setTail", "elements", "dirtyTail", "syncTail"} : m2.head[h] = m.head[h]
  BY DEF MovedGet, Heads, HeadLinks, HeadCounts
<1>3. /\ SameSet(m, m2) /\ SameChains(m, m2) /\ SameChunks(m, m2) /\ SameKeys(m, m2)
      /\ m2.head.elements = m.head.elements
  BY <1>1, <1>2 DEF SameSet, SameChains, SameChunks, SameKeys
<1>4. SetFits(m2) /\ SetOf(m2) = SetOf(m) /\ BlocksOf(m2) = BlocksOf(m)
  BY <1>3, SetKept DEF Shape
<1>5. /\ GetFits(m2)
      /\ \A c \in BlocksOf(m) :
           Upto(GetOf(m2), IF c = u THEN m.getPrev[u] ELSE c) = Upto(GetOf(m), c) \cup {u}
  <2>1. GetFits(m) /\ MovesGet(m, m2, u)
    BY DEF Shape, MovedGet
  <2> QED  BY <1>4, <2>1, MoveGet
<1>6. m.getPrev[u] \in BlocksOf(m) \cup {0}
  BY Neighbours DEF Shape, GetFits
<1>7. /\ m.head.dirtyTail \in BlocksOf(m) \cup {0} /\ m.head.syncTail \in BlocksOf(m) \cup {0}
      /\ m.head.backupTail \in BlocksOf(m) \cup {0}
  BY DEF Shape, Cursors
<1>8. m2.head.backupTail = IF m.head.backupTail = u THEN m.getPrev[u] ELSE m.head.backupTail
  BY DEF MovedGet
<1>9. Cursors(m2)
  BY <1>2, <1>4, <1>6, <1>7, <1>8 DEF Cursors
<1>10. IsMemory(m2) /\ m2.head.elements = Len(SetOf(m2))
  BY <1>3, <1>4 DEF MovedGet, Shape
<1>11. /\ Shape(m2) /\ Owned(m2) = Owned(m)
       /\ \A v \in BlocksOf(m) : ChunksIn(m2, v) = ChunksIn(m, v) /\ Own(m2, v) = Own(m, v)
  BY <1>3, <1>4, <1>5, <1>9, <1>10, ShapeFrom
<1>12. Upto(GetOf(m), m.head.backupTail) \subseteq Upto(GetOf(m2), m2.head.backupTail)
  <2>1. CASE m.head.backupTail = 0
    <3>1. GetOf(m) \in Seq(Units) /\ 0 \notin Elements(GetOf(m))
      BY ForthElements DEF Shape, GetFits, Listed
    <3>2. Upto(GetOf(m), 0) = {}
      BY <3>1, UptoNone
    <3> QED  BY <2>1, <3>2
  <2>2. CASE m.head.backupTail \in BlocksOf(m)
    BY <1>5, <1>8, <2>2
  <2> QED  BY <1>7, <2>1, <2>2
<1> QED  BY <1>4, <1>11, <1>12

\* A block moved in the set list leaves a memory of the right shape.
LEMMA MovedSetShape ==
  ASSUME NEW m, NEW m2, Shape(m), NEW u \in BlocksOf(m), MovedSet(m, m2, u)
  PROVE  /\ Shape(m2) /\ GetOf(m2) = GetOf(m) /\ BlocksOf(m2) = BlocksOf(m) /\ Owned(m2) = Owned(m)
         /\ \A v \in BlocksOf(m) : ChunksIn(m2, v) = ChunksIn(m, v) /\ Own(m2, v) = Own(m, v)
         /\ Upto(SetOf(m), m.head.dirtyTail) \cup {u} \subseteq Upto(SetOf(m2), m2.head.dirtyTail)
<1>1. \A f \in {"getNext", "getPrev", "blockNext", "blockPrev", "chunk", "index", "data",
                "bucket", "listCount"} : m2[f] = m[f]
  BY DEF MovedSet, Fields, UnitLinks
<1>2. \A h \in {"getHead", "getTail", "elements", "backupTail"} : m2.head[h] = m.head[h]
  BY DEF MovedSet, Heads, HeadLinks, HeadCounts
<1>3. /\ SameGet(m, m2) /\ SameChains(m, m2) /\ SameChunks(m, m2) /\ SameKeys(m, m2)
      /\ m2.head.elements = m.head.elements
  BY <1>1, <1>2 DEF SameGet, SameChains, SameChunks, SameKeys
<1>4. SetFits(m) /\ Forth(SetOf(m), m.setNext, m.head.setHead) /\ BlocksOf(m) = Elements(SetOf(m))
  BY DEF Shape, SetFits, Listed, BlocksOf
<1>5. /\ m.head.dirtyTail \in BlocksOf(m) \cup {0} /\ m.head.syncTail \in BlocksOf(m) \cup {0}
      /\ m.head.backupTail \in BlocksOf(m) \cup {0}
  BY DEF Shape, Cursors
<1>6. /\ m2.head.dirtyTail = IF m.head.dirtyTail = 0 THEN u
                             ELSE IF m.head.dirtyTail = u /\ m.head.setHead # u THEN m.setPrev[u]
                             ELSE m.head.dirtyTail
      /\ m2.head.syncTail = IF m.head.syncTail = u /\ m.head.setHead # u THEN m.setPrev[u]
                            ELSE m.head.syncTail
  BY DEF MovedSet
<1>7. m.setPrev[u] \in BlocksOf(m) \cup {0} /\ u # 0
  <2>1. m.setPrev[u] \in BlocksOf(m) \cup {0}
    BY Neighbours DEF Shape, SetFits, BlocksOf
  <2> QED  BY <2>1, <1>4, BlockUnits
<1>8. Upto(SetOf(m), 0) = {}
  <2>1. SetOf(m) \in Seq(Units) /\ 0 \notin Elements(SetOf(m))
    BY <1>4, ForthElements
  <2> QED  BY <2>1, UptoNone
<1>9. /\ SetFits(m2) /\ BlocksOf(m2) = BlocksOf(m) /\ Len(SetOf(m2)) = Len(SetOf(m))
      /\ Upto(SetOf(m), m.head.dirtyTail) \cup {u} \subseteq Upto(SetOf(m2), m2.head.dirtyTail)
  <2>1. CASE m.head.setHead = u
    <3>1. SameSet(m, m2)
      BY <2>1 DEF MovedSet
    <3>2. SetFits(m2) /\ SetOf(m2) = SetOf(m) /\ BlocksOf(m2) = BlocksOf(m)
      BY <1>4, <3>1, SetKept
    <3>3. \A c \in BlocksOf(m) : u \in Upto(SetOf(m), c)
      BY <1>4, <2>1, UptoSelf
    <3>4. m2.head.dirtyTail = IF m.head.dirtyTail = 0 THEN u ELSE m.head.dirtyTail
      BY <1>6, <2>1
    <3>5. Upto(SetOf(m), m.head.dirtyTail) \cup {u} \subseteq Upto(SetOf(m2), m2.head.dirtyTail)
      BY <1>5, <1>8, <3>2, <3>3, <3>4
    <3> QED  BY <3>2, <3>5
  <2>2. CASE m.head.setHead # u
    <3>1. MovesSet(m, m2, u)
      BY <2>2 DEF MovedSet
    <3>2. /\ SetFits(m2) /\ BlocksOf(m2) = BlocksOf(m) /\ Len(SetOf(m2)) = Len(SetOf(m))
          /\ \A c \in BlocksOf(m) :
               Upto(SetOf(m2), IF c = u THEN m.setPrev[u] ELSE c) = Upto(SetOf(m), c) \cup {u}
      <4>1. SetFits(m) /\ u # m.head.setHead
        BY <1>4, <2>2
      <4> QED  BY <3>1, <4>1, MoveSet
    <3>3. CASE m.head.dirtyTail = 0
      <4>1. Forth(SetOf(m2), m2.setNext, m2.head.setHead) /\ u \in Elements(SetOf(m2))
        BY <3>2 DEF SetFits, Listed, BlocksOf
      <4>2. u \in Upto(SetOf(m2), u)
        BY <4>1, UptoSelf
      <4> QED  BY <1>6, <1>8, <3>2, <3>3, <4>2
    <3>4. CASE m.head.dirtyTail \in BlocksOf(m)
      <4>1. m.head.dirtyTail # 0
        BY <1>4, <3>4, BlockUnits
      <4> QED  BY <1>6, <2>2, <3>2, <3>4, <4>1
    <3> QED  BY <1>5, <3>3, <3>4
  <2> QED  BY <2>1, <2>2
<1>10. GetFits(m2) /\ GetOf(m2) = GetOf(m)
  BY <1>3, <1>9, GetKept DEF Shape
<1>11. Cursors(m2)
  BY <1>2, <1>5, <1>6, <1>7, <1>9 DEF Cursors
<1>12. IsMemory(m2) /\ m2.head.elements = Len(SetOf(m2))
  BY <1>3, <1>9 DEF MovedSet, Shape
<1>13. /\ Shape(m2) /\ Owned(m2) = Owned(m)
       /\ \A v \in BlocksOf(m) : ChunksIn(m2, v) = ChunksIn(m, v) /\ Own(m2, v) = Own(m, v)
  BY <1>3, <1>9, <1>10, <1>11, <1>12, ShapeFrom
<1> QED  BY <1>9, <1>10, <1>13

\* The parts that the groups of refreshSetList and refreshGetList have in common.
LEMMA MoveInList ==
  ASSUME Shape(mem), NEW l \in MapLists, NEW u \in BlocksOf(mem), mem.head[l.head] # u
  PROVE  /\ mem.head[l.head] \notin {0, u} /\ mem[l.prev][u] \notin {0, u}
         /\ mem[l.next][u] \notin {u, mem.head[l.head]}
         /\ mem[l.next][u] = 0 <=> mem.head[l.tail] = u
<1>1. /\ mem.head.setHead \in BlocksOf(mem) /\ mem.head.getHead \in BlocksOf(mem)
      /\ 0 \notin BlocksOf(mem)
  BY Ends, BlockUnits DEF Shape
<1>2. CASE l = SetList
  <2>1. l.head = "setHead" /\ l.prev = "setPrev" /\ l.next = "setNext" /\ l.tail = "setTail"
    BY <1>2 DEF SetList
  <2>2. /\ mem.head.setHead # u /\ mem.setPrev[u] # 0 /\ mem.setPrev[u] # u
        /\ mem.setNext[u] # u /\ mem.setNext[u] # mem.head.setHead
        /\ mem.setNext[u] = 0 <=> mem.head.setTail = u
    BY <2>1, Ends
  <2> QED  BY <1>1, <2>1, <2>2
<1>3. CASE l = GetList
  <2>1. l.head = "getHead" /\ l.prev = "getPrev" /\ l.next = "getNext" /\ l.tail = "getTail"
    BY <1>3 DEF GetList
  <2>2. /\ mem.head.getHead # u /\ mem.getPrev[u] # 0 /\ mem.getPrev[u] # u
        /\ mem.getNext[u] # u /\ mem.getNext[u] # mem.head.getHead
        /\ mem.getNext[u] = 0 <=> mem.head.getTail = u
    BY <2>1, Ends
  <2> QED  BY <1>1, <2>1, <2>2
<1> QED  BY <1>2, <1>3 DEF MapLists

\* The group of refreshGetList.
LEMMA RefreshGetEffect ==
  ASSUME Shape(mem), NEW u \in BlocksOf(mem), mem.head.getHead # u
  PROVE  LET g == StepOff("backupTail", "getPrev", u) \o MoveFront(GetList, u)
         IN  g \in Seq(Entry) /\ Len(g) <= 7 /\ MovedGet(mem, Apply(mem, g), u)
<1> DEFINE g1 == StepOff("backupTail", "getPrev", u)
           g2 == MoveFront(GetList, u)
           g == g1 \o g2
           m2 == Apply(mem, g)
           p == mem.getPrev[u]
           n == mem.getNext[u]
           first == mem.head.getHead
<1>1. /\ IsMemory(mem) /\ u \in Units /\ BlocksOf(mem) \subseteq Units /\ 0 \notin Units
      /\ Elements(GetOf(mem)) = BlocksOf(mem)
  BY BlockUnits, HashMapAssumption DEF Shape, GetFits
<1>2. /\ first \notin {0, u} /\ p \notin {0, u} /\ n \notin {u, first}
      /\ n = 0 <=> mem.head.getTail = u
  <2>1. GetList \in MapLists
    BY DEF MapLists
  <2>2. /\ GetList.head = "getHead" /\ GetList.tail = "getTail"
        /\ GetList.prev = "getPrev" /\ GetList.next = "getNext"
    BY DEF GetList
  <2> QED  BY <2>1, <2>2, MoveInList
<1>g1. /\ g1 \in Seq(Entry) /\ Len(g1) \in Nat /\ Len(g1) <= 1
       /\ \A f, x, v : Cell(g1, f, x, v)
            = IF mem.head.backupTail = u /\ f = "head" /\ x = "backupTail" THEN mem.getPrev[u] ELSE v
  <2>1. "backupTail" \in HeadLinks /\ "getPrev" \in UnitLinks
    BY DEF HeadLinks, UnitLinks
  <2> QED  BY <1>1, <2>1, StepOffCells
<1>g2. /\ g2 \in Seq(Entry) /\ Len(g2) = 6
       /\ \A f, x, v : Cell(g2, f, x, v)
            = IF f = "head" /\ x = "getHead" THEN u
              ELSE IF f = "head" /\ x = "getTail" THEN IF n = 0 THEN p ELSE v
              ELSE IF f = "getNext" THEN IF x = p THEN n ELSE IF x = u THEN first ELSE v
              ELSE IF f = "getPrev"
                   THEN IF n # 0 /\ x = n THEN p ELSE IF x = u THEN 0
                        ELSE IF x = first THEN u ELSE v
              ELSE v
  <2> DEFINE l == GetList
  <2>1. /\ l \in MapLists /\ l.next = "getNext" /\ l.prev = "getPrev"
        /\ l.head = "getHead" /\ l.tail = "getTail"
    BY DEF MapLists, GetList
  <2> HIDE DEF l
  <2>2. /\ mem.head[l.head] \notin {0, u} /\ mem[l.prev][u] \notin {0, u}
        /\ mem[l.next][u] \notin {u, mem.head[l.head]}
    BY <1>2, <2>1
  <2>3. /\ MoveFront(l, u) \in Seq(Entry) /\ Len(MoveFront(l, u)) = 6
        /\ \A f, x, v : Cell(MoveFront(l, u), f, x, v)
             = IF f = "head" /\ x = l.head THEN u
               ELSE IF f = "head" /\ x = l.tail THEN IF mem[l.next][u] = 0 THEN mem[l.prev][u] ELSE v
               ELSE IF f = l.next THEN IF x = mem[l.prev][u] THEN mem[l.next][u]
                                       ELSE IF x = u THEN mem.head[l.head] ELSE v
               ELSE IF f = l.prev
                    THEN IF mem[l.next][u] # 0 /\ x = mem[l.next][u] THEN mem[l.prev][u]
                         ELSE IF x = u THEN 0
                         ELSE IF x = mem.head[l.head] THEN u ELSE v
               ELSE v
    BY <1>1, <2>1, <2>2, MoveFrontCells
  <2>4. g2 = MoveFront(l, u)
    BY DEF l
  <2> QED  BY <2>1, <2>3, <2>4
<1> HIDE DEF g1, g2, p, n, first
<1>3. /\ g \in Seq(Entry) /\ Len(g) <= 7
      /\ \A f, x, v : Cell(g, f, x, v) = Cell(g2, f, x, Cell(g1, f, x, v))
  <2>1. /\ g \in Seq(Entry) /\ Len(g) = Len(g1) + Len(g2)
        /\ \A f, x, v : Cell(g, f, x, v) = Cell(g2, f, x, Cell(g1, f, x, v))
    BY <1>g1, <1>g2, Joined
  <2> QED  BY <2>1, <1>g1, <1>g2
<1> HIDE DEF g
<1>4. IsMemory(m2)
  BY <1>1, <1>3, ApplyTyped
<1>5. /\ \A f \in UnitLinks, x \in Units : m2[f][x] = Cell(g, f, x, mem[f][x])
      /\ \A h \in Heads : m2.head[h] = Cell(g, "head", h, mem.head[h])
  BY <1>1, AppliedAt
<1>6. ASSUME NEW f \in Fields \ {"head", "getNext", "getPrev"} PROVE m2[f] = mem[f]
  <2>1. \A x, v : Cell(g, f, x, v) = v
    BY <1>3, <1>g1, <1>g2
  <2> QED  BY <1>1, <1>3, <2>1, AppliedSame
<1> HIDE DEF m2
<1>7. \A h \in Heads \ {"getHead", "getTail", "backupTail"} : m2.head[h] = mem.head[h]
  BY <1>3, <1>5, <1>g1, <1>g2
<1>8. /\ m2.head.getHead = u
      /\ m2.head.getTail = IF mem.head.getTail = u THEN p ELSE mem.head.getTail
      /\ m2.head.backupTail = IF mem.head.backupTail = u THEN p ELSE mem.head.backupTail
  <2>1. {"getHead", "getTail", "backupTail"} \subseteq Heads
    BY DEF Heads, HeadLinks
  <2> QED  BY <1>2, <1>3, <1>5, <2>1, <1>g1, <1>g2 DEF p
<1>9. {"getNext", "getPrev"} \subseteq UnitLinks
  BY DEF UnitLinks
<1>10. /\ m2.getNext[u] = first /\ m2.getPrev[u] = 0
       /\ \A x \in Units \ {u} :
            /\ m2.getNext[x] = IF x = p THEN n ELSE mem.getNext[x]
            /\ m2.getPrev[x] = IF x = first THEN u ELSE IF x = n THEN p ELSE mem.getPrev[x]
  BY <1>1, <1>2, <1>3, <1>5, <1>9, <1>g1, <1>g2
<1>11. Shifts(GetOf(mem), u, mem.head.getHead, mem.getNext, mem.getPrev, m2.getNext, m2.getPrev)
  BY <1>1, <1>10 DEF Shifts, p, n, first
<1>12. MovedGet(mem, m2, u)
  BY <1>4, <1>6, <1>7, <1>8, <1>11 DEF MovedGet, MovesGet, p
<1> QED  BY <1>3, <1>12 DEF m2, g, g1, g2

\* The group of refreshSetList.
LEMMA RefreshSetEffect ==
  ASSUME Shape(mem), NEW u \in BlocksOf(mem)
  PROVE  LET first == mem.head.setHead = u
             g == When(~first, StepOff("syncTail", "setPrev", u)
                               \o StepOff("dirtyTail", "setPrev", u))
                    \o When(mem.head.dirtyTail = 0, <<ToHead("dirtyTail", u)>>)
                    \o When(~first, MoveFront(SetList, u))
         IN  g \in Seq(Entry) /\ Len(g) <= 9 /\ MovedSet(mem, Apply(mem, g), u)
<1> DEFINE first == mem.head.setHead = u
           away == ~first
           none == mem.head.dirtyTail = 0
           a1 == StepOff("syncTail", "setPrev", u)
           a2 == StepOff("dirtyTail", "setPrev", u)
           a == a1 \o a2
           e == <<"head", "dirtyTail", u>>
           c == MoveFront(SetList, u)
           g1 == When(away, a)
           g2 == When(none, <<e>>)
           g3 == When(away, c)
           G2 == g1 \o g2
           g == G2 \o g3
           m2 == Apply(mem, g)
           p == mem.setPrev[u]
           n == mem.setNext[u]
           head == mem.head.setHead
<1>1. /\ IsMemory(mem) /\ u \in Units /\ BlocksOf(mem) \subseteq Units /\ 0 \notin Units /\ u # 0
      /\ Elements(SetOf(mem)) = BlocksOf(mem)
  BY BlockUnits, HashMapAssumption DEF Shape, BlocksOf
<1>a1. /\ a1 \in Seq(Entry) /\ Len(a1) \in Nat /\ Len(a1) <= 1
       /\ \A f, x, v : Cell(a1, f, x, v)
            = IF mem.head.syncTail = u /\ f = "head" /\ x = "syncTail" THEN p ELSE v
  <2>1. "syncTail" \in HeadLinks /\ "setPrev" \in UnitLinks
    BY DEF HeadLinks, UnitLinks
  <2> QED  BY <1>1, <2>1, StepOffCells
<1>a2. /\ a2 \in Seq(Entry) /\ Len(a2) \in Nat /\ Len(a2) <= 1
       /\ \A f, x, v : Cell(a2, f, x, v)
            = IF mem.head.dirtyTail = u /\ f = "head" /\ x = "dirtyTail" THEN p ELSE v
  <2>1. "dirtyTail" \in HeadLinks /\ "setPrev" \in UnitLinks
    BY DEF HeadLinks, UnitLinks
  <2> QED  BY <1>1, <2>1, StepOffCells
<1>2. away \in BOOLEAN /\ none \in BOOLEAN
  OBVIOUS
<1>c. ASSUME away
      PROVE  /\ c \in Seq(Entry) /\ Len(c) = 6
             /\ \A f, x, v : Cell(c, f, x, v)
                  = IF f = "head" /\ x = "setHead" THEN u
                    ELSE IF f = "head" /\ x = "setTail" THEN IF n = 0 THEN p ELSE v
                    ELSE IF f = "setNext" THEN IF x = p THEN n ELSE IF x = u THEN head ELSE v
                    ELSE IF f = "setPrev"
                         THEN IF n # 0 /\ x = n THEN p ELSE IF x = u THEN 0
                              ELSE IF x = head THEN u ELSE v
                    ELSE v
             /\ head \notin {0, u} /\ p \notin {0, u} /\ n \notin {u, head}
             /\ n = 0 <=> mem.head.setTail = u
  <2> DEFINE l == SetList
  <2>1. /\ l \in MapLists /\ l.next = "setNext" /\ l.prev = "setPrev"
        /\ l.head = "setHead" /\ l.tail = "setTail"
    BY DEF MapLists, SetList
  <2> HIDE DEF l
  <2>2. /\ mem.head[l.head] \notin {0, u} /\ mem[l.prev][u] \notin {0, u}
        /\ mem[l.next][u] \notin {u, mem.head[l.head]}
        /\ mem[l.next][u] = 0 <=> mem.head[l.tail] = u
    BY <1>c, <2>1, MoveInList
  <2>3. /\ MoveFront(l, u) \in Seq(Entry) /\ Len(MoveFront(l, u)) = 6
        /\ \A f, x, v : Cell(MoveFront(l, u), f, x, v)
             = IF f = "head" /\ x = l.head THEN u
               ELSE IF f = "head" /\ x = l.tail THEN IF mem[l.next][u] = 0 THEN mem[l.prev][u] ELSE v
               ELSE IF f = l.next THEN IF x = mem[l.prev][u] THEN mem[l.next][u]
                                       ELSE IF x = u THEN mem.head[l.head] ELSE v
               ELSE IF f = l.prev
                    THEN IF mem[l.next][u] # 0 /\ x = mem[l.next][u] THEN mem[l.prev][u]
                         ELSE IF x = u THEN 0
                         ELSE IF x = mem.head[l.head] THEN u ELSE v
               ELSE v
    BY <1>1, <2>1, <2>2, MoveFrontCells
  <2>4. c = MoveFront(l, u)
    BY DEF l
  <2> QED  BY <2>1, <2>2, <2>3, <2>4
<1>e. e \in Entry /\ e[1] = "head" /\ e[2] = "dirtyTail" /\ e[3] = u
  BY <1>1, EntryMade DEF HeadLinks, Addr
<1>3. /\ first <=> ~away
      /\ away <=> mem.head.setHead # u
      /\ none <=> mem.head.dirtyTail = 0
  OBVIOUS
<1>4. g = When(~first, StepOff("syncTail", "setPrev", u)
                               \o StepOff("dirtyTail", "setPrev", u))
                    \o When(mem.head.dirtyTail = 0, <<ToHead("dirtyTail", u)>>)
                    \o When(~first, MoveFront(SetList, u))
  BY DEF ToHead
<1> HIDE DEF a1, a2, e, c, away, none, first, p, n, head
<1>a. /\ a \in Seq(Entry) /\ Len(a) \in Nat /\ Len(a) <= 2
      /\ \A f, x, v : Cell(a, f, x, v) = Cell(a2, f, x, Cell(a1, f, x, v))
  <2>1. /\ a \in Seq(Entry) /\ Len(a) = Len(a1) + Len(a2)
        /\ \A f, x, v : Cell(a, f, x, v) = Cell(a2, f, x, Cell(a1, f, x, v))
    BY <1>a1, <1>a2, Joined
  <2> QED  BY <2>1, <1>a1, <1>a2
<1> HIDE DEF a
<1>g1. /\ g1 \in Seq(Entry) /\ Len(g1) \in Nat /\ Len(g1) <= 2
       /\ \A f, x, v : Cell(g1, f, x, v) = IF away THEN Cell(a, f, x, v) ELSE v
  <2>1. /\ When(away, a) \in Seq(Entry) /\ Len(When(away, a)) = IF away THEN Len(a) ELSE 0
        /\ \A f, x, v : Cell(When(away, a), f, x, v) = IF away THEN Cell(a, f, x, v) ELSE v
    BY <1>2, <1>a, WhenFits
  <2> QED  BY <2>1, <1>a
<1>g2. /\ g2 \in Seq(Entry) /\ Len(g2) \in Nat /\ Len(g2) <= 1
       /\ \A f, x, v : Cell(g2, f, x, v)
                         = IF none /\ f = "head" /\ x = "dirtyTail" THEN u ELSE v
  <2>1. /\ When(none, <<e>>) \in Seq(Entry) /\ Len(When(none, <<e>>)) = IF none THEN 1 ELSE 0
        /\ \A f, x, v : Cell(When(none, <<e>>), f, x, v)
                          = IF none /\ f = e[1] /\ x = e[2] THEN e[3] ELSE v
    BY <1>2, <1>e, WhenEntry
  <2> QED  BY <2>1, <1>e
<1>g3. /\ g3 \in Seq(Entry) /\ Len(g3) \in Nat /\ Len(g3) <= 6
       /\ \A f, x, v : Cell(g3, f, x, v) = IF away THEN Cell(c, f, x, v) ELSE v
  <2>1. CASE away
    <3>1. /\ When(away, c) \in Seq(Entry) /\ Len(When(away, c)) = IF away THEN Len(c) ELSE 0
          /\ \A f, x, v : Cell(When(away, c), f, x, v) = IF away THEN Cell(c, f, x, v) ELSE v
      <4>1. c \in Seq(Entry)
        BY <1>c, <2>1
      <4>2. away \in BOOLEAN
        BY <1>2
      <4> QED  BY <4>1, <4>2, WhenFits
    <3>2. Len(c) = 6 /\ (IF away THEN Len(c) ELSE 0) = Len(c)
      BY <2>1, <1>c
    <3>3. Len(g3) = 6
      BY <3>1, <3>2
    <3>4. Len(g3) \in Nat /\ Len(g3) <= 6
      BY <3>3
    <3>5. g3 \in Seq(Entry) /\ \A f, x, v : Cell(g3, f, x, v) = IF away THEN Cell(c, f, x, v) ELSE v
      BY <3>1
    <3> QED  BY <3>4, <3>5
  <2>2. CASE ~away
    <3>1. g3 = <<>>
      BY <2>2 DEF When
    <3> QED  BY <2>2, <3>1, CellNone
  <2> QED  BY <2>1, <2>2
<1> HIDE DEF g1, g2, g3
<1>5. /\ G2 \in Seq(Entry) /\ Len(G2) = Len(g1) + Len(g2)
      /\ \A f, x, v : Cell(G2, f, x, v) = Cell(g2, f, x, Cell(g1, f, x, v))
  BY <1>g1, <1>g2, Joined
<1> HIDE DEF G2
<1>6. /\ g \in Seq(Entry) /\ Len(g) = Len(G2) + Len(g3)
      /\ \A f, x, v : Cell(g, f, x, v) = Cell(g3, f, x, Cell(G2, f, x, v))
  BY <1>5, <1>g3, Joined
<1>7. Len(g) <= 9
  BY <1>5, <1>6, <1>g1, <1>g2, <1>g3
<1> HIDE DEF g
<1>8. \A f, x, v : Cell(g, f, x, v) = Cell(g3, f, x, Cell(g2, f, x, Cell(g1, f, x, v)))
  BY <1>5, <1>6
<1>9. ASSUME NEW f, NEW x, NEW v, f # "head"
      PROVE  Cell(g, f, x, v) = Cell(g3, f, x, v)
  <2>1. Cell(g1, f, x, v) = v
    BY <1>9, <1>g1, <1>a, <1>a1, <1>a2
  <2>2. Cell(g2, f, x, v) = v
    BY <1>9, <1>g2
  <2> QED  BY <1>8, <2>1, <2>2
<1>10. IsMemory(m2)
  BY <1>1, <1>6, ApplyTyped
<1>11. /\ \A f \in UnitLinks, x \in Units : m2[f][x] = Cell(g, f, x, mem[f][x])
       /\ \A h \in Heads : m2.head[h] = Cell(g, "head", h, mem.head[h])
  BY <1>1, AppliedAt
<1>12. ASSUME NEW f \in Fields \ {"head", "setNext", "setPrev"} PROVE m2[f] = mem[f]
  <2>1. \A x, v : Cell(g, f, x, v) = v
    BY <1>9, <1>g3, <1>c
  <2> QED  BY <1>1, <1>6, <2>1, AppliedSame
<1> HIDE DEF m2
<1>13. \A h \in Heads \ {"setHead", "setTail", "dirtyTail", "syncTail"} : m2.head[h] = mem.head[h]
  <2>1. ASSUME NEW h \in Heads \ {"setHead", "setTail", "dirtyTail", "syncTail"}, NEW v
        PROVE  Cell(g, "head", h, v) = v
    <3>1. Cell(g1, "head", h, v) = v
      BY <1>g1, <1>a, <1>a1, <1>a2
    <3>2. Cell(g2, "head", h, v) = v
      BY <1>g2
    <3>3. Cell(g3, "head", h, v) = v
      BY <1>g3, <1>c
    <3> QED  BY <1>8, <3>1, <3>2, <3>3
  <2> QED  BY <1>11, <2>1
<1>14. /\ m2.head.dirtyTail = IF mem.head.dirtyTail = 0 THEN u
                              ELSE IF mem.head.dirtyTail = u /\ away THEN p ELSE mem.head.dirtyTail
       /\ m2.head.syncTail = IF mem.head.syncTail = u /\ away THEN p ELSE mem.head.syncTail
  <2>1. {"dirtyTail", "syncTail"} \subseteq Heads
    BY DEF Heads, HeadLinks
  <2>2. \A h \in {"dirtyTail", "syncTail"} : \A v : Cell(g3, "head", h, v) = v
    BY <1>g3, <1>c
  <2>3. \A h \in {"dirtyTail", "syncTail"} : \A v :
          Cell(g, "head", h, v) = Cell(g2, "head", h, Cell(g1, "head", h, v))
    BY <1>8, <2>2
  <2>4. \A v : Cell(g1, "head", "dirtyTail", v) = IF mem.head.dirtyTail = u /\ away THEN p ELSE v
    BY <1>2, <1>g1, <1>a, <1>a1, <1>a2
  <2>5. \A v : Cell(g1, "head", "syncTail", v) = IF mem.head.syncTail = u /\ away THEN p ELSE v
    BY <1>2, <1>g1, <1>a, <1>a1, <1>a2
  <2>6. \A v : Cell(g2, "head", "dirtyTail", v) = IF none THEN u ELSE v
    BY <1>2, <1>g2
  <2>7. \A v : Cell(g2, "head", "syncTail", v) = v
    BY <1>g2
  <2>8. m2.head.dirtyTail = Cell(g, "head", "dirtyTail", mem.head.dirtyTail)
    BY <1>11, <2>1
  <2>9. m2.head.syncTail = Cell(g, "head", "syncTail", mem.head.syncTail)
    BY <1>11, <2>1
  <2>10. m2.head.dirtyTail = IF mem.head.dirtyTail = 0 THEN u
                              ELSE IF mem.head.dirtyTail = u /\ away THEN p ELSE mem.head.dirtyTail
    BY <1>3, <2>3, <2>4, <2>6, <2>8
  <2>11. m2.head.syncTail = IF mem.head.syncTail = u /\ away THEN p ELSE mem.head.syncTail
    BY <2>3, <2>5, <2>7, <2>9
  <2> QED  BY <2>10, <2>11
<1>15. {"setNext", "setPrev"} \subseteq UnitLinks /\ {"setHead", "setTail"} \subseteq Heads
  BY DEF UnitLinks, Heads, HeadLinks
<1>16. \A h \in {"setHead", "setTail"} : m2.head[h] = Cell(g3, "head", h, mem.head[h])
  <2>1. \A h \in {"setHead", "setTail"} : \A v : Cell(g1, "head", h, v) = v /\ Cell(g2, "head", h, v) = v
    BY <1>g1, <1>g2, <1>a, <1>a1, <1>a2
  <2> QED  BY <1>8, <1>11, <1>15, <2>1
<1>17. \A f \in {"setNext", "setPrev"}, x \in Units : m2[f][x] = Cell(g3, f, x, mem[f][x])
  BY <1>9, <1>11, <1>15
<1>18. IF mem.head.setHead = u THEN SameSet(mem, m2) ELSE MovesSet(mem, m2, u)
  <2>1. CASE ~away
    <3>1. \A f, x, v : Cell(g3, f, x, v) = v
      BY <2>1, <1>g3
    <3>2. SameSet(mem, m2)
      BY <1>1, <1>16, <1>17, <3>1 DEF SameSet
    <3> QED  BY <1>3, <2>1, <3>2
  <2>2. CASE away
    <3>1. /\ m2.head.setHead = u
          /\ m2.head.setTail = IF mem.head.setTail = u THEN p ELSE mem.head.setTail
      BY <2>2, <1>16, <1>g3, <1>c
    <3>2. /\ m2.setNext[u] = head /\ m2.setPrev[u] = 0
          /\ \A x \in Units \ {u} :
               /\ m2.setNext[x] = IF x = p THEN n ELSE mem.setNext[x]
               /\ m2.setPrev[x] = IF x = head THEN u ELSE IF x = n THEN p ELSE mem.setPrev[x]
      <4>1. \A f, x, v : Cell(g3, f, x, v) = Cell(c, f, x, v)
        BY <2>2, <1>g3
      <4>2. \A f \in {"setNext", "setPrev"}, x \in Units : m2[f][x] = Cell(c, f, x, mem[f][x])
        BY <1>17, <4>1
      <4> QED  BY <1>1, <2>2, <4>2, <1>c
    <3>3. Shifts(SetOf(mem), u, mem.head.setHead, mem.setNext, mem.setPrev, m2.setNext, m2.setPrev)
      BY <1>1, <3>2 DEF Shifts, p, n, head
    <3>4. MovesSet(mem, m2, u)
      BY <3>1, <3>3 DEF MovesSet, p
    <3> QED  BY <1>3, <2>2, <3>4
  <2> QED  BY <2>1, <2>2
<1>19. MovedSet(mem, m2, u)
  BY <1>3, <1>10, <1>12, <1>13, <1>14, <1>18 DEF MovedSet, p
<1> QED  BY <1>4, <1>6, <1>7, <1>19 DEF m2, first

\* Memory that differs in the end of the dirty chain alone.
ButDirtyTail(m, m1) ==
    /\ IsMemory(m1) /\ \A f \in Fields \ {"head"} : m1[f] = m[f]
    /\ \A h \in Heads \ {"dirtyTail"} : m1.head[h] = m.head[h]

\* The group with which erase keeps a dirty block.
LEMMA KeepEffect ==
  ASSUME Shape(mem), NEW u \in BlocksOf(mem), mem.head.getHead # u, mem.head.getTail = u,
         NEW m1, ButDirtyTail(mem, m1)
  PROVE  LET p == mem.getPrev[u]
             first == mem.head.getHead
             g == StepOff("backupTail", "getPrev", u)
                    \o <<ToHead("getTail", p), <<"getNext", p, 0>>, <<"getPrev", u, 0>>,
                         <<"getNext", u, first>>, <<"getPrev", first, u>>, ToHead("getHead", u)>>
         IN  g \in Seq(Entry) /\ Len(g) <= 7 /\ MovedGet(m1, Apply(m1, g), u)
<1> DEFINE p == mem.getPrev[u]
           n == mem.getNext[u]
           first == mem.head.getHead
           a == <<"head", "getTail", p>>
           b == <<"getNext", p, 0>>
           c == <<"getPrev", u, 0>>
           d == <<"getNext", u, first>>
           e == <<"getPrev", first, u>>
           k == <<"head", "getHead", u>>
           g1 == StepOff("backupTail", "getPrev", u)
           g2 == <<a, b, c, d, e, k>>
           g == g1 \o g2
           m2 == Apply(m1, g)
<1>1. /\ IsMemory(mem) /\ u \in Units /\ BlocksOf(mem) \subseteq Units /\ 0 \notin Units
      /\ Elements(GetOf(mem)) = BlocksOf(mem)
  BY BlockUnits, HashMapAssumption DEF Shape, GetFits
<1>2. /\ first \notin {0, u} /\ p \notin {0, u} /\ n = 0
      /\ first \in Units /\ p \in Units
  <2>1. /\ mem.head.getHead \in BlocksOf(mem) /\ mem.getPrev[u] \in BlocksOf(mem) \cup {0}
        /\ mem.getPrev[u] # 0 /\ mem.getPrev[u] # u /\ mem.getNext[u] = 0
    BY Ends
  <2> QED  BY <1>1, <2>1
<1>g1. /\ g1 \in Seq(Entry) /\ Len(g1) \in Nat /\ Len(g1) <= 1
       /\ \A f, x, v : Cell(g1, f, x, v)
            = IF mem.head.backupTail = u /\ f = "head" /\ x = "backupTail" THEN p ELSE v
  <2>1. "backupTail" \in HeadLinks /\ "getPrev" \in UnitLinks
    BY DEF HeadLinks, UnitLinks
  <2> QED  BY <1>1, <2>1, StepOffCells
<1>m. /\ \A f \in Fields \ {"head"} : m1[f] = mem[f]
      /\ \A h \in Heads \ {"dirtyTail"} : m1.head[h] = mem.head[h]
      /\ IsMemory(m1)
  BY DEF ButDirtyTail
<1>3. g = StepOff("backupTail", "getPrev", u)
                    \o <<ToHead("getTail", p), <<"getNext", p, 0>>, <<"getPrev", u, 0>>,
                         <<"getNext", u, first>>, <<"getPrev", first, u>>, ToHead("getHead", u)>>
  BY DEF ToHead
<1> HIDE DEF g1, p, n, first
<1>4. a \in Entry /\ b \in Entry /\ c \in Entry /\ d \in Entry /\ e \in Entry /\ k \in Entry
  BY <1>1, <1>2, EntryMade DEF UnitLinks, HeadLinks, Addr
<1>5. ASSUME NEW f, NEW x, NEW v
      PROVE  CellOf(k, f, x, CellOf(e, f, x, CellOf(d, f, x,
                   CellOf(c, f, x, CellOf(b, f, x, CellOf(a, f, x, v))))))
             = IF f = "head" /\ x = "getHead" THEN u
               ELSE IF f = "head" /\ x = "getTail" THEN p
               ELSE IF f = "getNext" THEN IF x = u THEN first ELSE IF x = p THEN 0 ELSE v
               ELSE IF f = "getPrev" THEN IF x = first THEN u ELSE IF x = u THEN 0 ELSE v
               ELSE v
  BY DEF CellOf
<1> HIDE DEF a, b, c, d, e, k
<1>g2. /\ g2 \in Seq(Entry) /\ Len(g2) = 6
       /\ \A f, x, v : Cell(g2, f, x, v)
             = IF f = "head" /\ x = "getHead" THEN u
               ELSE IF f = "head" /\ x = "getTail" THEN p
               ELSE IF f = "getNext" THEN IF x = u THEN first ELSE IF x = p THEN 0 ELSE v
               ELSE IF f = "getPrev" THEN IF x = first THEN u ELSE IF x = u THEN 0 ELSE v
               ELSE v
  BY <1>4, <1>5, SixEntries
<1> HIDE DEF g2
<1>6. /\ g \in Seq(Entry) /\ Len(g) <= 7
      /\ \A f, x, v : Cell(g, f, x, v) = Cell(g2, f, x, Cell(g1, f, x, v))
  <2>1. /\ g \in Seq(Entry) /\ Len(g) = Len(g1) + Len(g2)
        /\ \A f, x, v : Cell(g, f, x, v) = Cell(g2, f, x, Cell(g1, f, x, v))
    BY <1>g1, <1>g2, Joined
  <2> QED  BY <2>1, <1>g1, <1>g2
<1> HIDE DEF g
<1>7. IsMemory(m2)
  BY <1>6, <1>m, ApplyTyped
<1>8. /\ \A f \in UnitLinks, x \in Units : m2[f][x] = Cell(g, f, x, m1[f][x])
      /\ \A h \in Heads : m2.head[h] = Cell(g, "head", h, m1.head[h])
  BY <1>m, AppliedAt
<1>9. ASSUME NEW f \in Fields \ {"head", "getNext", "getPrev"} PROVE m2[f] = m1[f]
  <2>1. \A x, v : Cell(g, f, x, v) = v
    BY <1>6, <1>g1, <1>g2
  <2> QED  BY <1>m, <1>6, <2>1, AppliedSame
<1> HIDE DEF m2
<1>10. \A h \in Heads \ {"getHead", "getTail", "backupTail"} : m2.head[h] = m1.head[h]
  BY <1>6, <1>8, <1>g1, <1>g2
<1>11. /\ {"getHead", "getTail", "backupTail"} \subseteq Heads \ {"dirtyTail"}
       /\ {"getNext", "getPrev"} \subseteq UnitLinks /\ {"getNext", "getPrev"} \subseteq Fields \ {"head"}
  BY DEF Heads, HeadLinks, UnitLinks, Fields
<1>12. /\ m1.getNext = mem.getNext /\ m1.getPrev = mem.getPrev
       /\ m1.head.getHead = first /\ m1.head.getTail = u /\ m1.head.backupTail = mem.head.backupTail
  BY <1>m, <1>11 DEF first
<1>13. /\ m2.head.getHead = u /\ m2.head.getTail = p
       /\ m2.head.backupTail = IF m1.head.backupTail = u THEN p ELSE m1.head.backupTail
  BY <1>6, <1>8, <1>11, <1>12, <1>g1, <1>g2
<1>14. /\ m2.getNext[u] = first /\ m2.getPrev[u] = 0
       /\ \A x \in Units \ {u} :
            /\ m2.getNext[x] = IF x = p THEN n ELSE m1.getNext[x]
            /\ m2.getPrev[x] = IF x = first THEN u ELSE IF x = n THEN p ELSE m1.getPrev[x]
  BY <1>1, <1>2, <1>6, <1>8, <1>11, <1>g1, <1>g2
<1>15. GetOf(m1) = GetOf(mem)
  BY <1>12 DEF GetOf, first
<1>16. Shifts(GetOf(m1), u, m1.head.getHead, m1.getNext, m1.getPrev, m2.getNext, m2.getPrev)
  BY <1>1, <1>12, <1>14, <1>15 DEF Shifts, p, n, first
<1>17. MovedGet(m1, m2, u)
  BY <1>7, <1>9, <1>10, <1>12, <1>13, <1>16 DEF MovedGet, MovesGet, p
<1> QED  BY <1>3, <1>6, <1>17 DEF m2, p, first
=============================================================================
