-------------------------- MODULE CoroutinesProofs --------------------------
(***************************************************************************)
(* For any number of coroutines, any chunk and batch: a coroutine is on    *)
(* the list of its status, the sizes are those of the pool, no assert of   *)
(* the moves fails, and, until the scheduler is told to end, a coroutine   *)
(* that waits has exactly one wake-up to come.                             *)
(*                                                                         *)
(* Neither half stands alone: that a wake-up finds its coroutine off the   *)
(* lists is a fact about the wake-ups to come, and that the one that runs  *)
(* waits for nothing is a fact about the lists.                            *)
(***************************************************************************)
EXTENDS Coroutines, FiniteSetTheorems, TLAPS

\* No coroutine is twice in s.
Once(s) == \A i, j \in DOMAIN s : s[i] = s[j] => i = j

Made == {c \in Coros : status[c] # "none"}
Used == {c \in Coros : status[c] \notin {"none", "free"}}

Lists ==
    /\ Once(avail) /\ Elements(avail) = {c \in Coros : status[c] = "avail"}
    /\ Once(active) /\ Elements(active) = {c \in Coros : status[c] = "active"}
    /\ cur # Main => status[cur] \in Runnable

Sizes == currentSize = Cardinality(Made) /\ usedSize = Cardinality(Used)

\* What the places where c may be found say of each other.
Waiting(c) ==
    /\ c \in Elements(queue) => status[c] = "inactive" /\ call[c] = "put"
    /\ c \in Elements(need) => status[c] = "inactive" /\ call[c] = "no"
    /\ c \in asleep => c \notin Elements(due)
    /\ status[c] = "timeout" <=> c \in asleep \/ c \in Elements(due)
    /\ status[c] = "timeout" => call[c] = "no"
    /\ call[c] \in {"sent", "arrived"} => status[c] = "inactive"
    /\ call[c] = "arrived" <=> c \in Elements(arrived)
    /\ call[c] = "put" => c \in Elements(queue) \/ status[c] = "active"
    /\ status[c] = "inactive" => \/ call[c] \in {"sent", "arrived"}
                                 \/ c \in Elements(queue) \/ c \in Elements(need)
    /\ c = cur => call[c] = "no"

WakeUps ==
    /\ Once(queue) /\ Once(need) /\ Once(due) /\ Once(arrived)
    /\ \A c \in Coros : Waiting(c)

CoroInv ==
    /\ TypeOK /\ Lists /\ Sizes
    /\ asserted = FALSE
    /\ terminated = FALSE => WakeUps

-----------------------------------------------------------------------------
(* The lists of the scheduler as sequences: what they hold after the       *)
(* operations on them, and that nothing is on them twice.                  *)

LEMMA EmptyList == Elements(<<>>) = {} /\ Once(<<>>) /\ <<>> \in Seq(Coros)
  BY DEF Elements, Once

LEMMA ElementsTyped ==
  ASSUME NEW s \in Seq(Coros)
  PROVE  Elements(s) \subseteq Coros
  BY DEF Elements

LEMMA HeadListed ==
  ASSUME NEW s \in Seq(Coros), s # <<>>
  PROVE  Head(s) \in Elements(s)
  BY DEF Elements

LEMMA Appended ==
  ASSUME NEW s \in Seq(Coros), NEW c \in Coros
  PROVE  /\ Append(s, c) \in Seq(Coros)
         /\ Elements(Append(s, c)) = Elements(s) \cup {c}
         /\ Once(s) /\ c \notin Elements(s) => Once(Append(s, c))
<1> DEFINE t == Append(s, c)
<1>1. /\ t \in Seq(Coros) /\ Len(t) = Len(s) + 1
      /\ \A i \in 1..Len(s) : t[i] = s[i]
      /\ t[Len(s) + 1] = c /\ DOMAIN t = 1..(Len(s) + 1) /\ DOMAIN s = 1..Len(s)
      /\ Len(s) \in Nat
  OBVIOUS
<1> HIDE DEF t
<1>2. Elements(t) = Elements(s) \cup {c}
  <2>1. \A x \in Elements(t) : x \in Elements(s) \cup {c}
    BY <1>1 DEF Elements
  <2>2. \A x \in Elements(s) : x \in Elements(t)
    BY <1>1 DEF Elements
  <2>3. c \in Elements(t)
    BY <1>1 DEF Elements
  <2> QED  BY <2>1, <2>2, <2>3
<1>3. ASSUME Once(s), c \notin Elements(s) PROVE Once(t)
  BY <1>1, <1>3 DEF Elements, Once
<1> QED  BY <1>1, <1>2, <1>3 DEF t

LEMMA Joined ==
  ASSUME NEW s \in Seq(Coros), NEW r \in Seq(Coros)
  PROVE  /\ s \o r \in Seq(Coros)
         /\ Elements(s \o r) = Elements(s) \cup Elements(r)
         /\ Once(s) /\ Once(r) /\ Elements(s) \cap Elements(r) = {} => Once(s \o r)
<1> DEFINE t == s \o r
<1>1. /\ t \in Seq(Coros) /\ Len(t) = Len(s) + Len(r)
      /\ \A i \in 1..Len(s) : t[i] = s[i]
      /\ \A i \in 1..Len(r) : t[Len(s) + i] = r[i]
      /\ DOMAIN t = 1..(Len(s) + Len(r)) /\ DOMAIN s = 1..Len(s) /\ DOMAIN r = 1..Len(r)
      /\ Len(s) \in Nat /\ Len(r) \in Nat
  OBVIOUS
<1> HIDE DEF t
<1>a. ASSUME NEW i \in DOMAIN t
      PROVE  \/ i \in DOMAIN s /\ t[i] = s[i]
             \/ i - Len(s) \in DOMAIN r /\ t[i] = r[i - Len(s)]
  <2>1. CASE i <= Len(s)
    BY <1>1, <2>1
  <2>2. CASE i > Len(s)
    <3>1. i - Len(s) \in 1..Len(r) /\ Len(s) + (i - Len(s)) = i
      BY <1>1, <2>2
    <3> QED  BY <1>1, <3>1
  <2> QED  BY <1>1, <2>1, <2>2
<1>2. Elements(t) = Elements(s) \cup Elements(r)
  <2>1. \A x \in Elements(t) : x \in Elements(s) \cup Elements(r)
    BY <1>a DEF Elements
  <2>2. \A x \in Elements(s) : x \in Elements(t)
    BY <1>1 DEF Elements
  <2>3. ASSUME NEW x \in Elements(r) PROVE x \in Elements(t)
    <3>1. PICK i \in 1..Len(r) : x = r[i]
      BY <1>1 DEF Elements
    <3>2. Len(s) + i \in DOMAIN t /\ t[Len(s) + i] = x
      BY <1>1, <3>1
    <3> QED  BY <3>2 DEF Elements
  <2> QED  BY <2>1, <2>2, <2>3
<1>3. ASSUME Once(s), Once(r), Elements(s) \cap Elements(r) = {} PROVE Once(t)
  <2> SUFFICES ASSUME NEW i \in DOMAIN t, NEW j \in DOMAIN t, t[i] = t[j]
               PROVE  i = j
    BY DEF Once
  <2>1. CASE i \in DOMAIN s /\ t[i] = s[i] /\ j \in DOMAIN s /\ t[j] = s[j]
    BY <1>3, <2>1 DEF Once
  <2>2. CASE /\ i - Len(s) \in DOMAIN r /\ t[i] = r[i - Len(s)]
             /\ j - Len(s) \in DOMAIN r /\ t[j] = r[j - Len(s)]
    <3>1. i - Len(s) = j - Len(s)
      BY <1>3, <2>2 DEF Once
    <3> QED  BY <1>1, <3>1
  <2>3. CASE /\ i \in DOMAIN s /\ t[i] = s[i]
             /\ j - Len(s) \in DOMAIN r /\ t[j] = r[j - Len(s)]
    <3>1. t[i] \in Elements(s) /\ t[j] \in Elements(r)
      BY <2>3 DEF Elements
    <3> QED  BY <1>3, <3>1
  <2>4. CASE /\ j \in DOMAIN s /\ t[j] = s[j]
             /\ i - Len(s) \in DOMAIN r /\ t[i] = r[i - Len(s)]
    <3>1. t[j] \in Elements(s) /\ t[i] \in Elements(r)
      BY <2>4 DEF Elements
    <3> QED  BY <1>3, <3>1
  <2> QED  BY <1>a, <2>1, <2>2, <2>3, <2>4
<1> QED  BY <1>1, <1>2, <1>3 DEF t

\* CoroutineDel takes its coroutine off the list and leaves the rest.
LEMMA Unlinked ==
  ASSUME NEW s \in Seq(Coros), Once(s), NEW c \in Coros
  PROVE  /\ Without(s, c) \in Seq(Coros) /\ Once(Without(s, c))
         /\ Elements(Without(s, c)) = Elements(s) \ {c}
<1>1. CASE c \notin Elements(s)
  BY <1>1 DEF Without
<1>2. CASE c \in Elements(s)
  <2> DEFINE i == CHOOSE i \in DOMAIN s : s[i] = c
             t == [j \in 1..(Len(s) - 1) |-> IF j < i THEN s[j] ELSE s[j + 1]]
  <2>1. i \in 1..Len(s) /\ s[i] = c
    BY <1>2 DEF Elements
  <2>2. Without(s, c) = t
    BY <1>2 DEF Without
  <2> HIDE DEF i
  <2>3. Len(s) \in Nat /\ Len(s) - 1 \in Nat /\ DOMAIN s = 1..Len(s)
    BY <2>1
  <2>4. t \in Seq(Coros) /\ DOMAIN t = 1..(Len(s) - 1)
    <3>1. \A j \in 1..(Len(s) - 1) : t[j] \in Coros
      BY <2>1, <2>3
    <3> QED  BY <2>3, <3>1
  <2>5. \A j \in 1..(Len(s) - 1) :
          /\ j < i => t[j] = s[j]
          /\ j >= i => t[j] = s[j + 1]
    BY <2>1, <2>3
  <2> HIDE DEF t
  <2>6. Once(t)
    <3> SUFFICES ASSUME NEW j \in 1..(Len(s) - 1), NEW k \in 1..(Len(s) - 1), t[j] = t[k]
                 PROVE  j = k
      BY <2>4 DEF Once
    <3>1. CASE j < i /\ k < i
      BY <2>1, <2>3, <2>5, <3>1 DEF Once
    <3>2. CASE j >= i /\ k >= i
      <4>1. s[j + 1] = s[k + 1] /\ j + 1 \in DOMAIN s /\ k + 1 \in DOMAIN s
        BY <2>1, <2>3, <2>5, <3>2
      <4>2. j + 1 = k + 1
        BY <4>1 DEF Once
      <4> QED  BY <4>2
    <3>3. CASE j < i /\ k >= i
      <4>1. s[j] = s[k + 1] /\ j \in DOMAIN s /\ k + 1 \in DOMAIN s
        BY <2>1, <2>3, <2>5, <3>3
      <4>2. j = k + 1
        BY <4>1 DEF Once
      <4> QED  BY <2>1, <3>3, <4>2
    <3>4. CASE j >= i /\ k < i
      <4>1. s[k] = s[j + 1] /\ k \in DOMAIN s /\ j + 1 \in DOMAIN s
        BY <2>1, <2>3, <2>5, <3>4
      <4>2. k = j + 1
        BY <4>1 DEF Once
      <4> QED  BY <2>1, <3>4, <4>2
    <3> QED  BY <2>1, <3>1, <3>2, <3>3, <3>4
  <2>7. ASSUME NEW j \in 1..(Len(s) - 1) PROVE t[j] \in Elements(s) /\ t[j] # c
    <3>1. CASE j < i
      <4>1. t[j] = s[j] /\ j \in DOMAIN s /\ j # i
        BY <2>1, <2>3, <2>5, <3>1
      <4> QED  BY <2>1, <2>3, <4>1 DEF Once, Elements
    <3>2. CASE j >= i
      <4>1. t[j] = s[j + 1] /\ j + 1 \in DOMAIN s /\ j + 1 # i
        BY <2>1, <2>3, <2>5, <3>2
      <4> QED  BY <2>1, <2>3, <4>1 DEF Once, Elements
    <3> QED  BY <2>1, <3>1, <3>2
  <2>8. ASSUME NEW x \in Elements(s), x # c PROVE x \in Elements(t)
    <3>1. PICK j \in 1..Len(s) : s[j] = x
      BY <2>3 DEF Elements
    <3>2. j # i
      BY <2>1, <2>8, <3>1
    <3>3. CASE j < i
      <4>1. j \in DOMAIN t /\ t[j] = x
        BY <2>1, <2>3, <2>4, <2>5, <3>1, <3>3
      <4> QED  BY <4>1 DEF Elements
    <3>4. CASE j > i
      <4>1. j - 1 \in 1..(Len(s) - 1) /\ j - 1 >= i /\ (j - 1) + 1 = j
        BY <2>1, <2>3, <3>4
      <4>2. j - 1 \in DOMAIN t /\ t[j - 1] = x
        BY <2>4, <2>5, <3>1, <4>1
      <4> QED  BY <4>2 DEF Elements
    <3> QED  BY <2>1, <3>2, <3>3, <3>4
  <2>9. Elements(t) = Elements(s) \ {c}
    <3>1. \A x \in Elements(t) : x \in Elements(s) /\ x # c
      BY <2>4, <2>7 DEF Elements
    <3> QED  BY <2>8, <3>1
  <2> QED  BY <2>2, <2>4, <2>6, <2>9
<1> QED  BY <1>1, <1>2

\* A list on which nothing is twice is as long as the set of its elements.
LEMMA OnceCounted ==
  ASSUME NEW s \in Seq(Coros), Once(s)
  PROVE  Distinct(s)
<1>1. s \in [1..Len(s) -> Elements(s)] /\ Len(s) \in Nat /\ DOMAIN s = 1..Len(s)
  BY DEF Elements
<1>2. s \in Bijection(1..Len(s), Elements(s))
  BY <1>1 DEF Bijection, Injection, IsInjective, Surjection, Once, Elements
<1>3. ExistsBijection(1..Len(s), Elements(s))
  BY <1>2 DEF ExistsBijection
<1> QED  BY <1>1, <1>3, FS_CountingElements DEF Distinct

-----------------------------------------------------------------------------
(* The pool is finite, so its parts can be counted. *)

LEMMA PartsFinite ==
  /\ IsFiniteSet(Made) /\ Cardinality(Made) \in Nat
  /\ IsFiniteSet(Used) /\ Cardinality(Used) \in Nat
  /\ PoolSize \in Nat
BY CoroutineAssumption, FS_Subset, FS_CardinalityType DEF Made, Used, PoolSize

-----------------------------------------------------------------------------
(* What the invariant implies. *)

LEMMA InvLists == CoroInv => ListsAgree
  BY OnceCounted DEF CoroInv, Lists, Sizes, Made, Used, ListsAgree, TypeOK

\* The places of c in a list; one at most where nothing is twice.
Places(tag, s, c) == {<<tag, i>> : i \in {i \in DOMAIN s : s[i] = c}}

LEMMA OnePlace ==
  ASSUME NEW s \in Seq(Coros), Once(s), NEW c, NEW tag
  PROVE  /\ c \notin Elements(s) => Places(tag, s, c) = {}
         /\ c \in Elements(s) => \E x : Places(tag, s, c) = {x}
<1> DEFINE D == {i \in DOMAIN s : s[i] = c}
           P == {<<tag, i>> : i \in D}
<1>0. Places(tag, s, c) = P
  BY DEF Places
<1>1. ASSUME c \notin Elements(s) PROVE P = {}
  BY <1>1 DEF Elements
<1>2. ASSUME c \in Elements(s) PROVE \E x : P = {x}
  <2>1. PICK i \in DOMAIN s : s[i] = c
    BY <1>2 DEF Elements
  <2>2. D = {i}
    BY <2>1 DEF Once
  <2>3. P = {<<tag, i>>}
    BY <2>2
  <2> QED  BY <2>3
<1> QED  BY <1>0, <1>1, <1>2

LEMMA InvReason == CoroInv => OneReason
<1> SUFFICES ASSUME CoroInv PROVE OneReason
  OBVIOUS
<1> USE DEF CoroInv
<1> SUFFICES ASSUME terminated = FALSE, NEW c \in Coros
             PROVE  /\ Cardinality(Reasons(c)) = IF status[c] \in {"inactive", "timeout"} THEN 1 ELSE 0
                    /\ status[c] = "timeout" <=> c \in asleep \cup Elements(due)
                    /\ call[c] = "arrived" <=> c \in Elements(arrived)
                    /\ call[c] = "put" => c \in Elements(queue) \/ status[c] = "active"
  BY DEF OneReason, TypeOK
<1>1. /\ Once(queue) /\ Once(need) /\ Once(due) /\ Waiting(c)
      /\ queue \in Seq(Coros) /\ need \in Seq(Coros) /\ due \in Seq(Coros)
      /\ status[c] \in Statuses /\ call[c] \in {"no", "sent", "arrived", "put"}
  BY DEF WakeUps, TypeOK
<1> DEFINE A == {<<"call", 0>> : d \in {d \in {c} : call[d] \in {"sent", "arrived"}}}
           B == Places("queue", queue, c)
           N == Places("need", need, c)
           S == {<<"asleep", 0>> : d \in asleep \cap {c}}
           D == Places("due", due, c)
<1>2. /\ call[c] \notin {"sent", "arrived"} => A = {}
      /\ call[c] \in {"sent", "arrived"} => A = {<<"call", 0>>}
  OBVIOUS
<1>3. (c \notin Elements(queue) => B = {}) /\ (c \in Elements(queue) => \E x : B = {x})
  BY <1>1, OnePlace
<1>4. (c \notin Elements(need) => N = {}) /\ (c \in Elements(need) => \E x : N = {x})
  BY <1>1, OnePlace
<1>5. (c \notin asleep => S = {}) /\ (c \in asleep => S = {<<"asleep", 0>>})
  OBVIOUS
<1>6. (c \notin Elements(due) => D = {}) /\ (c \in Elements(due) => \E x : D = {x})
  BY <1>1, OnePlace
<1>7. Reasons(c) = A \cup B \cup N \cup S \cup D
  BY DEF Reasons, Places
<1> HIDE DEF A, B, N, S, D
<1>8. ASSUME status[c] \in {"inactive", "timeout"} PROVE Cardinality(Reasons(c)) = 1
  <2>1. \E x : Reasons(c) = {x}
    <3>1. CASE call[c] \in {"sent", "arrived"}
      <4>1. B = {} /\ N = {} /\ S = {} /\ D = {}
        BY <1>1, <1>3, <1>4, <1>5, <1>6, <3>1 DEF Waiting
      <4> QED  BY <1>2, <1>7, <3>1, <4>1
    <3>2. CASE c \in Elements(queue)
      <4>1. A = {} /\ N = {} /\ S = {} /\ D = {}
        BY <1>1, <1>2, <1>4, <1>5, <1>6, <3>2 DEF Waiting
      <4> QED  BY <1>3, <1>7, <3>2, <4>1
    <3>3. CASE c \in Elements(need)
      <4>1. A = {} /\ B = {} /\ S = {} /\ D = {}
        BY <1>1, <1>2, <1>3, <1>5, <1>6, <3>3 DEF Waiting
      <4> QED  BY <1>4, <1>7, <3>3, <4>1
    <3>4. CASE c \in asleep
      <4>1. A = {} /\ B = {} /\ N = {} /\ D = {}
        BY <1>1, <1>2, <1>3, <1>4, <1>6, <3>4 DEF Waiting
      <4> QED  BY <1>5, <1>7, <3>4, <4>1
    <3>5. CASE c \in Elements(due)
      <4>1. A = {} /\ B = {} /\ N = {} /\ S = {}
        BY <1>1, <1>2, <1>3, <1>4, <1>5, <3>5 DEF Waiting
      <4> QED  BY <1>6, <1>7, <3>5, <4>1
    <3> QED  BY <1>1, <1>8, <3>1, <3>2, <3>3, <3>4, <3>5 DEF Waiting
  <2> QED  BY <2>1, FS_Singleton
<1>9. ASSUME status[c] \notin {"inactive", "timeout"} PROVE Cardinality(Reasons(c)) = 0
  <2>1. A = {} /\ B = {} /\ N = {} /\ S = {} /\ D = {}
    BY <1>1, <1>2, <1>3, <1>4, <1>5, <1>6, <1>9 DEF Waiting
  <2> QED  BY <1>7, <2>1, FS_EmptySet
<1> QED  BY <1>1, <1>8, <1>9 DEF Waiting

-----------------------------------------------------------------------------
(* The initial state. *)

LEMMA InvInit == Init => CoroInv
<1> SUFFICES ASSUME Init PROVE CoroInv
  OBVIOUS
<1>1. PICK made \in SUBSET Coros :
        /\ Cardinality(made) = currentSize
        /\ status = [c \in Coros |-> IF c \in made THEN "free" ELSE "none"]
  BY DEF Init
<1>2. currentSize \in Nat
  BY PartsFinite, CoroutineAssumption DEF Init, Least
<1>3. TypeOK
  <2>1. status \in [Coros -> Statuses]
    BY <1>1 DEF Statuses
  <2>2. 0 \in 0..Batch /\ Main \in Coros \cup {Main}
    BY CoroutineAssumption
  <2>3. call \in [Coros -> {"no", "sent", "arrived", "put"}]
    BY DEF Init
  <2> QED  BY <1>2, <2>1, <2>2, <2>3, EmptyList DEF Init, TypeOK
<1>4. Lists
  BY <1>1, EmptyList DEF Init, Lists
<1>5. Sizes
  <2>1. Made = made /\ Used = {}
    BY <1>1 DEF Made, Used
  <2> QED  BY <1>1, <2>1, FS_EmptySet DEF Init, Sizes
<1>6. WakeUps
  BY <1>1, EmptyList DEF Init, WakeUps, Waiting
<1> QED  BY <1>3, <1>4, <1>5, <1>6 DEF Init, CoroInv

-----------------------------------------------------------------------------
(* Steps that leave the lists alone. *)

\* The lists and the sizes depend on these variables only.
LEMMA ListsSame ==
  ASSUME Lists, Sizes, UNCHANGED <<status, avail, active, sizes>>,
         cur' = Main \/ cur' = cur \/ status[cur'] \in Runnable
  PROVE  Lists' /\ Sizes'
<1>1. Made' = Made /\ Used' = Used
  BY DEF Made, Used
<1>2. Sizes'
  BY <1>1 DEF Sizes, sizes
<1> QED  BY <1>2 DEF Lists

LEMMA StepStutter == CoroInv /\ UNCHANGED vars => CoroInv'
<1> SUFFICES ASSUME CoroInv, UNCHANGED vars PROVE CoroInv'
  OBVIOUS
<1> USE DEF CoroInv, vars, timing, sizes
<1>1. Lists' /\ Sizes'
  BY ListsSame
<1>2. TypeOK'
  BY DEF TypeOK
<1>3. terminated = FALSE => WakeUps'
  BY DEF WakeUps, Waiting
<1> QED  BY <1>1, <1>2, <1>3

LEMMA StepLoop == CoroInv /\ (Run \/ Top \/ Check \/ Terminate) => CoroInv'
<1> SUFFICES ASSUME CoroInv, Run \/ Top \/ Check \/ Terminate PROVE CoroInv'
  OBVIOUS
<1> USE DEF CoroInv, timing, sizes
<1>0. /\ UNCHANGED <<loop, cur, status, avail, active, queue, need, asleep, due,
                     currentSize, usedSize, call, arrived, asserted>>
      /\ pc' \in {pc, "top", "ended", "epoll", "wakeup"}
      /\ terminated' \in BOOLEAN /\ (terminated' = FALSE => terminated = FALSE)
  BY DEF Run, Top, Check, Terminate, TypeOK
<1>1. Lists' /\ Sizes'
  BY <1>0, ListsSame
<1>2. TypeOK'
  BY <1>0 DEF TypeOK
<1>3. terminated' = FALSE => WakeUps'
  BY <1>0 DEF WakeUps, Waiting
<1> QED  BY <1>0, <1>1, <1>2, <1>3

LEMMA StepSwitch == CoroInv /\ (RunActive \/ RunAvail) => CoroInv'
<1> SUFFICES ASSUME CoroInv, RunActive \/ RunAvail PROVE CoroInv'
  OBVIOUS
<1> USE DEF CoroInv, timing, sizes
<1>0. /\ UNCHANGED <<status, avail, active, queue, need, asleep, due,
                     currentSize, usedSize, terminated, arrived, asserted>>
      /\ cur = Main
      /\ pc' \in {pc, "avail", "check"} /\ loop' \in 0..Batch
      /\ \/ UNCHANGED <<cur, call>>
         \/ \E c \in Elements(avail) \cup Elements(active) : SwitchTo(c)
  <2>1. CASE RunActive
    BY <2>1, HeadListed, CoroutineAssumption DEF RunActive, At, TypeOK
  <2>2. CASE RunAvail
    BY <2>2, HeadListed, CoroutineAssumption DEF RunAvail, At, TypeOK
  <2> QED  BY <2>1, <2>2
<1>a. CASE UNCHANGED <<cur, call>>
  <2>1. Lists' /\ Sizes'
    BY <1>0, <1>a, ListsSame
  <2>2. TypeOK'
    BY <1>0, <1>a DEF TypeOK
  <2>3. terminated' = FALSE => WakeUps'
    BY <1>0, <1>a DEF WakeUps, Waiting
  <2> QED  BY <1>0, <2>1, <2>2, <2>3
<1>b. ASSUME NEW c \in Elements(avail) \cup Elements(active), SwitchTo(c) PROVE CoroInv'
  <2>0. c \in Coros /\ status[c] \in Runnable
    BY DEF Lists, Runnable
  <2>1. cur' = c /\ call' = [call EXCEPT ![c] = "no"]
    BY <1>b DEF SwitchTo
  <2>2. Lists' /\ Sizes'
    BY <1>0, <2>0, <2>1, ListsSame
  <2>3. TypeOK'
    BY <1>0, <2>0, <2>1 DEF TypeOK
  <2>4. ASSUME terminated' = FALSE PROVE WakeUps'
    <3>1. Once(queue)' /\ Once(need)' /\ Once(due)' /\ Once(arrived)'
      BY <1>0, <2>4 DEF WakeUps
    <3>2. ASSUME NEW d \in Coros PROVE Waiting(d)'
      BY <1>0, <2>0, <2>1, <2>4 DEF WakeUps, Waiting, Runnable, TypeOK
    <3> QED  BY <3>1, <3>2 DEF WakeUps
  <2> QED  BY <1>0, <2>2, <2>3, <2>4
<1> QED  BY <1>0, <1>a, <1>b

LEMMA StepDone == CoroInv /\ Done => CoroInv'
<1> SUFFICES ASSUME CoroInv, Done PROVE CoroInv'
  OBVIOUS
<1> USE DEF CoroInv, timing, sizes
<1>0. /\ UNCHANGED <<loop, cur, status, avail, active, need, asleep, due,
                     currentSize, usedSize, terminated, asserted>>
      /\ pc' = "wakeup" /\ cur = Main
  BY DEF Done, At
<1>1. Lists' /\ Sizes'
  BY <1>0, ListsSame
<1>2. CASE terminated = TRUE
  <2>1. UNCHANGED <<queue, arrived, call>>
    BY <1>2 DEF Done
  <2>2. TypeOK'
    BY <1>0, <2>1 DEF TypeOK
  <2> QED  BY <1>0, <1>1, <1>2, <2>2
<1>3. CASE terminated = FALSE
  <2>1. /\ queue' = queue \o arrived /\ arrived' = <<>>
        /\ call' = [c \in Coros |-> IF c \in Elements(arrived) THEN "put" ELSE call[c]]
    BY <1>3 DEF Done, Put
  <2>2. /\ queue \in Seq(Coros) /\ arrived \in Seq(Coros) /\ Once(queue) /\ Once(arrived)
        /\ \A c \in Coros : Waiting(c)
    BY <1>3 DEF TypeOK, WakeUps
  <2>3. Elements(queue) \cap Elements(arrived) = {}
    BY <2>2, ElementsTyped DEF Waiting
  <2>4. /\ queue' \in Seq(Coros) /\ Once(queue')
        /\ Elements(queue') = Elements(queue) \cup Elements(arrived)
    BY <2>1, <2>2, <2>3, Joined
  <2>5. arrived' \in Seq(Coros) /\ Once(arrived') /\ Elements(arrived') = {}
    BY <2>1, EmptyList
  <2>6. TypeOK'
    BY <1>0, <2>1, <2>4, <2>5 DEF TypeOK
  <2>7. WakeUps'
    <3>1. ASSUME NEW d \in Coros PROVE Waiting(d)'
      BY <1>0, <2>1, <2>2, <2>4, <2>5, CoroutineAssumption DEF Waiting, TypeOK
    <3> QED  BY <1>0, <1>3, <2>4, <2>5, <3>1 DEF WakeUps
  <2> QED  BY <1>0, <1>1, <2>6, <2>7
<1> QED  BY <1>2, <1>3 DEF TypeOK

LEMMA StepArrive ==
  ASSUME CoroInv, NEW c \in Coros, Arrive(c)
  PROVE  CoroInv'
<1> USE DEF CoroInv, timing, sizes
<1>0. /\ UNCHANGED <<pc, loop, cur, status, avail, active, queue, need, asleep, due,
                     currentSize, usedSize, terminated, asserted>>
      /\ call[c] = "sent"
      /\ call' = [call EXCEPT ![c] = "arrived"] /\ arrived' = Append(arrived, c)
  BY DEF Arrive
<1>1. Lists' /\ Sizes'
  BY <1>0, ListsSame
<1>2. /\ arrived' \in Seq(Coros) /\ Elements(arrived') = Elements(arrived) \cup {c}
      /\ Once(arrived) /\ c \notin Elements(arrived) => Once(arrived')
  BY <1>0, Appended DEF TypeOK
<1>3. TypeOK'
  BY <1>0, <1>2 DEF TypeOK
<1>4. ASSUME terminated' = FALSE PROVE WakeUps'
  <2>1. WakeUps /\ Waiting(c)
    BY <1>0, <1>4 DEF WakeUps
  <2>2. Once(arrived')
    BY <1>0, <1>2, <2>1 DEF WakeUps, Waiting
  <2>3. ASSUME NEW d \in Coros PROVE Waiting(d)'
    BY <1>0, <1>2, <2>1 DEF WakeUps, Waiting, TypeOK
  <2> QED  BY <1>0, <2>1, <2>2, <2>3 DEF WakeUps
<1> QED  BY <1>0, <1>1, <1>3, <1>4

LEMMA StepExpire ==
  ASSUME CoroInv, NEW c \in Coros, Expire(c)
  PROVE  CoroInv'
<1> USE DEF CoroInv, timing, sizes
<1>0. /\ UNCHANGED <<pc, loop, cur, status, avail, active, queue, need,
                     currentSize, usedSize, terminated, call, arrived, asserted>>
      /\ c \in asleep /\ asleep' = asleep \ {c} /\ due' = Append(due, c)
  BY DEF Expire
<1>1. Lists' /\ Sizes'
  BY <1>0, ListsSame
<1>2. /\ due' \in Seq(Coros) /\ Elements(due') = Elements(due) \cup {c}
      /\ Once(due) /\ c \notin Elements(due) => Once(due')
  BY <1>0, Appended DEF TypeOK
<1>3. TypeOK'
  BY <1>0, <1>2 DEF TypeOK
<1>4. ASSUME terminated' = FALSE PROVE WakeUps'
  <2>1. WakeUps /\ Waiting(c)
    BY <1>0, <1>4 DEF WakeUps
  <2>2. Once(due')
    BY <1>0, <1>2, <2>1 DEF WakeUps, Waiting
  <2>3. ASSUME NEW d \in Coros PROVE Waiting(d)'
    BY <1>0, <1>2, <2>1 DEF WakeUps, Waiting, TypeOK
  <2> QED  BY <1>0, <2>1, <2>2, <2>3 DEF WakeUps
<1> QED  BY <1>0, <1>1, <1>3, <1>4

-----------------------------------------------------------------------------
(* The one that runs gives up control. *)

\* The moves off the lists of the runnable: the assert holds, and the lists agree after it.
LEMMA Left ==
  ASSUME TypeOK, Lists, asserted = FALSE, cur # Main,
         NEW new \in {"free", "inactive", "timeout"}, NEW from, Runnable \subseteq from,
         LeaveTo(new, from)
  PROVE  /\ asserted' = FALSE /\ cur' = Main /\ cur \in Coros
         /\ status' \in [Coros -> Statuses] /\ avail' \in Seq(Coros) /\ active' \in Seq(Coros)
         /\ status[cur] \in Runnable /\ status' = [status EXCEPT ![cur] = new]
         /\ Lists'
<1>1. /\ cur \in Coros /\ status[cur] \in Runnable /\ cur' = Main
      /\ status' = [status EXCEPT ![cur] = new] /\ status' \in [Coros -> Statuses]
      /\ avail' = Without(avail, cur) /\ active' = Without(active, cur)
  BY DEF LeaveTo, TypeOK, Lists, Statuses
<1>2. asserted' = FALSE
  BY <1>1 DEF LeaveTo
<1>3. /\ avail' \in Seq(Coros) /\ Once(avail') /\ Elements(avail') = Elements(avail) \ {cur}
      /\ active' \in Seq(Coros) /\ Once(active') /\ Elements(active') = Elements(active) \ {cur}
  BY <1>1, Unlinked DEF TypeOK, Lists
<1>4. Elements(avail') = {c \in Coros : status'[c] = "avail"}
  BY <1>1, <1>3 DEF Lists, TypeOK
<1>5. Elements(active') = {c \in Coros : status'[c] = "active"}
  BY <1>1, <1>3 DEF Lists, TypeOK
<1> QED  BY <1>1, <1>2, <1>3, <1>4, <1>5 DEF Lists

\* One that waits stays in use.
LEMMA LeftInUse ==
  ASSUME TypeOK, Sizes, cur \in Coros, status[cur] \in Runnable,
         NEW new \in {"inactive", "timeout"}, status' = [status EXCEPT ![cur] = new],
         UNCHANGED sizes
  PROVE  Sizes'
<1>1. Made' = Made /\ Used' = Used
  BY DEF Made, Used, TypeOK, Runnable
<1> QED  BY <1>1 DEF Sizes, sizes

LEMMA StepYield == CoroInv /\ Yield => CoroInv'
<1> SUFFICES ASSUME CoroInv, Yield PROVE CoroInv'
  OBVIOUS
<1> USE DEF CoroInv, timing, sizes
<1>0. /\ UNCHANGED <<pc, loop, queue, asleep, due, currentSize, usedSize, terminated, call, arrived>>
      /\ cur # Main /\ need' = Append(need, cur) /\ LeaveTo("inactive", Runnable)
  BY DEF Yield
<1>1. /\ asserted' = FALSE /\ cur' = Main /\ cur \in Coros
      /\ status' \in [Coros -> Statuses] /\ avail' \in Seq(Coros) /\ active' \in Seq(Coros)
      /\ status[cur] \in Runnable /\ status' = [status EXCEPT ![cur] = "inactive"]
      /\ Lists'
  BY <1>0, Left
<1>2. Sizes'
  BY <1>0, <1>1, LeftInUse
<1>3. /\ need' \in Seq(Coros) /\ Elements(need') = Elements(need) \cup {cur}
      /\ Once(need) /\ cur \notin Elements(need) => Once(need')
  BY <1>0, <1>1, Appended DEF TypeOK
<1>4. TypeOK'
  BY <1>0, <1>1, <1>3 DEF TypeOK
<1>5. ASSUME terminated' = FALSE PROVE WakeUps'
  <2>1. WakeUps /\ Waiting(cur) /\ status \in [Coros -> Statuses]
    BY <1>0, <1>1, <1>5 DEF WakeUps, TypeOK
  <2>2. Once(need')
    BY <1>1, <1>3, <2>1 DEF WakeUps, Waiting, Runnable
  <2>3. ASSUME NEW d \in Coros PROVE Waiting(d)'
    BY <1>0, <1>1, <1>3, <2>1, CoroutineAssumption DEF WakeUps, Waiting, Runnable
  <2> QED  BY <1>0, <2>1, <2>2, <2>3 DEF WakeUps
<1> QED  BY <1>1, <1>2, <1>4, <1>5

LEMMA StepSleep == CoroInv /\ Sleep => CoroInv'
<1> SUFFICES ASSUME CoroInv, Sleep PROVE CoroInv'
  OBVIOUS
<1> USE DEF CoroInv, timing, sizes
<1>0. /\ UNCHANGED <<pc, loop, queue, need, due, currentSize, usedSize, terminated, call, arrived>>
      /\ cur # Main /\ asleep' = asleep \cup {cur} /\ LeaveTo("timeout", Runnable)
  BY DEF Sleep
<1>1. /\ asserted' = FALSE /\ cur' = Main /\ cur \in Coros
      /\ status' \in [Coros -> Statuses] /\ avail' \in Seq(Coros) /\ active' \in Seq(Coros)
      /\ status[cur] \in Runnable /\ status' = [status EXCEPT ![cur] = "timeout"]
      /\ Lists'
  BY <1>0, Left
<1>2. Sizes'
  BY <1>0, <1>1, LeftInUse
<1>3. TypeOK'
  BY <1>0, <1>1 DEF TypeOK
<1>4. ASSUME terminated' = FALSE PROVE WakeUps'
  <2>1. WakeUps /\ Waiting(cur) /\ status \in [Coros -> Statuses]
    BY <1>0, <1>1, <1>4 DEF WakeUps, TypeOK
  <2>2. ASSUME NEW d \in Coros PROVE Waiting(d)'
    BY <1>0, <1>1, <2>1, CoroutineAssumption DEF WakeUps, Waiting, Runnable
  <2> QED  BY <1>0, <2>1, <2>2 DEF WakeUps
<1> QED  BY <1>1, <1>2, <1>3, <1>4

LEMMA StepCall == CoroInv /\ Call => CoroInv'
<1> SUFFICES ASSUME CoroInv, Call PROVE CoroInv'
  OBVIOUS
<1> USE DEF CoroInv, timing, sizes
<1>0. /\ UNCHANGED <<pc, loop, need, asleep, due, currentSize, usedSize, terminated, arrived>>
      /\ cur # Main /\ LeaveTo("inactive", Runnable)
  BY DEF Call
<1>1. /\ asserted' = FALSE /\ cur' = Main /\ cur \in Coros
      /\ status' \in [Coros -> Statuses] /\ avail' \in Seq(Coros) /\ active' \in Seq(Coros)
      /\ status[cur] \in Runnable /\ status' = [status EXCEPT ![cur] = "inactive"]
      /\ Lists'
  BY <1>0, Left
<1>2. Sizes'
  BY <1>0, <1>1, LeftInUse
<1>3. CASE call' = [call EXCEPT ![cur] = "sent"] /\ queue' = queue
  <2>1. TypeOK'
    BY <1>0, <1>1, <1>3 DEF TypeOK
  <2>2. ASSUME terminated' = FALSE PROVE WakeUps'
    <3>1. WakeUps /\ Waiting(cur) /\ status \in [Coros -> Statuses]
          /\ call \in [Coros -> {"no", "sent", "arrived", "put"}]
      BY <1>0, <1>1, <2>2 DEF WakeUps, TypeOK
    <3>2. ASSUME NEW d \in Coros PROVE Waiting(d)'
      BY <1>0, <1>1, <1>3, <3>1, CoroutineAssumption DEF WakeUps, Waiting, Runnable
    <3> QED  BY <1>0, <1>3, <3>1, <3>2 DEF WakeUps
  <2> QED  BY <1>1, <1>2, <2>1, <2>2
<1>4. CASE call' = [call EXCEPT ![cur] = "put"] /\ queue' = Put(queue, <<cur>>)
  <2>1. /\ terminated = TRUE => queue' = queue
        /\ terminated = FALSE => queue' = Append(queue, cur)
    BY <1>1, <1>4 DEF Put, TypeOK
  <2>2. /\ Append(queue, cur) \in Seq(Coros)
        /\ Elements(Append(queue, cur)) = Elements(queue) \cup {cur}
        /\ Once(queue) /\ cur \notin Elements(queue) => Once(Append(queue, cur))
    BY <1>1, Appended DEF TypeOK
  <2>3. TypeOK'
    BY <1>0, <1>1, <1>4, <2>1, <2>2 DEF TypeOK
  <2>4. ASSUME terminated' = FALSE PROVE WakeUps'
    <3>1. WakeUps /\ Waiting(cur) /\ status \in [Coros -> Statuses]
          /\ call \in [Coros -> {"no", "sent", "arrived", "put"}]
      BY <1>0, <1>1, <2>4 DEF WakeUps, TypeOK
    <3>2. queue' = Append(queue, cur) /\ Once(queue') /\ Elements(queue') = Elements(queue) \cup {cur}
      BY <1>0, <1>1, <2>1, <2>2, <2>4, <3>1 DEF WakeUps, Waiting, Runnable
    <3>3. ASSUME NEW d \in Coros PROVE Waiting(d)'
      BY <1>0, <1>1, <1>4, <3>1, <3>2, CoroutineAssumption DEF WakeUps, Waiting, Runnable
    <3> QED  BY <1>0, <3>1, <3>2, <3>3 DEF WakeUps
  <2> QED  BY <1>1, <1>2, <2>3, <2>4
<1> QED  BY <1>3, <1>4 DEF Call

\* A coroutine that ends leaves nothing behind that could wake the next user of the id.
LEMMA StepFinish == CoroInv /\ Finish => CoroInv'
<1> SUFFICES ASSUME CoroInv, Finish PROVE CoroInv'
  OBVIOUS
<1> USE DEF CoroInv, timing, sizes
<1>0. /\ UNCHANGED <<pc, loop, queue, need, asleep, due, currentSize, terminated, call, arrived>>
      /\ cur # Main /\ usedSize' = usedSize - 1
      /\ LeaveTo("free", {"avail", "active", "inactive", "timeout"})
  BY DEF Finish
<1>1. /\ asserted' = FALSE /\ cur' = Main /\ cur \in Coros
      /\ status' \in [Coros -> Statuses] /\ avail' \in Seq(Coros) /\ active' \in Seq(Coros)
      /\ status[cur] \in Runnable /\ status' = [status EXCEPT ![cur] = "free"]
      /\ Lists'
  <2>1. Runnable \subseteq {"avail", "active", "inactive", "timeout"}
    BY DEF Runnable
  <2> QED  BY <1>0, <2>1, Left
<1>2. Sizes' /\ usedSize' \in Nat
  <2>1. Made' = Made /\ Used' = Used \ {cur} /\ cur \in Used
    BY <1>1 DEF Made, Used, TypeOK, Runnable
  <2>2. Cardinality(Used \ {cur}) = Cardinality(Used) - 1 /\ IsFiniteSet(Used \ {cur})
    BY <2>1, PartsFinite, FS_RemoveElement
  <2>3. Cardinality(Used \ {cur}) \in Nat
    BY <2>2, FS_CardinalityType
  <2> QED  BY <1>0, <2>1, <2>2, <2>3 DEF Sizes
<1>3. TypeOK'
  BY <1>0, <1>1, <1>2 DEF TypeOK
<1>4. ASSUME terminated' = FALSE PROVE WakeUps'
  <2>1. WakeUps /\ Waiting(cur) /\ status \in [Coros -> Statuses]
    BY <1>0, <1>1, <1>4 DEF WakeUps, TypeOK
  <2>2. ASSUME NEW d \in Coros PROVE Waiting(d)'
    BY <1>0, <1>1, <2>1, CoroutineAssumption DEF WakeUps, Waiting, Runnable
  <2> QED  BY <1>0, <2>1, <2>2 DEF WakeUps
<1> QED  BY <1>1, <1>2, <1>3, <1>4

-----------------------------------------------------------------------------
(* go: the coroutine it starts comes from the free list or is made.        *)

LEMMA Started ==
  ASSUME CoroInv, NEW made \in SUBSET Coros, \A d \in made : status[d] = "none",
         NEW c \in Coros, status[c] = "free" \/ c \in made, Ready(made, c),
         currentSize' = currentSize + Cardinality(made), Cardinality(made) \in Nat,
         UNCHANGED <<pc, loop, cur, active, queue, need, asleep, due,
                     terminated, call, arrived, asserted>>
  PROVE  CoroInv'
<1> USE DEF CoroInv
<1>1. /\ status' = [d \in Coros |->
                      IF d = c THEN "avail" ELSE IF d \in made THEN "free" ELSE status[d]]
      /\ avail' = Append(avail, c) /\ usedSize' = usedSize + 1
      /\ status \in [Coros -> Statuses] /\ status[c] \in {"free", "none"}
  BY DEF Ready, TypeOK
<1>2. status' \in [Coros -> Statuses]
  BY <1>1 DEF Statuses
<1>3. c \notin Elements(avail)
  BY <1>1 DEF Lists
<1>4. avail' \in Seq(Coros) /\ Once(avail') /\ Elements(avail') = Elements(avail) \cup {c}
  BY <1>1, <1>3, Appended DEF Lists, TypeOK
<1>5. TypeOK'
  BY <1>1, <1>2, <1>4 DEF TypeOK
<1>6. Lists'
  <2>1. Elements(avail') = {d \in Coros : status'[d] = "avail"}
    BY <1>1, <1>4 DEF Lists
  <2>2. Elements(active') = {d \in Coros : status'[d] = "active"}
    BY <1>1 DEF Lists
  <2>3. cur # Main => status'[cur] \in Runnable
    BY <1>1 DEF Lists, Runnable, TypeOK
  <2> QED  BY <1>4, <2>1, <2>2, <2>3 DEF Lists
<1>7. Sizes'
  <2>1. Made' = Made \cup made /\ Made \cap made = {}
    BY <1>1 DEF Made
  <2>2. Cardinality(Made \cup made) = Cardinality(Made) + Cardinality(made)
    <3>1. IsFiniteSet(made)
      BY CoroutineAssumption, FS_Subset
    <3>2. Cardinality(Made \cup made)
            = Cardinality(Made) + Cardinality(made) - Cardinality(Made \cap made)
      BY <3>1, PartsFinite, FS_Union
    <3>3. Cardinality(Made \cap made) = 0
      BY <2>1, FS_EmptySet
    <3> QED  BY <3>2, <3>3, PartsFinite
  <2>3. Used' = Used \cup {c} /\ c \notin Used
    BY <1>1 DEF Used
  <2>4. Cardinality(Used \cup {c}) = Cardinality(Used) + 1
    BY <2>3, PartsFinite, FS_AddElement
  <2> QED  BY <1>1, <2>1, <2>2, <2>3, <2>4 DEF Sizes
<1>8. ASSUME terminated' = FALSE PROVE WakeUps'
  <2>1. WakeUps
    BY <1>8
  <2>2. ASSUME NEW d \in Coros PROVE Waiting(d)'
    BY <1>1, <2>1 DEF WakeUps, Waiting
  <2> QED  BY <2>1, <2>2 DEF WakeUps
<1> QED  BY <1>5, <1>6, <1>7, <1>8

LEMMA StepGo == CoroInv /\ Go => CoroInv'
<1> SUFFICES ASSUME CoroInv, Go PROVE CoroInv'
  OBVIOUS
<1> DEFINE free == {c \in Coros : status[c] = "free"}
<1>0. UNCHANGED <<pc, loop, cur, active, queue, need, asleep, due,
                  terminated, call, arrived, asserted>>
  BY DEF Go
<1>1. CASE usedSize >= currentSize \/ free = {}
  <2>1. PICK made \in SUBSET {c \in Coros : status[c] = "none"} :
          /\ Growth > 0 /\ Cardinality(made) = Growth
          /\ \E c \in free \cup made : Ready(made, c)
          /\ currentSize' = currentSize + Growth
    BY <1>1 DEF Go
  <2>2. PICK c \in free \cup made : Ready(made, c)
    BY <2>1
  <2>3. Growth \in Nat
    BY <2>1, PartsFinite, CoroutineAssumption DEF Growth, Least, CoroInv, TypeOK
  <2>4. made \in SUBSET Coros /\ (\A d \in made : status[d] = "none") /\ c \in Coros
        /\ (status[c] = "free" \/ c \in made)
    OBVIOUS
  <2> HIDE DEF free
  <2> QED  BY <1>0, <2>1, <2>2, <2>3, <2>4, Started
<1>2. CASE ~(usedSize >= currentSize \/ free = {})
  <2>1. PICK c \in free : Ready({}, c) /\ currentSize' = currentSize
    BY <1>2 DEF Go
  <2>2. Cardinality({}) = 0 /\ currentSize' = currentSize + 0
    BY <2>1, FS_EmptySet DEF CoroInv, TypeOK
  <2>3. c \in Coros /\ status[c] = "free"
    OBVIOUS
  <2> HIDE DEF free
  <2> QED  BY <1>0, <2>1, <2>2, <2>3, Started
<1> QED  BY <1>1, <1>2

-----------------------------------------------------------------------------
(* The three wake-ups. *)

\* The moves of wakeup: every coroutine woken waits, so no assert fails.
LEMMA Woken ==
  ASSUME CoroInv, NEW ids \in Seq(Coros), Once(ids),
         NEW new \in Runnable, NEW from \in SUBSET {"inactive", "timeout"},
         \A c \in Elements(ids) : status[c] \in from, Wake(ids, new, from)
  PROVE  /\ asserted' = FALSE /\ status' \in [Coros -> Statuses]
         /\ Made' = Made /\ Used' = Used
         /\ status' = [c \in Coros |-> IF c \in Elements(ids) THEN new ELSE status[c]]
<1>1. Distinct(ids)
  BY OnceCounted
<1>2. asserted' = FALSE
  BY <1>1 DEF Wake, Distinct, CoroInv
<1>3. status' = [c \in Coros |-> IF c \in Elements(ids) THEN new ELSE status[c]]
  BY DEF Wake
<1>4. status' \in [Coros -> Statuses]
  BY <1>3 DEF CoroInv, TypeOK, Runnable, Statuses
<1>5. Made' = Made /\ Used' = Used
  <2>1. ASSUME NEW c \in Coros
        PROVE  /\ status'[c] = "none" <=> status[c] = "none"
               /\ status'[c] \in {"none", "free"} <=> status[c] \in {"none", "free"}
    <3>1. CASE c \in Elements(ids)
      BY <1>3, <3>1 DEF Runnable
    <3>2. CASE c \notin Elements(ids)
      BY <1>3, <3>2
    <3> QED  BY <3>1, <3>2
  <2> QED  BY <2>1 DEF Made, Used
<1> QED  BY <1>2, <1>3, <1>4, <1>5

LEMMA StepWakeup == CoroInv /\ Wakeup => CoroInv'
<1> SUFFICES ASSUME CoroInv, Wakeup PROVE CoroInv'
  OBVIOUS
<1> USE DEF CoroInv, timing, sizes
<1>0. /\ UNCHANGED <<loop, cur, avail, need, asleep, due, currentSize, usedSize, terminated,
                     call, arrived>>
      /\ cur = Main /\ pc' = "timeout" /\ loop' \in 0..Batch
  BY CoroutineAssumption DEF Wakeup, At, TypeOK
<1>1. CASE terminated = TRUE
  <2>1. UNCHANGED <<status, active, queue, asserted>>
    BY <1>1 DEF Wakeup
  <2>2. Lists' /\ Sizes'
    BY <1>0, <2>1, ListsSame
  <2>3. TypeOK'
    BY <1>0, <2>1 DEF TypeOK
  <2> QED  BY <1>0, <1>1, <2>1, <2>2, <2>3
<1>2. CASE terminated = FALSE
  <2>1. /\ Wake(queue, "active", {"inactive", "timeout"})
        /\ active' = active \o queue /\ queue' = <<>>
    BY <1>2 DEF Wakeup
  <2>2. /\ WakeUps /\ Once(queue) /\ queue \in Seq(Coros) /\ Elements(queue) \subseteq Coros
        /\ \A c \in Elements(queue) : status[c] \in {"inactive", "timeout"}
        /\ status \in [Coros -> Statuses]
    BY <1>2, ElementsTyped DEF WakeUps, Waiting, TypeOK
  <2>3. /\ asserted' = FALSE /\ status' \in [Coros -> Statuses] /\ Made' = Made /\ Used' = Used
        /\ status' = [c \in Coros |-> IF c \in Elements(queue) THEN "active" ELSE status[c]]
    BY <2>1, <2>2, Woken DEF Runnable
  <2>4. Elements(active) \cap Elements(queue) = {}
    BY <2>2 DEF Lists
  <2>5. /\ active' \in Seq(Coros) /\ Once(active')
        /\ Elements(active') = Elements(active) \cup Elements(queue)
    BY <2>1, <2>2, <2>4, Joined DEF Lists, TypeOK
  <2>6. queue' \in Seq(Coros) /\ Once(queue') /\ Elements(queue') = {}
    BY <2>1, EmptyList
  <2>7. TypeOK'
    BY <1>0, <2>3, <2>5, <2>6 DEF TypeOK
  <2>8. Lists'
    <3>1. Elements(avail') = {c \in Coros : status'[c] = "avail"}
      BY <1>0, <2>2, <2>3, <2>5 DEF Lists
    <3>2. Elements(active') = {c \in Coros : status'[c] = "active"}
      BY <1>0, <2>2, <2>3, <2>5 DEF Lists
    <3> QED  BY <1>0, <2>5, <3>1, <3>2 DEF Lists
  <2>9. Sizes'
    BY <1>0, <2>3 DEF Sizes
  <2>10. WakeUps'
    <3>1. ASSUME NEW d \in Coros PROVE Waiting(d)'
      BY <1>0, <2>2, <2>3, <2>6, CoroutineAssumption DEF WakeUps, Waiting
    <3> QED  BY <1>0, <2>2, <2>6, <3>1 DEF WakeUps
  <2> QED  BY <1>0, <2>3, <2>7, <2>8, <2>9, <2>10
<1> QED  BY <1>1, <1>2 DEF TypeOK

LEMMA StepWakeupByTimeout == CoroInv /\ WakeupByTimeout => CoroInv'
<1> SUFFICES ASSUME CoroInv, WakeupByTimeout PROVE CoroInv'
  OBVIOUS
<1> USE DEF CoroInv, timing, sizes
<1>0. /\ UNCHANGED <<loop, cur, avail, queue, need, asleep, currentSize, usedSize, terminated,
                     call, arrived>>
      /\ cur = Main /\ pc' = "self" /\ loop' \in 0..Batch
  BY CoroutineAssumption DEF WakeupByTimeout, At, TypeOK
<1>1. CASE terminated = TRUE
  <2>1. UNCHANGED <<status, active, due, asserted>>
    BY <1>1 DEF WakeupByTimeout
  <2>2. Lists' /\ Sizes'
    BY <1>0, <2>1, ListsSame
  <2>3. TypeOK'
    BY <1>0, <2>1 DEF TypeOK
  <2> QED  BY <1>0, <1>1, <2>1, <2>2, <2>3
<1>2. CASE terminated = FALSE
  <2>1. /\ Wake(due, "active", {"inactive", "timeout"})
        /\ active' = active \o due /\ due' = <<>>
    BY <1>2 DEF WakeupByTimeout
  <2>2. /\ WakeUps /\ Once(due) /\ due \in Seq(Coros) /\ Elements(due) \subseteq Coros
        /\ \A c \in Elements(due) : status[c] \in {"inactive", "timeout"}
        /\ status \in [Coros -> Statuses]
    BY <1>2, ElementsTyped DEF WakeUps, Waiting, TypeOK
  <2>3. /\ asserted' = FALSE /\ status' \in [Coros -> Statuses] /\ Made' = Made /\ Used' = Used
        /\ status' = [c \in Coros |-> IF c \in Elements(due) THEN "active" ELSE status[c]]
    BY <2>1, <2>2, Woken DEF Runnable
  <2>4. Elements(active) \cap Elements(due) = {}
    BY <2>2 DEF Lists
  <2>5. /\ active' \in Seq(Coros) /\ Once(active')
        /\ Elements(active') = Elements(active) \cup Elements(due)
    BY <2>1, <2>2, <2>4, Joined DEF Lists, TypeOK
  <2>6. due' \in Seq(Coros) /\ Once(due') /\ Elements(due') = {}
    BY <2>1, EmptyList
  <2>7. TypeOK'
    BY <1>0, <2>3, <2>5, <2>6 DEF TypeOK
  <2>8. Lists'
    <3>1. Elements(avail') = {c \in Coros : status'[c] = "avail"}
      BY <1>0, <2>2, <2>3, <2>5 DEF Lists
    <3>2. Elements(active') = {c \in Coros : status'[c] = "active"}
      BY <1>0, <2>2, <2>3, <2>5 DEF Lists
    <3> QED  BY <1>0, <2>5, <3>1, <3>2 DEF Lists
  <2>9. Sizes'
    BY <1>0, <2>3 DEF Sizes
  <2>10. WakeUps'
    <3>1. ASSUME NEW d \in Coros PROVE Waiting(d)'
      BY <1>0, <2>2, <2>3, <2>6, CoroutineAssumption DEF WakeUps, Waiting
    <3> QED  BY <1>0, <2>2, <2>6, <3>1 DEF WakeUps
  <2> QED  BY <1>0, <2>3, <2>7, <2>8, <2>9, <2>10
<1> QED  BY <1>1, <1>2 DEF TypeOK

LEMMA StepWakeupBySelf == CoroInv /\ WakeupBySelf => CoroInv'
<1> SUFFICES ASSUME CoroInv, WakeupBySelf PROVE CoroInv'
  OBVIOUS
<1> USE DEF CoroInv, timing, sizes
<1>0. /\ UNCHANGED <<cur, active, queue, asleep, due, currentSize, usedSize, terminated,
                     call, arrived>>
      /\ cur = Main /\ pc' = "active" /\ loop' \in 0..Batch
  BY CoroutineAssumption DEF WakeupBySelf, At, TypeOK
<1>1. CASE terminated = TRUE
  <2>1. UNCHANGED <<status, avail, need, asserted>>
    BY <1>1 DEF WakeupBySelf
  <2>2. Lists' /\ Sizes'
    BY <1>0, <2>1, ListsSame
  <2>3. TypeOK'
    BY <1>0, <2>1 DEF TypeOK
  <2> QED  BY <1>0, <1>1, <2>1, <2>2, <2>3
<1>2. CASE terminated = FALSE
  <2>1. /\ Wake(need, "avail", {"inactive"})
        /\ avail' = avail \o need /\ need' = <<>>
    BY <1>2 DEF WakeupBySelf
  <2>2. /\ WakeUps /\ Once(need) /\ need \in Seq(Coros) /\ Elements(need) \subseteq Coros
        /\ \A c \in Elements(need) : status[c] \in {"inactive"}
        /\ status \in [Coros -> Statuses]
    BY <1>2, ElementsTyped DEF WakeUps, Waiting, TypeOK
  <2>3. /\ asserted' = FALSE /\ status' \in [Coros -> Statuses] /\ Made' = Made /\ Used' = Used
        /\ status' = [c \in Coros |-> IF c \in Elements(need) THEN "avail" ELSE status[c]]
    BY <2>1, <2>2, Woken DEF Runnable
  <2>4. Elements(avail) \cap Elements(need) = {}
    BY <2>2 DEF Lists
  <2>5. /\ avail' \in Seq(Coros) /\ Once(avail')
        /\ Elements(avail') = Elements(avail) \cup Elements(need)
    BY <2>1, <2>2, <2>4, Joined DEF Lists, TypeOK
  <2>6. need' \in Seq(Coros) /\ Once(need') /\ Elements(need') = {}
    BY <2>1, EmptyList
  <2>7. TypeOK'
    BY <1>0, <2>3, <2>5, <2>6 DEF TypeOK
  <2>8. Lists'
    <3>1. Elements(avail') = {c \in Coros : status'[c] = "avail"}
      BY <1>0, <2>2, <2>3, <2>5 DEF Lists
    <3>2. Elements(active') = {c \in Coros : status'[c] = "active"}
      BY <1>0, <2>2, <2>3, <2>5 DEF Lists
    <3> QED  BY <1>0, <2>5, <3>1, <3>2 DEF Lists
  <2>9. Sizes'
    BY <1>0, <2>3 DEF Sizes
  <2>10. WakeUps'
    <3>1. ASSUME NEW d \in Coros PROVE Waiting(d)'
      BY <1>0, <2>2, <2>3, <2>6, CoroutineAssumption DEF WakeUps, Waiting
    <3> QED  BY <1>0, <2>2, <2>6, <3>1 DEF WakeUps
  <2> QED  BY <1>0, <2>3, <2>7, <2>8, <2>9, <2>10
<1> QED  BY <1>1, <1>2 DEF TypeOK

-----------------------------------------------------------------------------
(* The invariant of the scheduler. *)

LEMMA InvNext == CoroInv /\ [Next]_vars => CoroInv'
<1> SUFFICES ASSUME CoroInv, [Next]_vars PROVE CoroInv'
  OBVIOUS
<1>1. CASE Go
  BY <1>1, StepGo
<1>2. CASE GiveUp
  BY <1>2, StepYield, StepSleep, StepCall, StepFinish DEF GiveUp
<1>3. CASE RunLoop
  BY <1>3, StepLoop, StepSwitch, StepDone, StepWakeup, StepWakeupByTimeout,
     StepWakeupBySelf DEF RunLoop
<1>4. CASE Terminate
  BY <1>4, StepLoop
<1>5. CASE Ended \/ UNCHANGED vars
  BY <1>5, StepStutter DEF Ended
<1>6. CASE \E c \in Coros : Arrive(c) \/ Expire(c)
  BY <1>6, StepArrive, StepExpire
<1> QED  BY <1>1, <1>2, <1>3, <1>4, <1>5, <1>6 DEF Next

(* The invariant holds of the scheduler, whatever the size of the pool,    *)
(* the chunk it grows by and the length of a round.                        *)
THEOREM CoroInvariant == Spec => []CoroInv
<1>1. Init => CoroInv
  BY InvInit
<1>2. CoroInv /\ [Next]_vars => CoroInv'
  BY InvNext
<1> QED  BY <1>1, <1>2, PTL DEF Spec

(* For any number of coroutines: each is on the list of its status and on  *)
(* no other (moveToActive, moveToAvail, moveToInactive, moveToTimeout,     *)
(* moveToFreeList), the one that runs is runnable, and _currentSize and    *)
(* _usedSize, which go compares, count the pool and those in use.          *)
THEOREM CoroutinesListed == Spec => []ListsAgree
<1>1. CoroInv => ListsAgree
  BY InvLists
<1> QED  BY <1>1, CoroInvariant, PTL

(* For any number of coroutines: no assert of the moveTo functions fails,  *)
(* and until terminate a coroutine that gave up control in yield, sleep or *)
(* a call has exactly one wake-up to come, and one that did not has none.  *)
THEOREM WokenOnce == Spec => []OneReason
<1>1. CoroInv => OneReason
  BY InvReason
<1> QED  BY <1>1, CoroInvariant, PTL
=============================================================================
