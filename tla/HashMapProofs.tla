--------------------------- MODULE HashMapProofs ---------------------------
(***************************************************************************)
(* For any number of units, keys and buckets, any sizes of values and any  *)
(* number of operations and deaths: the six invariants of HashMap.         *)
(*                                                                         *)
(* Base is inductive whenever the process dies.  It says of the memory as  *)
(* it is, and of the memory once the log is written, that it has its shape *)
(* (both lists, the chains of the buckets, the chunks, the cursors), and   *)
(* of the operation under way that its units are nobody else's and that    *)
(* the block it works on is there.  The second memory is needed because a  *)
(* group is computed before it is committed; the first because the process *)
(* may die in between.                                                     *)
(*                                                                         *)
(* Ledger is what only holds while no process died: every unit has an      *)
(* owner, the counts of dirty blocks and bare keys are right, every dirty  *)
(* block can be found from the end of the dirty chain.  Within an          *)
(* operation each of these is off by the block it works on, and which one  *)
(* it is follows from the stages ahead.                                    *)
(*                                                                         *)
(* HashMapLogProofs has what the groups of an operation do to the shape;   *)
(* here is one lemma for each step and each of the two invariants.         *)
(***************************************************************************)
EXTENDS HashMapLogProofs

-----------------------------------------------------------------------------
(* The stages of an operation. *)

\* The stages of all operations.
Stages == {"commit", "alloc", "evict", "free", "erase", "fit", "grab", "join", "write", "copied",
           "dirty", "rset", "rget", "item", "synced", "resync", "resynced", "recover"}

\* The stages that may come after a stage.
Later(s) ==
    CASE s = "commit"   -> Stages \ {"copied"}
      [] s = "copied"   -> {"commit", "dirty", "rset"}
      [] s = "free"     -> {"evict", "alloc", "grab", "fit", "write", "dirty", "rset", "erase", "recover"}
      [] s = "evict"    -> {"alloc", "grab", "fit", "dirty", "rset"}
      [] s = "alloc"    -> {"fit", "dirty", "rset"}
      [] s \in {"fit", "grab", "join", "write"} -> {"dirty", "rset"}
      [] s = "dirty"    -> {"rset", "item", "commit", "synced", "resync", "dirty", "resynced"}
      [] s \in {"rset", "rget"} -> {"commit", "item"}
      [] s = "synced"   -> {"resync", "dirty", "resynced"}
      [] s = "resync"   -> {"dirty", "resynced"}
      [] s = "erase"    -> {"recover"}
      [] OTHER          -> {}

\* A sequence of stages that an operation may have ahead.
Script(td) ==
    /\ td \in Seq(Stages)
    /\ \A i, j \in 1..Len(td) : i < j => td[j] \in Later(td[i])
    /\ Len(td) # 0 /\ td[1] = "copied" => Len(td) > 1 /\ td[2] = "commit"

\* Which stages may follow which, spelled out.
LEMMA LaterIs ==
  /\ Later("commit") = Stages \ {"copied"}
  /\ Later("copied") = {"commit", "dirty", "rset"}
  /\ Later("free") = {"evict", "alloc", "grab", "fit", "write", "dirty", "rset", "erase", "recover"}
  /\ Later("evict") = {"alloc", "grab", "fit", "dirty", "rset"}
  /\ Later("alloc") = {"fit", "dirty", "rset"}
  /\ \A s \in {"fit", "grab", "join", "write"} : Later(s) = {"dirty", "rset"}
  /\ Later("dirty") = {"rset", "item", "commit", "synced", "resync", "dirty", "resynced"}
  /\ \A s \in {"rset", "rget"} : Later(s) = {"commit", "item"}
  /\ Later("synced") = {"resync", "dirty", "resynced"}
  /\ Later("resync") = {"dirty", "resynced"}
  /\ Later("erase") = {"recover"}
  /\ \A s \in {"item", "resynced", "recover"} : Later(s) = {}
  /\ \A s \in Stages : "copied" \notin Later(s)
  BY DEF Later, Stages

\* The empty script.
LEMMA NoScript == Script(<<>>) /\ Elements(<<>>) = {} /\ Len(<<>>) = 0
  BY DEF Script, Elements

\* What is left of a script after its first stage is a script.
LEMMA ScriptTail ==
  ASSUME NEW td, Script(td), Len(td) # 0
  PROVE  /\ Script(Tail(td)) /\ Elements(td) = {td[1]} \cup Elements(Tail(td))
         /\ Elements(Tail(td)) \subseteq Later(td[1])
         /\ td[1] \in Stages /\ Elements(Tail(td)) \subseteq Stages
         /\ Len(Tail(td)) # 0 => Tail(td)[1] # "copied" /\ Tail(td)[1] = td[2]
         /\ td # <<>> /\ Head(td) = td[1]
<1>1. td \in Seq(Stages) /\ Len(td) \in Nat
  BY DEF Script
<1>2. /\ Tail(td) \in Seq(Stages) /\ Len(Tail(td)) = Len(td) - 1
      /\ \A i \in 1..(Len(td) - 1) : Tail(td)[i] = td[i + 1] /\ Tail(td)[i] \in Stages
  BY <1>1
<1>3. \A i \in 1..(Len(td) - 1) : Tail(td)[i] \in Later(td[1])
  BY <1>1, <1>2 DEF Script
<1>4. td[1] \in Stages /\ Head(td) = td[1] /\ td # <<>>
  BY <1>1
<1>5. Len(Tail(td)) # 0 => Tail(td)[1] # "copied" /\ Tail(td)[1] = td[2]
  BY <1>1, <1>2, <1>3, <1>4, LaterIs
<1>6. \A i, j \in 1..Len(Tail(td)) : i < j => Tail(td)[j] \in Later(Tail(td)[i])
  BY <1>1, <1>2 DEF Script
<1>7. Script(Tail(td))
  BY <1>2, <1>5, <1>6 DEF Script
<1>8. /\ DOMAIN td = 1..Len(td) /\ DOMAIN Tail(td) = 1..(Len(td) - 1)
  BY <1>1, <1>2
<1>9. Elements(td) = {td[1]} \cup Elements(Tail(td))
  <2>1. ASSUME NEW x \in Elements(td) PROVE x \in {td[1]} \cup Elements(Tail(td))
    <3>1. PICK i \in 1..Len(td) : x = td[i]
      BY <1>8 DEF Elements
    <3>2. CASE i = 1
      BY <3>1, <3>2
    <3>3. CASE i # 1
      <4>1. i - 1 \in 1..(Len(td) - 1) /\ Tail(td)[i - 1] = td[(i - 1) + 1] /\ (i - 1) + 1 = i
        BY <3>1, <3>3, <1>1, <1>2
      <4> QED  BY <4>1, <3>1, <1>8 DEF Elements
    <3> QED  BY <3>2, <3>3
  <2>2. ASSUME NEW x \in Elements(Tail(td)) PROVE x \in Elements(td)
    <3>1. PICK i \in 1..(Len(td) - 1) : x = Tail(td)[i]
      BY <1>8 DEF Elements
    <3>2. i + 1 \in 1..Len(td) /\ x = td[i + 1]
      BY <3>1, <1>1, <1>2
    <3> QED  BY <3>2, <1>8 DEF Elements
  <2>3. td[1] \in Elements(td)
    BY <1>1, <1>8 DEF Elements
  <2> QED  BY <2>1, <2>2, <2>3
<1>10. Elements(Tail(td)) \subseteq Later(td[1]) /\ Elements(Tail(td)) \subseteq Stages
  BY <1>2, <1>3, <1>8 DEF Elements
<1> QED  BY <1>4, <1>5, <1>7, <1>9, <1>10

\* A sequence with one more member in front.
LEMMA ElementsPut ==
  ASSUME NEW S, NEW s \in S, NEW td \in Seq(S)
  PROVE  /\ <<s>> \o td \in Seq(S) /\ Len(<<s>> \o td) = Len(td) + 1
         /\ (<<s>> \o td)[1] = s /\ \A i \in 1..Len(td) : (<<s>> \o td)[i + 1] = td[i]
         /\ Elements(<<s>> \o td) = {s} \cup Elements(td)
<1> DEFINE r == <<s>> \o td
<1>1. /\ r \in Seq(S) /\ Len(r) = Len(td) + 1 /\ r[1] = s /\ Len(td) \in Nat
      /\ \A i \in 1..Len(td) : r[i + 1] = td[i]
      /\ DOMAIN r = 1..(Len(td) + 1) /\ DOMAIN td = 1..Len(td)
  OBVIOUS
<1> HIDE DEF r
<1>2. ASSUME NEW x \in Elements(r) PROVE x \in {s} \cup Elements(td)
  <2>1. PICK i \in 1..(Len(td) + 1) : x = r[i]
    BY <1>1 DEF Elements
  <2>2. CASE i = 1
    BY <1>1, <2>1, <2>2
  <2>3. CASE i # 1
    <3>1. i - 1 \in 1..Len(td) /\ r[(i - 1) + 1] = td[i - 1] /\ (i - 1) + 1 = i
      BY <2>1, <2>3, <1>1
    <3> QED  BY <3>1, <2>1, <1>1 DEF Elements
  <2> QED  BY <2>2, <2>3
<1>3. ASSUME NEW x \in Elements(td) PROVE x \in Elements(r)
  <2>1. PICK i \in 1..Len(td) : x = td[i]
    BY <1>1 DEF Elements
  <2>2. i + 1 \in 1..(Len(td) + 1) /\ x = r[i + 1]
    BY <2>1, <1>1
  <2> QED  BY <2>2, <1>1 DEF Elements
<1>4. s \in Elements(r)
  BY <1>1 DEF Elements
<1>5. Elements(r) = {s} \cup Elements(td)
  BY <1>2, <1>3, <1>4
<1> QED  BY <1>1, <1>5 DEF r

\* A stage before a script of stages that may follow it is a script.
LEMMA ScriptPut ==
  ASSUME NEW s \in Stages, NEW td, Script(td), Elements(td) \subseteq Later(s),
         s = "copied" => Len(td) # 0 /\ td[1] = "commit"
  PROVE  /\ Script(<<s>> \o td) /\ Elements(<<s>> \o td) = {s} \cup Elements(td)
         /\ Len(<<s>> \o td) # 0 /\ (<<s>> \o td)[1] = s /\ Len(<<s>> \o td) = Len(td) + 1
         /\ Len(td) # 0 => (<<s>> \o td)[2] = td[1]
<1> DEFINE r == <<s>> \o td
<1>1. td \in Seq(Stages) /\ Len(td) \in Nat
  BY DEF Script
<1>2. /\ r \in Seq(Stages) /\ Len(r) = Len(td) + 1 /\ r[1] = s
      /\ \A i \in 1..Len(td) : r[i + 1] = td[i]
      /\ Elements(r) = {s} \cup Elements(td)
  BY <1>1, ElementsPut
<1>3. \A i \in 1..Len(td) : td[i] \in Later(s)
  <2>1. DOMAIN td = 1..Len(td)
    BY <1>1
  <2> QED  BY <2>1 DEF Elements
<1>4. Len(td) # 0 => (<<s>> \o td)[2] = td[1]
  <2>1. Len(td) # 0 => 1 \in 1..Len(td) /\ 1 + 1 = 2
    BY <1>1
  <2> QED  BY <2>1, <1>2
<1> HIDE DEF r
<1>5. ASSUME NEW i \in 1..Len(r), NEW j \in 1..Len(r), i < j PROVE r[j] \in Later(r[i])
  <2>1. j - 1 \in 1..Len(td) /\ r[j] = td[j - 1]
    <3>1. j - 1 \in 1..Len(td) /\ (j - 1) + 1 = j
      BY <1>1, <1>2, <1>5
    <3> QED  BY <3>1, <1>2
  <2>2. CASE i = 1
    BY <2>1, <2>2, <1>2, <1>3
  <2>3. CASE i # 1
    <3>1. i - 1 \in 1..Len(td) /\ (i - 1) + 1 = i /\ i - 1 < j - 1
      BY <1>1, <1>2, <1>5, <2>3
    <3>2. r[i] = td[i - 1]
      BY <3>1, <1>2
    <3> QED  BY <3>1, <3>2, <2>1 DEF Script
  <2> QED  BY <2>2, <2>3
<1>6. Len(r) # 0 /\ (r[1] = "copied" => Len(r) > 1 /\ r[2] = "commit")
  BY <1>1, <1>2, <1>4 DEF r
<1>7. Script(r)
  BY <1>2, <1>5, <1>6 DEF Script
<1> QED  BY <1>2, <1>4, <1>6, <1>7 DEF r

\* Two stages in front are one in front of one in front.
LEMMA TwoStages ==
  ASSUME NEW a \in Stages, NEW b \in Stages, NEW td \in Seq(Stages)
  PROVE  <<a, b>> \o td = <<a>> \o (<<b>> \o td)
<1>1. <<a, b>> \o td \in Seq(Stages) /\ <<a>> \o (<<b>> \o td) \in Seq(Stages)
  OBVIOUS
<1>2. Len(<<a, b>> \o td) = Len(<<a>> \o (<<b>> \o td))
  OBVIOUS
<1>3. \A i \in 1..Len(<<a, b>> \o td) : (<<a, b>> \o td)[i] = (<<a>> \o (<<b>> \o td))[i]
  OBVIOUS
<1> QED  BY <1>1, <1>2, <1>3, SameSeq

\* A single stage is a script.
LEMMA OneStage ==
  ASSUME NEW s \in Stages \ {"copied"}
  PROVE  /\ Script(<<s>>) /\ Elements(<<s>>) = {s} /\ Len(<<s>>) # 0 /\ <<s>>[1] = s
         /\ <<s>> # <<>>
  BY DEF Script, Elements

-----------------------------------------------------------------------------
(* The inductive invariant. *)

\* The stages that bring a block to the size of its value.
Filling == {"fit", "grab", "join", "write"}

\* The stages of a set that need its key.
Setting == Filling \cup {"alloc", "copied"}

\* The stages that need the block of the operation.
Working == Filling \cup {"copied", "dirty", "rset", "rget", "synced", "resync", "resynced",
                         "erase", "evict"}

\* The operation under way.
Op == [b : Addr, key : Keys \cup {None}, need : 0..MaxExtra, only : BOOLEAN, dirty : BOOLEAN,
       new : BOOLEAN, got : Seq(Units), gone : SUBSET Units, left : 0..EraseCount,
       next : Addr \cup Buckets]

\* Chunks that were allocated and do not hang on the block yet.
Loose(A, o) == IF "join" \in A THEN Elements(Tail(o.got)) ELSE Elements(o.got)

\* No unit is in two hands.
Apart(m, A, o, fr) ==
    /\ Once(o.got)
    /\ Owned(m) \cap fr = {} /\ Owned(m) \cap Loose(A, o) = {} /\ Owned(m) \cap o.gone = {}
    /\ fr \cap Loose(A, o) = {} /\ fr \cap o.gone = {} /\ Loose(A, o) \cap o.gone = {}
    /\ "free" \notin A => o.gone = {}
    /\ "grab" \notin A /\ "join" \notin A => Len(o.got) = 0

\* What the stages ahead rely on.
Placed(m, A, o) ==
    /\ "alloc" \in A => o.b = 0
    /\ "alloc" \notin A /\ A \cap Working # {} => o.b \in BlocksOf(m)
    /\ "item" \in A => o.next \in BlocksOf(m)
    /\ "recover" \in A => o.next \in Buckets
    /\ A \cap Setting # {} =>
         /\ o.key \in Keys
         /\ o.b # 0 => m.index[o.b] = HashOf[o.key]
         /\ \A u \in BlocksOf(m) : m.data[u].key = o.key => u = o.b
    /\ "grab" \in A => Len(ChunksIn(m, o.b)) <= o.need
    /\ "join" \in A => Len(o.got) # 0 /\ o.got[1] = End(ChunksIn(m, o.b))

\* The memory is fit for what is ahead: its shape, its units, and the block to work on.
Sound(m, A, o, fr) == Shape(m) /\ Apart(m, A, o, fr) /\ Placed(m, A, o)

\* The entries of a log that holds nothing but counts of dirty blocks and bare keys.
Counts == Quiet \cup ({"head"} \X {"dirtyCount", "onlyKeyCount"} \X Int)

\* What is in the log: a group while its commit is next, and statistics otherwise.
LogOK(td, g) ==
    /\ g \in Seq(Entry) /\ Len(g) <= 15
    /\ Len(td) = 0 \/ td[1] \notin {"commit", "copied"} => g \in Seq(Quiet) /\ Len(g) <= 2
    /\ Len(td) # 0 /\ td[1] = "copied" => g \in Seq(Counts) /\ Len(g) <= 6

\* A backup comes to the blocks d.
Comes(m, d) == d \subseteq Upto(GetOf(m), m.head.backupTail)

\* The memory once the log is written.
After == Apply(mem, log)

\* The inductive invariant.
Base ==
    /\ conf \in Evictions /\ crashes \in 0..MaxCrashes /\ ops \in 0..MaxOps
    /\ Script(todo) /\ op \in Op /\ LogOK(todo, log)
    /\ Shape(mem) /\ free \subseteq Units /\ Owned(mem) \cap free = {}
    /\ Sound(After, Elements(todo), op, free)
    /\ Comes(mem, due) /\ Comes(After, due \cap BlocksOf(After))

\* No group waits for its commit.
Calm == Len(todo) = 0 \/ todo[1] \notin {"commit", "copied"}

\* The idle operation holds nothing.
LEMMA IdleOp == Idle \in Op /\ Len(Idle.got) = 0 /\ Idle.got = <<>> /\ Idle.gone = {} /\ Idle.b = 0
  BY HashMapAssumption DEF Idle, Op, Addr

\* Between two operations a memory of the right shape is sound.
LEMMA IdleSound ==
  ASSUME NEW m, NEW fr, Shape(m), Owned(m) \cap fr = {}
  PROVE  Sound(m, {}, Idle, fr)
<1>1. Elements(Idle.got) = {} /\ Once(Idle.got)
  BY IdleOp DEF Elements, Once
<1>2. Apart(m, {}, Idle, fr)
  BY <1>1, IdleOp DEF Apart, Loose
<1> QED  BY <1>2 DEF Sound, Placed

\* Unless a group waits for its commit, the log holds only statistics.
LEMMA CalmAfter ==
  ASSUME Base, Calm
  PROVE  /\ After = mem /\ log \in Seq(Quiet) /\ Len(log) <= 2 /\ Len(log) \in Nat
         /\ Sound(mem, Elements(todo), op, free) /\ Shape(mem) /\ IsMemory(mem)
         /\ Comes(mem, due) /\ due \subseteq BlocksOf(mem)
<1>1. log \in Seq(Quiet) /\ Len(log) <= 2
  BY DEF Base, Calm, LogOK
<1>2. Shape(mem) /\ IsMemory(mem)
  BY DEF Base, Shape
<1>3. After = mem
  BY <1>1, <1>2, QuietKeeps DEF After
<1>4. Comes(mem, due) /\ Sound(mem, Elements(todo), op, free)
  BY <1>3 DEF Base
<1>5. Upto(GetOf(mem), mem.head.backupTail) \subseteq BlocksOf(mem)
  <2>1. GetFits(mem) /\ GetOf(mem) \in Seq(Units) /\ Elements(GetOf(mem)) = BlocksOf(mem)
    BY <1>2 DEF Shape, GetFits, Listed, Forth
  <2>2. DOMAIN GetOf(mem) = 1..Len(GetOf(mem))
    BY <2>1
  <2> QED  BY <2>1, <2>2 DEF Upto, Elements
<1> QED  BY <1>1, <1>2, <1>3, <1>4, <1>5 DEF Comes

\* What is known at the beginning of a stage.
LEMMA AtStage ==
  ASSUME Base, NEW s, At(s)
  PROVE  /\ Len(todo) # 0 /\ todo[1] = s /\ s \in Stages
         /\ Script(Tail(todo)) /\ Elements(todo) = {s} \cup Elements(Tail(todo))
         /\ Elements(Tail(todo)) \subseteq Later(s) /\ Elements(Tail(todo)) \subseteq Stages
         /\ "copied" \notin Elements(Tail(todo))
         /\ Len(Tail(todo)) # 0 => Tail(todo)[1] # "copied" /\ Tail(todo)[1] = todo[2]
         /\ s \notin {"commit", "copied"} => Calm
<1>1. Script(todo) /\ todo \in Seq(Stages)
  BY DEF Base, Script
<1>2. Len(todo) # 0 /\ todo[1] = s
  BY <1>1 DEF At
<1>3. /\ Script(Tail(todo)) /\ Elements(todo) = {todo[1]} \cup Elements(Tail(todo))
      /\ Elements(Tail(todo)) \subseteq Later(todo[1]) /\ todo[1] \in Stages
      /\ Elements(Tail(todo)) \subseteq Stages
      /\ Len(Tail(todo)) # 0 => Tail(todo)[1] # "copied" /\ Tail(todo)[1] = todo[2]
  BY <1>1, <1>2, ScriptTail
<1>4. "copied" \notin Elements(Tail(todo))
  BY <1>2, <1>3, LaterIs
<1> QED  BY <1>2, <1>3, <1>4 DEF Calm

\* What a step leaves for its operation to go on with.
Goes(o, st) ==
    /\ Script(st) /\ o \in Op
    /\ todo' = st /\ op' = IF st = <<>> THEN Idle ELSE o
    /\ conf' = conf /\ crashes' \in 0..MaxCrashes /\ ops' \in 0..MaxOps

\* A stage goes on with the rest of its script.
LEMMA GoGoes ==
  ASSUME Base, NEW o, NEW st, Go(o, st), Script(st), o \in Op
  PROVE  Goes(o, st)
  BY DEF Go, Goes, Base

\* An operation begins with its script.
LEMMA BeginGoes ==
  ASSUME Base, NEW o, NEW g, NEW st, Begin(o, g, st), Script(st), o \in Op
  PROVE  Goes(o, st) /\ log' = g /\ todo = <<>>
<1>1. ops \in 0..MaxOps /\ ops < MaxOps /\ ops' = ops + 1 /\ MaxOps \in Nat
  BY HashMapAssumption DEF Base, Begin
<1>2. ops' \in 0..MaxOps
  BY <1>1
<1> QED  BY <1>2 DEF Begin, Goes, Base

\* What a step has to establish for the invariant.
LEMMA Went ==
  ASSUME Base, NEW o, NEW st, Goes(o, st), LogOK(st, log'),
         Shape(mem'), free' \subseteq Units, Owned(mem') \cap free' = {},
         NEW m2, Apply(mem', log') = m2, Sound(m2, Elements(st), o, free'),
         Comes(mem', due'), Comes(m2, due' \cap BlocksOf(m2))
  PROVE  Base'
<1>1. op' \in Op /\ Sound(m2, Elements(st), op', free')
  <2>1. CASE st = <<>>
    <3>1. Shape(m2) /\ Owned(m2) \cap free' = {}
      BY DEF Sound, Apart
    <3>2. Sound(m2, {}, Idle, free')
      BY <3>1, IdleSound
    <3>3. Elements(st) = {} /\ op' = Idle
      BY <2>1, NoScript DEF Goes
    <3> QED  BY <3>2, <3>3, IdleOp
  <2>2. CASE st # <<>>
    BY <2>2 DEF Goes
  <2> QED  BY <2>1, <2>2
<1>2. After' = m2
  BY DEF After
<1>3. /\ conf' \in Evictions /\ crashes' \in 0..MaxCrashes /\ ops' \in 0..MaxOps
      /\ Script(todo') /\ todo' = st
  BY DEF Goes, Base
<1>4. LogOK(todo', log') /\ Sound(After', Elements(todo'), op', free')
      /\ Comes(After', due' \cap BlocksOf(After'))
  BY <1>1, <1>2, <1>3
<1> QED  BY <1>1, <1>3, <1>4 DEF Base

\* A step after which nothing waits to be committed.
LEMMA WentOn ==
  ASSUME Base, NEW o, NEW st, Goes(o, st), log' \in Seq(Quiet), Len(log') <= 2,
         Len(st) # 0 => st[1] # "copied",
         Shape(mem'), free' \subseteq Units,
         Sound(mem', Elements(st), o, free'), Comes(mem', due')
  PROVE  Base'
<1>1. IsMemory(mem')
  BY DEF Shape
<1>2. Apply(mem', log') = mem' /\ log' \in Seq(Entry)
  BY <1>1, QuietKeeps
<1>3. Len(log') <= 15
  <2>1. Len(log') \in Nat
    OBVIOUS
  <2> QED  BY <2>1
<1>4. LogOK(st, log')
  BY <1>2, <1>3 DEF LogOK
<1>5. Owned(mem') \cap free' = {}
  BY DEF Sound, Apart
<1>6. Comes(mem', due' \cap BlocksOf(mem'))
  BY DEF Comes
<1> QED  BY <1>2, <1>4, <1>5, <1>6, Went

\* What a step that records a group has to establish for the invariant.
LEMMA Recorded ==
  ASSUME Base, Calm, NEW g \in Seq(Entry), Len(g) <= 13, NEW o \in Op, NEW st, Record(g, o, st),
         Script(st), "copied" \notin Elements(st), Elements(st) \subseteq Stages,
         Shape(mem'), free' \subseteq Units, Owned(mem') \cap free' = {},
         Sound(Apply(mem', g), {"commit"} \cup Elements(st), o, free'),
         due' = due, Comes(mem', due), Comes(Apply(mem', g), due \cap BlocksOf(Apply(mem', g)))
  PROVE  Base'
<1>1. log \in Seq(Quiet) /\ Len(log) <= 2 /\ Len(log) \in Nat /\ log \in Seq(Entry)
  BY CalmAfter, QuietKeeps
<1> DEFINE r == <<"commit">> \o st
           k == log \o g
<1>2. log' = k /\ Go(o, r)
  BY DEF Record
<1>3. "commit" \in Stages /\ Elements(st) \subseteq Later("commit")
  BY LaterIs DEF Stages
<1>4. Script(r) /\ Elements(r) = {"commit"} \cup Elements(st) /\ r[1] = "commit" /\ Len(r) # 0
  <2>1. "commit" = "copied" => Len(st) # 0 /\ st[1] = "commit"
    OBVIOUS
  <2> QED  BY <1>3, <2>1, ScriptPut
<1>5. Apply(mem', k) = Apply(mem', g)
  <2>1. IsMemory(mem')
    BY DEF Shape
  <2> QED  BY <1>1, <2>1, AfterQuiet
<1>6. k \in Seq(Entry) /\ Len(k) = Len(log) + Len(g)
  BY <1>1, Joined
<1>7. Len(k) <= 15
  <2>1. Len(g) \in Nat
    OBVIOUS
  <2> QED  BY <1>1, <1>6, <2>1
<1> HIDE DEF r, k
<1>8. LogOK(r, log')
  BY <1>2, <1>4, <1>6, <1>7 DEF LogOK
<1>9. Goes(o, r)
  BY <1>2, <1>4, GoGoes
<1>10. Apply(mem', log') = Apply(mem', g)
  BY <1>2, <1>5
<1>11. Sound(Apply(mem', g), Elements(r), o, free') /\ Comes(mem', due')
       /\ Comes(Apply(mem', g), due' \cap BlocksOf(Apply(mem', g)))
  BY <1>4
<1> QED  BY <1>8, <1>9, <1>10, <1>11, Went

-----------------------------------------------------------------------------
(* The invariant is kept: committing, dying, erasing and releasing. *)

\* The operators of the model read the memory as it is.
LEMMA Reading ==
  /\ Blocks = BlocksOf(mem) /\ SetOrder = SetOf(mem)
  /\ \A i : Chain(i) = ChainOf(mem, i)
  /\ \A u : ChunksOf(u) = ChunksIn(mem, u)
  BY DEF Blocks, SetOrder, Chain, ChunksOf, Follow, BlocksOf, SetOf, ChainOf, ChunksIn

\* What is sound for a script is sound for a part of it.
LEMMA SoundLess ==
  ASSUME NEW m, NEW A, NEW o, NEW fr, Sound(m, A, o, fr), NEW B, B \subseteq A,
         "free" \in A => "free" \in B \/ o.gone = {},
         "grab" \in A => "grab" \in B \/ Len(o.got) = 0,
         "join" \in A => "join" \in B, "alloc" \in A => "alloc" \in B
  PROVE  Sound(m, B, o, fr)
<1>1. Loose(B, o) = Loose(A, o)
  BY DEF Loose
<1>2. Apart(m, B, o, fr)
  BY <1>1 DEF Sound, Apart
<1>3. Placed(m, B, o)
  BY DEF Sound, Placed
<1> QED  BY <1>2, <1>3 DEF Sound

\* Soundness depends on blocks, owners, buckets and keys only.
LEMMA SoundKept ==
  ASSUME NEW m, NEW A, NEW o, NEW fr, Sound(m, A, o, fr), NEW m2, Shape(m2),
         BlocksOf(m2) = BlocksOf(m), Owned(m2) = Owned(m),
         \A u \in BlocksOf(m) : /\ m2.index[u] = m.index[u] /\ m2.data[u] = m.data[u]
                                /\ ChunksIn(m2, u) = ChunksIn(m, u)
  PROVE  Sound(m2, A, o, fr)
<1>1. Apart(m2, A, o, fr)
  BY DEF Sound, Apart
<1>2. A \cap Working # {} \/ "alloc" \in A => o.b = 0 \/ o.b \in BlocksOf(m)
  BY DEF Sound, Placed
<1>3. "grab" \in A \/ "join" \in A => ChunksIn(m2, o.b) = ChunksIn(m, o.b)
  <2>1. ChunksIn(m2, 0) = ChunksIn(m, 0)
    BY PathOfNone DEF ChunksIn
  <2> QED  BY <2>1, <1>2 DEF Working, Filling
<1>4. A \cap Setting # {} /\ o.b # 0 => m2.index[o.b] = HashOf[o.key]
  BY <1>2 DEF Setting, Working, Filling, Sound, Placed
<1>5. \A u \in BlocksOf(m2) : m2.data[u].key = m.data[u].key
  OBVIOUS
<1>6. Placed(m2, A, o)
  BY <1>3, <1>4, <1>5 DEF Sound, Placed
<1> QED  BY <1>1, <1>6 DEF Sound

\* Once the backup cursor is past the last block nothing is due.
LEMMA NoneComes ==
  ASSUME NEW m, Shape(m), m.head.backupTail \notin BlocksOf(m), NEW d, Comes(m, d)
  PROVE  d = {}
<1>1. GetOf(m) \in Seq(Units) /\ Elements(GetOf(m)) = BlocksOf(m)
  BY DEF Shape, GetFits, Listed, Forth
<1>2. Upto(GetOf(m), m.head.backupTail) = {}
  BY <1>1, UptoNone
<1> QED  BY <1>2 DEF Comes

\* The backup comes to its blocks when the get list and its cursor stay.
LEMMA ComesKept ==
  ASSUME NEW m, NEW m2, NEW d, Comes(m, d), GetOf(m2) = GetOf(m),
         m2.head.backupTail = m.head.backupTail
  PROVE  Comes(m2, d)
  BY DEF Comes

\* The backup still comes to the other blocks when one is erased.
LEMMA ErasedComes ==
  ASSUME NEW m, NEW m2, Shape(m), NEW u \in BlocksOf(m), Erases(m, m2, u), IsMemory(m2),
         NEW d, Comes(m, d)
  PROVE  Comes(m2, d \cap BlocksOf(m2))
<1> DEFINE c == m.head.backupTail
<1>1. /\ BlocksOf(m2) = BlocksOf(m) \ {u}
      /\ \A v \in BlocksOf(m) :
           Upto(GetOf(m2), IF v = u THEN m.getPrev[u] ELSE v) = Upto(GetOf(m), v) \ {u}
  BY EraseShape
<1>2. CASE c \in BlocksOf(m)
  <2>1. m2.head.backupTail = IF c = u THEN m.getPrev[u] ELSE c
    BY DEF Erases
  <2>2. Upto(GetOf(m2), m2.head.backupTail) = Upto(GetOf(m), c) \ {u}
    BY <2>1, <1>1, <1>2
  <2> QED  BY <2>2, <1>1 DEF Comes
<1>3. CASE c \notin BlocksOf(m)
  <2>1. d = {}
    BY <1>3, NoneComes
  <2> QED  BY <2>1 DEF Comes
<1> QED  BY <1>2, <1>3

\* doUpdate keeps the invariant Base.
LEMMA CommitKeeps == ASSUME Base, Commit PROVE Base'
<1> DEFINE R == Elements(Tail(todo))
<1>1. At("commit") /\ mem' = After /\ log' = <<>> /\ Go(op, Tail(todo)) /\ free' = free
      /\ due' = due \cap BlocksOf(mem')
  BY Reading DEF Commit, After, Blocks, SetOrder, Follow, BlocksOf, SetOf
<1>2. /\ Script(Tail(todo)) /\ Elements(todo) = {"commit"} \cup R
      /\ Len(Tail(todo)) # 0 => Tail(todo)[1] # "copied"
  BY <1>1, AtStage
<1>3. Goes(op, Tail(todo))
  BY <1>1, <1>2, GoGoes DEF Base
<1>4. Sound(After, {"commit"} \cup R, op, free) /\ free \subseteq Units
  BY <1>2 DEF Base
<1>5. Sound(After, R, op, free)
  BY <1>4, SoundLess
<1>6. Shape(mem') /\ Sound(mem', R, op, free') /\ free' \subseteq Units
  BY <1>1, <1>4, <1>5 DEF Sound
<1>7. Comes(mem', due')
  BY <1>1 DEF Base
<1>8. log' \in Seq(Quiet) /\ Len(log') <= 2
  BY <1>1
<1> QED  BY <1>2, <1>3, <1>6, <1>7, <1>8, WentOn

\* The death of the process keeps the invariant Base.
LEMMA CrashKeeps == ASSUME Base, Crash PROVE Base'
<1>1. /\ crashes' = crashes + 1 /\ crashes < MaxCrashes /\ log' = <<>> /\ todo' = <<>> /\ op' = Idle
      /\ conf' = conf /\ mem' = mem /\ free' = free /\ due' = due /\ ops' = ops
  BY DEF Crash
<1>2. crashes' \in 0..MaxCrashes
  BY <1>1, HashMapAssumption DEF Base
<1>3. Goes(Idle, <<>>)
  BY <1>1, <1>2, NoScript, IdleOp DEF Goes, Base
<1>4. Shape(mem) /\ Owned(mem) \cap free = {} /\ free \subseteq Units /\ Comes(mem, due)
  BY DEF Base
<1>5. Sound(mem, {}, Idle, free)
  BY <1>4, IdleSound
<1>6. log' \in Seq(Quiet) /\ Len(log') <= 2 /\ Len(<<>>) = 0 /\ Elements(<<>>) = {}
  BY <1>1, NoScript
<1>7. Shape(mem') /\ Sound(mem', Elements(<<>>), Idle, free') /\ free' \subseteq Units /\ Comes(mem', due')
  BY <1>1, <1>4, <1>5, <1>6
<1> QED  BY <1>3, <1>6, <1>7, WentOn

\* Units that are released hold nothing; the rest of the memory is as it was.
Released(m, m2, G) ==
    /\ IsMemory(m2)
    /\ m2.head = m.head /\ m2.bucket = m.bucket /\ m2.listCount = m.listCount /\ m2.index = m.index
    /\ \A f \in UnitLinks, x \in Units \ G : m2[f][x] = m[f][x]
    /\ \A x \in Units \ G :
         m2.data[x] = m.data[x] /\ m2.dirty[x] = m.dirty[x] /\ m2.onlyKey[x] = m.onlyKey[x]

\* Free clears the units it releases and no other.
LEMMA FreeEffect ==
  ASSUME IsMemory(mem), Free
  PROVE  Released(mem, mem', op.gone)
<1> DEFINE G == op.gone
<1>1. DOMAIN mem = Fields
  BY DEF IsMemory
<1>2. mem' = [f \in Fields |->
                CASE f \in UnitLinks -> [u \in Units |-> IF u \in G THEN u ELSE mem[f][u]]
                  [] f = "data" -> [u \in Units |-> IF u \in G THEN Empty ELSE mem[f][u]]
                  [] f \in {"dirty", "onlyKey"} -> [u \in Units |-> u \notin G /\ mem[f][u]]
                  [] OTHER -> mem[f]]
  BY <1>1 DEF Free
<1>3. mem' = [f \in Fields |-> mem'[f]]
  BY <1>2
<1>4. \A f \in UnitLinks : mem'[f] = [u \in Units |-> IF u \in G THEN u ELSE mem[f][u]]
  BY <1>2 DEF Fields, UnitLinks
<1>5. mem'.data = [u \in Units |-> IF u \in G THEN Empty ELSE mem.data[u]]
  BY <1>2 DEF Fields, UnitLinks
<1>6. /\ mem'.dirty = [u \in Units |-> u \notin G /\ mem.dirty[u]]
      /\ mem'.onlyKey = [u \in Units |-> u \notin G /\ mem.onlyKey[u]]
  BY <1>2 DEF Fields, UnitLinks
<1>7. /\ mem'.head = mem.head /\ mem'.bucket = mem.bucket /\ mem'.listCount = mem.listCount
      /\ mem'.index = mem.index
  BY <1>2 DEF Fields, UnitLinks
<1>8. ASSUME NEW f \in UnitLinks PROVE mem'[f] \in [Units -> Addr]
  <2>1. mem[f] \in [Units -> Addr] /\ \A u \in Units : u \in Addr
    BY DEF IsMemory, Addr
  <2>2. mem'[f] = [u \in Units |-> IF u \in G THEN u ELSE mem[f][u]]
    BY <1>4
  <2> QED  BY <2>1, <2>2
<1>9. mem'.data \in [Units -> Datum]
  BY <1>5 DEF IsMemory, Empty, Datum
<1>10. mem'.dirty \in [Units -> BOOLEAN] /\ mem'.onlyKey \in [Units -> BOOLEAN]
  BY <1>6
<1>11. IsMemory(mem')
  BY <1>3, <1>7, <1>8, <1>9, <1>10 DEF IsMemory
<1>12. \A f \in UnitLinks, x \in Units \ G : mem'[f][x] = mem[f][x]
  BY <1>4
<1>13. ASSUME NEW x \in Units \ G
       PROVE  /\ mem'.data[x] = mem.data[x] /\ mem'.dirty[x] = mem.dirty[x]
              /\ mem'.onlyKey[x] = mem.onlyKey[x]
  <2>1. mem'.data[x] = mem.data[x]
    BY <1>5
  <2>2. mem'.dirty[x] = mem.dirty[x] /\ mem'.onlyKey[x] = mem.onlyKey[x]
    <3>1. mem.dirty[x] \in BOOLEAN /\ mem.onlyKey[x] \in BOOLEAN
      BY DEF IsMemory
    <3>2. mem'.dirty[x] = (x \notin G /\ mem.dirty[x]) /\ mem'.onlyKey[x] = (x \notin G /\ mem.onlyKey[x])
      BY <1>6
    <3>3. x \notin G
      OBVIOUS
    <3> QED  BY <3>1, <3>2, <3>3, Zenon
  <2> QED  BY <2>1, <2>2
<1> QED  BY <1>7, <1>11, <1>12, <1>13 DEF Released

\* Units that belong to no block may be cleared.
LEMMA ReleasedStays ==
  ASSUME NEW m, Shape(m), NEW m2, NEW G, Released(m, m2, G), Owned(m) \cap G = {}
  PROVE  Stays(m, m2) /\ SameChunks(m, m2)
<1>1. BlocksOf(m) \subseteq Owned(m) /\ Owned(m) \subseteq Units
  BY OwnUnits DEF Shape
<1>2. \A x \in BlocksOf(m) : x \in Units \ G
  BY <1>1
<1>3. \A f \in UnitLinks, x \in Owned(m) : m2[f][x] = m[f][x]
  BY <1>1 DEF Released
<1>4. SameSet(m, m2) /\ SameGet(m, m2)
  BY <1>1, <1>3 DEF SameSet, SameGet, Released, UnitLinks
<1>5. SameChains(m, m2) /\ SameChunks(m, m2)
  BY <1>1, <1>3 DEF SameChains, SameChunks, Released, UnitLinks
<1>6. SameKeys(m, m2)
  BY <1>2 DEF SameKeys, Released
<1>7. KeysFit(m, m2)
  BY <1>6, KeysStay DEF Shape
<1>8. CursorsFit(m, m2) /\ m2.head.elements = m.head.elements /\ IsMemory(m2)
  BY DEF CursorsFit, Released, Shape, Cursors
<1> QED  BY <1>4, <1>5, <1>7, <1>8 DEF Stays

\* Releasing the units of an erased block keeps the invariant Base.
LEMMA FreeKeeps == ASSUME Base, Free PROVE Base'
<1> DEFINE R == Elements(Tail(todo))
           o == [op EXCEPT !.gone = {}]
<1>1. /\ At("free") /\ free' = free \cup op.gone /\ Go(o, Tail(todo)) /\ log' = log /\ due' = due
  BY DEF Free
<1>2. /\ Script(Tail(todo)) /\ Elements(todo) = {"free"} \cup R /\ R \subseteq Later("free")
      /\ Len(Tail(todo)) # 0 => Tail(todo)[1] # "copied"
      /\ Calm
  BY <1>1, AtStage
<1>3. /\ log \in Seq(Quiet) /\ Len(log) <= 2 /\ Sound(mem, {"free"} \cup R, op, free)
      /\ Shape(mem) /\ IsMemory(mem) /\ Comes(mem, due)
  BY <1>2, CalmAfter
<1>4. op \in Op /\ free \subseteq Units
  BY DEF Base
<1>5. /\ o \in Op /\ o.gone = {} /\ o.got = op.got /\ o.b = op.b /\ o.key = op.key
      /\ o.need = op.need /\ o.next = op.next
  BY <1>4 DEF Op
<1> HIDE DEF o
<1>6. Goes(o, Tail(todo))
  BY <1>1, <1>2, <1>5, GoGoes
<1>7. Owned(mem) \cap op.gone = {} /\ Owned(mem) \cap free = {}
  BY <1>3 DEF Sound, Apart
<1>8. Stays(mem, mem') /\ SameChunks(mem, mem') /\ Released(mem, mem', op.gone)
  BY <1>3, <1>7, FreeEffect, ReleasedStays
<1>9. /\ Shape(mem') /\ BlocksOf(mem') = BlocksOf(mem) /\ GetOf(mem') = GetOf(mem)
      /\ Owned(mem') = Owned(mem)
      /\ \A u \in BlocksOf(mem) : ChunksIn(mem', u) = ChunksIn(mem, u)
  BY <1>3, <1>8, ShapeStays
<1>10. \A u \in BlocksOf(mem) : mem'.index[u] = mem.index[u] /\ mem'.data[u] = mem.data[u]
  <2>1. BlocksOf(mem) \subseteq Owned(mem) /\ Owned(mem) \subseteq Units
    BY <1>3, OwnUnits DEF Shape
  <2> QED  BY <2>1, <1>7, <1>8 DEF Released
<1>11. Sound(mem', {"free"} \cup R, op, free)
  BY <1>3, <1>9, <1>10, SoundKept
<1>12. "free" \notin R
  BY <1>2, LaterIs
<1>13. Sound(mem', R, o, free')
  <2>1. Loose(R, o) = Loose({"free"} \cup R, op)
    BY <1>5 DEF Loose
  <2>2. Apart(mem', R, o, free')
    BY <1>1, <1>5, <1>11, <2>1 DEF Sound, Apart
  <2>3. Placed(mem', R, o)
    BY <1>5, <1>11 DEF Sound, Placed
  <2> QED  BY <2>2, <2>3, <1>9 DEF Sound
<1>14. Comes(mem', due')
  <2>1. mem'.head.backupTail = mem.head.backupTail
    BY <1>8 DEF Released
  <2> QED  BY <1>1, <1>3, <1>9, <2>1, ComesKept
<1>15. free' \subseteq Units /\ log' \in Seq(Quiet) /\ Len(log') <= 2
  BY <1>1, <1>3, <1>4 DEF Op
<1> QED  BY <1>2, <1>6, <1>9, <1>13, <1>14, <1>15, WentOn

\* What the erasing stages leave is sound once the group is applied.
LEMMA ErasedSound ==
  ASSUME NEW A, Sound(mem, A, op, free), "free" \notin A, NEW u \in BlocksOf(mem),
         NEW o, o.got = op.got, o.gone = Own(mem, u), o.b = op.b, o.key = op.key,
         o.need = op.need, o.next = op.next,
         NEW B, B \ {"commit", "free"} \subseteq A, "free" \in B, "item" \notin B,
         "join" \in A => "join" \in B, "grab" \in A => "grab" \in B, "alloc" \in A => "alloc" \in B,
         B \cap Working # {} /\ "alloc" \notin B => u # op.b,
         NEW m2, Erases(mem, m2, u), IsMemory(m2)
  PROVE  /\ Sound(m2, B, o, free) /\ BlocksOf(m2) = BlocksOf(mem) \ {u}
         /\ Owned(m2) = Owned(mem) \ Own(mem, u)
<1>1. Shape(mem)
  BY DEF Sound
<1>2. /\ Shape(m2) /\ BlocksOf(m2) = BlocksOf(mem) \ {u}
      /\ \A v \in BlocksOf(mem) : ChunksIn(m2, v) = ChunksIn(mem, v)
      /\ Owned(m2) = Owned(mem) \ Own(mem, u)
  BY <1>1, EraseShape
<1>3. Own(mem, u) \subseteq Owned(mem)
  BY DEF Owned
<1>4. Loose(B, o) = Loose(A, op)
  BY DEF Loose
<1>5. Apart(m2, B, o, free)
  BY <1>2, <1>3, <1>4 DEF Sound, Apart
<1>6. m2.index = mem.index /\ m2.data = mem.data
  BY DEF Erases
<1>7. B \cap Working # {} /\ "alloc" \notin B => op.b \in BlocksOf(m2)
  <2>1. B \cap Working # {} => A \cap Working # {}
    BY DEF Working, Filling
  <2> QED  BY <1>2, <2>1 DEF Sound, Placed
<1>8. "grab" \in B \/ "join" \in B => ChunksIn(m2, op.b) = ChunksIn(mem, op.b)
  <2>1. ChunksIn(m2, 0) = ChunksIn(mem, 0)
    BY PathOfNone DEF ChunksIn
  <2>2. "grab" \in B \/ "join" \in B => op.b = 0 \/ op.b \in BlocksOf(mem)
    BY DEF Sound, Placed, Working, Filling
  <2> QED  BY <1>2, <2>1, <2>2
<1>9. B \cap Setting # {} => A \cap Setting # {}
  BY DEF Setting, Filling
<1>10. Placed(m2, B, o)
  BY <1>2, <1>6, <1>7, <1>8, <1>9 DEF Sound, Placed
<1> QED  BY <1>2, <1>5, <1>10 DEF Sound

\* erase of a block keeps the invariant Base.
LEMMA EraseKeeps == ASSUME Base, Erase PROVE Base'
<1> DEFINE R == Elements(Tail(todo))
           u == op.b
           o == [op EXCEPT !.gone = Own(mem, u)]
           st == <<"free">> \o Tail(todo)
           g == UnlinkBlock(u)
<1>1. At("erase") /\ Record(g, o, st) /\ mem' = mem /\ free' = free /\ due' = due
  BY Reading DEF Erase, Own
<1>2. /\ Script(Tail(todo)) /\ Elements(todo) = {"erase"} \cup R /\ R \subseteq Later("erase")
      /\ Calm
  BY <1>1, AtStage
<1>3. /\ Sound(mem, {"erase"} \cup R, op, free) /\ Shape(mem) /\ IsMemory(mem) /\ Comes(mem, due)
  BY <1>2, CalmAfter
<1>4. op \in Op /\ free \subseteq Units /\ Owned(mem) \cap free = {}
  BY DEF Base
<1>5. R \subseteq {"recover"}
  BY <1>2, LaterIs
<1>6. u \in BlocksOf(mem)
  <2>1. "alloc" \notin {"erase"} \cup R /\ ({"erase"} \cup R) \cap Working # {}
    BY <1>5 DEF Working
  <2> QED  BY <1>3, <2>1 DEF Sound, Placed
<1>7. /\ o \in Op /\ o.got = op.got /\ o.gone = Own(mem, u) /\ o.b = op.b /\ o.key = op.key
      /\ o.need = op.need /\ o.next = op.next
  <2>1. Own(mem, u) \subseteq Units
    <3>1. Own(mem, u) \subseteq Owned(mem) /\ Owned(mem) \subseteq Units
      BY <1>3, <1>6, OwnUnits DEF Shape
    <3> QED  BY <3>1
  <2> QED  BY <1>4, <2>1 DEF Op
<1>8. Script(st) /\ Elements(st) = {"free"} \cup R
  <2>1. "free" \in Stages /\ R \subseteq Later("free") /\ ("free" = "copied" => Len(Tail(todo)) # 0 /\ Tail(todo)[1] = "commit")
    BY <1>5, LaterIs DEF Stages
  <2> QED  BY <1>2, <2>1, ScriptPut
<1>9. "copied" \notin Elements(st) /\ Elements(st) \subseteq Stages
  BY <1>5, <1>8 DEF Stages
<1>10. g \in Seq(Entry) /\ Len(g) <= 13 /\ Erases(mem, Apply(mem, g), u) /\ IsMemory(Apply(mem, g))
  BY <1>3, <1>6, EraseEffect
<1> DEFINE B == {"commit"} \cup Elements(st)
           m2 == Apply(mem, g)
<1>11. B = {"commit", "free"} \cup R
  BY <1>8
<1> HIDE DEF o, st, g, R, B, u
<1>12. /\ B \ {"commit", "free"} \subseteq {"erase"} \cup R /\ "free" \in B /\ "item" \notin B
       /\ "free" \notin {"erase"} \cup R
       /\ "join" \notin {"erase"} \cup R /\ "grab" \notin {"erase"} \cup R /\ "alloc" \notin {"erase"} \cup R
       /\ ~(B \cap Working # {} /\ "alloc" \notin B)
  BY <1>5, <1>11 DEF Working, Filling
<1>13. Sound(m2, B, o, free)
  BY <1>3, <1>6, <1>7, <1>10, <1>12, ErasedSound
<1>14. Comes(m2, due \cap BlocksOf(m2))
  BY <1>3, <1>6, <1>10, ErasedComes
<1>15. /\ Shape(mem') /\ free' \subseteq Units /\ Owned(mem') \cap free' = {} /\ Comes(mem', due)
       /\ Sound(Apply(mem', g), B, o, free')
       /\ Comes(Apply(mem', g), due \cap BlocksOf(Apply(mem', g)))
  BY <1>1, <1>3, <1>4, <1>13, <1>14
<1> QED  BY <1>1, <1>2, <1>7, <1>8, <1>9, <1>10, <1>15, Recorded DEF B

\* A stage other than copied may be put before what may follow it.
LEMMA ScriptMore ==
  ASSUME NEW s \in Stages, s # "copied", NEW td, Script(td), Elements(td) \subseteq Later(s)
  PROVE  /\ Script(<<s>> \o td) /\ Elements(<<s>> \o td) = {s} \cup Elements(td)
         /\ Len(<<s>> \o td) # 0 /\ (<<s>> \o td)[1] = s
         /\ Len(td) # 0 => (<<s>> \o td)[2] = td[1]
  BY ScriptPut

\* A stage that finds no memory and gives up keeps the invariant Base.
LEMMA NoMemoryKeeps ==
  ASSUME Base, NEW s \in {"alloc", "grab", "evict"}, At(s), NoMemory,
         mem' = mem, free' = free, log' = log, due' = due
  PROVE  Base'
<1> DEFINE R == Elements(Tail(todo))
           A == {s} \cup R
           o == [op EXCEPT !.gone = Elements(op.got), !.got = <<>>]
           c == op.new /\ op.b # 0
           last == When(c, <<"erase">>)
           st == <<"free">> \o last
<1>1. Go(o, st)
  BY DEF NoMemory
<1>2. Elements(todo) = A /\ R \subseteq Later(s) /\ Calm
  BY AtStage
<1>3. /\ log \in Seq(Quiet) /\ Len(log) <= 2 /\ Sound(mem, A, op, free)
      /\ Shape(mem) /\ IsMemory(mem) /\ Comes(mem, due)
  BY <1>2, CalmAfter
<1>4. op \in Op /\ free \subseteq Units
  BY DEF Base
<1>5. A \subseteq {"alloc", "grab", "evict", "fit", "dirty", "rset"}
  BY <1>2, LaterIs
<1>6. /\ o \in Op /\ o.gone = Elements(op.got) /\ o.got = <<>> /\ Len(o.got) = 0 /\ o.b = op.b
  <2>1. Elements(op.got) \subseteq Units
    BY <1>4, InElements DEF Op
  <2>2. <<>> \in Seq(Units) /\ Len(<<>>) = 0
    OBVIOUS
  <2>3. \A G \in SUBSET Units, e \in Seq(Units) :
          LET p == [op EXCEPT !.gone = G, !.got = e]
          IN  p \in Op /\ p.gone = G /\ p.got = e /\ p.b = op.b
    BY <1>4 DEF Op
  <2> QED  BY <2>1, <2>2, <2>3
<1>7. /\ Script(last) /\ Elements(last) \subseteq {"erase"}
      /\ "erase" \in Elements(last) => op.b # 0
  <2>1. CASE c
    <3>1. last = <<"erase">>
      BY <2>1 DEF When
    <3>2. "erase" \in Stages \ {"copied"}
      BY DEF Stages
    <3> QED  BY <2>1, <3>1, <3>2, OneStage
  <2>2. CASE ~c
    <3>1. last = <<>>
      BY <2>2 DEF When
    <3> QED  BY <3>1, NoScript
  <2> QED  BY <2>1, <2>2
<1> HIDE DEF last, o, c
<1>8. Script(st) /\ Elements(st) = {"free"} \cup Elements(last) /\ st[1] = "free" /\ Len(st) # 0
  <2>1. "free" \in Stages /\ "free" # "copied" /\ Elements(last) \subseteq Later("free")
    BY <1>7, LaterIs DEF Stages
  <2> QED  BY <1>7, <2>1, ScriptMore
<1> HIDE DEF st
<1>9. Goes(o, st)
  BY <1>1, <1>6, <1>8, GoGoes
<1>10. /\ Loose(A, op) = Elements(op.got) /\ op.gone = {}
  BY <1>3, <1>5 DEF Loose, Sound, Apart
<1>11. Loose(Elements(st), o) = {} /\ Once(o.got)
  <2>1. Elements(o.got) = {}
    BY <1>6, NoScript
  <2>2. "join" \notin Elements(st)
    BY <1>7, <1>8
  <2> QED  BY <1>6, <2>1, <2>2 DEF Loose, Once
<1>12. Apart(mem, Elements(st), o, free)
  BY <1>3, <1>6, <1>8, <1>10, <1>11 DEF Sound, Apart
<1>13. "erase" \in Elements(st) => op.b \in BlocksOf(mem)
  <2>1. "alloc" \in A => op.b = 0
    BY <1>3 DEF Sound, Placed
  <2>2. "alloc" \notin A => A \cap Working # {}
    BY DEF Working, Filling
  <2>3. "alloc" \notin A => op.b \in BlocksOf(mem)
    BY <1>3, <2>2 DEF Sound, Placed
  <2> QED  BY <1>7, <1>8, <2>1, <2>3
<1>14. Placed(mem, Elements(st), o)
  <2>1. Elements(st) \subseteq {"free", "erase"}
    BY <1>7, <1>8
  <2>2. Elements(st) \cap Setting = {} /\ (Elements(st) \cap Working # {} => "erase" \in Elements(st))
    BY <2>1 DEF Setting, Filling, Working
  <2> QED  BY <1>6, <1>13, <2>1, <2>2 DEF Placed
<1>15. Sound(mem', Elements(st), o, free') /\ Shape(mem') /\ free' \subseteq Units /\ Comes(mem', due')
  BY <1>3, <1>4, <1>12, <1>14 DEF Sound
<1>16. log' \in Seq(Quiet) /\ Len(log') <= 2 /\ (Len(st) # 0 => st[1] # "copied")
  BY <1>3, <1>8
<1> QED  BY <1>9, <1>15, <1>16, WentOn

\* Eviction begins.
LEMMA EvictionKeeps ==
  ASSUME Base, NEW s \in {"alloc", "grab"}, At(s),
         Go([op EXCEPT !.left = EraseCount], <<"evict">> \o todo),
         mem' = mem, free' = free, log' = log, due' = due
  PROVE  Base'
<1> DEFINE A == Elements(todo)
           o == [op EXCEPT !.left = EraseCount]
           st == <<"evict">> \o todo
<1>1. /\ A = {s} \cup Elements(Tail(todo)) /\ Elements(Tail(todo)) \subseteq Later(s) /\ Calm
  BY AtStage
<1>2. A \subseteq {"alloc", "grab", "fit", "dirty", "rset"} /\ s \in A
  BY <1>1, LaterIs
<1>3. /\ log \in Seq(Quiet) /\ Len(log) <= 2 /\ Sound(mem, A, op, free)
      /\ Shape(mem) /\ IsMemory(mem) /\ Comes(mem, due)
  BY <1>1, CalmAfter
<1>4. op \in Op /\ free \subseteq Units /\ Script(todo) /\ EraseCount \in Nat
  BY HashMapAssumption DEF Base
<1>5. /\ o \in Op /\ o.got = op.got /\ o.gone = op.gone /\ o.b = op.b /\ o.key = op.key
      /\ o.need = op.need /\ o.next = op.next
  BY <1>4 DEF Op
<1> HIDE DEF o
<1>6. Script(st) /\ Elements(st) = {"evict"} \cup A /\ st[1] = "evict" /\ Len(st) # 0
  <2>1. "evict" \in Stages /\ "evict" # "copied" /\ Elements(todo) \subseteq Later("evict")
    BY <1>2, LaterIs DEF Stages
  <2> QED  BY <1>4, <2>1, ScriptMore
<1> HIDE DEF st
<1>7. Goes(o, st)
  BY <1>4, <1>5, <1>6, GoGoes DEF o, st
<1>8. Loose(Elements(st), o) = Loose(A, op)
  BY <1>5, <1>6 DEF Loose
<1>9. Apart(mem, Elements(st), o, free)
  BY <1>3, <1>5, <1>6, <1>8 DEF Sound, Apart
<1>10. /\ Elements(st) \cap Working # {} /\ "alloc" \notin Elements(st) => A \cap Working # {}
       /\ Elements(st) \cap Setting # {} => A \cap Setting # {}
  BY <1>2, <1>6 DEF Working, Setting, Filling
<1>11. Placed(mem, Elements(st), o)
  BY <1>3, <1>5, <1>6, <1>10 DEF Sound, Placed
<1>12. Sound(mem', Elements(st), o, free') /\ Shape(mem') /\ free' \subseteq Units /\ Comes(mem', due')
  BY <1>3, <1>4, <1>9, <1>11 DEF Sound
<1>13. log' \in Seq(Quiet) /\ Len(log') <= 2 /\ (Len(st) # 0 => st[1] # "copied")
  BY <1>3, <1>6
<1> QED  BY <1>7, <1>12, <1>13, WentOn

\* The victim of an eviction is a block, and not the one the operation works on.
LEMMA VictimIs ==
  ASSUME Shape(mem), Victim # 0
  PROVE  Victim \in BlocksOf(mem) /\ Victim # op.b
<1>1. SetFits(mem) /\ GetFits(mem)
  BY DEF Shape
<1>2. mem.head.setTail \in BlocksOf(mem) \cup {0} /\ mem.head.getTail \in BlocksOf(mem) \cup {0}
  <2>1. SetOf(mem) \in Seq(Units) /\ GetOf(mem) \in Seq(Units) /\ Elements(GetOf(mem)) = BlocksOf(mem)
    BY <1>1 DEF SetFits, GetFits, Listed, Forth
  <2>2. mem.head.setTail = End(SetOf(mem)) /\ mem.head.getTail = End(GetOf(mem))
    BY <1>1 DEF SetFits, GetFits, Listed
  <2>3. \A s \in Seq(Units) : End(s) \in Elements(s) \cup {0}
    BY DEF End, Elements
  <2> QED  BY <2>1, <2>2, <2>3 DEF BlocksOf
<1>3. 0 \notin BlocksOf(mem)
  BY <1>1, BlockUnits
<1>4. CASE conf = "set"
  <2>1. Victim = IF mem.head.setTail # 0 /\ mem.head.setTail = op.b
                 THEN mem.setPrev[mem.head.setTail] ELSE mem.head.setTail
    BY <1>4 DEF Victim, SetList
  <2>2. mem.head.setTail # 0 => /\ mem.setPrev[mem.head.setTail] \in BlocksOf(mem) \cup {0}
                                /\ mem.setPrev[mem.head.setTail] # mem.head.setTail
    BY <1>2, Ends
  <2> QED  BY <1>2, <1>3, <2>1, <2>2
<1>5. CASE conf # "set"
  <2>1. Victim = IF mem.head.getTail # 0 /\ mem.head.getTail = op.b
                 THEN mem.getPrev[mem.head.getTail] ELSE mem.head.getTail
    BY <1>5 DEF Victim, GetList
  <2>2. mem.head.getTail # 0 => /\ mem.getPrev[mem.head.getTail] \in BlocksOf(mem) \cup {0}
                                /\ mem.getPrev[mem.head.getTail] # mem.head.getTail
    BY <1>2, Ends
  <2> QED  BY <1>2, <1>3, <2>1, <2>2
<1> QED  BY <1>4, <1>5

\* eraseExcept keeps the invariant Base.
LEMMA EvictKeeps == ASSUME Base, NEW torn, Evict(torn) PROVE Base'
<1> DEFINE A == Elements(todo)
           v == Victim
<1>1. At("evict") /\ mem' = mem /\ free' = free /\ due' = due
  BY DEF Evict
<1>2. /\ A = {"evict"} \cup Elements(Tail(todo)) /\ Elements(Tail(todo)) \subseteq Later("evict")
      /\ Script(Tail(todo)) /\ (Len(Tail(todo)) # 0 => Tail(todo)[1] # "copied") /\ Calm
  BY <1>1, AtStage
<1>3. A \subseteq {"evict", "alloc", "grab", "fit", "dirty", "rset"}
  BY <1>2, LaterIs
<1>4. /\ log \in Seq(Quiet) /\ Len(log) <= 2 /\ Sound(mem, A, op, free)
      /\ Shape(mem) /\ IsMemory(mem) /\ Comes(mem, due)
  BY <1>2, CalmAfter
<1>5. op \in Op /\ free \subseteq Units /\ Owned(mem) \cap free = {} /\ Script(todo)
  BY DEF Base
<1>6. CASE op.left = 0 \/ v = 0
  <2>1. log' = log
    BY <1>6 DEF Evict
  <2>2. CASE op.left = EraseCount
    <3>1. NoMemory
      BY <1>6, <2>2 DEF Evict
    <3> QED  BY <1>1, <2>1, <3>1, NoMemoryKeeps
  <2>3. CASE op.left # EraseCount
    <3>1. Go(op, Tail(todo))
      BY <1>6, <2>3 DEF Evict
    <3>2. Goes(op, Tail(todo))
      BY <1>2, <1>5, <3>1, GoGoes
    <3>3. Sound(mem, Elements(Tail(todo)), op, free)
      BY <1>2, <1>4, SoundLess
    <3>4. /\ log' \in Seq(Quiet) /\ Len(log') <= 2 /\ Shape(mem') /\ free' \subseteq Units
          /\ Sound(mem', Elements(Tail(todo)), op, free') /\ Comes(mem', due')
      BY <1>1, <1>4, <1>5, <2>1, <3>3
    <3> QED  BY <1>2, <3>2, <3>4, WentOn
  <2> QED  BY <2>2, <2>3
<1>7. CASE ~(op.left = 0 \/ v = 0)
  <2> DEFINE w == IF GetBlockData(v, torn) = "ok" THEN op.left - 1 ELSE op.left
             o == [op EXCEPT !.gone = Own(mem, v), !.left = w]
             st == <<"free">> \o todo
             g == UnlinkBlock(v)
  <2>1. Record(g, o, st)
    BY <1>7, Reading DEF Evict, Own
  <2>2. v \in BlocksOf(mem) /\ v # op.b
    BY <1>4, <1>7, VictimIs
  <2> HIDE DEF v
  <2>3. /\ o \in Op /\ o.got = op.got /\ o.gone = Own(mem, v) /\ o.b = op.b /\ o.key = op.key
        /\ o.need = op.need /\ o.next = op.next
    <3>1. Own(mem, v) \subseteq Units
      <4>1. Own(mem, v) \subseteq Owned(mem) /\ Owned(mem) \subseteq Units
        BY <1>4, <2>2, OwnUnits DEF Shape
      <4> QED  BY <4>1
    <3>2. w \in 0..EraseCount
      BY <1>5, <1>7, HashMapAssumption DEF Op
    <3> HIDE DEF g, st, w
    <3> QED  BY <1>5, <3>1, <3>2 DEF Op
  <2>4. Script(st) /\ Elements(st) = {"free"} \cup A
    <3>1. "free" \in Stages /\ "free" # "copied" /\ Elements(todo) \subseteq Later("free")
      BY <1>3, LaterIs DEF Stages
    <3> QED  BY <1>5, <3>1, ScriptMore
  <2>5. "copied" \notin Elements(st) /\ Elements(st) \subseteq Stages
    BY <1>3, <2>4 DEF Stages
  <2>6. g \in Seq(Entry) /\ Len(g) <= 13 /\ Erases(mem, Apply(mem, g), v) /\ IsMemory(Apply(mem, g))
    BY <1>4, <2>2, EraseEffect
  <2> DEFINE B == {"commit"} \cup Elements(st)
             m2 == Apply(mem, g)
  <2>7. B = {"commit", "free"} \cup A
    BY <2>4
  <2> HIDE DEF o, st, g, B, A
  <2>8. /\ B \ {"commit", "free"} \subseteq A /\ "free" \in B /\ "item" \notin B /\ "free" \notin A
        /\ ("join" \in A => "join" \in B) /\ ("grab" \in A => "grab" \in B)
        /\ ("alloc" \in A => "alloc" \in B)
    BY <1>3, <2>7
  <2>9. Sound(m2, B, o, free)
    BY <1>4, <2>2, <2>3, <2>6, <2>8, ErasedSound
  <2>10. Comes(m2, due \cap BlocksOf(m2))
    BY <1>4, <2>2, <2>6, ErasedComes
  <2>11. /\ Shape(mem') /\ free' \subseteq Units /\ Owned(mem') \cap free' = {} /\ Comes(mem', due)
         /\ Sound(Apply(mem', g), B, o, free')
         /\ Comes(Apply(mem', g), due \cap BlocksOf(Apply(mem', g)))
    BY <1>1, <1>4, <1>5, <2>9, <2>10
  <2> QED  BY <1>1, <1>2, <2>1, <2>3, <2>4, <2>5, <2>6, <2>11, Recorded DEF B
<1> QED  BY <1>6, <1>7

-----------------------------------------------------------------------------
(* The invariant is kept: a new block. *)

\* makeNew writes the head of the unit.
Makes(m, m1, u, i) ==
    m1 = [f \in DOMAIN m |->
            CASE f \in UnitLinks -> [m[f] EXCEPT ![u] = 0]
              [] f = "index"     -> [m[f] EXCEPT ![u] = i]
              [] f = "data"      -> [m[f] EXCEPT ![u] = Empty]
              [] f = "dirty"     -> [m[f] EXCEPT ![u] = TRUE]
              [] f = "onlyKey"   -> [m[f] EXCEPT ![u] = FALSE]
              [] OTHER           -> m[f]]

\* The cells Alloc writes directly are those of the new unit.
LEMMA AllocEffect ==
  ASSUME NEW m, IsMemory(m), NEW u \in Units, NEW i \in Buckets, NEW m1, Makes(m, m1, u, i)
  PROVE  Fresh(m, m1, u, i)
<1>1. DOMAIN m = Fields
  BY DEF IsMemory
<1>2. m1 = [f \in Fields |-> m1[f]]
  BY <1>1 DEF Makes
<1>3. \A f \in UnitLinks : m1[f] = [m[f] EXCEPT ![u] = 0]
  BY <1>1 DEF Makes, Fields, UnitLinks
<1>4. /\ m1.index = [m.index EXCEPT ![u] = i] /\ m1.data = [m.data EXCEPT ![u] = Empty]
      /\ m1.dirty = [m.dirty EXCEPT ![u] = TRUE]
      /\ m1.onlyKey = [m.onlyKey EXCEPT ![u] = FALSE]
  BY <1>1 DEF Makes, Fields, UnitLinks
<1>5. m1.head = m.head /\ m1.bucket = m.bucket /\ m1.listCount = m.listCount
  BY <1>1 DEF Makes, Fields, UnitLinks
<1>6. ASSUME NEW f \in UnitLinks
      PROVE  m1[f] \in [Units -> Addr] /\ m1[f][u] = 0 /\ \A x \in Units \ {u} : m1[f][x] = m[f][x]
  <2>1. m[f] \in [Units -> Addr] /\ 0 \in Addr
    BY DEF IsMemory, Addr
  <2> QED  BY <1>3, <2>1
<1>7. Empty \in Datum
  BY DEF Empty, Datum
<1>8. /\ m.index \in [Units -> Buckets] /\ m.data \in [Units -> Datum]
      /\ m.dirty \in [Units -> BOOLEAN] /\ m.onlyKey \in [Units -> BOOLEAN]
  BY DEF IsMemory
<1>9. /\ m1.index \in [Units -> Buckets] /\ m1.data \in [Units -> Datum]
      /\ m1.dirty \in [Units -> BOOLEAN] /\ m1.onlyKey \in [Units -> BOOLEAN]
  BY <1>4, <1>7, <1>8
<1>10. IsMemory(m1)
  BY <1>2, <1>5, <1>6, <1>9 DEF IsMemory
<1>11. /\ m1.index[u] = i /\ m1.data[u] = Empty /\ m1.dirty[u] = TRUE /\ m1.onlyKey[u] = FALSE
       /\ \A x \in Units \ {u} :
            /\ m1.index[x] = m.index[x] /\ m1.data[x] = m.data[x]
            /\ m1.dirty[x] = m.dirty[x] /\ m1.onlyKey[x] = m.onlyKey[x]
  BY <1>4, <1>8
<1> QED  BY <1>5, <1>6, <1>10, <1>11 DEF Fresh

\* The backup still comes to its blocks when a new one is linked in front.
LEMMA LinkedComes ==
  ASSUME NEW m, NEW m2, Shape(m), NEW u \in Units, u \notin Owned(m), NEW i \in Buckets,
         Links(m, m2, u, i), IsMemory(m2), NEW d, Comes(m, d)
  PROVE  Comes(m2, d)
<1> DEFINE c == m.head.backupTail
<1>1. \A v \in BlocksOf(m) : Upto(GetOf(m2), v) = Upto(GetOf(m), v) \cup {u}
  BY LinkShape
<1>2. m2.head.backupTail = c
  BY DEF Links
<1>3. CASE c \in BlocksOf(m)
  BY <1>1, <1>2, <1>3 DEF Comes
<1>4. CASE c \notin BlocksOf(m)
  <2>1. d = {}
    BY <1>4, NoneComes
  <2> QED  BY <2>1 DEF Comes
<1> QED  BY <1>3, <1>4

\* What the new block leaves is sound once the group is applied.
LEMMA MadeSound ==
  ASSUME NEW R, R \subseteq {"fit", "dirty", "rset"}, Sound(mem, {"alloc"} \cup R, op, free),
         NEW u \in free, free \subseteq Units, NEW i \in Buckets, i = HashOf[op.key],
         NEW o, o.got = op.got, o.gone = op.gone, o.b = u, o.key = op.key,
         NEW m2, Links(mem, m2, u, i), IsMemory(m2)
  PROVE  Sound(m2, {"commit"} \cup R, o, free \ {u}) /\ Owned(m2) = Owned(mem) \cup {u}
<1> DEFINE A == {"alloc"} \cup R
           B == {"commit"} \cup R
<1>1. Shape(mem) /\ u \in Units /\ u \notin Owned(mem) /\ u # 0
  BY HashMapAssumption DEF Sound, Apart
<1>2. /\ Shape(m2) /\ BlocksOf(m2) = BlocksOf(mem) \cup {u} /\ u \notin BlocksOf(mem)
      /\ Owned(m2) = Owned(mem) \cup {u}
  BY <1>1, LinkShape
<1>3. Loose(B, o) = Loose(A, op) /\ op.gone = {}
  BY DEF Loose, Sound, Apart
<1>4. Apart(m2, B, o, free \ {u})
  BY <1>1, <1>2, <1>3 DEF Sound, Apart
<1>5. op.b = 0 /\ op.key \in Keys /\ \A v \in BlocksOf(mem) : mem.data[v].key # op.key
  <2>1. A \cap Setting # {} /\ "alloc" \in A
    BY DEF Setting
  <2>2. op.b = 0 /\ op.key \in Keys /\ \A v \in BlocksOf(mem) : mem.data[v].key = op.key => v = op.b
    BY <2>1 DEF Sound, Placed
  <2>3. 0 \notin BlocksOf(mem)
    BY <1>1, BlockUnits DEF Shape
  <2> QED  BY <2>2, <2>3
<1>6. /\ m2.index[u] = HashOf[op.key] /\ m2.data[u].key = None
      /\ \A v \in BlocksOf(mem) : m2.data[v].key = mem.data[v].key
  <2>1. \A v \in BlocksOf(mem) : v \in Units \ {u}
    BY <1>1, <1>2, BlockUnits DEF Shape
  <2> QED  BY <2>1 DEF Links, Empty
<1>7. \A v \in BlocksOf(m2) : m2.data[v].key = op.key => v = u
  BY <1>2, <1>5, <1>6
<1>8. Placed(m2, B, o)
  BY <1>2, <1>5, <1>6, <1>7 DEF Placed
<1> QED  BY <1>2, <1>4, <1>8 DEF Sound

\* A new block (allocate, makeNew) keeps the invariant Base.
LEMMA AllocKeeps == ASSUME Base, Alloc PROVE Base'
<1> DEFINE R == Elements(Tail(todo))
<1>1. At("alloc") /\ due' = due
  BY DEF Alloc
<1>2. /\ Elements(todo) = {"alloc"} \cup R /\ R \subseteq Later("alloc") /\ R \subseteq Stages
      /\ Script(Tail(todo)) /\ "copied" \notin R /\ Calm
  BY <1>1, AtStage
<1>3. R \subseteq {"fit", "dirty", "rset"}
  BY <1>2, LaterIs
<1>4. /\ log \in Seq(Quiet) /\ Len(log) <= 2 /\ Sound(mem, {"alloc"} \cup R, op, free)
      /\ Shape(mem) /\ IsMemory(mem) /\ Comes(mem, due)
  BY <1>2, CalmAfter
<1>5. op \in Op /\ free \subseteq Units /\ Owned(mem) \cap free = {}
  BY DEF Base
<1>6. CASE \E u \in free :
             LET i == HashOf[op.key]
             IN  /\ free' = free \ {u}
                 /\ mem' = [f \in DOMAIN mem |->
                             CASE f \in UnitLinks -> [mem[f] EXCEPT ![u] = 0]
                               [] f = "index"     -> [mem[f] EXCEPT ![u] = i]
                               [] f = "data"      -> [mem[f] EXCEPT ![u] = Empty]
                               [] f = "dirty"     -> [mem[f] EXCEPT ![u] = TRUE]
                               [] f = "onlyKey"   -> [mem[f] EXCEPT ![u] = FALSE]
                               [] OTHER           -> mem[f]]
                 /\ Record(LinkNew(u, i), [op EXCEPT !.b = u], Tail(todo))
  <2> DEFINE i == HashOf[op.key]
  <2>1. PICK u \in free :
          /\ free' = free \ {u}
          /\ mem' = [f \in DOMAIN mem |->
                      CASE f \in UnitLinks -> [mem[f] EXCEPT ![u] = 0]
                        [] f = "index"     -> [mem[f] EXCEPT ![u] = i]
                        [] f = "data"      -> [mem[f] EXCEPT ![u] = Empty]
                        [] f = "dirty"     -> [mem[f] EXCEPT ![u] = TRUE]
                        [] f = "onlyKey"   -> [mem[f] EXCEPT ![u] = FALSE]
                        [] OTHER           -> mem[f]]
          /\ Record(LinkNew(u, i), [op EXCEPT !.b = u], Tail(todo))
    BY <1>6
  <2>2. u \in Units /\ u \notin Owned(mem) /\ i \in Buckets
    <3>1. op.key \in Keys
      BY <1>4 DEF Sound, Placed, Setting
    <3> QED  BY <1>5, <3>1, HashMapAssumption
  <2> DEFINE g == LinkNew(u, i)
             o == [op EXCEPT !.b = u]
             m2 == Apply(mem', g)
  <2>3. Record(g, o, Tail(todo))
    BY <2>1
  <2> HIDE DEF i
  <2>4. Fresh(mem, mem', u, i)
    <3>1. Makes(mem, mem', u, i)
      BY <2>1 DEF Makes
    <3> QED  BY <1>4, <2>2, <3>1, AllocEffect
  <2>5. g \in Seq(Entry) /\ Len(g) <= 13 /\ Links(mem, m2, u, i) /\ IsMemory(m2)
    BY <1>4, <2>2, <2>4, LinkEffect
  <2>6. o \in Op /\ o.got = op.got /\ o.gone = op.gone /\ o.b = u /\ o.key = op.key
    BY <1>5, <2>2 DEF Op, Addr
  <2> HIDE DEF g, o
  <2>7. Sound(m2, {"commit"} \cup R, o, free \ {u})
    BY <1>3, <1>4, <1>5, <2>2, <2>5, <2>6, MadeSound DEF i
  <2>8. Stays(mem, mem') /\ SameChunks(mem, mem')
    BY <1>4, <2>2, <2>4, FreshStays
  <2>9. Shape(mem') /\ GetOf(mem') = GetOf(mem) /\ Owned(mem') = Owned(mem)
    BY <1>4, <2>8, ShapeStays
  <2>10. Comes(mem', due)
    <3>1. mem'.head.backupTail = mem.head.backupTail
      BY <2>4 DEF Fresh
    <3> QED  BY <1>4, <2>9, <3>1, ComesKept
  <2>11. Comes(m2, due \cap BlocksOf(m2))
    <3>1. Comes(m2, due)
      BY <1>4, <2>2, <2>5, LinkedComes
    <3> QED  BY <3>1 DEF Comes
  <2>12. free' \subseteq Units /\ Owned(mem') \cap free' = {} /\ Sound(m2, {"commit"} \cup R, o, free')
    BY <1>5, <2>1, <2>7, <2>9
  <2> QED  BY <1>1, <1>2, <2>3, <2>5, <2>6, <2>9, <2>10, <2>11, <2>12, Recorded
<1>7. CASE /\ free = {}
           /\ IF conf = "off" THEN NoMemory
              ELSE Go([op EXCEPT !.left = EraseCount], <<"evict">> \o todo)
           /\ UNCHANGED <<mem, free, log>>
  <2>1. mem' = mem /\ free' = free /\ log' = log
    BY <1>7
  <2>2. CASE conf = "off"
    BY <1>1, <1>7, <2>1, <2>2, NoMemoryKeeps
  <2>3. CASE conf # "off"
    BY <1>1, <1>7, <2>1, <2>3, EvictionKeeps
  <2> QED  BY <2>2, <2>3
<1> QED  BY <1>6, <1>7 DEF Alloc

-----------------------------------------------------------------------------
(* The invariant is kept: the size of a block. *)

\* A group that writes only chunks, data, flags and counts leaves the lists.
LEMMA TouchStays ==
  ASSUME NEW m, Shape(m), NEW g \in Seq(Entry),
         \A f \in Fields \ {"chunk", "data", "dirty", "head"} : \A x, v : Cell(g, f, x, v) = v,
         \A h \in Heads \ {"dirtyCount", "onlyKeyCount"} : \A v : Cell(g, "head", h, v) = v,
         KeysFit(m, Apply(m, g))
  PROVE  /\ Stays(m, Apply(m, g)) /\ Apply(m, g).index = m.index /\ Apply(m, g).onlyKey = m.onlyKey
         /\ \A h \in Heads \ {"dirtyCount", "onlyKeyCount"} : Apply(m, g).head[h] = m.head[h]
         /\ Apply(m, g).setPrev = m.setPrev
<1> DEFINE m2 == Apply(m, g)
<1>1. IsMemory(m)
  BY DEF Shape
<1>2. ASSUME NEW f \in Fields \ {"chunk", "data", "dirty", "head"} PROVE m2[f] = m[f]
  <2>1. \A x, v : Cell(g, f, x, v) = v
    OBVIOUS
  <2> QED  BY <1>1, <2>1, AppliedSame
<1>3. \A h \in Heads \ {"dirtyCount", "onlyKeyCount"} : m2.head[h] = m.head[h]
  BY <1>1, AppliedAt
<1>4. IsMemory(m2)
  BY <1>1, ApplyTyped
<1> HIDE DEF m2
<1>5. /\ m2.setNext = m.setNext /\ m2.setPrev = m.setPrev /\ m2.getNext = m.getNext
      /\ m2.getPrev = m.getPrev /\ m2.blockNext = m.blockNext /\ m2.blockPrev = m.blockPrev
      /\ m2.index = m.index /\ m2.onlyKey = m.onlyKey /\ m2.bucket = m.bucket
      /\ m2.listCount = m.listCount
  BY <1>2 DEF Fields, UnitLinks
<1>6. /\ m2.head.setHead = m.head.setHead /\ m2.head.setTail = m.head.setTail
      /\ m2.head.getHead = m.head.getHead /\ m2.head.getTail = m.head.getTail
      /\ m2.head.dirtyTail = m.head.dirtyTail /\ m2.head.syncTail = m.head.syncTail
      /\ m2.head.backupTail = m.head.backupTail /\ m2.head.elements = m.head.elements
  BY <1>3 DEF Heads, HeadLinks, HeadCounts
<1>7. SameSet(m, m2) /\ SameGet(m, m2) /\ SameChains(m, m2)
  BY <1>5, <1>6 DEF SameSet, SameGet, SameChains
<1>8. CursorsFit(m, m2)
  BY <1>6 DEF CursorsFit, Shape, Cursors
<1>9. KeysFit(m, m2)
  BY DEF m2
<1>10. Stays(m, m2)
  BY <1>4, <1>6, <1>7, <1>8, <1>9 DEF Stays
<1> QED  BY <1>3, <1>5, <1>10 DEF m2

\* A group that writes only chunk links leaves the lists.
LEMMA ButChunks ==
  ASSUME Shape(mem), NEW g \in Seq(Entry),
         \A f \in Fields \ {"chunk"} : \A x, v : Cell(g, f, x, v) = v
  PROVE  Stays(mem, Apply(mem, g)) /\ \A f \in Fields \ {"chunk"} : Apply(mem, g)[f] = mem[f]
<1> DEFINE m2 == Apply(mem, g)
<1>1. IsMemory(mem)
  BY DEF Shape
<1>2. ASSUME NEW f \in Fields \ {"chunk"} PROVE m2[f] = mem[f]
  <2>1. \A x, v : Cell(g, f, x, v) = v
    OBVIOUS
  <2> QED  BY <1>1, <2>1, AppliedSame
<1>3. m2.data = mem.data /\ m2.index = mem.index
  BY <1>2 DEF Fields
<1>4. KeysFit(mem, m2)
  <2>1. SameKeys(mem, m2)
    BY <1>3 DEF SameKeys
  <2> QED  BY <2>1, KeysStay DEF Shape
<1>5. /\ \A f \in Fields \ {"chunk", "data", "dirty", "head"} : \A x, v : Cell(g, f, x, v) = v
      /\ \A h \in Heads \ {"dirtyCount", "onlyKeyCount"} : \A v : Cell(g, "head", h, v) = v
  BY DEF Fields
<1>6. Stays(mem, m2)
  BY <1>4, <1>5, TouchStays
<1> QED  BY <1>2, <1>6

\* v is hung on a, and ends the chunks.
Hangs(m, m2, a, v) ==
    /\ Stays(m, m2) /\ \A f \in Fields \ {"chunk"} : m2[f] = m[f]
    /\ m2.chunk[a] = v /\ m2.chunk[v] = 0
    /\ \A x \in Units \ {a, v} : m2.chunk[x] = m.chunk[x]

\* What the group that hangs a chunk on another writes.
LEMMA HangEffect ==
  ASSUME Shape(mem), NEW a \in Units, NEW v \in Units, a # v,
         NEW g, g = <<<<"chunk", a, v>>, <<"chunk", v, 0>>>>
  PROVE  g \in Seq(Entry) /\ Len(g) = 2 /\ Hangs(mem, Apply(mem, g), a, v)
<1> DEFINE e1 == <<"chunk", a, v>>
           e2 == <<"chunk", v, 0>>
           m2 == Apply(mem, g)
<1>1. e1 \in Entry /\ e2 \in Entry
  <2>1. "chunk" \in UnitLinks /\ v \in Addr /\ 0 \in Addr
    BY DEF UnitLinks, Addr
  <2> QED  BY <2>1, EntryMade
<1>2. e1[1] = "chunk" /\ e1[2] = a /\ e1[3] = v /\ e2[1] = "chunk" /\ e2[2] = v /\ e2[3] = 0 /\ g = <<e1, e2>>
  OBVIOUS
<1> HIDE DEF e1, e2
<1>3. /\ g \in Seq(Entry) /\ Len(g) = 2
      /\ \A f, x, w : Cell(g, f, x, w) = CellOf(e2, f, x, CellOf(e1, f, x, w))
  BY <1>1, <1>2, TwoEntries
<1>4. \A f, x, w : Cell(g, f, x, w) = IF f = "chunk" /\ x = v THEN 0
                                      ELSE IF f = "chunk" /\ x = a THEN v ELSE w
  BY <1>2, <1>3 DEF CellOf
<1>5. \A f \in Fields \ {"chunk"} : \A x, w : Cell(g, f, x, w) = w
  BY <1>4
<1>6. Stays(mem, m2) /\ \A f \in Fields \ {"chunk"} : m2[f] = mem[f]
  BY <1>3, <1>5, ButChunks
<1>7. \A x \in Units : m2.chunk[x] = Cell(g, "chunk", x, mem.chunk[x])
  <2>1. IsMemory(mem) /\ "chunk" \in UnitLinks
    BY DEF Shape, UnitLinks
  <2> QED  BY <2>1, AppliedAt
<1>8. m2.chunk[a] = v /\ m2.chunk[v] = 0 /\ \A x \in Units \ {a, v} : m2.chunk[x] = mem.chunk[x]
  BY <1>4, <1>7
<1> QED  BY <1>3, <1>6, <1>8 DEF Hangs

\* The chunks end at a.
Closes(m, m2, a) ==
    /\ Stays(m, m2) /\ \A f \in Fields \ {"chunk"} : m2[f] = m[f]
    /\ m2.chunk[a] = 0 /\ \A x \in Units \ {a} : m2.chunk[x] = m.chunk[x]

\* What the group that ends a chain of chunks writes.
LEMMA CloseEffect ==
  ASSUME Shape(mem), NEW a \in Units, NEW g, g = <<<<"chunk", a, 0>>>>
  PROVE  g \in Seq(Entry) /\ Len(g) = 1 /\ Closes(mem, Apply(mem, g), a)
<1> DEFINE e1 == <<"chunk", a, 0>>
           m2 == Apply(mem, g)
<1>1. e1 \in Entry
  <2>1. "chunk" \in UnitLinks /\ 0 \in Addr
    BY DEF UnitLinks, Addr
  <2> QED  BY <2>1, EntryMade
<1>2. e1[1] = "chunk" /\ e1[2] = a /\ e1[3] = 0 /\ g = <<e1>>
  OBVIOUS
<1> HIDE DEF e1
<1>3. /\ g \in Seq(Entry) /\ Len(g) = 1 /\ \A f, x, w : Cell(g, f, x, w) = CellOf(e1, f, x, w)
  BY <1>1, <1>2, OneEntry
<1>4. \A f, x, w : Cell(g, f, x, w) = IF f = "chunk" /\ x = a THEN 0 ELSE w
  BY <1>2, <1>3 DEF CellOf
<1>5. \A f \in Fields \ {"chunk"} : \A x, w : Cell(g, f, x, w) = w
  BY <1>4
<1>6. Stays(mem, m2) /\ \A f \in Fields \ {"chunk"} : m2[f] = mem[f]
  BY <1>3, <1>5, ButChunks
<1>7. \A x \in Units : m2.chunk[x] = Cell(g, "chunk", x, mem.chunk[x])
  <2>1. IsMemory(mem) /\ "chunk" \in UnitLinks
    BY DEF Shape, UnitLinks
  <2> QED  BY <2>1, AppliedAt
<1>8. m2.chunk[a] = 0 /\ \A x \in Units \ {a} : m2.chunk[x] = mem.chunk[x]
  BY <1>4, <1>7
<1> QED  BY <1>3, <1>6, <1>8 DEF Closes

\* A block loses the chunks behind a, and its data is d.
Cuts(m, m2, b, a, d) ==
    /\ Stays(m, m2) /\ \A f \in Fields \ {"chunk", "data"} : m2[f] = m[f]
    /\ m2.chunk[a] = 0 /\ \A x \in Units \ {a} : m2.chunk[x] = m.chunk[x]
    /\ m2.data[b] = d /\ \A x \in Units \ {b} : m2.data[x] = m.data[x]

\* What the group that cuts chunks off and rewrites the data writes.
LEMMA CutEffect ==
  ASSUME Shape(mem), NEW b \in BlocksOf(mem), NEW a \in Units, NEW d \in Datum,
         \/ d.key = mem.data[b].key
         \/ d.key = None,
         NEW g, g = <<<<"chunk", a, 0>>, <<"data", b, d>>>>
  PROVE  g \in Seq(Entry) /\ Len(g) = 2 /\ Cuts(mem, Apply(mem, g), b, a, d)
<1> DEFINE e1 == <<"chunk", a, 0>>
           e2 == <<"data", b, d>>
           m2 == Apply(mem, g)
<1>b. b \in Units /\ BlocksOf(mem) \subseteq Units
  BY BlockUnits DEF Shape
<1>1. e1 \in Entry /\ e2 \in Entry
  <2>1. "chunk" \in UnitLinks /\ 0 \in Addr
    BY DEF UnitLinks, Addr
  <2> QED  BY <1>b, <2>1, EntryMade
<1>2. e1[1] = "chunk" /\ e1[2] = a /\ e1[3] = 0 /\ e2[1] = "data" /\ e2[2] = b /\ e2[3] = d /\ g = <<e1, e2>>
  OBVIOUS
<1> HIDE DEF e1, e2
<1>3. /\ g \in Seq(Entry) /\ Len(g) = 2
      /\ \A f, x, w : Cell(g, f, x, w) = CellOf(e2, f, x, CellOf(e1, f, x, w))
  BY <1>1, <1>2, TwoEntries
<1>4. \A f, x, w : Cell(g, f, x, w) = IF f = "data" /\ x = b THEN d
                                      ELSE IF f = "chunk" /\ x = a THEN 0 ELSE w
  BY <1>2, <1>3 DEF CellOf
<1>5. \A f \in Fields \ {"chunk", "data"} : \A x, w : Cell(g, f, x, w) = w
  BY <1>4
<1>6. IsMemory(mem) /\ "chunk" \in UnitLinks
  BY DEF Shape, UnitLinks
<1>7. ASSUME NEW f \in Fields \ {"chunk", "data"} PROVE m2[f] = mem[f]
  <2>1. \A x, v : Cell(g, f, x, v) = v
    BY <1>5
  <2> QED  BY <1>3, <1>6, <2>1, AppliedSame
<1>8. \A x \in Units : /\ m2.chunk[x] = Cell(g, "chunk", x, mem.chunk[x])
                       /\ m2.data[x] = Cell(g, "data", x, mem.data[x])
  BY <1>6, AppliedAt
<1>9. /\ m2.chunk[a] = 0 /\ \A x \in Units \ {a} : m2.chunk[x] = mem.chunk[x]
      /\ m2.data[b] = d /\ \A x \in Units \ {b} : m2.data[x] = mem.data[x]
  BY <1>b, <1>4, <1>8
<1>10. m2.index = mem.index
  BY <1>7 DEF Fields
<1> HIDE DEF m2
<1>11. KeysFit(mem, m2)
  <2>1. CASE d.key = mem.data[b].key
    <3>1. SameKeys(mem, m2)
      BY <1>b, <1>9, <1>10, <2>1 DEF SameKeys
    <3> QED  BY <3>1, KeysStay DEF Shape
  <2>2. CASE d.key = None
    <3>1. Keyed(mem)
      BY DEF Shape
    <3> QED  BY <1>b, <1>9, <1>10, <2>2, <3>1 DEF KeysFit, Keyed
  <2> QED  BY <2>1, <2>2
<1>12. /\ \A f \in Fields \ {"chunk", "data", "dirty", "head"} : \A x, v : Cell(g, f, x, v) = v
       /\ \A h \in Heads \ {"dirtyCount", "onlyKeyCount"} : \A v : Cell(g, "head", h, v) = v
  BY <1>5 DEF Fields
<1>13. Stays(mem, m2)
  BY <1>3, <1>11, <1>12, TouchStays DEF m2
<1> QED  BY <1>3, <1>7, <1>9, <1>13 DEF m2, Cuts

\* The chunks of a block: it comes first and the last points nowhere.
LEMMA OwnChunks ==
  ASSUME NEW m, Shape(m), NEW b \in BlocksOf(m)
  PROVE  LET c == ChunksIn(m, b)
         IN  /\ c \in Seq(Units) /\ Once(c) /\ Len(c) \in Nat /\ Len(c) >= 1 /\ c[1] = b
             /\ End(c) = c[Len(c)] /\ End(c) \in Own(m, b) /\ m.chunk[End(c)] = 0
             /\ \A i \in 1..Len(c) : c[i] \in Own(m, b) /\ c[i] \in Units
             /\ Own(m, b) \subseteq Owned(m) /\ b \in Own(m, b) /\ b \in Units
<1> DEFINE c == ChunksIn(m, b)
<1>1. Forth(c, m.chunk, b) /\ b # 0 /\ b \in Units
  BY BlockUnits DEF Shape, Chunks
<1>2. /\ c \in Seq(Units) /\ Once(c) /\ Len(c) \in Nat /\ Len(c) # 0 /\ c[1] = b
      /\ \A i \in 1..Len(c) : m.chunk[c[i]] = IF i = Len(c) THEN 0 ELSE c[i + 1]
  BY <1>1 DEF Forth
<1>3. \A i \in 1..Len(c) : c[i] \in Elements(c) /\ c[i] \in Units
  BY <1>2, InElements
<1>4. Len(c) >= 1 /\ Len(c) \in 1..Len(c) /\ 1 \in 1..Len(c)
  BY <1>2
<1> QED  BY <1>1, <1>2, <1>3, <1>4 DEF End, Own, Owned

\* Outside grab and join no unit is held by the operation alone.
LEMMA NoneLoose ==
  ASSUME NEW m, NEW A, NEW o, NEW fr, Apart(m, A, o, fr), o.got \in Seq(Units),
         "grab" \notin A, "join" \notin A
  PROVE  Len(o.got) = 0 /\ o.got = <<>> /\ Loose(A, o) = {} /\ Elements(o.got) = {}
<1>1. Len(o.got) = 0
  BY DEF Apart
<1>2. o.got = <<>>
  BY <1>1, NoneIn
<1> QED  BY <1>1, <1>2, NoScript DEF Loose

\* Comparing the size of a block with that of the value keeps the invariant Base.
LEMMA FitKeeps == ASSUME Base, Fit PROVE Base'
<1> DEFINE R == Elements(Tail(todo))
           A == {"fit"} \cup R
           c == ChunksIn(mem, op.b)
           extra == Len(c) - 1
<1>1. At("fit") /\ mem' = mem /\ free' = free /\ due' = due
  BY DEF Fit
<1>2. /\ Elements(todo) = A /\ R \subseteq Later("fit") /\ R \subseteq Stages
      /\ Script(Tail(todo)) /\ "copied" \notin R /\ Calm
  BY <1>1, AtStage
<1>3. R \subseteq {"dirty", "rset"}
  BY <1>2, LaterIs
<1>4. /\ log \in Seq(Quiet) /\ Len(log) <= 2 /\ Sound(mem, A, op, free)
      /\ Shape(mem) /\ IsMemory(mem) /\ Comes(mem, due)
  BY <1>2, CalmAfter
<1>5. op \in Op /\ free \subseteq Units /\ Owned(mem) \cap free = {} /\ op.got \in Seq(Units)
  BY DEF Base, Op
<1>6. /\ op.b \in BlocksOf(mem) /\ op.key \in Keys /\ mem.index[op.b] = HashOf[op.key]
      /\ \A u \in BlocksOf(mem) : mem.data[u].key = op.key => u = op.b
  <2>1. A \cap Working # {} /\ "alloc" \notin A /\ A \cap Setting # {}
    BY <1>3 DEF Working, Setting, Filling
  <2>2. op.b \in BlocksOf(mem) /\ op.b # 0
    BY <1>4, <2>1, BlockUnits DEF Sound, Placed, Shape
  <2> QED  BY <1>4, <2>1, <2>2 DEF Sound, Placed
<1>7. /\ c \in Seq(Units) /\ Len(c) \in Nat /\ Len(c) >= 1 /\ c[1] = op.b
      /\ \A i \in 1..Len(c) : c[i] \in Own(mem, op.b) /\ c[i] \in Units
      /\ Own(mem, op.b) \subseteq Owned(mem) /\ op.b \in Units
  BY <1>4, <1>6, OwnChunks
<1>8. op.need \in Nat
  BY <1>5 DEF Op
<1>9. op.got = <<>> /\ Len(op.got) = 0 /\ Elements(op.got) = {} /\ op.gone = {}
  <2>1. Apart(mem, A, op, free) /\ "grab" \notin A /\ "join" \notin A /\ "free" \notin A
    BY <1>3, <1>4 DEF Sound
  <2>2. op.gone = {}
    BY <2>1 DEF Apart
  <2>3. op.got = <<>> /\ Len(op.got) = 0 /\ Elements(op.got) = {}
    BY <1>5, <2>1, NoneLoose
  <2> QED  BY <2>2, <2>3
<1>10. CASE /\ op.need < extra
            /\ Record(<<<<"chunk", c[op.need + 1], 0>>,
                        <<"data", op.b,
                          IF c[op.need + 1] = op.b THEN Empty
                          ELSE [mem.data[op.b] EXCEPT !.val = "short"]>>>>,
                      [op EXCEPT !.gone = {c[i] : i \in (op.need + 2)..Len(c)}],
                      <<"free", "write">> \o Tail(todo))
  <2> DEFINE k == op.need + 1
             a == c[k]
             d == IF a = op.b THEN Empty ELSE [mem.data[op.b] EXCEPT !.val = "short"]
             g == <<<<"chunk", a, 0>>, <<"data", op.b, d>>>>
             G == Part(c, k + 1, Len(c))
             o == [op EXCEPT !.gone = G]
             st == <<"free">> \o (<<"write">> \o Tail(todo))
             m2 == Apply(mem, g)
  <2>1. k \in 1..Len(c) /\ k + 1 = op.need + 2 /\ k + 1 \in Nat
    BY <1>7, <1>8, <1>10
  <2>2. a \in Units
    BY <1>7, <2>1
  <2>3. Record(g, o, st)
    <3>1. <<"free", "write">> \o Tail(todo) = st
      <4>1. "free" \in Stages /\ "write" \in Stages /\ Tail(todo) \in Seq(Stages)
        BY <1>2 DEF Stages, Script
      <4> QED  BY <4>1, TwoStages
    <3>2. {c[i] : i \in (op.need + 2)..Len(c)} = G
      BY <2>1 DEF Part
    <3> HIDE DEF st, G
    <3> QED  BY <1>10, <3>1, <3>2
  <2>4. d \in Datum /\ (d.key = mem.data[op.b].key \/ d.key = None)
    <3>1. mem.data[op.b] \in Datum
      BY <1>4, <1>7 DEF IsMemory
    <3> QED  BY <3>1 DEF Datum, Empty
  <2>g. g = <<<<"chunk", a, 0>>, <<"data", op.b, d>>>>
    OBVIOUS
  <2> HIDE DEF d, a, k, g
  <2>5. /\ g \in Seq(Entry) /\ Len(g) = 2
        /\ Stays(mem, m2) /\ \A f \in Fields \ {"chunk", "data"} : m2[f] = mem[f]
        /\ m2.chunk[a] = 0 /\ \A x \in Units \ {a} : m2.chunk[x] = mem.chunk[x]
        /\ m2.data[op.b] = d /\ \A x \in Units \ {op.b} : m2.data[x] = mem.data[x]
    <3>1. g \in Seq(Entry) /\ Len(g) = 2 /\ Cuts(mem, Apply(mem, g), op.b, a, d)
      BY <1>4, <1>6, <2>g, <2>2, <2>4, CutEffect
    <3> QED  BY <3>1 DEF Cuts
  <2> HIDE DEF m2
  <2>6. /\ m2.chunk[c[k]] = 0
        /\ \A x \in Owned(mem) \ {c[k]} : m2.chunk[x] = mem.chunk[x]
    <3>1. Owned(mem) \subseteq Units
      BY <1>4, OwnUnits DEF Shape
    <3> QED  BY <2>5, <3>1 DEF a
  <2>7. /\ Shape(m2) /\ BlocksOf(m2) = BlocksOf(mem) /\ GetOf(m2) = GetOf(mem)
        /\ Owned(m2) = Owned(mem) \ G
    BY <1>4, <1>6, <2>1, <2>5, <2>6, CutShape
  <2>8. G \subseteq Owned(mem) /\ G \subseteq Units
    <3>1. \A i \in (k + 1)..Len(c) : i \in 1..Len(c)
      BY <1>7, <2>1
    <3> QED  BY <1>7, <3>1 DEF Part
  <2>9. /\ o \in Op /\ o.gone = G /\ o.got = op.got /\ o.b = op.b /\ o.key = op.key
    <3> HIDE DEF G
    <3> QED  BY <1>5, <2>8 DEF Op
  <2>10. /\ Script(<<"write">> \o Tail(todo)) /\ Elements(<<"write">> \o Tail(todo)) = {"write"} \cup R
    <3>1. "write" \in Stages /\ "write" # "copied" /\ Elements(Tail(todo)) \subseteq Later("write")
      BY <1>3, LaterIs DEF Stages
    <3> QED  BY <1>2, <3>1, ScriptMore
  <2>11. Script(st) /\ Elements(st) = {"free", "write"} \cup R
    <3>1. "free" \in Stages /\ "free" # "copied" /\ Elements(<<"write">> \o Tail(todo)) \subseteq Later("free")
      BY <1>3, <2>10, LaterIs DEF Stages
    <3> QED  BY <2>10, <3>1, ScriptMore
  <2>12. "copied" \notin Elements(st) /\ Elements(st) \subseteq Stages
    BY <1>3, <2>11 DEF Stages
  <2> DEFINE B == {"commit"} \cup Elements(st)
  <2>13. B = {"commit", "free", "write"} \cup R
    BY <2>11
  <2> HIDE DEF o, st, G, B
  <2>14. Apart(m2, B, o, free)
    <3>1. Loose(B, o) = {} /\ Once(o.got) /\ Len(o.got) = 0
      BY <1>3, <1>9, <2>9, <2>13 DEF Loose, Once
    <3> QED  BY <1>5, <2>7, <2>8, <2>9, <2>13, <3>1 DEF Apart
  <2>15. Placed(m2, B, o)
    <3>1. m2.index[op.b] = HashOf[op.key]
      BY <1>6, <2>5 DEF Fields
    <3>2. \A u \in BlocksOf(m2) : m2.data[u].key = op.key => u = op.b
      <4>1. BlocksOf(mem) \subseteq Units
        BY <1>4, BlockUnits DEF Shape
      <4> QED  BY <1>6, <2>5, <2>7, <4>1
    <3>3. B \cap {"alloc", "item", "recover", "grab", "join"} = {}
      BY <1>3, <2>13
    <3> QED  BY <1>6, <2>7, <2>9, <3>1, <3>2, <3>3 DEF Placed
  <2>16. Sound(m2, B, o, free)
    BY <2>7, <2>14, <2>15 DEF Sound
  <2>17. Comes(m2, due \cap BlocksOf(m2))
    <3>1. m2.head = mem.head
      BY <2>5 DEF Fields
    <3>2. Comes(m2, due)
      BY <1>4, <2>7, <3>1, ComesKept
    <3> QED  BY <3>2 DEF Comes
  <2>18. /\ Shape(mem') /\ free' \subseteq Units /\ Owned(mem') \cap free' = {} /\ Comes(mem', due)
         /\ Sound(Apply(mem', g), B, o, free') /\ Len(g) <= 13
         /\ Comes(Apply(mem', g), due \cap BlocksOf(Apply(mem', g)))
    BY <1>1, <1>4, <1>5, <2>5, <2>16, <2>17 DEF m2
  <2> QED  BY <1>1, <1>2, <2>3, <2>5, <2>9, <2>11, <2>12, <2>18, Recorded DEF B
<1>11. ASSUME NEW s \in {"write", "grab"}, s = "grab" => op.need > extra,
              Go(op, <<s>> \o Tail(todo)), log' = log
       PROVE  Base'
  <2> DEFINE st == <<s>> \o Tail(todo)
  <2>1. Script(st) /\ Elements(st) = {s} \cup R /\ st[1] = s
    <3>1. s \in Stages /\ s # "copied" /\ Elements(Tail(todo)) \subseteq Later(s)
      BY <1>3, LaterIs DEF Stages
    <3> QED  BY <1>2, <3>1, ScriptMore
  <2> HIDE DEF st
  <2>2. Goes(op, st)
    BY <1>5, <1>11, <2>1, GoGoes DEF st
  <2>3. Apart(mem, Elements(st), op, free)
    <3>1. Loose(Elements(st), op) = {} /\ Once(op.got)
      BY <1>3, <1>9, <2>1 DEF Loose, Once
    <3> QED  BY <1>4, <1>9, <3>1 DEF Sound, Apart
  <2>4. Placed(mem, Elements(st), op)
    <3>1. Elements(st) \cap {"alloc", "item", "recover", "join"} = {}
      BY <1>3, <2>1
    <3>2. "grab" \in Elements(st) => Len(ChunksIn(mem, op.b)) <= op.need
      <4>1. "grab" \in Elements(st) => s = "grab"
        BY <1>3, <2>1
      <4>2. op.need > extra => Len(c) <= op.need
        BY <1>7, <1>8
      <4> QED  BY <1>11, <4>1, <4>2
    <3> QED  BY <1>6, <3>1, <3>2 DEF Placed
  <2>5. /\ Sound(mem', Elements(st), op, free') /\ Shape(mem') /\ free' \subseteq Units
        /\ Comes(mem', due') /\ log' \in Seq(Quiet) /\ Len(log') <= 2 /\ (Len(st) # 0 => st[1] # "copied")
    BY <1>1, <1>4, <1>5, <1>11, <2>1, <2>3, <2>4 DEF Sound
  <2> QED  BY <2>2, <2>5, WentOn
<1>12. CASE op.need = extra /\ Go(op, <<"write">> \o Tail(todo)) /\ UNCHANGED log
  BY <1>11, <1>12
<1>13. CASE op.need > extra /\ Go(op, <<"grab">> \o Tail(todo)) /\ UNCHANGED log
  BY <1>11, <1>13
<1> QED  BY <1>10, <1>12, <1>13, Reading DEF Fit

\* The units gathered, without the first.
LEMMA GotTail ==
  ASSUME NEW s \in Seq(Units), Once(s), Len(s) # 0
  PROVE  /\ Tail(s) \in Seq(Units) /\ Once(Tail(s)) /\ Len(Tail(s)) = Len(s) - 1 /\ Len(s) \in Nat
         /\ Elements(s) = {s[1]} \cup Elements(Tail(s)) /\ s[1] \notin Elements(Tail(s))
         /\ s[1] \in Units /\ (Len(s) > 1 => Tail(s)[1] = s[2] /\ s[2] \in Elements(Tail(s)) /\ s[2] \in Units)
<1>1. /\ Tail(s) \in Seq(Units) /\ Len(Tail(s)) = Len(s) - 1 /\ Len(s) \in Nat
      /\ \A i \in 1..(Len(s) - 1) : Tail(s)[i] = s[i + 1]
  OBVIOUS
<1>2. s[1] \in Units /\ 1 \in 1..Len(s)
  BY <1>1
<1>3. \A i, j \in 1..Len(s) : s[i] = s[j] => i = j
  BY DEF Once
<1>4. Once(Tail(s))
  <2> SUFFICES ASSUME NEW i \in 1..Len(Tail(s)), NEW j \in 1..Len(Tail(s)), Tail(s)[i] = Tail(s)[j]
               PROVE  i = j
    BY DEF Once
  <2>1. i + 1 \in 1..Len(s) /\ j + 1 \in 1..Len(s) /\ s[i + 1] = s[j + 1]
    BY <1>1
  <2>2. i + 1 = j + 1
    BY <1>3, <2>1
  <2> QED  BY <2>2, <1>1
<1>5. \A x : x \in Elements(s) <=> \E i \in 1..Len(s) : s[i] = x
  BY InElements
<1>6. \A x : x \in Elements(Tail(s)) <=> \E i \in 1..(Len(s) - 1) : Tail(s)[i] = x
  BY <1>1, InElements
<1>7. ASSUME NEW x PROVE x \in Elements(s) <=> x = s[1] \/ x \in Elements(Tail(s))
  <2>1. ASSUME NEW i \in 1..Len(s), s[i] = x, i # 1 PROVE x \in Elements(Tail(s))
    <3>1. i - 1 \in 1..(Len(s) - 1) /\ (i - 1) + 1 = i
      BY <1>1, <2>1
    <3>2. Tail(s)[i - 1] = x
      BY <1>1, <2>1, <3>1
    <3> QED  BY <1>6, <3>1, <3>2
  <2>2. ASSUME NEW i \in 1..(Len(s) - 1), Tail(s)[i] = x PROVE x \in Elements(s)
    <3>1. i + 1 \in 1..Len(s) /\ s[i + 1] = x
      BY <1>1, <2>2
    <3> QED  BY <1>5, <3>1
  <2> QED  BY <1>2, <1>5, <1>6, <2>1, <2>2
<1>8. s[1] \notin Elements(Tail(s))
  <2> SUFFICES ASSUME NEW i \in 1..(Len(s) - 1), Tail(s)[i] = s[1] PROVE FALSE
    BY <1>6
  <2>1. i + 1 \in 1..Len(s) /\ s[i + 1] = s[1] /\ i + 1 # 1
    BY <1>1
  <2> QED  BY <1>2, <1>3, <2>1
<1>9. Len(s) > 1 => Tail(s)[1] = s[2] /\ s[2] \in Elements(Tail(s)) /\ s[2] \in Units
  <2> SUFFICES ASSUME Len(s) > 1 PROVE Tail(s)[1] = s[2] /\ s[2] \in Elements(Tail(s)) /\ s[2] \in Units
    OBVIOUS
  <2>1. 1 \in 1..(Len(s) - 1) /\ 1 + 1 = 2 /\ 2 \in 1..Len(s)
    BY <1>1
  <2>2. Tail(s)[1] = s[2]
    BY <1>1, <2>1
  <2>3. Tail(s)[1] \in Elements(Tail(s))
    BY <1>6, <2>1
  <2>4. s[2] \in Units
    BY <2>1
  <2> QED  BY <2>2, <2>3, <2>4
<1> QED  BY <1>1, <1>2, <1>4, <1>7, <1>8, <1>9

\* The units gathered, with one more.
LEMMA GotMore ==
  ASSUME NEW s \in Seq(Units), Once(s), NEW u \in Units, u \notin Elements(s)
  PROVE  /\ Append(s, u) \in Seq(Units) /\ Once(Append(s, u)) /\ Elements(Append(s, u)) = Elements(s) \cup {u}
<1> DEFINE r == Append(s, u)
<1>1. /\ r \in Seq(Units) /\ Len(r) = Len(s) + 1 /\ Len(s) \in Nat /\ r[Len(s) + 1] = u
      /\ \A i \in 1..Len(s) : r[i] = s[i]
  OBVIOUS
<1> HIDE DEF r
<1>2. \A x : x \in Elements(s) <=> \E i \in 1..Len(s) : s[i] = x
  BY InElements
<1>3. \A x : x \in Elements(r) <=> \E i \in 1..(Len(s) + 1) : r[i] = x
  BY <1>1, InElements
<1>4. \A i \in 1..(Len(s) + 1) : i \in 1..Len(s) \/ i = Len(s) + 1
  BY <1>1
<1>5. \A i \in 1..Len(s) : i \in 1..(Len(s) + 1)
  BY <1>1
<1>6. Len(s) + 1 \in 1..(Len(s) + 1)
  BY <1>1
<1>7. ASSUME NEW x PROVE x \in Elements(r) <=> x \in Elements(s) \/ x = u
  BY <1>1, <1>2, <1>3, <1>4, <1>5, <1>6
<1>8. Once(r)
  <2> SUFFICES ASSUME NEW i \in 1..(Len(s) + 1), NEW j \in 1..(Len(s) + 1), r[i] = r[j] PROVE i = j
    BY <1>1 DEF Once
  <2>1. \A k \in 1..Len(s) : r[k] # u
    BY <1>1, <1>2
  <2>2. CASE i \in 1..Len(s) /\ j \in 1..Len(s)
    BY <2>2, <1>1 DEF Once
  <2> QED  BY <2>1, <2>2, <1>1, <1>4
<1> QED  BY <1>1, <1>7, <1>8 DEF r

\* Gathering units for a larger value keeps the invariant Base.
LEMMA GrabKeeps == ASSUME Base, Grab PROVE Base'
<1> DEFINE R == Elements(Tail(todo))
           A == {"grab"} \cup R
           c == ChunksIn(mem, op.b)
           missing == op.need - (Len(c) - 1)
<1>1. At("grab") /\ mem' = mem /\ due' = due
  BY DEF Grab
<1>2. /\ Elements(todo) = A /\ R \subseteq Later("grab") /\ R \subseteq Stages
      /\ Script(Tail(todo)) /\ "copied" \notin R /\ Calm /\ todo[1] = "grab"
  BY <1>1, AtStage
<1>3. R \subseteq {"dirty", "rset"}
  BY <1>2, LaterIs
<1>4. /\ log \in Seq(Quiet) /\ Len(log) <= 2 /\ Sound(mem, A, op, free)
      /\ Shape(mem) /\ IsMemory(mem) /\ Comes(mem, due)
  BY <1>2, CalmAfter
<1>5. op \in Op /\ free \subseteq Units /\ Owned(mem) \cap free = {} /\ op.got \in Seq(Units) /\ Script(todo)
  BY DEF Base, Op
<1>6. /\ op.b \in BlocksOf(mem) /\ op.key \in Keys /\ mem.index[op.b] = HashOf[op.key]
      /\ \A u \in BlocksOf(mem) : mem.data[u].key = op.key => u = op.b
      /\ Len(c) <= op.need
  <2>1. A \cap Working # {} /\ "alloc" \notin A /\ A \cap Setting # {}
    BY <1>3 DEF Working, Setting, Filling
  <2>2. op.b \in BlocksOf(mem) /\ op.b # 0
    BY <1>4, <2>1, BlockUnits DEF Sound, Placed, Shape
  <2> QED  BY <1>4, <2>1, <2>2 DEF Sound, Placed
<1>7. /\ c \in Seq(Units) /\ Len(c) \in Nat /\ Len(c) >= 1 /\ c[Len(c)] = End(c)
      /\ End(c) \in Own(mem, op.b) /\ Own(mem, op.b) \subseteq Owned(mem) /\ op.b \in Units
      /\ End(c) \in Units
  <2>1. \A i \in 1..Len(c) : c[i] \in Units
    BY <1>4, <1>6, OwnChunks
  <2>2. /\ c \in Seq(Units) /\ Len(c) \in Nat /\ Len(c) >= 1 /\ c[Len(c)] = End(c)
        /\ End(c) \in Own(mem, op.b) /\ Own(mem, op.b) \subseteq Owned(mem) /\ op.b \in Units
    BY <1>4, <1>6, OwnChunks
  <2>3. Len(c) \in 1..Len(c)
    BY <2>2
  <2> QED  BY <2>1, <2>2, <2>3
<1>8. /\ op.gone = {} /\ Loose(A, op) = Elements(op.got) /\ Once(op.got)
      /\ Owned(mem) \cap Elements(op.got) = {} /\ free \cap Elements(op.got) = {}
  BY <1>3, <1>4 DEF Sound, Apart, Loose
<1>9. CASE /\ Len(op.got) = missing
           /\ Record(<<<<"chunk", c[Len(c)], op.got[1]>>, <<"chunk", op.got[1], 0>>>>,
                     op, <<"join">> \o Tail(todo))
           /\ UNCHANGED free
  <2> DEFINE a == c[Len(c)]
             v == op.got[1]
             g == <<<<"chunk", a, v>>, <<"chunk", v, 0>>>>
             m2 == Apply(mem, g)
             st == <<"join">> \o Tail(todo)
             B == {"commit"} \cup Elements(st)
  <2>1. Len(op.got) # 0 /\ Record(g, op, st) /\ free' = free
    <3>1. Len(op.got) # 0
      BY <1>5, <1>6, <1>7, <1>9 DEF Op
    <3> QED  BY <1>9, <3>1
  <2>2. /\ v \in Units /\ v \in Elements(op.got) /\ v \notin Elements(Tail(op.got))
        /\ Elements(op.got) = {v} \cup Elements(Tail(op.got))
    BY <1>5, <1>8, <2>1, GotTail
  <2>3. a \in Units /\ a # v /\ a = End(c) /\ v \in Units \ Owned(mem)
    BY <1>7, <1>8, <2>2
  <2>g. g = <<<<"chunk", a, v>>, <<"chunk", v, 0>>>>
    OBVIOUS
  <2> HIDE DEF a, v, g
  <2>4. g \in Seq(Entry) /\ Len(g) = 2 /\ Hangs(mem, m2, a, v)
    BY <1>4, <2>2, <2>3, <2>g, HangEffect
  <2> HIDE DEF m2
  <2>5. /\ Stays(mem, m2) /\ m2.chunk[End(c)] = v /\ m2.chunk[v] = 0
        /\ \A x \in Owned(mem) \ {End(c)} : m2.chunk[x] = mem.chunk[x]
    <3>1. Owned(mem) \subseteq Units
      BY <1>4, OwnUnits DEF Shape
    <3> QED  BY <2>3, <2>4, <3>1 DEF Hangs
  <2>6. /\ Shape(m2) /\ BlocksOf(m2) = BlocksOf(mem) /\ GetOf(m2) = GetOf(mem)
        /\ End(ChunksIn(m2, op.b)) = v /\ Owned(m2) = Owned(mem) \cup {v}
    BY <1>4, <1>6, <2>3, <2>5, LongerShape
  <2>7. Script(st) /\ Elements(st) = {"join"} \cup R
    <3>1. "join" \in Stages /\ "join" # "copied" /\ Elements(Tail(todo)) \subseteq Later("join")
      BY <1>3, LaterIs DEF Stages
    <3> QED  BY <1>2, <3>1, ScriptMore
  <2>8. "copied" \notin Elements(st) /\ Elements(st) \subseteq Stages /\ B = {"commit", "join"} \cup R
    BY <1>3, <2>7 DEF Stages
  <2> HIDE DEF st, B
  <2>9. Apart(m2, B, op, free)
    <3>1. Loose(B, op) = Elements(Tail(op.got))
      BY <2>8 DEF Loose
    <3>2. v \notin free
      BY <1>8, <2>2
    <3> QED  BY <1>5, <1>8, <2>2, <2>6, <2>8, <3>1, <3>2 DEF Apart
  <2>10. m2.index = mem.index /\ m2.data = mem.data /\ m2.head = mem.head
    BY <2>4 DEF Hangs, Fields
  <2>11. Placed(m2, B, op)
    <3>1. B \cap {"alloc", "item", "recover", "grab"} = {}
      BY <1>3, <2>8
    <3> QED  BY <1>6, <2>1, <2>6, <2>10, <3>1 DEF Placed, v
  <2>12. Comes(m2, due \cap BlocksOf(m2))
    <3>1. Comes(m2, due)
      BY <1>4, <2>6, <2>10, ComesKept
    <3> QED  BY <3>1 DEF Comes
  <2>13. /\ Shape(mem') /\ free' \subseteq Units /\ Owned(mem') \cap free' = {} /\ Comes(mem', due)
         /\ Sound(Apply(mem', g), B, op, free') /\ Len(g) <= 13
         /\ Comes(Apply(mem', g), due \cap BlocksOf(Apply(mem', g)))
    BY <1>1, <1>4, <1>5, <2>1, <2>4, <2>6, <2>9, <2>11, <2>12 DEF m2, Sound
  <2> QED  BY <1>1, <1>2, <1>5, <2>1, <2>4, <2>7, <2>8, <2>13, Recorded DEF B
<1>10. CASE /\ Len(op.got) < missing
            /\ \E u \in free : /\ free' = free \ {u}
                               /\ Go([op EXCEPT !.got = Append(@, u)], todo)
            /\ UNCHANGED log
  <2>1. PICK u \in free : free' = free \ {u} /\ Go([op EXCEPT !.got = Append(op.got, u)], todo)
    BY <1>10
  <2> DEFINE r == Append(op.got, u)
             o == [op EXCEPT !.got = r]
  <2>2. u \in Units /\ u \notin Elements(op.got) /\ u \notin Owned(mem)
    BY <1>5, <1>8
  <2>3. r \in Seq(Units) /\ Once(r) /\ Elements(r) = Elements(op.got) \cup {u}
    BY <1>5, <1>8, <2>2, GotMore
  <2>4. Go(o, todo)
    BY <2>1
  <2> HIDE DEF r
  <2>5. /\ o \in Op /\ o.got = r /\ o.gone = op.gone /\ o.b = op.b /\ o.key = op.key
        /\ o.need = op.need
    BY <1>5, <2>3 DEF Op
  <2> HIDE DEF o
  <2>6. Goes(o, todo)
    BY <1>5, <2>4, <2>5, GoGoes
  <2>7. Apart(mem, A, o, free')
    <3>1. Loose(A, o) = Elements(op.got) \cup {u}
      BY <1>3, <2>3, <2>5 DEF Loose
    <3> QED  BY <1>5, <1>8, <2>1, <2>2, <2>3, <2>5, <3>1 DEF Apart
  <2>8. Placed(mem, A, o)
    <3>1. A \cap {"alloc", "item", "recover", "join"} = {}
      BY <1>3
    <3> QED  BY <1>6, <2>5, <3>1 DEF Placed
  <2>9. /\ Sound(mem', Elements(todo), o, free') /\ Shape(mem') /\ free' \subseteq Units
        /\ Comes(mem', due') /\ log' \in Seq(Quiet) /\ Len(log') <= 2 /\ (Len(todo) # 0 => todo[1] # "copied")
    BY <1>1, <1>2, <1>4, <1>5, <1>10, <2>1, <2>7, <2>8 DEF Sound
  <2> QED  BY <2>6, <2>9, WentOn
<1>11. CASE /\ Len(op.got) < missing
            /\ free = {}
            /\ IF conf = "off" THEN NoMemory
               ELSE Go([op EXCEPT !.left = EraseCount], <<"evict">> \o todo)
            /\ UNCHANGED <<free, log>>
  <2>1. free' = free /\ log' = log
    BY <1>11
  <2>2. CASE conf = "off"
    BY <1>1, <1>11, <2>1, <2>2, NoMemoryKeeps
  <2>3. CASE conf # "off"
    BY <1>1, <1>11, <2>1, <2>3, EvictionKeeps
  <2> QED  BY <2>2, <2>3
<1> QED  BY <1>9, <1>10, <1>11, Reading DEF Grab

\* Hanging the gathered units on the block keeps the invariant Base.
LEMMA JoinKeeps == ASSUME Base, Join PROVE Base'
<1> DEFINE R == Elements(Tail(todo))
           A == {"join"} \cup R
           c == ChunksIn(mem, op.b)
           a == op.got[1]
<1>1. At("join") /\ mem' = mem /\ free' = free /\ due' = due
  BY DEF Join
<1>2. /\ Elements(todo) = A /\ R \subseteq Later("join") /\ R \subseteq Stages
      /\ Script(Tail(todo)) /\ "copied" \notin R /\ Calm
  BY <1>1, AtStage
<1>3. R \subseteq {"dirty", "rset"}
  BY <1>2, LaterIs
<1>4. /\ Sound(mem, A, op, free) /\ Shape(mem) /\ IsMemory(mem) /\ Comes(mem, due)
  BY <1>2, CalmAfter
<1>5. op \in Op /\ free \subseteq Units /\ Owned(mem) \cap free = {} /\ op.got \in Seq(Units) /\ Script(todo)
  BY DEF Base, Op
<1>6. /\ op.b \in BlocksOf(mem) /\ op.key \in Keys /\ mem.index[op.b] = HashOf[op.key]
      /\ \A u \in BlocksOf(mem) : mem.data[u].key = op.key => u = op.b
      /\ Len(op.got) # 0 /\ a = End(c)
  <2>1. A \cap Working # {} /\ "alloc" \notin A /\ A \cap Setting # {}
    BY <1>3 DEF Working, Setting, Filling
  <2>2. op.b \in BlocksOf(mem) /\ op.b # 0
    BY <1>4, <2>1, BlockUnits DEF Sound, Placed, Shape
  <2> QED  BY <1>4, <2>1, <2>2 DEF Sound, Placed
<1>7. /\ End(c) \in Own(mem, op.b) /\ Own(mem, op.b) \subseteq Owned(mem) /\ mem.chunk[End(c)] = 0
      /\ Owned(mem) \subseteq Units
  <2>1. Owned(mem) \subseteq Units
    BY <1>4, OwnUnits DEF Shape
  <2> QED  BY <1>4, <1>6, <2>1, OwnChunks
<1>8. /\ op.gone = {} /\ Loose(A, op) = Elements(Tail(op.got)) /\ Once(op.got)
      /\ Owned(mem) \cap Elements(Tail(op.got)) = {} /\ free \cap Elements(Tail(op.got)) = {}
  BY <1>3, <1>4 DEF Sound, Apart, Loose
<1>9. /\ Tail(op.got) \in Seq(Units) /\ Once(Tail(op.got)) /\ Len(Tail(op.got)) = Len(op.got) - 1
      /\ Len(op.got) \in Nat /\ a \in Units
      /\ Len(op.got) > 1 => /\ Tail(op.got)[1] = op.got[2] /\ op.got[2] \in Elements(Tail(op.got))
                            /\ op.got[2] \in Units
  BY <1>5, <1>6, <1>8, GotTail
<1>10. CASE Len(op.got) = 1
  <2> DEFINE g == <<<<"chunk", a, 0>>>>
             o == [op EXCEPT !.got = <<>>]
             st == <<"write">> \o Tail(todo)
             m2 == Apply(mem, g)
             B == {"commit"} \cup Elements(st)
  <2>1. Record(g, o, st)
    BY <1>10 DEF Join
  <2>g. g = <<<<"chunk", a, 0>>>>
    OBVIOUS
  <2> HIDE DEF g, a
  <2>2. g \in Seq(Entry) /\ Len(g) = 1 /\ Closes(mem, m2, a)
    BY <1>4, <1>9, <2>g, CloseEffect
  <2> HIDE DEF m2
  <2>3. SameChunks(mem, m2) /\ Stays(mem, m2)
    BY <1>6, <1>7, <2>2 DEF Closes, SameChunks
  <2>4. /\ Shape(m2) /\ BlocksOf(m2) = BlocksOf(mem) /\ GetOf(m2) = GetOf(mem) /\ Owned(m2) = Owned(mem)
    BY <1>4, <2>3, ShapeStays
  <2>5. m2.index = mem.index /\ m2.data = mem.data /\ m2.head = mem.head
    BY <2>2 DEF Closes, Fields
  <2>6. /\ o \in Op /\ o.got = <<>> /\ o.gone = op.gone /\ o.b = op.b /\ o.key = op.key
    <3>1. \A e \in Seq(Units) :
            LET p == [op EXCEPT !.got = e]
            IN  p \in Op /\ p.got = e /\ p.gone = op.gone /\ p.b = op.b /\ p.key = op.key
      BY <1>5 DEF Op
    <3>2. <<>> \in Seq(Units)
      OBVIOUS
    <3> QED  BY <3>1, <3>2
  <2>7. Script(st) /\ Elements(st) = {"write"} \cup R
    <3>1. "write" \in Stages /\ "write" # "copied" /\ Elements(Tail(todo)) \subseteq Later("write")
      BY <1>3, LaterIs DEF Stages
    <3> QED  BY <1>2, <3>1, ScriptMore
  <2>8. "copied" \notin Elements(st) /\ Elements(st) \subseteq Stages /\ B = {"commit", "write"} \cup R
    BY <1>3, <2>7 DEF Stages
  <2> HIDE DEF o, st, B
  <2>9. Apart(m2, B, o, free)
    <3>1. Len(o.got) = 0 /\ Elements(o.got) = {} /\ Once(o.got)
      BY <2>6, NoScript DEF Once
    <3>2. Loose(B, o) = {}
      BY <1>3, <2>8, <3>1 DEF Loose
    <3> QED  BY <1>5, <1>8, <2>4, <2>6, <2>8, <3>1, <3>2 DEF Apart
  <2>10. Placed(m2, B, o)
    <3>1. B \cap {"alloc", "item", "recover", "grab", "join"} = {}
      BY <1>3, <2>8
    <3> QED  BY <1>6, <2>4, <2>5, <2>6, <3>1 DEF Placed
  <2>11. Comes(m2, due \cap BlocksOf(m2))
    <3>1. Comes(m2, due)
      BY <1>4, <2>4, <2>5, ComesKept
    <3> QED  BY <3>1 DEF Comes
  <2>12. /\ Shape(mem') /\ free' \subseteq Units /\ Owned(mem') \cap free' = {} /\ Comes(mem', due)
         /\ Sound(Apply(mem', g), B, o, free') /\ Len(g) <= 13
         /\ Comes(Apply(mem', g), due \cap BlocksOf(Apply(mem', g)))
    BY <1>1, <1>4, <1>5, <2>2, <2>4, <2>9, <2>10, <2>11 DEF m2, Sound
  <2> QED  BY <1>1, <1>2, <2>1, <2>2, <2>6, <2>7, <2>8, <2>12, Recorded DEF B
<1>11. CASE Len(op.got) # 1
  <2> DEFINE v == op.got[2]
             g == <<<<"chunk", a, v>>, <<"chunk", v, 0>>>>
             o == [op EXCEPT !.got = Tail(op.got)]
             m2 == Apply(mem, g)
             B == {"commit"} \cup Elements(todo)
  <2>1. Record(g, o, todo)
    BY <1>11 DEF Join
  <2>2. Len(op.got) > 1
    <3>1. \A n \in Nat : n # 0 /\ n # 1 => n > 1
      OBVIOUS
    <3>2. Len(op.got) \in Nat /\ Len(op.got) # 0
      BY <1>6, <1>9
    <3> QED  BY <1>11, <3>1, <3>2
  <2>3. v \in Units \ Owned(mem) /\ v \in Elements(Tail(op.got)) /\ v = Tail(op.got)[1] /\ a # v
    BY <1>6, <1>7, <1>8, <1>9, <2>2
  <2>g. g = <<<<"chunk", a, v>>, <<"chunk", v, 0>>>>
    OBVIOUS
  <2>4. /\ o \in Op /\ o.got = Tail(op.got) /\ o.gone = op.gone /\ o.b = op.b /\ o.key = op.key
    BY <1>5, <1>9 DEF Op
  <2> HIDE DEF a, v, g, o
  <2>5. g \in Seq(Entry) /\ Len(g) = 2 /\ Hangs(mem, m2, a, v)
    BY <1>4, <1>9, <2>3, <2>g, HangEffect
  <2> HIDE DEF m2
  <2>6. /\ Stays(mem, m2) /\ m2.chunk[End(c)] = v /\ m2.chunk[v] = 0
        /\ \A x \in Owned(mem) \ {End(c)} : m2.chunk[x] = mem.chunk[x]
    BY <1>6, <1>7, <2>3, <2>5 DEF Hangs
  <2>7. /\ Shape(m2) /\ BlocksOf(m2) = BlocksOf(mem) /\ GetOf(m2) = GetOf(mem)
        /\ End(ChunksIn(m2, op.b)) = v /\ Owned(m2) = Owned(mem) \cup {v}
    <3>1. op.b \in BlocksOf(mem) /\ v \in Units \ Owned(mem) /\ Shape(mem)
      BY <1>4, <1>6, <2>3
    <3> QED  BY <2>6, <3>1, LongerShape
  <2>8. m2.index = mem.index /\ m2.data = mem.data /\ m2.head = mem.head
    BY <2>5 DEF Hangs, Fields
  <2>9. "copied" \notin Elements(todo) /\ Elements(todo) \subseteq Stages /\ B = {"commit", "join"} \cup R
    BY <1>2, <1>3 DEF Stages
  <2> HIDE DEF B
  <2>10. /\ Len(o.got) # 0 /\ Elements(Tail(op.got)) = {v} \cup Elements(Tail(o.got))
         /\ v \notin Elements(Tail(o.got)) /\ o.got[1] = v
    <3>1. Len(Tail(op.got)) # 0
      BY <1>9, <2>2
    <3> QED  BY <1>9, <2>3, <2>4, <3>1, GotTail
  <2>11. Apart(m2, B, o, free)
    <3>1. Loose(B, o) = Elements(Tail(o.got)) /\ Once(o.got)
      BY <1>9, <2>4, <2>9 DEF Loose
    <3> QED  BY <1>5, <1>8, <2>4, <2>7, <2>9, <2>10, <3>1 DEF Apart
  <2>12. Placed(m2, B, o)
    <3>1. B \cap {"alloc", "item", "recover", "grab"} = {}
      BY <1>3, <2>9
    <3> QED  BY <1>6, <2>4, <2>7, <2>8, <2>10, <3>1 DEF Placed
  <2>13. Comes(m2, due \cap BlocksOf(m2))
    <3>1. Comes(m2, due)
      BY <1>4, <2>7, <2>8, ComesKept
    <3> QED  BY <3>1 DEF Comes
  <2>14. /\ Shape(mem') /\ free' \subseteq Units /\ Owned(mem') \cap free' = {} /\ Comes(mem', due)
         /\ Sound(Apply(mem', g), B, o, free') /\ Len(g) <= 13
         /\ Comes(Apply(mem', g), due \cap BlocksOf(Apply(mem', g)))
    BY <1>1, <1>4, <1>5, <2>5, <2>7, <2>11, <2>12, <2>13 DEF m2, Sound
  <2> QED  BY <1>1, <1>2, <1>5, <2>1, <2>4, <2>5, <2>9, <2>14, Recorded DEF B
<1> QED  BY <1>10, <1>11

-----------------------------------------------------------------------------
(* The invariant is kept: data and flags. *)

\* A group of counts writes cells of the head only.
LEMMA CountsCells ==
  ASSUME NEW g \in Seq(Counts)
  PROVE  /\ g \in Seq(Entry)
         /\ \A f, x, v : f # "head" => Cell(g, f, x, v) = v
         /\ \A h \in HeadLinks \cup {"elements"} : \A v : Cell(g, "head", h, v) = v
         /\ \A h \in {"getCount", "hitCount"} : Cell(g, "head", h, 0) = 0
<1>1. /\ \A e \in Counts : /\ e \in Entry /\ e[1] = "head"
                           /\ e[2] \in {"getCount", "hitCount", "dirtyCount", "onlyKeyCount"}
                           /\ e[2] \in {"getCount", "hitCount"} => e[3] = 0
  BY DEF Counts, Quiet, Entry
<1>2. g \in Seq(Entry) /\ \A i \in 1..Len(g) : g[i] \in Counts
  BY <1>1
<1>3. \A f, x, v : \/ Cell(g, f, x, v) = v
                   \/ \E i \in 1..Len(g) : g[i][1] = f /\ g[i][2] = x /\ Cell(g, f, x, v) = g[i][3]
  BY CellFrom
<1>4. \A f, x, v : \/ Cell(g, f, x, v) = v
                   \/ \E e \in Counts : e[1] = f /\ e[2] = x /\ Cell(g, f, x, v) = e[3]
  BY <1>2, <1>3
<1>5. \A f, x, v : f # "head" => Cell(g, f, x, v) = v
  BY <1>1, <1>4
<1>6. \A h \in HeadLinks \cup {"elements"} : \A v : Cell(g, "head", h, v) = v
  BY <1>1, <1>4 DEF HeadLinks
<1>7. \A h \in {"getCount", "hitCount"} : Cell(g, "head", h, 0) = 0
  BY <1>1, <1>4
<1> QED  BY <1>2, <1>5, <1>6, <1>7

\* Nothing but the counts of dirty blocks and bare keys differs.
Recounts(m, m2) ==
    /\ Stays(m, m2) /\ SameChunks(m, m2) /\ \A f \in Fields \ {"head"} : m2[f] = m[f]
    /\ \A h \in Heads \ {"dirtyCount", "onlyKeyCount"} : m2.head[h] = m.head[h]

\* A group of counts leaves the shape.
LEMMA CountsStay ==
  ASSUME NEW m, Shape(m), NEW g \in Seq(Counts)
  PROVE  Recounts(m, Apply(m, g))
<1> DEFINE m2 == Apply(m, g)
<1>1. IsMemory(m)
  BY DEF Shape
<1>2. /\ g \in Seq(Entry)
      /\ \A f, x, v : f # "head" => Cell(g, f, x, v) = v
      /\ \A h \in HeadLinks \cup {"elements"} : \A v : Cell(g, "head", h, v) = v
      /\ \A h \in {"getCount", "hitCount"} : Cell(g, "head", h, 0) = 0
  BY CountsCells
<1>3. ASSUME NEW f \in Fields \ {"head"} PROVE m2[f] = m[f]
  <2>1. \A x, v : Cell(g, f, x, v) = v
    BY <1>2
  <2> QED  BY <1>1, <1>2, <2>1, AppliedSame
<1>4. ASSUME NEW h \in Heads \ {"dirtyCount", "onlyKeyCount"} PROVE m2.head[h] = m.head[h]
  <2>1. m2.head[h] = Cell(g, "head", h, m.head[h])
    BY <1>1, AppliedAt
  <2>2. h \in HeadLinks \cup {"elements"} \/ (h \in {"getCount", "hitCount"} /\ m.head[h] = 0)
    BY <1>1 DEF Heads, HeadLinks, HeadCounts, IsMemory
  <2> QED  BY <1>2, <2>1, <2>2
<1>5. IsMemory(m2)
  BY <1>1, <1>2, ApplyTyped
<1> HIDE DEF m2
<1>6. /\ m2.setNext = m.setNext /\ m2.setPrev = m.setPrev /\ m2.getNext = m.getNext
      /\ m2.getPrev = m.getPrev /\ m2.blockNext = m.blockNext /\ m2.blockPrev = m.blockPrev
      /\ m2.index = m.index /\ m2.data = m.data /\ m2.bucket = m.bucket
      /\ m2.listCount = m.listCount /\ m2.chunk = m.chunk
  BY <1>3 DEF Fields, UnitLinks
<1>7. /\ m2.head.setHead = m.head.setHead /\ m2.head.setTail = m.head.setTail
      /\ m2.head.getHead = m.head.getHead /\ m2.head.getTail = m.head.getTail
      /\ m2.head.dirtyTail = m.head.dirtyTail /\ m2.head.syncTail = m.head.syncTail
      /\ m2.head.backupTail = m.head.backupTail /\ m2.head.elements = m.head.elements
  BY <1>4 DEF Heads, HeadLinks, HeadCounts
<1>8. SameSet(m, m2) /\ SameGet(m, m2) /\ SameChains(m, m2) /\ SameChunks(m, m2) /\ SameKeys(m, m2)
  BY <1>6, <1>7 DEF SameSet, SameGet, SameChains, SameChunks, SameKeys
<1>9. CursorsFit(m, m2) /\ KeysFit(m, m2)
  BY <1>7, <1>8, KeysStay DEF CursorsFit, Shape, Cursors
<1>10. Stays(m, m2)
  BY <1>5, <1>7, <1>8, <1>9 DEF Stays
<1> QED  BY <1>3, <1>4, <1>8, <1>10 DEF m2, Recounts

\* A conditional count is a group of counts.
LEMMA WhenCount ==
  ASSUME IsMemory(mem), NEW c \in BOOLEAN, NEW h \in {"dirtyCount", "onlyKeyCount"}, NEW d \in Int
  PROVE  /\ When(c, Count(h, d)) \in Seq(Counts) /\ Len(When(c, Count(h, d))) <= 1
         /\ Len(When(c, Count(h, d))) \in Nat
         /\ \A f, x, v : Cell(When(c, Count(h, d)), f, x, v)
                           = IF c /\ f = "head" /\ x = h THEN mem.head[h] + d ELSE v
<1>1. /\ Count(h, d) \in Seq(Entry)
      /\ \A f, x, v : Cell(Count(h, d), f, x, v) = IF f = "head" /\ x = h THEN mem.head[h] + d ELSE v
  BY CountCells
<1>2. \A f, x, v : Cell(When(c, Count(h, d)), f, x, v) = IF c THEN Cell(Count(h, d), f, x, v) ELSE v
  BY <1>1, WhenFits
<1>3. mem.head[h] + d \in Int
  BY DEF IsMemory, HeadCounts
<1>4. <<"head", h, mem.head[h] + d>> \in Counts
  BY <1>3 DEF Counts
<1>5. Count(h, d) \in Seq(Counts) /\ Len(Count(h, d)) = 1
  BY <1>4 DEF Count, ToHead
<1>6. CASE c
  <2>1. When(c, Count(h, d)) = Count(h, d)
    BY <1>6 DEF When
  <2>2. /\ When(c, Count(h, d)) \in Seq(Counts) /\ Len(When(c, Count(h, d))) = 1
    BY <1>5, <2>1
  <2>3. Len(When(c, Count(h, d))) <= 1 /\ Len(When(c, Count(h, d))) \in Nat
    BY <2>2
  <2>4. \A f, x, v : (IF c /\ f = "head" /\ x = h THEN mem.head[h] + d ELSE v)
                       = (IF f = "head" /\ x = h THEN mem.head[h] + d ELSE v)
    BY <1>6, Zenon
  <2>5. \A f, x, v : Cell(When(c, Count(h, d)), f, x, v)
                       = IF f = "head" /\ x = h THEN mem.head[h] + d ELSE v
    BY <1>1, <2>1
  <2> QED  BY <2>2, <2>3, <2>4, <2>5
<1>7. CASE ~c
  <2>1. When(c, Count(h, d)) = <<>>
    BY <1>7 DEF When
  <2> QED  BY <1>7, <2>1, CellNone
<1> QED  BY <1>6, <1>7

\* The counts after the flags of u become those of a value or of a bare key.
Recounted(m, m2, u, only) ==
    /\ m2.head.dirtyCount = IF only /\ m.dirty[u] THEN m.head.dirtyCount - 1
                            ELSE IF ~only /\ ~m.dirty[u] THEN m.head.dirtyCount + 1
                            ELSE m.head.dirtyCount
    /\ m2.head.onlyKeyCount = IF only /\ ~m.onlyKey[u] THEN m.head.onlyKeyCount + 1
                              ELSE IF ~only /\ m.onlyKey[u] THEN m.head.onlyKeyCount - 1
                              ELSE m.head.onlyKeyCount

\* The group that Write records.
Recounting(q, u, only) ==
    q \o When(only /\ mem.dirty[u], Count("dirtyCount", -1))
      \o When(~only /\ ~mem.dirty[u], Count("dirtyCount", 1))
      \o When(only /\ ~mem.onlyKey[u], Count("onlyKeyCount", 1))
      \o When(~only /\ mem.onlyKey[u], Count("onlyKeyCount", -1))

\* What the group of a write counts: flags cleared and set.
LEMMA WriteCounts ==
  ASSUME IsMemory(mem), NEW u \in Units, NEW only \in BOOLEAN, NEW q \in Seq(Quiet), Len(q) <= 2,
         NEW g, g = Recounting(q, u, only)
  PROVE  /\ g \in Seq(Counts) /\ Len(g) <= 6
         /\ \A m1 : IsMemory(m1) /\ m1.head = mem.head => Recounted(mem, Apply(m1, g), u, only)
<1> DEFINE c1 == only /\ mem.dirty[u]
           c2 == ~only /\ ~mem.dirty[u]
           c3 == only /\ ~mem.onlyKey[u]
           c4 == ~only /\ mem.onlyKey[u]
           a == When(c1, Count("dirtyCount", -1))
           b == When(c2, Count("dirtyCount", 1))
           c == When(c3, Count("onlyKeyCount", 1))
           d == When(c4, Count("onlyKeyCount", -1))
           s1 == q \o a
           s2 == s1 \o b
           s3 == s2 \o c
<1>1. /\ mem.dirty[u] \in BOOLEAN /\ mem.onlyKey[u] \in BOOLEAN /\ mem.head.dirtyCount \in Int
      /\ mem.head.onlyKeyCount \in Int
  BY DEF IsMemory, HeadCounts
<1>2. c1 \in BOOLEAN /\ c2 \in BOOLEAN /\ c3 \in BOOLEAN /\ c4 \in BOOLEAN
  OBVIOUS
<1>g. g = s3 \o d
  BY DEF Recounting
<1>3. ~(c1 /\ c2) /\ ~(c3 /\ c4)
  OBVIOUS
<1>c. /\ (c1 <=> only /\ mem.dirty[u]) /\ (c2 <=> ~only /\ ~mem.dirty[u])
      /\ (c3 <=> only /\ ~mem.onlyKey[u]) /\ (c4 <=> ~only /\ mem.onlyKey[u])
  OBVIOUS
<1> HIDE DEF c1, c2, c3, c4
<1>n. -1 \in Int /\ 1 \in Int
  OBVIOUS
<1>a. /\ a \in Seq(Counts) /\ Len(a) <= 1 /\ Len(a) \in Nat
      /\ \A f, x, v : Cell(a, f, x, v)
           = IF c1 /\ f = "head" /\ x = "dirtyCount" THEN mem.head["dirtyCount"] + (-1) ELSE v
  <2>1. \A e \in BOOLEAN :
          /\ When(e, Count("dirtyCount", -1)) \in Seq(Counts) /\ Len(When(e, Count("dirtyCount", -1))) <= 1
          /\ Len(When(e, Count("dirtyCount", -1))) \in Nat
          /\ \A f, x, v : Cell(When(e, Count("dirtyCount", -1)), f, x, v)
                            = IF e /\ f = "head" /\ x = "dirtyCount" THEN mem.head["dirtyCount"] + (-1) ELSE v
    BY <1>n, WhenCount
  <2> QED  BY <1>2, <2>1
<1>b. /\ b \in Seq(Counts) /\ Len(b) <= 1 /\ Len(b) \in Nat
      /\ \A f, x, v : Cell(b, f, x, v)
           = IF c2 /\ f = "head" /\ x = "dirtyCount" THEN mem.head["dirtyCount"] + (1) ELSE v
  <2>1. \A e \in BOOLEAN :
          /\ When(e, Count("dirtyCount", 1)) \in Seq(Counts) /\ Len(When(e, Count("dirtyCount", 1))) <= 1
          /\ Len(When(e, Count("dirtyCount", 1))) \in Nat
          /\ \A f, x, v : Cell(When(e, Count("dirtyCount", 1)), f, x, v)
                            = IF e /\ f = "head" /\ x = "dirtyCount" THEN mem.head["dirtyCount"] + (1) ELSE v
    BY <1>n, WhenCount
  <2> QED  BY <1>2, <2>1
<1>cc. /\ c \in Seq(Counts) /\ Len(c) <= 1 /\ Len(c) \in Nat
      /\ \A f, x, v : Cell(c, f, x, v)
           = IF c3 /\ f = "head" /\ x = "onlyKeyCount" THEN mem.head["onlyKeyCount"] + (1) ELSE v
  <2>1. \A e \in BOOLEAN :
          /\ When(e, Count("onlyKeyCount", 1)) \in Seq(Counts) /\ Len(When(e, Count("onlyKeyCount", 1))) <= 1
          /\ Len(When(e, Count("onlyKeyCount", 1))) \in Nat
          /\ \A f, x, v : Cell(When(e, Count("onlyKeyCount", 1)), f, x, v)
                            = IF e /\ f = "head" /\ x = "onlyKeyCount" THEN mem.head["onlyKeyCount"] + (1) ELSE v
    BY <1>n, WhenCount
  <2> QED  BY <1>2, <2>1
<1>d. /\ d \in Seq(Counts) /\ Len(d) <= 1 /\ Len(d) \in Nat
      /\ \A f, x, v : Cell(d, f, x, v)
           = IF c4 /\ f = "head" /\ x = "onlyKeyCount" THEN mem.head["onlyKeyCount"] + (-1) ELSE v
  <2>1. \A e \in BOOLEAN :
          /\ When(e, Count("onlyKeyCount", -1)) \in Seq(Counts) /\ Len(When(e, Count("onlyKeyCount", -1))) <= 1
          /\ Len(When(e, Count("onlyKeyCount", -1))) \in Nat
          /\ \A f, x, v : Cell(When(e, Count("onlyKeyCount", -1)), f, x, v)
                            = IF e /\ f = "head" /\ x = "onlyKeyCount" THEN mem.head["onlyKeyCount"] + (-1) ELSE v
    BY <1>n, WhenCount
  <2> QED  BY <1>2, <2>1
<1> HIDE DEF a, b, c, d
<1>q. q \in Seq(Counts) /\ Len(q) \in Nat
  BY DEF Counts
<1>4. \A s, t \in Seq(Counts) :
        /\ s \o t \in Seq(Counts) /\ Len(s \o t) = Len(s) + Len(t) /\ Len(s \o t) \in Nat
        /\ \A f, x, v : Cell(s \o t, f, x, v) = Cell(t, f, x, Cell(s, f, x, v))
  BY CellJoin
<1>5. /\ s1 \in Seq(Counts) /\ Len(s1) = Len(q) + Len(a) /\ Len(s1) \in Nat
      /\ \A f, x, v : Cell(s1, f, x, v) = Cell(a, f, x, Cell(q, f, x, v))
  BY <1>q, <1>a, <1>4
<1> HIDE DEF s1
<1>6. /\ s2 \in Seq(Counts) /\ Len(s2) = Len(s1) + Len(b) /\ Len(s2) \in Nat
      /\ \A f, x, v : Cell(s2, f, x, v) = Cell(b, f, x, Cell(s1, f, x, v))
  BY <1>5, <1>b, <1>4
<1> HIDE DEF s2
<1>7. /\ s3 \in Seq(Counts) /\ Len(s3) = Len(s2) + Len(c) /\ Len(s3) \in Nat
      /\ \A f, x, v : Cell(s3, f, x, v) = Cell(c, f, x, Cell(s2, f, x, v))
  BY <1>6, <1>cc, <1>4
<1> HIDE DEF s3
<1>8. /\ g \in Seq(Counts) /\ Len(g) = Len(s3) + Len(d) /\ Len(g) \in Nat
      /\ \A f, x, v : Cell(g, f, x, v) = Cell(d, f, x, Cell(s3, f, x, v))
  <2>1. /\ s3 \o d \in Seq(Counts) /\ Len(s3 \o d) = Len(s3) + Len(d) /\ Len(s3 \o d) \in Nat
        /\ \A f, x, v : Cell(s3 \o d, f, x, v) = Cell(d, f, x, Cell(s3, f, x, v))
    BY <1>7, <1>d, <1>4
  <2> QED  BY <1>g, <2>1
<1>9. Len(g) <= 6
  BY <1>q, <1>a, <1>b, <1>cc, <1>d, <1>5, <1>6, <1>7, <1>8
<1>10. \A x \in {"dirtyCount", "onlyKeyCount"} : \A v : Cell(q, "head", x, v) = v
  <2>1. \A e \in Quiet : e[2] \in {"getCount", "hitCount"}
    BY DEF Quiet
  <2>2. \A i \in 1..Len(q) : q[i][2] \in {"getCount", "hitCount"}
    BY <2>1
  <2>3. \A f, x, v : \/ Cell(q, f, x, v) = v
                     \/ \E i \in 1..Len(q) : q[i][1] = f /\ q[i][2] = x /\ Cell(q, f, x, v) = q[i][3]
    BY CellFrom
  <2> QED  BY <2>2, <2>3
<1>11. \A v : Cell(g, "head", "dirtyCount", v) = IF c2 THEN mem.head.dirtyCount + 1
                                               ELSE IF c1 THEN mem.head.dirtyCount + (-1) ELSE v
  <2>1. \A v : Cell(s1, "head", "dirtyCount", v) = IF c1 THEN mem.head.dirtyCount + (-1) ELSE v
    BY <1>2, <1>5, <1>10, <1>a
  <2>2. \A v : Cell(s2, "head", "dirtyCount", v) = IF c2 THEN mem.head.dirtyCount + 1
                                               ELSE IF c1 THEN mem.head.dirtyCount + (-1) ELSE v
    BY <1>2, <1>6, <2>1, <1>b
  <2>3. \A v : Cell(s3, "head", "dirtyCount", v) = Cell(s2, "head", "dirtyCount", v)
    BY <1>7, <1>cc
  <2>4. \A v : Cell(g, "head", "dirtyCount", v) = Cell(s3, "head", "dirtyCount", v)
    BY <1>8, <1>d
  <2> QED  BY <2>2, <2>3, <2>4
<1>12. \A v : Cell(g, "head", "onlyKeyCount", v) = IF c4 THEN mem.head.onlyKeyCount + (-1)
                                               ELSE IF c3 THEN mem.head.onlyKeyCount + 1 ELSE v
  <2>1. \A v : Cell(s1, "head", "onlyKeyCount", v) = v
    BY <1>5, <1>10, <1>a
  <2>2. \A v : Cell(s2, "head", "onlyKeyCount", v) = v
    BY <1>6, <2>1, <1>b
  <2>3. \A v : Cell(s3, "head", "onlyKeyCount", v) = IF c3 THEN mem.head.onlyKeyCount + 1 ELSE v
    BY <1>2, <1>7, <1>cc, <2>2
  <2>4. \A v : Cell(g, "head", "onlyKeyCount", v) = IF c4 THEN mem.head.onlyKeyCount + (-1)
                                               ELSE IF c3 THEN mem.head.onlyKeyCount + 1 ELSE v
    BY <1>2, <1>8, <1>d, <2>3
  <2> QED  BY <2>4
<1>13. ASSUME NEW m1, IsMemory(m1), m1.head = mem.head PROVE Recounted(mem, Apply(m1, g), u, only)
  <2>1. /\ Apply(m1, g).head.dirtyCount = Cell(g, "head", "dirtyCount", mem.head.dirtyCount)
        /\ Apply(m1, g).head.onlyKeyCount = Cell(g, "head", "onlyKeyCount", mem.head.onlyKeyCount)
    BY <1>13, AppliedAt DEF Heads, HeadCounts
  <2>2. /\ mem.head.dirtyCount + (-1) = mem.head.dirtyCount - 1
        /\ mem.head.onlyKeyCount + (-1) = mem.head.onlyKeyCount - 1
    BY <1>1
  <2>3. Apply(m1, g).head.dirtyCount = IF c1 THEN mem.head.dirtyCount - 1
                                       ELSE IF c2 THEN mem.head.dirtyCount + 1
                                       ELSE mem.head.dirtyCount
    BY <1>2, <1>3, <1>11, <2>1, <2>2
  <2>4. Apply(m1, g).head.onlyKeyCount = IF c3 THEN mem.head.onlyKeyCount + 1
                                         ELSE IF c4 THEN mem.head.onlyKeyCount - 1
                                         ELSE mem.head.onlyKeyCount
    BY <1>2, <1>3, <1>12, <2>1, <2>2
  <2> QED  BY <2>3, <2>4 DEF Recounted, c1, c2, c3, c4
<1> QED  BY <1>8, <1>9, <1>13

-----------------------------------------------------------------------------
(* The invariant is kept: writing a value. *)

\* Data and flags of u are written.
Writes(m, m2, u, k) ==
    /\ IsMemory(m2) /\ \A f \in Fields \ {"dirty", "onlyKey", "data"} : m2[f] = m[f]
    /\ \A x \in Units \ {u} : /\ m2.data[x] = m.data[x] /\ m2.dirty[x] = m.dirty[x]
                              /\ m2.onlyKey[x] = m.onlyKey[x]
    /\ m2.data[u].key \in {k, None}

\* What Write puts into the memory directly.
Written(m, u, d, n, e) ==
    [m EXCEPT !.dirty = [m.dirty EXCEPT ![u] = d], !.onlyKey = [m.onlyKey EXCEPT ![u] = n],
              !.data = [m.data EXCEPT ![u] = e]]

\* u is the block for the key k.
Meant(m, u, k) == m.index[u] = HashOf[k] /\ \A x \in BlocksOf(m) : m.data[x].key = k => x = u

\* What a write puts into the block directly.
LEMMA DataWritten ==
  ASSUME NEW m, IsMemory(m), NEW u \in Units, NEW k \in Keys \cup {None}, NEW m2,
         NEW e \in Datum, e.key \in {k, None}, NEW d \in BOOLEAN, NEW n \in BOOLEAN,
         m2 = Written(m, u, d, n, e)
  PROVE  Writes(m, m2, u, k) /\ m2.dirty[u] = d /\ m2.onlyKey[u] = n
<1> DEFINE dd == [m.dirty EXCEPT ![u] = d]
           nn == [m.onlyKey EXCEPT ![u] = n]
           ee == [m.data EXCEPT ![u] = e]
<1>1. /\ m.dirty \in [Units -> BOOLEAN] /\ m.onlyKey \in [Units -> BOOLEAN] /\ m.data \in [Units -> Datum]
      /\ DOMAIN m = Fields
  BY DEF IsMemory
<1>2. /\ dd \in [Units -> BOOLEAN] /\ nn \in [Units -> BOOLEAN] /\ ee \in [Units -> Datum]
      /\ dd[u] = d /\ nn[u] = n /\ ee[u] = e
      /\ \A x \in Units \ {u} : dd[x] = m.dirty[x] /\ nn[x] = m.onlyKey[x] /\ ee[x] = m.data[x]
  BY <1>1
<1>3. m2 = [m EXCEPT !.dirty = dd, !.onlyKey = nn, !.data = ee]
  BY DEF Written
<1> HIDE DEF dd, nn, ee
<1>4. /\ DOMAIN m2 = Fields /\ m2 = [f \in Fields |-> m2[f]] /\ m2.dirty = dd /\ m2.onlyKey = nn
      /\ m2.data = ee
      /\ \A f \in Fields \ {"dirty", "onlyKey", "data"} : m2[f] = m[f]
  BY <1>1, <1>3 DEF Fields
<1>5. /\ \A f \in UnitLinks : m2[f] = m[f]
      /\ m2.head = m.head /\ m2.index = m.index /\ m2.bucket = m.bucket /\ m2.listCount = m.listCount
  BY <1>4 DEF Fields, UnitLinks
<1>6. IsMemory(m2)
  BY <1>2, <1>4, <1>5 DEF IsMemory
<1> QED  BY <1>2, <1>4, <1>6 DEF Writes

\* Writing the data of a block leaves the lists, and its key in no other block.
LEMMA WritesStay ==
  ASSUME NEW m, Shape(m), NEW m2, NEW u \in BlocksOf(m), NEW k, Writes(m, m2, u, k),
         Meant(m, u, k)
  PROVE  /\ Stays(m, m2) /\ SameChunks(m, m2) /\ m2.head = m.head
         /\ \A x \in BlocksOf(m) : m2.data[x].key = k => x = u
<1>1. /\ m2.setNext = m.setNext /\ m2.setPrev = m.setPrev /\ m2.getNext = m.getNext
      /\ m2.getPrev = m.getPrev /\ m2.blockNext = m.blockNext /\ m2.blockPrev = m.blockPrev
      /\ m2.index = m.index /\ m2.bucket = m.bucket
      /\ m2.listCount = m.listCount /\ m2.chunk = m.chunk /\ m2.head = m.head
  BY DEF Writes, Fields, UnitLinks
<1>2. BlocksOf(m) \subseteq Units
  BY BlockUnits DEF Shape
<1>3. \A x \in BlocksOf(m) \ {u} : m2.data[x].key = m.data[x].key
  BY <1>2 DEF Writes
<1>4. SameSet(m, m2) /\ SameGet(m, m2) /\ SameChains(m, m2) /\ SameChunks(m, m2) /\ CursorsFit(m, m2)
  BY <1>1 DEF SameSet, SameGet, SameChains, SameChunks, CursorsFit, Shape, Cursors
<1>5. KeysFit(m, m2)
  BY <1>1, <1>3, KeyGiven DEF Shape, Writes, Meant
<1>6. Stays(m, m2)
  BY <1>1, <1>4, <1>5 DEF Stays, Writes
<1> QED  BY <1>1, <1>3, <1>4, <1>6 DEF Meant

\* Soundness stays when blocks, owners and buckets stay and no key appears elsewhere.
LEMMA SoundSame ==
  ASSUME NEW m, NEW A, NEW o, NEW fr, Sound(m, A, o, fr), NEW m2, Shape(m2),
         BlocksOf(m2) = BlocksOf(m), Owned(m2) = Owned(m), m2.index = m.index,
         \A u \in BlocksOf(m) : ChunksIn(m2, u) = ChunksIn(m, u),
         \A u \in BlocksOf(m) : m2.data[u].key = o.key => m.data[u].key = o.key \/ u = o.b
  PROVE  Sound(m2, A, o, fr)
<1>1. Apart(m2, A, o, fr)
  BY DEF Sound, Apart
<1>2. A \cap Working # {} \/ "alloc" \in A => o.b = 0 \/ o.b \in BlocksOf(m)
  BY DEF Sound, Placed
<1>3. "grab" \in A \/ "join" \in A => ChunksIn(m2, o.b) = ChunksIn(m, o.b)
  <2>1. ChunksIn(m2, 0) = ChunksIn(m, 0)
    BY PathOfNone DEF ChunksIn
  <2> QED  BY <2>1, <1>2 DEF Working, Filling
<1>4. Placed(m2, A, o)
  BY <1>3 DEF Sound, Placed
<1> QED  BY <1>1, <1>4 DEF Sound

\* Soundness of one script gives that of another with the same needs.
LEMMA SoundTurn ==
  ASSUME NEW m, NEW A, NEW o, NEW fr, Sound(m, A, o, fr), NEW B,
         "free" \in A => "free" \in B \/ o.gone = {},
         "grab" \in A => "grab" \in B \/ Len(o.got) = 0, "grab" \in B => "grab" \in A,
         "join" \in A <=> "join" \in B, "alloc" \in A <=> "alloc" \in B,
         B \cap Working # {} => A \cap Working # {}, B \cap Setting # {} => A \cap Setting # {},
         "item" \in B => "item" \in A, "recover" \in B => "recover" \in A
  PROVE  Sound(m, B, o, fr)
<1>1. Loose(B, o) = Loose(A, o)
  BY DEF Loose
<1>2. Apart(m, B, o, fr)
  BY <1>1 DEF Sound, Apart
<1>3. Placed(m, B, o)
  BY DEF Sound, Placed
<1> QED  BY <1>2, <1>3 DEF Sound

\* Writing the value (Block::set) keeps the invariant Base.
LEMMA WriteKeeps == ASSUME Base, Write PROVE Base'
<1> DEFINE R == Elements(Tail(todo))
           A == {"write"} \cup R
           u == op.b
           g == Recounting(log, u, op.only)
           m2 == Apply(mem', g)
           st == <<"copied">> \o (<<"commit">> \o Tail(todo))
           e == IF op.need = 0 /\ mem.data[u] = Empty THEN Empty ELSE [key |-> op.key, val |-> "part"]
           no == ~op.only
<1>1. At("write") /\ free' = free /\ due' = due
  BY DEF Write
<1>2. /\ Elements(todo) = A /\ R \subseteq Later("write") /\ R \subseteq Stages
      /\ Script(Tail(todo)) /\ "copied" \notin R /\ Calm
  BY <1>1, AtStage
<1>3. R \subseteq {"dirty", "rset"}
  BY <1>2, LaterIs
<1>4. /\ Sound(mem, A, op, free) /\ Shape(mem) /\ IsMemory(mem) /\ Comes(mem, due)
      /\ log \in Seq(Quiet) /\ Len(log) <= 2
  BY <1>2, CalmAfter
<1>5. op \in Op /\ free \subseteq Units /\ Owned(mem) \cap free = {} /\ op.only \in BOOLEAN
  BY DEF Base, Op
<1>6. /\ u \in BlocksOf(mem) /\ u \in Units /\ op.key \in Keys /\ mem.index[u] = HashOf[op.key]
      /\ \A x \in BlocksOf(mem) : mem.data[x].key = op.key => x = u
  <2>1. A \cap Working # {} /\ "alloc" \notin A /\ A \cap Setting # {}
    BY <1>3 DEF Working, Setting, Filling
  <2>2. u \in BlocksOf(mem) /\ u # 0 /\ u \in Units
    BY <1>4, <2>1, BlockUnits DEF Sound, Placed, Shape
  <2> QED  BY <1>4, <2>1, <2>2 DEF Sound, Placed
<1>7. log' = g
  BY DEF Write, Recounting
<1>8. Writes(mem, mem', u, op.key) /\ mem'.dirty[u] = no /\ mem'.onlyKey[u] = op.only
  <2>1. e \in Datum /\ e.key \in {op.key, None} /\ no \in BOOLEAN
    BY <1>5, <1>6 DEF Empty, Datum
  <2>2. mem' = Written(mem, u, no, op.only, e)
    <3>1. DOMAIN mem = Fields /\ DOMAIN mem.data = Units
      BY <1>4 DEF IsMemory
    <3> QED  BY <1>6, <3>1 DEF Write, Written, Fields
  <2> HIDE DEF e, no, u
  <2>3. op.key \in Keys \cup {None} /\ op.only \in BOOLEAN /\ u \in Units /\ IsMemory(mem)
    BY <1>4, <1>5, <1>6
  <2> QED  BY <2>1, <2>2, <2>3, DataWritten
<1>9. g \in Seq(Counts) /\ Len(g) <= 6
  BY <1>4, <1>5, <1>6, WriteCounts
<1> HIDE DEF g, e, no
<1>10. /\ Stays(mem, mem') /\ SameChunks(mem, mem') /\ mem'.head = mem.head
       /\ \A x \in BlocksOf(mem) : mem'.data[x].key = op.key => x = u
  <2>1. Meant(mem, u, op.key) /\ u \in BlocksOf(mem) /\ Shape(mem)
    BY <1>4, <1>6 DEF Meant
  <2> HIDE DEF u
  <2> QED  BY <1>8, <2>1, WritesStay
<1>11. /\ Shape(mem') /\ BlocksOf(mem') = BlocksOf(mem) /\ GetOf(mem') = GetOf(mem)
       /\ Owned(mem') = Owned(mem) /\ \A x \in BlocksOf(mem) : ChunksIn(mem', x) = ChunksIn(mem, x)
  BY <1>4, <1>10, ShapeStays
<1>12. Recounts(mem', m2)
  BY <1>9, <1>11, CountsStay
<1> HIDE DEF m2
<1>13. /\ Shape(m2) /\ BlocksOf(m2) = BlocksOf(mem) /\ GetOf(m2) = GetOf(mem)
       /\ Owned(m2) = Owned(mem) /\ \A x \in BlocksOf(mem) : ChunksIn(m2, x) = ChunksIn(mem, x)
  <2>1. Stays(mem', m2) /\ SameChunks(mem', m2)
    BY <1>12 DEF Recounts
  <2> QED  BY <1>11, <2>1, ShapeStays
<1>14. m2.index = mem.index /\ m2.data = mem'.data /\ m2.head.backupTail = mem.head.backupTail
  <2>1. mem'.index = mem.index
    BY <1>8 DEF Writes, Fields
  <2> QED  BY <1>10, <1>12, <2>1 DEF Recounts, Fields, Heads, HeadLinks, HeadCounts
<1>15. Sound(m2, A, op, free)
  <2>1. \A x \in BlocksOf(mem) : m2.data[x].key = op.key => mem.data[x].key = op.key \/ x = op.b
    BY <1>10, <1>14
  <2> QED  BY <1>4, <1>13, <1>14, <2>1, SoundSame
<1>16. /\ Script(st) /\ Elements(st) = {"copied", "commit"} \cup R
       /\ Len(st) # 0 /\ st[1] = "copied" /\ Go(op, st)
  <2> DEFINE r == <<"commit">> \o Tail(todo)
  <2>1. "commit" \in Stages /\ "copied" \in Stages /\ R \subseteq Later("commit")
    BY <1>2, LaterIs DEF Stages
  <2>2. Script(r) /\ Elements(r) = {"commit"} \cup R /\ Len(r) # 0 /\ r[1] = "commit"
    <3>1. "commit" = "copied" => Len(Tail(todo)) # 0 /\ Tail(todo)[1] = "commit"
      OBVIOUS
    <3> QED  BY <1>2, <2>1, <3>1, ScriptPut
  <2>3. Go(op, <<"copied", "commit">> \o Tail(todo)) /\ Tail(todo) \in Seq(Stages)
    BY <1>2 DEF Write, Script
  <2>4. <<"copied", "commit">> \o Tail(todo) = <<"copied">> \o r
    BY <2>1, <2>3, TwoStages
  <2>5. Elements(r) \subseteq Later("copied")
    BY <1>3, <2>2, LaterIs
  <2> HIDE DEF r
  <2>6. /\ Script(<<"copied">> \o r) /\ Elements(<<"copied">> \o r) = {"copied"} \cup Elements(r)
        /\ Len(<<"copied">> \o r) # 0 /\ (<<"copied">> \o r)[1] = "copied"
    BY <2>1, <2>2, <2>5, ScriptPut
  <2>7. {"copied"} \cup Elements(r) = {"copied", "commit"} \cup R
    BY <2>2
  <2> QED  BY <2>3, <2>4, <2>6, <2>7 DEF r
<1> HIDE DEF st
<1>17. Sound(m2, Elements(st), op, free)
  <2> DEFINE B == {"copied", "commit"} \cup R
  <2>1. /\ "free" \notin A /\ "grab" \notin A /\ "grab" \notin B /\ "join" \notin A /\ "join" \notin B
        /\ "alloc" \notin A /\ "alloc" \notin B /\ "item" \notin B /\ "recover" \notin B
        /\ A \cap Working # {} /\ A \cap Setting # {}
    BY <1>3 DEF Working, Setting, Filling
  <2>2. Sound(m2, B, op, free)
    BY <1>15, <2>1, SoundTurn
  <2> QED  BY <1>16, <2>2
<1>18. Comes(mem', due') /\ Comes(m2, due' \cap BlocksOf(m2))
  <2>1. Comes(mem', due) /\ Comes(m2, due)
    BY <1>4, <1>10, <1>11, <1>13, <1>14, ComesKept
  <2> QED  BY <1>1, <2>1 DEF Comes
<1>19. LogOK(st, log')
  <2>1. g \in Seq(Entry) /\ Len(g) <= 15
    <3>1. Len(g) \in Nat
      BY <1>9
    <3> QED  BY <1>9, <3>1, CountsCells
  <2> QED  BY <1>7, <1>9, <1>16, <2>1 DEF LogOK
<1>20. Goes(op, st)
  BY <1>5, <1>16, GoGoes
<1>21. /\ Shape(mem') /\ free' \subseteq Units /\ Owned(mem') \cap free' = {}
       /\ Apply(mem', log') = m2 /\ Sound(m2, Elements(st), op, free')
  BY <1>1, <1>5, <1>7, <1>11, <1>17 DEF m2
<1> QED  BY <1>18, <1>19, <1>20, <1>21, Went

\* The end of the copy keeps the invariant Base.
LEMMA CopiedKeeps == ASSUME Base, Copied PROVE Base'
<1> DEFINE R == Elements(Tail(todo))
           A == {"copied"} \cup R
           u == op.b
           e == [key |-> op.key, val |-> "whole"]
           o == [Idle EXCEPT !.b = op.b, !.dirty = op.dirty]
           m2 == Apply(mem', log)
           st == Tail(todo)
<1>1. At("copied") /\ free' = free /\ due' = due /\ log' = log /\ Go(o, st)
  BY DEF Copied
<1>2. /\ Elements(todo) = A /\ R \subseteq Later("copied") /\ Script(st) /\ Len(todo) # 0
      /\ todo[1] = "copied" /\ Script(todo)
  BY <1>1, AtStage DEF Base
<1>3. R \subseteq {"commit", "dirty", "rset"} /\ Len(st) # 0 /\ st[1] = "commit"
  <2>1. Len(todo) > 1 /\ todo[2] = "commit" /\ todo \in Seq(Stages)
    BY <1>2 DEF Script
  <2> QED  BY <1>2, <2>1, LaterIs
<1>4. /\ Sound(After, A, op, free) /\ Shape(mem) /\ IsMemory(mem) /\ Comes(mem, due)
      /\ log \in Seq(Counts) /\ Len(log) <= 6 /\ log \in Seq(Entry) /\ Len(log) <= 15
  BY <1>2 DEF Base, LogOK, Shape
<1>5. op \in Op /\ free \subseteq Units /\ Owned(mem) \cap free = {} /\ op.b \in Addr /\ op.dirty \in BOOLEAN
  BY DEF Base, Op
<1>6. Recounts(mem, After)
  BY <1>4, CountsStay DEF After
<1>7. /\ BlocksOf(After) = BlocksOf(mem) /\ After.index = mem.index /\ After.data = mem.data
  <2>1. Stays(mem, After) /\ SameChunks(mem, After)
    BY <1>6 DEF Recounts
  <2>2. BlocksOf(After) = BlocksOf(mem)
    BY <1>4, <2>1, ShapeStays
  <2> QED  BY <1>6, <2>2 DEF Recounts, Fields
<1>8. /\ u \in BlocksOf(mem) /\ u \in Units /\ op.key \in Keys /\ mem.index[u] = HashOf[op.key]
      /\ \A x \in BlocksOf(mem) : mem.data[x].key = op.key => x = u
  <2>1. A \cap Working # {} /\ "alloc" \notin A /\ A \cap Setting # {}
    BY <1>3 DEF Working, Setting, Filling
  <2>2. u \in BlocksOf(mem) /\ u # 0 /\ u \in Units
    BY <1>4, <1>7, <2>1, BlockUnits DEF Sound, Placed, Shape
  <2> QED  BY <1>4, <1>7, <2>1, <2>2 DEF Sound, Placed
<1>9. Writes(mem, mem', u, op.key) /\ mem'.dirty[u] = mem.dirty[u] /\ mem'.onlyKey[u] = mem.onlyKey[u]
  <2>1. /\ e \in Datum /\ e.key \in {op.key, None} /\ mem.dirty[u] \in BOOLEAN /\ mem.onlyKey[u] \in BOOLEAN
    BY <1>4, <1>8 DEF Datum, IsMemory
  <2>2. mem' = Written(mem, u, mem.dirty[u], mem.onlyKey[u], e)
    <3>1. /\ DOMAIN mem = Fields /\ mem = [f \in Fields |-> mem[f]]
          /\ mem.dirty \in [Units -> BOOLEAN] /\ mem.onlyKey \in [Units -> BOOLEAN]
      BY <1>4 DEF IsMemory
    <3>2. [mem.dirty EXCEPT ![u] = mem.dirty[u]] = mem.dirty
          /\ [mem.onlyKey EXCEPT ![u] = mem.onlyKey[u]] = mem.onlyKey
      BY <3>1
    <3>3. mem' = [mem EXCEPT !.data = [mem.data EXCEPT ![u] = e]]
      BY DEF Copied
    <3>4. [mem EXCEPT !.dirty = mem.dirty, !.onlyKey = mem.onlyKey,
                      !.data = [mem.data EXCEPT ![u] = e]]
          = [mem EXCEPT !.data = [mem.data EXCEPT ![u] = e]]
      BY <3>1 DEF Fields
    <3> QED  BY <3>2, <3>3, <3>4 DEF Written
  <2> HIDE DEF e, u
  <2>3. op.key \in Keys \cup {None} /\ u \in Units /\ IsMemory(mem)
    BY <1>4, <1>5, <1>8
  <2> QED  BY <2>1, <2>2, <2>3, DataWritten
<1> HIDE DEF e
<1>10. Stays(mem, mem') /\ SameChunks(mem, mem') /\ mem'.head = mem.head
  <2>1. Meant(mem, u, op.key) /\ u \in BlocksOf(mem) /\ Shape(mem)
    BY <1>4, <1>8 DEF Meant
  <2> HIDE DEF u
  <2> QED  BY <1>9, <2>1, WritesStay
<1>11. /\ Shape(mem') /\ BlocksOf(mem') = BlocksOf(mem) /\ GetOf(mem') = GetOf(mem)
       /\ Owned(mem') = Owned(mem)
  BY <1>4, <1>10, ShapeStays
<1>12. Recounts(mem', m2)
  BY <1>4, <1>11, CountsStay
<1> HIDE DEF m2
<1>13. /\ Shape(m2) /\ BlocksOf(m2) = BlocksOf(mem) /\ GetOf(m2) = GetOf(mem) /\ Owned(m2) = Owned(mem)
  <2>1. Stays(mem', m2) /\ SameChunks(mem', m2)
    BY <1>12 DEF Recounts
  <2> QED  BY <1>11, <2>1, ShapeStays
<1>14. m2.head.backupTail = mem.head.backupTail
  BY <1>10, <1>12 DEF Recounts, Heads, HeadLinks, HeadCounts
<1>15. o \in Op /\ o.b = op.b /\ o.got = <<>> /\ o.gone = {}
  <2>1. \A a \in Addr, d \in BOOLEAN :
          LET p == [Idle EXCEPT !.b = a, !.dirty = d]
          IN  p \in Op /\ p.b = a /\ p.got = <<>> /\ p.gone = {}
    BY IdleOp DEF Op, Idle
  <2> QED  BY <1>5, <2>1
<1> HIDE DEF o, st
<1>16. Sound(m2, Elements(st), o, free)
  <2>0. Elements(st) \subseteq {"commit", "dirty", "rset"}
    BY <1>3 DEF st
  <2>1. Len(o.got) = 0 /\ Elements(o.got) = {} /\ Once(o.got)
    BY <1>15, NoScript DEF Once
  <2>2. Loose(Elements(st), o) = {}
    BY <2>0, <2>1 DEF Loose
  <2>3. Apart(m2, Elements(st), o, free)
    BY <1>5, <1>13, <1>15, <2>1, <2>2 DEF Apart
  <2>4. Placed(m2, Elements(st), o)
    BY <1>8, <1>13, <1>15, <2>0 DEF Placed, Setting, Filling
  <2> QED  BY <1>13, <2>3, <2>4 DEF Sound
<1>17. Comes(mem', due') /\ Comes(m2, due' \cap BlocksOf(m2))
  <2>1. Comes(mem', due) /\ Comes(m2, due)
    BY <1>4, <1>10, <1>11, <1>13, <1>14, ComesKept
  <2> QED  BY <1>1, <2>1 DEF Comes
<1>18. LogOK(st, log')
  BY <1>1, <1>3, <1>4 DEF LogOK, st
<1>19. Goes(o, st)
  BY <1>1, <1>2, <1>15, GoGoes DEF st
<1>20. /\ Shape(mem') /\ free' \subseteq Units /\ Owned(mem') \cap free' = {}
       /\ Apply(mem', log') = m2 /\ Sound(m2, Elements(st), o, free')
  BY <1>1, <1>5, <1>11, <1>16 DEF m2
<1> QED  BY <1>17, <1>18, <1>19, <1>20, Went

-----------------------------------------------------------------------------
(* The invariant is kept: flags, moves in the lists, and the blocks of a bucket. *)

\* An operation that holds nothing is sound in a memory of the right shape.
LEMMA PlainSound ==
  ASSUME NEW m, Shape(m), NEW fr, Owned(m) \cap fr = {}, NEW o, o.got = <<>>, o.gone = {},
         NEW A, A \cap Setting = {}, A \cap Working # {} => o.b \in BlocksOf(m),
         "item" \in A => o.next \in BlocksOf(m), "recover" \in A => o.next \in Buckets
  PROVE  Sound(m, A, o, fr)
<1>1. Len(o.got) = 0 /\ Elements(o.got) = {} /\ Once(o.got)
  BY NoScript DEF Once
<1>2. A \cap {"alloc", "grab", "join"} = {}
  BY DEF Setting, Filling
<1>3. Loose(A, o) = {}
  BY <1>1, <1>2 DEF Loose
<1>4. Apart(m, A, o, fr)
  BY <1>1, <1>3 DEF Apart
<1>5. Placed(m, A, o)
  BY <1>2 DEF Placed
<1> QED  BY <1>4, <1>5 DEF Sound

\* A group that changes nothing the operation relies on.
LEMMA RecordedSame ==
  ASSUME Base, Calm, mem' = mem, free' = free, due' = due,
         NEW g \in Seq(Entry), Len(g) <= 13, NEW st, Record(g, op, st), Script(st),
         "copied" \notin Elements(st), Elements(st) \subseteq Stages,
         Sound(mem, {"commit"} \cup Elements(st), op, free),
         NEW m2, m2 = Apply(mem, g), Shape(m2), BlocksOf(m2) = BlocksOf(mem),
         Owned(m2) = Owned(mem), m2.index = mem.index, m2.data = mem.data,
         \A u \in BlocksOf(mem) : ChunksIn(m2, u) = ChunksIn(mem, u), Comes(m2, due)
  PROVE  Base'
<1>1. op \in Op /\ free \subseteq Units /\ Shape(mem) /\ Owned(mem) \cap free = {} /\ Comes(mem, due)
  BY DEF Base
<1>2. Sound(m2, {"commit"} \cup Elements(st), op, free)
  BY SoundSame
<1>3. Comes(m2, due \cap BlocksOf(m2))
  BY DEF Comes
<1>4. /\ Shape(mem') /\ free' \subseteq Units /\ Owned(mem') \cap free' = {} /\ Comes(mem', due)
      /\ Sound(Apply(mem', g), {"commit"} \cup Elements(st), op, free')
      /\ Comes(Apply(mem', g), due \cap BlocksOf(Apply(mem', g)))
  BY <1>1, <1>2, <1>3
<1> QED  BY <1>1, <1>4, Recorded

\* A step that changes no more than the stages.
LEMMA WentSame ==
  ASSUME Base, Calm, mem' = mem, free' = free, due' = due, log' = log \/ log' = <<>>,
         NEW o \in Op, NEW st, Go(o, st), Script(st), Len(st) # 0 => st[1] # "copied",
         Sound(mem, Elements(st), o, free)
  PROVE  Base'
<1>1. log \in Seq(Quiet) /\ Len(log) <= 2 /\ Shape(mem) /\ Comes(mem, due) /\ free \subseteq Units
  BY CalmAfter DEF Base
<1>2. log' \in Seq(Quiet) /\ Len(log') <= 2
  <2>1. <<>> \in Seq(Quiet) /\ Len(<<>>) = 0
    OBVIOUS
  <2>2. CASE log' = log
    BY <1>1, <2>2
  <2>3. CASE log' = <<>>
    BY <2>1, <2>3
  <2> QED  BY <2>2, <2>3
<1>3. Goes(o, st)
  BY GoGoes
<1>4. Shape(mem') /\ free' \subseteq Units /\ Sound(mem', Elements(st), o, free') /\ Comes(mem', due')
  BY <1>1
<1> QED  BY <1>2, <1>3, <1>4, WentOn

\* The flag of u becomes v, and the count of dirty blocks is told.
Flags(m, m2, u, v, d) ==
    /\ Stays(m, m2) /\ SameChunks(m, m2) /\ m2.dirty[u] = v
    /\ \A f \in Fields \ {"head", "dirty"} : m2[f] = m[f]
    /\ \A h \in Heads \ {"dirtyCount"} : m2.head[h] = m.head[h]
    /\ \A x \in Units \ {u} : m2.dirty[x] = m.dirty[x]
    /\ m2.head.dirtyCount = m.head.dirtyCount + d

\* The group that SetDirtyFlag records.
Flagging(u, v, d) == Count("dirtyCount", d) \o <<<<"dirty", u, v>>>>

\* What the group that changes a dirty flag writes.
LEMMA FlagEffect ==
  ASSUME Shape(mem), NEW u \in Units, NEW v \in BOOLEAN, NEW d \in Int,
         NEW g, g = Flagging(u, v, d)
  PROVE  g \in Seq(Entry) /\ Len(g) = 2 /\ Flags(mem, Apply(mem, g), u, v, d)
<1> DEFINE n == mem.head.dirtyCount + d
           e1 == <<"head", "dirtyCount", n>>
           e2 == <<"dirty", u, v>>
           m2 == Apply(mem, g)
           k == <<e1>> \o <<e2>>
<1>0. IsMemory(mem)
  BY DEF Shape
<1>1. n \in Int
  BY <1>0 DEF IsMemory, HeadCounts
<1>g. g = k
  BY DEF Count, ToHead, Flagging
<1> HIDE DEF n
<1>2. e1 \in Entry /\ e2 \in Entry
  BY <1>1, EntryMade
<1>3. e1[1] = "head" /\ e1[2] = "dirtyCount" /\ e1[3] = n /\ e2[1] = "dirty" /\ e2[2] = u /\ e2[3] = v
  OBVIOUS
<1> HIDE DEF e1, e2
<1>4. /\ g \in Seq(Entry) /\ Len(g) = 2
      /\ \A f, x, w : Cell(g, f, x, w) = CellOf(e2, f, x, CellOf(e1, f, x, w))
  <2>1. <<e1>> \in Seq(Entry) /\ <<e2>> \in Seq(Entry) /\ Len(k) = 2
    BY <1>2
  <2>2. /\ k \in Seq(Entry)
        /\ \A f, x, w : Cell(k, f, x, w) = Cell(<<e2>>, f, x, Cell(<<e1>>, f, x, w))
    BY <2>1, Joined
  <2>3. \A f, x, w : Cell(k, f, x, w) = CellOf(e2, f, x, CellOf(e1, f, x, w))
    BY <1>2, <2>2, OneEntry
  <2> HIDE DEF k
  <2> QED  BY <1>g, <2>1, <2>2, <2>3
<1>5. \A f, x, w : Cell(g, f, x, w) = IF f = "dirty" /\ x = u THEN v
                                      ELSE IF f = "head" /\ x = "dirtyCount" THEN n ELSE w
  BY <1>3, <1>4 DEF CellOf
<1>6. ASSUME NEW f \in Fields \ {"head", "dirty"} PROVE m2[f] = mem[f]
  <2>1. \A x, w : Cell(g, f, x, w) = w
    BY <1>5
  <2> QED  BY <1>0, <1>4, <2>1, AppliedSame
<1>7. /\ \A x \in Units : m2.dirty[x] = Cell(g, "dirty", x, mem.dirty[x])
      /\ m2.head.dirtyCount = Cell(g, "head", "dirtyCount", mem.head.dirtyCount)
  BY <1>0, AppliedAt DEF Heads, HeadCounts
<1>8. /\ m2.dirty[u] = v /\ \A x \in Units \ {u} : m2.dirty[x] = mem.dirty[x]
      /\ m2.head.dirtyCount = n
  BY <1>5, <1>7
<1>9. m2.data = mem.data /\ m2.index = mem.index /\ m2.chunk = mem.chunk
  BY <1>6 DEF Fields, UnitLinks
<1>10. KeysFit(mem, m2) /\ SameChunks(mem, m2)
  <2>1. SameKeys(mem, m2) /\ SameChunks(mem, m2)
    BY <1>9 DEF SameKeys, SameChunks
  <2> QED  BY <2>1, KeysStay DEF Shape
<1>11. /\ \A f \in Fields \ {"chunk", "data", "dirty", "head"} : \A x, w : Cell(g, f, x, w) = w
       /\ \A h \in Heads \ {"dirtyCount", "onlyKeyCount"} : \A w : Cell(g, "head", h, w) = w
  BY <1>5
<1>12. Stays(mem, m2)
  BY <1>4, <1>10, <1>11, TouchStays
<1>13. \A h \in Heads \ {"dirtyCount"} : m2.head[h] = mem.head[h]
  BY <1>0, <1>5, AppliedAt
<1> HIDE DEF m2
<1>14. Flags(mem, m2, u, v, d)
  BY <1>6, <1>8, <1>10, <1>12, <1>13 DEF Flags, n
<1> QED  BY <1>4, <1>14 DEF m2

\* Block::setDirty keeps the invariant Base.
LEMMA SetDirtyFlagKeeps == ASSUME Base, SetDirtyFlag PROVE Base'
<1> DEFINE R == Elements(Tail(todo))
           A == {"dirty"} \cup R
           u == op.b
<1>1. At("dirty") /\ mem' = mem /\ free' = free /\ due' = due
  BY DEF SetDirtyFlag
<1>2. /\ Elements(todo) = A /\ R \subseteq Later("dirty") /\ R \subseteq Stages
      /\ Script(Tail(todo)) /\ "copied" \notin R /\ Calm
      /\ Len(Tail(todo)) # 0 => Tail(todo)[1] # "copied"
  BY <1>1, AtStage
<1>3. R \subseteq {"rset", "item", "commit", "synced", "resync", "dirty", "resynced"}
  BY <1>2, LaterIs
<1>4. Sound(mem, A, op, free) /\ Shape(mem) /\ IsMemory(mem) /\ Comes(mem, due)
  BY <1>2, CalmAfter
<1>5. op \in Op /\ op.dirty \in BOOLEAN
  BY DEF Base, Op
<1>6. u \in BlocksOf(mem) /\ u \in Units
  <2>1. A \cap Working # {} /\ "alloc" \notin A
    BY <1>3 DEF Working
  <2> QED  BY <1>4, <2>1, BlockUnits DEF Sound, Placed, Shape
<1>7. Sound(mem, {"commit"} \cup R, op, free) /\ Sound(mem, R, op, free)
  <2>1. \A B \in {{"commit"} \cup R, R} :
          /\ "free" \notin A /\ "grab" \notin A /\ "grab" \notin B /\ "join" \notin A /\ "join" \notin B
          /\ "alloc" \notin A /\ "alloc" \notin B /\ ("item" \in B => "item" \in A) /\ "recover" \notin B
          /\ A \cap Working # {} /\ B \cap Setting = {}
    BY <1>3 DEF Working, Setting, Filling
  <2>2. \A B \in {{"commit"} \cup R, R} : Sound(mem, B, op, free)
    BY <1>4, <2>1, SoundTurn
  <2> QED  BY <2>2
<1>8. CASE mem.dirty[u] # op.dirty
  <2> DEFINE d == IF op.dirty THEN 1 ELSE -1
             g == Flagging(u, op.dirty, d)
             m2 == Apply(mem, g)
  <2>1. Record(g, op, Tail(todo))
    BY <1>8 DEF SetDirtyFlag, Flagging
  <2>2. d \in Int
    OBVIOUS
  <2>g. g = Flagging(u, op.dirty, d)
    OBVIOUS
  <2> HIDE DEF d, g
  <2>3. g \in Seq(Entry) /\ Len(g) = 2 /\ Flags(mem, m2, u, op.dirty, d)
    BY <1>4, <1>5, <1>6, <2>2, <2>g, FlagEffect
  <2>m. m2 = Apply(mem, g)
    OBVIOUS
  <2> HIDE DEF m2, u
  <2>4. Stays(mem, m2) /\ SameChunks(mem, m2)
    BY <2>3 DEF Flags
  <2>5. /\ Shape(m2) /\ BlocksOf(m2) = BlocksOf(mem) /\ GetOf(m2) = GetOf(mem) /\ Owned(m2) = Owned(mem)
        /\ \A x \in BlocksOf(mem) : ChunksIn(m2, x) = ChunksIn(mem, x)
    BY <1>4, <2>4, ShapeStays
  <2>6. m2.index = mem.index /\ m2.data = mem.data /\ m2.head.backupTail = mem.head.backupTail
    BY <2>3 DEF Flags, Fields, Heads, HeadLinks
  <2>7. Comes(m2, due) /\ Len(g) <= 13
    BY <1>4, <2>3, <2>5, <2>6, ComesKept
  <2> QED  BY <1>1, <1>2, <1>7, <2>1, <2>3, <2>m, <2>5, <2>6, <2>7, RecordedSame
<1>9. CASE ~(mem.dirty[u] # op.dirty)
  <2>1. Go(op, Tail(todo)) /\ log' = log
    BY <1>9 DEF SetDirtyFlag
  <2> QED  BY <1>1, <1>2, <1>5, <1>7, <2>1, WentSame
<1> QED  BY <1>8, <1>9

\* Block::refreshSetList keeps the invariant Base.
LEMMA RefreshSetListKeeps == ASSUME Base, RefreshSetList PROVE Base'
<1> DEFINE R == Elements(Tail(todo))
           A == {"rset"} \cup R
           u == op.b
           first == mem.head.setHead = u
           g == When(~first, StepOff("syncTail", "setPrev", u) \o StepOff("dirtyTail", "setPrev", u))
                  \o When(mem.head.dirtyTail = 0, <<ToHead("dirtyTail", u)>>)
                  \o When(~first, MoveFront(SetList, u))
           m2 == Apply(mem, g)
           st == <<"rget">> \o Tail(todo)
<1>1. At("rset") /\ mem' = mem /\ free' = free /\ due' = due /\ Record(g, op, st)
  BY DEF RefreshSetList
<1>2. /\ Elements(todo) = A /\ R \subseteq Later("rset") /\ R \subseteq Stages
      /\ Script(Tail(todo)) /\ Calm
  BY <1>1, AtStage
<1>3. R \subseteq {"commit", "item"}
  BY <1>2, LaterIs
<1>4. Sound(mem, A, op, free) /\ Shape(mem) /\ Comes(mem, due)
  BY <1>2, CalmAfter
<1>5. u \in BlocksOf(mem)
  <2>1. A \cap Working # {} /\ "alloc" \notin A
    BY <1>3 DEF Working
  <2> QED  BY <1>4, <2>1 DEF Sound, Placed
<1>6. g \in Seq(Entry) /\ Len(g) <= 9 /\ MovedSet(mem, m2, u)
  BY <1>4, <1>5, RefreshSetEffect
<1>m. m2 = Apply(mem, g)
  OBVIOUS
<1> HIDE DEF g, m2, u
<1>7. /\ Shape(m2) /\ BlocksOf(m2) = BlocksOf(mem) /\ GetOf(m2) = GetOf(mem) /\ Owned(m2) = Owned(mem)
      /\ \A x \in BlocksOf(mem) : ChunksIn(m2, x) = ChunksIn(mem, x)
  BY <1>4, <1>5, <1>6, MovedSetShape
<1>8. m2.index = mem.index /\ m2.data = mem.data /\ m2.head.backupTail = mem.head.backupTail
  BY <1>6 DEF MovedSet, Fields, Heads, HeadLinks
<1>9. Comes(m2, due) /\ Len(g) <= 13
  <2>1. Len(g) \in Nat
    BY <1>6
  <2> QED  BY <1>4, <1>6, <1>7, <1>8, <2>1, ComesKept
<1>10. Script(st) /\ Elements(st) = {"rget"} \cup R /\ "copied" \notin Elements(st) /\ Elements(st) \subseteq Stages
  <2>1. "rget" \in Stages /\ "rget" # "copied" /\ R \subseteq Later("rget")
    BY <1>3, LaterIs DEF Stages
  <2> QED  BY <1>2, <1>3, <2>1, ScriptMore
<1> HIDE DEF st
<1>11. Sound(mem, {"commit"} \cup Elements(st), op, free)
  <2> DEFINE B == {"commit", "rget"} \cup R
  <2>1. /\ "free" \notin A /\ "grab" \notin A /\ "grab" \notin B /\ "join" \notin A /\ "join" \notin B
        /\ "alloc" \notin A /\ "alloc" \notin B /\ ("item" \in B => "item" \in A) /\ "recover" \notin B
        /\ A \cap Working # {} /\ B \cap Setting = {}
    BY <1>3 DEF Working, Setting, Filling
  <2>2. Sound(mem, B, op, free)
    BY <1>4, <2>1, SoundTurn
  <2>3. B = {"commit"} \cup Elements(st)
    BY <1>10
  <2> QED  BY <2>2, <2>3
<1> QED  BY <1>1, <1>2, <1>6, <1>m, <1>7, <1>8, <1>9, <1>10, <1>11, RecordedSame

\* Block::refreshGetList keeps the invariant Base.
LEMMA RefreshGetListKeeps == ASSUME Base, RefreshGetList PROVE Base'
<1> DEFINE R == Elements(Tail(todo))
           A == {"rget"} \cup R
           u == op.b
<1>1. At("rget") /\ mem' = mem /\ free' = free /\ due' = due
  BY DEF RefreshGetList
<1>2. /\ Elements(todo) = A /\ R \subseteq Later("rget") /\ R \subseteq Stages
      /\ Script(Tail(todo)) /\ Calm /\ "copied" \notin R
      /\ Len(Tail(todo)) # 0 => Tail(todo)[1] # "copied"
  BY <1>1, AtStage
<1>3. R \subseteq {"commit", "item"}
  BY <1>2, LaterIs
<1>4. Sound(mem, A, op, free) /\ Shape(mem) /\ Comes(mem, due) /\ op \in Op
  BY <1>2, CalmAfter DEF Base
<1>5. u \in BlocksOf(mem)
  <2>1. A \cap Working # {} /\ "alloc" \notin A
    BY <1>3 DEF Working
  <2> QED  BY <1>4, <2>1 DEF Sound, Placed
<1>6. Sound(mem, {"commit"} \cup R, op, free) /\ Sound(mem, R, op, free)
  <2>1. \A B \in {{"commit"} \cup R, R} :
          /\ "free" \notin A /\ "grab" \notin A /\ "grab" \notin B /\ "join" \notin A /\ "join" \notin B
          /\ "alloc" \notin A /\ "alloc" \notin B /\ ("item" \in B => "item" \in A) /\ "recover" \notin B
          /\ A \cap Working # {} /\ B \cap Setting = {}
    BY <1>3 DEF Working, Setting, Filling
  <2>2. \A B \in {{"commit"} \cup R, R} : Sound(mem, B, op, free)
    BY <1>4, <2>1, SoundTurn
  <2> QED  BY <2>2
<1>7. CASE mem.head.getHead = u
  <2>1. Go(op, Tail(todo)) /\ log' = log
    BY <1>7 DEF RefreshGetList
  <2> QED  BY <1>1, <1>2, <1>4, <1>6, <2>1, WentSame
<1>8. CASE mem.head.getHead # u
  <2> DEFINE g == StepOff("backupTail", "getPrev", u) \o MoveFront(GetList, u)
             m2 == Apply(mem, g)
  <2>1. Record(g, op, Tail(todo))
    BY <1>8 DEF RefreshGetList
  <2>2. g \in Seq(Entry) /\ Len(g) <= 7 /\ MovedGet(mem, m2, u)
    BY <1>4, <1>5, <1>8, RefreshGetEffect
  <2>m. m2 = Apply(mem, g)
    OBVIOUS
  <2> HIDE DEF g, m2, u
  <2>3. /\ Shape(m2) /\ BlocksOf(m2) = BlocksOf(mem) /\ Owned(m2) = Owned(mem)
        /\ \A x \in BlocksOf(mem) : ChunksIn(m2, x) = ChunksIn(mem, x)
        /\ Upto(GetOf(mem), mem.head.backupTail) \subseteq Upto(GetOf(m2), m2.head.backupTail)
    BY <1>4, <1>5, <1>8, <2>2, MovedGetShape
  <2>4. m2.index = mem.index /\ m2.data = mem.data
    BY <2>2 DEF MovedGet, Fields
  <2>5. Comes(m2, due) /\ Len(g) <= 13
    <3>1. Len(g) \in Nat
      BY <2>2
    <3> QED  BY <1>4, <2>2, <2>3, <3>1 DEF Comes
  <2> QED  BY <1>1, <1>2, <1>6, <2>1, <2>2, <2>m, <2>3, <2>4, <2>5, RecordedSame
<1> QED  BY <1>7, <1>8

-----------------------------------------------------------------------------
(* The invariant is kept: the cursors, and the blocks of a bucket. *)

\* Nothing but cursors differs.
ButCursors(m, m2) ==
    /\ IsMemory(m2) /\ \A f \in Fields \ {"head"} : m2[f] = m[f]
    /\ \A h \in Heads \ {"dirtyTail", "syncTail", "backupTail"} : m2.head[h] = m.head[h]
    /\ CursorsFit(m, m2)

\* Moving the cursors leaves the shape.
LEMMA CursorsStay ==
  ASSUME NEW m, Shape(m), NEW m2, ButCursors(m, m2)
  PROVE  /\ Stays(m, m2) /\ SameChunks(m, m2) /\ m2.index = m.index /\ m2.data = m.data
         /\ Shape(m2) /\ SetOf(m2) = SetOf(m) /\ BlocksOf(m2) = BlocksOf(m) /\ GetOf(m2) = GetOf(m)
         /\ Owned(m2) = Owned(m)
         /\ \A u \in BlocksOf(m) : ChunksIn(m2, u) = ChunksIn(m, u) /\ Own(m2, u) = Own(m, u)
<1>1. /\ m2.setNext = m.setNext /\ m2.setPrev = m.setPrev /\ m2.getNext = m.getNext
      /\ m2.getPrev = m.getPrev /\ m2.blockNext = m.blockNext /\ m2.blockPrev = m.blockPrev
      /\ m2.index = m.index /\ m2.data = m.data /\ m2.bucket = m.bucket
      /\ m2.listCount = m.listCount /\ m2.chunk = m.chunk
  BY DEF ButCursors, Fields, UnitLinks
<1>2. /\ m2.head.setHead = m.head.setHead /\ m2.head.setTail = m.head.setTail
      /\ m2.head.getHead = m.head.getHead /\ m2.head.getTail = m.head.getTail
      /\ m2.head.elements = m.head.elements
  BY DEF ButCursors, Heads, HeadLinks, HeadCounts
<1>3. SameSet(m, m2) /\ SameGet(m, m2) /\ SameChains(m, m2) /\ SameChunks(m, m2) /\ SameKeys(m, m2)
  BY <1>1, <1>2 DEF SameSet, SameGet, SameChains, SameChunks, SameKeys
<1>4. KeysFit(m, m2)
  BY <1>3, KeysStay DEF Shape
<1>5. Stays(m, m2)
  BY <1>2, <1>3, <1>4 DEF Stays, ButCursors
<1> QED  BY <1>1, <1>3, <1>5, ShapeStays

\* One word of the head of the map changes.
PutHead(m, c, v) == [m EXCEPT !.head = [m.head EXCEPT ![c] = v]]

\* What setting one cursor does.
LEMMA PutEffect ==
  ASSUME NEW m, Shape(m), NEW c \in {"dirtyTail", "syncTail", "backupTail"},
         NEW v \in BlocksOf(m) \cup {0}
  PROVE  /\ ButCursors(m, PutHead(m, c, v)) /\ PutHead(m, c, v).head[c] = v
         /\ \A h \in Heads \ {c} : PutHead(m, c, v).head[h] = m.head[h]
<1> DEFINE hh == [m.head EXCEPT ![c] = v]
           m2 == PutHead(m, c, v)
<1>1. IsMemory(m) /\ DOMAIN m = Fields /\ DOMAIN m.head = Heads /\ v \in Addr
  BY BlockUnits DEF Shape, IsMemory, Addr
<1>2. c \in HeadLinks /\ c \in Heads /\ c \notin HeadCounts /\ c # "getCount" /\ c # "hitCount"
  BY DEF Heads, HeadLinks, HeadCounts
<1>3. /\ hh = [h \in Heads |-> hh[h]] /\ hh[c] = v /\ \A h \in Heads \ {c} : hh[h] = m.head[h]
  BY <1>1, <1>2
<1>4. m2 = [m EXCEPT !.head = hh]
  BY DEF PutHead
<1> HIDE DEF hh, m2
<1>5. /\ m2 = [f \in Fields |-> m2[f]] /\ m2.head = hh /\ \A f \in Fields \ {"head"} : m2[f] = m[f]
  BY <1>1, <1>4 DEF Fields
<1>6. /\ \A f \in UnitLinks : m2[f] = m[f]
      /\ m2.index = m.index /\ m2.bucket = m.bucket /\ m2.listCount = m.listCount
      /\ m2.data = m.data /\ m2.dirty = m.dirty /\ m2.onlyKey = m.onlyKey
  BY <1>5 DEF Fields, UnitLinks
<1>7. /\ \A h \in HeadLinks : hh[h] \in Addr
      /\ \A h \in HeadCounts : hh[h] \in Int
      /\ hh.getCount = 0 /\ hh.hitCount = 0
  <2>1. \A h \in HeadLinks : h \in Heads /\ m.head[h] \in Addr
    BY <1>1 DEF IsMemory, Heads
  <2>2. \A h \in HeadCounts : h \in Heads /\ m.head[h] \in Int
    BY <1>1 DEF IsMemory, Heads
  <2>3. hh.getCount = m.head.getCount /\ hh.hitCount = m.head.hitCount
    BY <1>2, <1>3 DEF Heads, HeadCounts
  <2> QED  BY <1>1, <1>2, <1>3, <2>1, <2>2, <2>3 DEF IsMemory
<1>8. IsMemory(m2)
  BY <1>1, <1>3, <1>5, <1>6, <1>7 DEF IsMemory
<1>9. CursorsFit(m, m2)
  BY <1>3, <1>5 DEF CursorsFit, Shape, Cursors, Heads, HeadLinks
<1>10. m2.head[c] = v /\ \A h \in Heads \ {c} : m2.head[h] = m.head[h]
  BY <1>3, <1>5
<1> QED  BY <1>5, <1>8, <1>9, <1>10 DEF ButCursors, m2

\* Moving no cursor is moving the cursors.
LEMMA CursorsSame ==
  ASSUME NEW m, Shape(m)
  PROVE  ButCursors(m, m)
  BY DEF ButCursors, Shape, Cursors, CursorsFit

\* Moving the cursors twice is moving the cursors.
LEMMA CursorsTwice ==
  ASSUME NEW m, NEW m1, NEW m2, Shape(m), ButCursors(m, m1), ButCursors(m1, m2)
  PROVE  ButCursors(m, m2)
<1>1. BlocksOf(m1) = BlocksOf(m)
  BY CursorsStay
<1> QED  BY <1>1 DEF ButCursors, CursorsFit

\* A step that changes no more than the stages and cursors of write-back.
LEMMA WentCursor ==
  ASSUME Base, Calm, ButCursors(mem, mem'), mem'.head.backupTail = mem.head.backupTail,
         free' = free, due' = due, log' \in Seq(Quiet), Len(log') <= 2,
         NEW o \in Op, NEW st, Goes(o, st), Len(st) # 0 => st[1] # "copied",
         Sound(mem, Elements(st), o, free)
  PROVE  Base'
<1>1. Shape(mem) /\ Comes(mem, due) /\ free \subseteq Units
  BY CalmAfter DEF Base
<1>2. /\ Shape(mem') /\ BlocksOf(mem') = BlocksOf(mem) /\ GetOf(mem') = GetOf(mem)
      /\ Owned(mem') = Owned(mem) /\ mem'.index = mem.index /\ mem'.data = mem.data
      /\ \A u \in BlocksOf(mem) : ChunksIn(mem', u) = ChunksIn(mem, u)
  BY <1>1, CursorsStay
<1>3. Sound(mem', Elements(st), o, free)
  BY <1>2, SoundSame
<1>4. Comes(mem', due)
  BY <1>1, <1>2, ComesKept
<1>5. free' \subseteq Units /\ Sound(mem', Elements(st), o, free') /\ Comes(mem', due')
  BY <1>1, <1>3, <1>4
<1> QED  BY <1>2, <1>5, WentOn

\* DirtyPast moves the dirty cursor off the block.
LEMMA PastEffect ==
  ASSUME NEW m, Shape(m), NEW u \in BlocksOf(m)
  PROVE  /\ ButCursors(m, DirtyPast(m, u))
         /\ DirtyPast(m, u).head.dirtyTail = IF m.head.dirtyTail = u THEN m.setPrev[u]
                                             ELSE m.head.dirtyTail
         /\ \A h \in Heads \ {"dirtyTail"} : DirtyPast(m, u).head[h] = m.head[h]
<1>1. m.setPrev[u] \in BlocksOf(m) \cup {0}
  BY Neighbours DEF Shape, SetFits, BlocksOf
<1>2. CASE m.head.dirtyTail = u
  <2>1. DirtyPast(m, u) = PutHead(m, "dirtyTail", m.setPrev[u])
    BY <1>2 DEF DirtyPast, PutHead
  <2> QED  BY <1>1, <1>2, <2>1, PutEffect
<1>3. CASE m.head.dirtyTail # u
  <2>1. DirtyPast(m, u) = m
    BY <1>3 DEF DirtyPast
  <2> QED  BY <1>3, <2>1, CursorsSame
<1> QED  BY <1>2, <1>3

\* Soundness depends on the block, the key and the units the operation holds.
LEMMA SoundOp ==
  ASSUME NEW m, NEW A, NEW o, NEW fr, Sound(m, A, o, fr), NEW o2, o2.b = o.b, o2.key = o.key,
         o2.need = o.need, o2.got = o.got, o2.gone = o.gone, o2.next = o.next
  PROVE  Sound(m, A, o2, fr)
<1>1. Loose(A, o2) = Loose(A, o)
  BY DEF Loose
<1>2. Apart(m, A, o2, fr)
  BY <1>1 DEF Sound, Apart
<1>3. Placed(m, A, o2)
  BY DEF Sound, Placed
<1> QED  BY <1>2, <1>3 DEF Sound

\* The second half of sync keeps the invariant Base.
LEMMA SyncedKeeps == ASSUME Base, Synced PROVE Base'
<1> DEFINE R == Elements(Tail(todo))
           A == {"synced"} \cup R
<1>1. At("synced") /\ mem' = DirtyPast(mem, op.b) /\ free' = free /\ due' = due /\ log' = log
      /\ Go(op, Tail(todo))
  BY DEF Synced
<1>2. /\ Elements(todo) = A /\ R \subseteq Later("synced") /\ Script(Tail(todo)) /\ Calm
      /\ Len(Tail(todo)) # 0 => Tail(todo)[1] # "copied"
  BY <1>1, AtStage
<1>3. R \subseteq {"resync", "dirty", "resynced"}
  BY <1>2, LaterIs
<1>4. /\ Sound(mem, A, op, free) /\ Shape(mem) /\ op \in Op /\ log \in Seq(Quiet) /\ Len(log) <= 2
  BY <1>2, CalmAfter DEF Base
<1>5. A \cap Working # {} /\ "alloc" \notin A
  BY <1>3 DEF Working
<1>6. op.b \in BlocksOf(mem)
  BY <1>4, <1>5 DEF Sound, Placed
<1>7. ButCursors(mem, mem') /\ mem'.head.backupTail = mem.head.backupTail
  BY <1>1, <1>4, <1>6, PastEffect DEF Heads, HeadLinks
<1>8. Sound(mem, R, op, free)
  <2>1. /\ "free" \notin A /\ "grab" \notin A /\ "grab" \notin R /\ "join" \notin A /\ "join" \notin R
        /\ "alloc" \notin R /\ "item" \notin R /\ "recover" \notin R /\ R \cap Setting = {}
    BY <1>3 DEF Setting, Filling
  <2> QED  BY <1>4, <1>5, <2>1, SoundTurn
<1>9. Goes(op, Tail(todo)) /\ log' \in Seq(Quiet) /\ Len(log') <= 2
  BY <1>1, <1>2, <1>4, GoGoes
<1> QED  BY <1>1, <1>2, <1>4, <1>7, <1>8, <1>9, WentCursor

\* The end of setDirtyAfterSync keeps the invariant Base.
LEMMA ResyncedKeeps == ASSUME Base, Resynced PROVE Base'
<1> DEFINE R == Elements(Tail(todo))
           A == {"resynced"} \cup R
           c == mem.head.dirtyTail
           v == IF c = mem.setPrev[op.b] THEN op.b ELSE c
<1>1. At("resynced") /\ mem' = PutHead(mem, "dirtyTail", v) /\ free' = free /\ due' = due /\ log' = log
      /\ Go(op, Tail(todo))
  <2>1. mem' = [mem EXCEPT !.head.dirtyTail = IF @ = mem.setPrev[op.b] THEN op.b ELSE @]
    BY DEF Resynced
  <2>2. "dirtyTail" \in DOMAIN mem.head /\ "head" \in DOMAIN mem
    BY DEF Base, Shape, IsMemory, Fields, Heads, HeadLinks
  <2>3. mem' = PutHead(mem, "dirtyTail", v)
    BY <2>1, <2>2 DEF PutHead
  <2> QED  BY <2>3 DEF Resynced
<1>2. /\ Elements(todo) = A /\ R \subseteq Later("resynced") /\ Script(Tail(todo)) /\ Calm
      /\ Len(Tail(todo)) # 0 => Tail(todo)[1] # "copied"
  BY <1>1, AtStage
<1>3. R = {}
  BY <1>2, LaterIs
<1>4. /\ Sound(mem, A, op, free) /\ Shape(mem) /\ op \in Op /\ log \in Seq(Quiet) /\ Len(log) <= 2
  BY <1>2, CalmAfter DEF Base
<1>5. A \cap Working # {} /\ "alloc" \notin A
  BY <1>3 DEF Working
<1>6. v \in BlocksOf(mem) \cup {0}
  BY <1>4, <1>5 DEF Sound, Placed, Shape, Cursors
<1> HIDE DEF v
<1>7. ButCursors(mem, mem') /\ mem'.head.backupTail = mem.head.backupTail
  BY <1>1, <1>4, <1>6, PutEffect DEF Heads, HeadLinks
<1>8. Sound(mem, R, op, free)
  <2>1. /\ "free" \notin A /\ "grab" \notin A /\ "grab" \notin R /\ "join" \notin A /\ "join" \notin R
        /\ "alloc" \notin R /\ "item" \notin R /\ "recover" \notin R /\ R \cap Setting = {}
    BY <1>3
  <2> QED  BY <1>4, <1>5, <2>1, SoundTurn
<1>9. Goes(op, Tail(todo)) /\ log' \in Seq(Quiet) /\ Len(log') <= 2
  BY <1>1, <1>2, <1>4, GoGoes
<1> QED  BY <1>1, <1>2, <1>4, <1>7, <1>8, <1>9, WentCursor

\* The counters of hits are recorded as statistics, in at most two entries.
LEMMA CountedQuiet ==
  ASSUME NEW hit \in BOOLEAN
  PROVE  Counted(hit) \in Seq(Quiet) /\ Len(Counted(hit)) <= 2
<1>1. <<"head", "getCount", 0>> \in Quiet /\ <<"head", "hitCount", 0>> \in Quiet
  BY DEF Quiet
<1>2. CASE hit
  BY <1>1, <1>2 DEF Counted, When, ToHead
<1>3. CASE ~hit
  BY <1>1, <1>3 DEF Counted, When, ToHead
<1> QED  BY <1>2, <1>3

\* setDirtyAfterSync keeps the invariant Base.
LEMMA ResyncKeeps == ASSUME Base, Resync PROVE Base'
<1> DEFINE R == Elements(Tail(todo))
           A == {"resync"} \cup R
           o == [op EXCEPT !.dirty = TRUE]
<1>1. At("resync") /\ mem' = mem /\ free' = free /\ due' = due /\ log' = Counted(TRUE)
      /\ Go(o, Tail(todo))
  BY DEF Resync
<1>2. /\ Elements(todo) = A /\ R \subseteq Later("resync") /\ Script(Tail(todo)) /\ Calm
      /\ Len(Tail(todo)) # 0 => Tail(todo)[1] # "copied"
  BY <1>1, AtStage
<1>3. R \subseteq {"dirty", "resynced"}
  BY <1>2, LaterIs
<1>4. Sound(mem, A, op, free) /\ Shape(mem) /\ op \in Op
  BY <1>2, CalmAfter DEF Base
<1>5. A \cap Working # {} /\ "alloc" \notin A
  BY <1>3 DEF Working
<1>6. /\ o \in Op /\ o.b = op.b /\ o.key = op.key /\ o.need = op.need /\ o.got = op.got
      /\ o.gone = op.gone /\ o.next = op.next
  BY <1>4 DEF Op
<1> HIDE DEF o
<1>7. Sound(mem, R, o, free)
  <2>1. /\ "free" \notin A /\ "grab" \notin A /\ "grab" \notin R /\ "join" \notin A /\ "join" \notin R
        /\ "alloc" \notin R /\ "item" \notin R /\ "recover" \notin R /\ R \cap Setting = {}
    BY <1>3 DEF Setting, Filling
  <2>2. Sound(mem, R, op, free)
    BY <1>4, <1>5, <2>1, SoundTurn
  <2> QED  BY <1>6, <2>2, SoundOp
<1>8. ButCursors(mem, mem') /\ mem'.head.backupTail = mem.head.backupTail
  BY <1>1, <1>4, CursorsSame
<1>9. log' \in Seq(Quiet) /\ Len(log') <= 2
  BY <1>1, CountedQuiet
<1>10. Goes(o, Tail(todo))
  BY <1>1, <1>2, <1>6, GoGoes
<1> QED  BY <1>1, <1>2, <1>6, <1>7, <1>8, <1>9, <1>10, WentCursor

\* Min of a set of naturals is its smallest member.
LEMMA MinIn == ASSUME NEW S, S \subseteq Nat, S # {} PROVE Min(S) \in S /\ \A n \in S : Min(S) <= n
  BY Smallest DEF Min

\* The chain of a bucket holds exactly the blocks of that bucket.
LEMMA ChainIn ==
  ASSUME Shape(mem), NEW i \in Buckets
  PROVE  /\ Chain(i) \in Seq(Units) /\ DOMAIN Chain(i) = 1..Len(Chain(i)) /\ Len(Chain(i)) \in Nat
         /\ \A j \in DOMAIN Chain(i) :
              Chain(i)[j] \in BlocksOf(mem) /\ mem.index[Chain(i)[j]] = i
         /\ \A u \in BlocksOf(mem) : mem.index[u] = i => \E j \in DOMAIN Chain(i) : Chain(i)[j] = u
<1> DEFINE c == ChainOf(mem, i)
<1>1. Chain(i) = c
  BY Reading
<1>2. Forth(c, mem.blockNext, mem.bucket[i]) /\ Elements(c) = {u \in BlocksOf(mem) : mem.index[u] = i}
  BY DEF Shape, Chains, ChainFits, Listed
<1> HIDE DEF c
<1>3. c \in Seq(Units) /\ DOMAIN c = 1..Len(c) /\ Len(c) \in Nat
  BY <1>2 DEF Forth
<1>4. \A j \in DOMAIN c : c[j] \in Elements(c)
  BY DEF Elements
<1>5. \A x \in Elements(c) : \E j \in DOMAIN c : c[j] = x
  BY DEF Elements
<1> QED  BY <1>1, <1>2, <1>3, <1>4, <1>5

\* recover of one block keeps the invariant Base.
LEMMA RecoverOneKeeps == ASSUME Base, NEW torn, RecoverOne(torn) PROVE Base'
<1> DEFINE R == Elements(Tail(todo))
           A == {"recover"} \cup R
           c == Chain(op.next)
           bad == {j \in DOMAIN c : GetBlockData(c[j], torn) = "err"}
           o == [op EXCEPT !.b = c[Min(bad)]]
           st == <<"erase">> \o todo
<1>1. At("recover") /\ mem' = mem /\ free' = free /\ due' = due /\ log' = log
  BY DEF RecoverOne
<1>2. /\ Elements(todo) = A /\ R \subseteq Later("recover") /\ Script(Tail(todo)) /\ Calm
      /\ Len(Tail(todo)) # 0 => Tail(todo)[1] # "copied"
      /\ Script(todo)
  BY <1>1, AtStage DEF Base
<1>3. R = {}
  BY <1>2, LaterIs
<1>4. Sound(mem, A, op, free) /\ Shape(mem) /\ op \in Op /\ Owned(mem) \cap free = {}
  BY <1>2, CalmAfter DEF Base
<1>5. op.next \in Buckets /\ op.gone = {} /\ op.got = <<>>
  <2>1. op.next \in Buckets /\ op.gone = {} /\ Len(op.got) = 0
    BY <1>3, <1>4 DEF Sound, Placed, Apart
  <2>2. op.got \in Seq(Units)
    BY <1>4 DEF Op
  <2> QED  BY <2>1, <2>2, NoneIn
<1>6. CASE bad = {}
  <2>1. Go(op, Tail(todo))
    BY <1>6 DEF RecoverOne
  <2>2. Sound(mem, R, op, free)
    BY <1>3, <1>4, <1>5, PlainSound
  <2> QED  BY <1>1, <1>2, <1>4, <2>1, <2>2, WentSame
<1>7. CASE bad # {}
  <2>1. Go(o, st)
    BY <1>7 DEF RecoverOne
  <2>2. c[Min(bad)] \in BlocksOf(mem)
    <3>1. /\ DOMAIN c = 1..Len(c) /\ Len(c) \in Nat /\ \A j \in DOMAIN c : c[j] \in BlocksOf(mem)
      BY <1>4, <1>5, ChainIn
    <3>2. bad \subseteq DOMAIN c
      OBVIOUS
    <3> HIDE DEF bad, c
    <3>3. bad \subseteq Nat
      BY <3>1, <3>2
    <3>4. Min(bad) \in bad
      BY <1>7, <3>3, MinIn
    <3> QED  BY <3>1, <3>2, <3>4
  <2>3. o \in Op /\ o.b = c[Min(bad)] /\ o.got = <<>> /\ o.gone = {} /\ o.next = op.next
    <3>1. \A e \in Addr : LET p == [op EXCEPT !.b = e]
                          IN  p \in Op /\ p.b = e /\ p.got = op.got /\ p.gone = op.gone /\ p.next = op.next
      BY <1>4 DEF Op
    <3>2. c[Min(bad)] \in Addr
      BY <1>4, <2>2, BlockUnits DEF Addr, Shape
    <3> HIDE DEF bad, c
    <3> QED  BY <1>5, <3>1, <3>2
  <2>4. Script(st) /\ Elements(st) = {"erase"} \cup A /\ st[1] = "erase"
    <3>1. "erase" \in Stages /\ "erase" # "copied" /\ Elements(todo) \subseteq Later("erase")
      BY <1>2, <1>3, LaterIs DEF Stages
    <3>2. /\ Script(<<"erase">> \o todo) /\ Elements(<<"erase">> \o todo) = {"erase"} \cup Elements(todo)
          /\ (<<"erase">> \o todo)[1] = "erase"
      BY <1>2, <3>1, ScriptMore
    <3> QED  BY <1>2, <3>2
  <2> HIDE DEF o, st, bad, c
  <2>5. Sound(mem, Elements(st), o, free)
    <3>1. /\ Elements(st) = {"erase", "recover"} /\ Elements(st) \cap Setting = {}
      BY <1>3, <2>4 DEF Setting, Filling
    <3>2. o.b \in BlocksOf(mem) /\ o.next \in Buckets
      BY <1>5, <2>2, <2>3
    <3> QED  BY <1>4, <2>3, <3>1, <3>2, PlainSound
  <2> QED  BY <1>1, <1>2, <2>1, <2>3, <2>4, <2>5, WentSame
<1> QED  BY <1>6, <1>7

\* A script without stages is empty.
LEMMA EmptyScript == ASSUME NEW td \in Seq(Stages), Elements(td) = {} PROVE td = <<>>
<1>1. Len(td) \in Nat /\ DOMAIN td = 1..Len(td)
  OBVIOUS
<1>2. Len(td) # 0 => 1 \in DOMAIN td
  BY <1>1
<1>3. Len(td) = 0
  BY <1>2 DEF Elements
<1> QED  BY <1>3, NoneIn

\* The next block of a bucket keeps the invariant Base.
LEMMA NextItemKeeps == ASSUME Base, NextItem PROVE Base'
<1> DEFINE R == Elements(Tail(todo))
           A == {"item"} \cup R
           u == op.next
           n == mem.blockNext[u]
           o == [op EXCEPT !.b = u, !.next = n]
           rest == When(n # 0, <<"item">>) \o Tail(todo)
           st == <<"dirty">> \o (<<"rset">> \o rest)
<1>1. At("item") /\ mem' = mem /\ free' = free /\ due' = due
  BY DEF NextItem
<1>2. /\ Elements(todo) = A /\ R \subseteq Later("item") /\ Script(Tail(todo)) /\ Calm
      /\ Tail(todo) \in Seq(Stages)
  BY <1>1, AtStage DEF Script
<1>3. R = {} /\ Tail(todo) = <<>>
  <2>1. R = {}
    BY <1>2, LaterIs
  <2> QED  BY <1>2, <2>1, EmptyScript
<1>4. Sound(mem, A, op, free) /\ Shape(mem) /\ op \in Op /\ Owned(mem) \cap free = {}
  BY <1>2, CalmAfter DEF Base
<1>5. u \in BlocksOf(mem) /\ u \in Units /\ op.gone = {} /\ op.got = <<>>
  <2>1. u \in BlocksOf(mem) /\ op.gone = {} /\ Len(op.got) = 0
    BY <1>3, <1>4 DEF Sound, Placed, Apart
  <2>2. op.got \in Seq(Units)
    BY <1>4 DEF Op
  <2> QED  BY <1>4, <2>1, <2>2, NoneIn, BlockUnits DEF Shape
<1>6. n \in BlocksOf(mem) \cup {0} /\ n \in Addr
  <2> DEFINE i == mem.index[u]
  <2>1. i \in Buckets
    BY <1>4, <1>5 DEF Shape, IsMemory
  <2> HIDE DEF i
  <2>2. ChainFits(mem, i)
    BY <1>4, <2>1 DEF Shape, Chains
  <2>3. u \in Elements(ChainOf(mem, i)) /\ Elements(ChainOf(mem, i)) \subseteq BlocksOf(mem)
    BY <1>5, <2>2 DEF ChainFits, i
  <2>4. n \in Elements(ChainOf(mem, i)) \cup {0}
    BY <2>2, <2>3, Neighbours DEF ChainFits
  <2> QED  BY <1>4, <2>3, <2>4, BlockUnits DEF Shape, Addr
<1>7. /\ o \in Op /\ o.b = u /\ o.next = n /\ o.got = <<>> /\ o.gone = {}
  <2>1. \A e \in Addr, v \in Addr :
          /\ [op EXCEPT !.b = e, !.next = v] \in Op
          /\ [op EXCEPT !.b = e, !.next = v].b = e /\ [op EXCEPT !.b = e, !.next = v].next = v
          /\ [op EXCEPT !.b = e, !.next = v].got = op.got
          /\ [op EXCEPT !.b = e, !.next = v].gone = op.gone
    BY <1>4 DEF Op
  <2>2. u \in Addr
    BY <1>5 DEF Addr
  <2> HIDE DEF u, n
  <2>3. u \in Addr /\ n \in Addr /\ op.got = <<>> /\ op.gone = {}
    BY <1>5, <1>6, <2>2
  <2> QED  BY <2>1, <2>3, Zenon
<1>8. /\ Script(rest) /\ Elements(rest) = IF n # 0 THEN {"item"} ELSE {}
      /\ Len(rest) # 0 => rest[1] # "copied"
  <2>1. CASE n # 0
    <3>1. rest = <<"item">> \o <<>>
      BY <1>3, <2>1 DEF When
    <3>2. "item" \in Stages /\ "item" # "copied" /\ Elements(<<>>) \subseteq Later("item") /\ Script(<<>>)
      BY NoScript DEF Stages
    <3>3. /\ Script(<<"item">> \o <<>>) /\ Elements(<<"item">> \o <<>>) = {"item"} \cup Elements(<<>>)
          /\ (<<"item">> \o <<>>)[1] = "item"
      BY <3>2, ScriptMore
    <3> HIDE DEF rest, n
    <3> QED  BY <2>1, <3>1, <3>3, NoScript
  <2>2. CASE n = 0
    <3>1. rest = <<>>
      BY <1>3, <2>2 DEF When
    <3> HIDE DEF rest, n
    <3> QED  BY <2>2, <3>1, NoScript
  <2> QED  BY <2>1, <2>2
<1>9. /\ Script(st) /\ Elements(st) = {"dirty", "rset"} \cup Elements(rest) /\ st[1] = "dirty"
      /\ <<"dirty", "rset">> \o rest = st
  <2> DEFINE r == <<"rset">> \o rest
  <2> HIDE DEF rest
  <2>1. "rset" \in Stages /\ "rset" # "copied" /\ Elements(rest) \subseteq Later("rset")
    BY <1>8, LaterIs DEF Stages
  <2>2. Script(r) /\ Elements(r) = {"rset"} \cup Elements(rest)
    BY <1>8, <2>1, ScriptMore
  <2>3. "dirty" \in Stages /\ "dirty" # "copied" /\ Elements(r) \subseteq Later("dirty")
    BY <1>8, <2>2, LaterIs DEF Stages
  <2>4. <<"dirty", "rset">> \o rest = <<"dirty">> \o r
    <3>1. rest \in Seq(Stages)
      BY <1>8 DEF Script
    <3> QED  BY <2>1, <2>3, <3>1, TwoStages
  <2> HIDE DEF r
  <2>5. /\ Script(<<"dirty">> \o r) /\ Elements(<<"dirty">> \o r) = {"dirty"} \cup Elements(r)
        /\ (<<"dirty">> \o r)[1] = "dirty"
    BY <2>2, <2>3, ScriptMore
  <2>6. {"dirty"} \cup Elements(r) = {"dirty", "rset"} \cup Elements(rest)
    BY <2>2
  <2> QED  BY <2>4, <2>5, <2>6 DEF r
<1>10. IF mem.onlyKey[u] THEN Go(o, rest) /\ log' = log ELSE Go(o, <<"dirty", "rset">> \o rest) /\ log' = <<>>
  <2>1. [op EXCEPT !.b = u, !.next = mem.blockNext[u]].next = n
    BY <1>7
  <2> QED  BY <2>1 DEF NextItem
<1> HIDE DEF o, rest, st
<1>11. Sound(mem, Elements(rest), o, free) /\ Sound(mem, Elements(st), o, free)
  <2>1. \A B \in {Elements(rest), Elements(st)} :
          B \cap Setting = {} /\ ("item" \in B => n # 0) /\ "recover" \notin B
    BY <1>8, <1>9 DEF Setting, Filling
  <2>2. o.b \in BlocksOf(mem) /\ (n # 0 => o.next \in BlocksOf(mem))
    BY <1>5, <1>6, <1>7
  <2>3. \A B \in {Elements(rest), Elements(st)} : Sound(mem, B, o, free)
    BY <1>4, <1>7, <2>1, <2>2, PlainSound
  <2> QED  BY <2>3
<1>12. CASE mem.onlyKey[u]
  BY <1>1, <1>2, <1>7, <1>8, <1>10, <1>11, <1>12, WentSame
<1>13. CASE ~mem.onlyKey[u]
  <2>1. Go(o, st) /\ log' = <<>>
    BY <1>9, <1>10, <1>13
  <2> QED  BY <1>1, <1>2, <1>7, <1>9, <1>11, <2>1, WentSame
<1> QED  BY <1>12, <1>13

-----------------------------------------------------------------------------
(* The invariant is kept: the operations. *)

\* What is known between two operations.
LEMMA Begun ==
  ASSUME Base, todo = <<>>
  PROVE  /\ Calm /\ Shape(mem) /\ Owned(mem) \cap free = {} /\ free \subseteq Units
         /\ log \in Seq(Quiet) /\ Len(log) <= 2 /\ Comes(mem, due) /\ due \subseteq BlocksOf(mem)
<1>1. Calm
  BY NoScript DEF Calm
<1> QED  BY <1>1, CalmAfter DEF Base

\* An operation that moves at most cursors begins soundly.
LEMMA BeginSame ==
  ASSUME Base, NEW o \in Op, NEW g \in Seq(Quiet), Len(g) <= 2, NEW st, Begin(o, g, st),
         Script(st), Len(st) # 0 => st[1] # "copied", free' = free, due' = due,
         ButCursors(mem, mem'), mem'.head.backupTail = mem.head.backupTail,
         Sound(mem, Elements(st), o, free)
  PROVE  Base'
<1>1. Goes(o, st) /\ log' = g /\ todo = <<>>
  BY BeginGoes
<1>2. Calm
  BY <1>1, Begun
<1>3. log' \in Seq(Quiet) /\ Len(log') <= 2
  BY <1>1
<1> QED  BY <1>1, <1>2, <1>3, WentCursor

\* An operation that changes no memory begins soundly.
LEMMA BeginQuiet ==
  ASSUME Base, NEW o \in Op, NEW g \in Seq(Quiet), Len(g) <= 2, NEW st, Begin(o, g, st),
         Script(st), Len(st) # 0 => st[1] # "copied", mem' = mem, free' = free, due' = due,
         Sound(mem, Elements(st), o, free)
  PROVE  Base'
<1>1. ButCursors(mem, mem') /\ mem'.head.backupTail = mem.head.backupTail
  BY CursorsSame DEF Base
<1> QED  BY <1>1, BeginSame

\* An operation that only names a block.
LEMMA IdleBlock ==
  ASSUME NEW b \in Addr, NEW o, o = [Idle EXCEPT !.b = b]
  PROVE  o \in Op /\ o.b = b /\ o.got = <<>> /\ o.gone = {}
  BY IdleOp DEF Op, Idle

\* An operation that names a block and a flag.
LEMMA IdleDirty ==
  ASSUME NEW b \in Addr, NEW d \in BOOLEAN, NEW o, o = [Idle EXCEPT !.b = b, !.dirty = d]
  PROVE  o \in Op /\ o.b = b /\ o.got = <<>> /\ o.gone = {}
  BY IdleOp DEF Op, Idle

\* An operation that names a block to go on with.
LEMMA IdleBucket ==
  ASSUME NEW n \in Addr, NEW o, o = [Idle EXCEPT !.dirty = TRUE, !.next = n]
  PROVE  o \in Op /\ o.next = n /\ o.got = <<>> /\ o.gone = {}
  BY IdleOp DEF Op, Idle

\* An operation that names a bucket.
LEMMA IdleChain ==
  ASSUME NEW n \in Buckets, NEW o, o = [Idle EXCEPT !.next = n]
  PROVE  o \in Op /\ o.next = n /\ o.got = <<>> /\ o.gone = {}
  BY IdleOp DEF Op, Idle

\* A set begins soundly when the key is in its block or nowhere.
LEMMA SettingSound ==
  ASSUME NEW m, Shape(m), NEW fr, Owned(m) \cap fr = {}, NEW o, o.got = <<>>, o.gone = {},
         NEW A, A \cap {"grab", "join", "item", "recover"} = {}, o.key \in Keys,
         "alloc" \in A <=> o.b = 0, o.b # 0 => o.b \in BlocksOf(m) /\ m.index[o.b] = HashOf[o.key],
         \A u \in BlocksOf(m) : m.data[u].key = o.key => u = o.b
  PROVE  Sound(m, A, o, fr)
<1>1. Len(o.got) = 0 /\ Elements(o.got) = {} /\ Once(o.got)
  BY NoScript DEF Once
<1>2. Loose(A, o) = {}
  BY <1>1 DEF Loose
<1>3. Apart(m, A, o, fr)
  BY <1>1, <1>2 DEF Apart
<1>4. Placed(m, A, o)
  BY DEF Placed
<1> QED  BY <1>3, <1>4 DEF Sound

\* The scripts of the operations are scripts.
LEMMA Scripts ==
  /\ \A s \in Stages \ {"copied"} : Script(<<s>>) /\ Elements(<<s>>) = {s} /\ <<s>>[1] # "copied"
  /\ Script(<<"dirty", "rset">>) /\ Elements(<<"dirty", "rset">>) = {"dirty", "rset"}
  /\ Script(<<"fit", "dirty", "rset">>) /\ Elements(<<"fit", "dirty", "rset">>) = {"fit", "dirty", "rset"}
  /\ Script(<<"fit", "rset">>) /\ Elements(<<"fit", "rset">>) = {"fit", "rset"}
  /\ Script(<<"resync", "dirty", "resynced">>)
  /\ Elements(<<"resync", "dirty", "resynced">>) = {"resync", "dirty", "resynced"}
<1>1. \A s \in Stages \ {"copied"} : Script(<<s>>) /\ Elements(<<s>>) = {s} /\ <<s>>[1] # "copied"
  BY OneStage
<1>2. Script(<<"dirty", "rset">>) /\ Elements(<<"dirty", "rset">>) = {"dirty", "rset"}
  BY LaterIs DEF Script, Elements, Stages
<1>3. Script(<<"fit", "dirty", "rset">>) /\ Elements(<<"fit", "dirty", "rset">>) = {"fit", "dirty", "rset"}
  BY LaterIs DEF Script, Elements, Stages
<1>4. Script(<<"fit", "rset">>) /\ Elements(<<"fit", "rset">>) = {"fit", "rset"}
  BY LaterIs DEF Script, Elements, Stages
<1>5. /\ Script(<<"resync", "dirty", "resynced">>)
      /\ Elements(<<"resync", "dirty", "resynced">>) = {"resync", "dirty", "resynced"}
  BY LaterIs DEF Script, Elements, Stages
<1> QED  BY <1>1, <1>2, <1>3, <1>4, <1>5

\* A conditional script is a script.
LEMMA WhenScript ==
  ASSUME NEW c \in BOOLEAN, NEW st, Script(st), Len(st) # 0 => st[1] # "copied"
  PROVE  /\ Script(When(c, st)) /\ (Len(When(c, st)) # 0 => When(c, st)[1] # "copied")
         /\ Elements(When(c, st)) = IF c THEN Elements(st) ELSE {}
<1>1. CASE c
  BY <1>1 DEF When
<1>2. CASE ~c
  BY <1>2, NoScript DEF When
<1> QED  BY <1>1, <1>2

\* find returns a block of the right bucket, and no other block has the key.
LEMMA Found ==
  ASSUME Shape(mem), NEW k \in Keys
  PROVE  /\ FindKey(k).at \in BlocksOf(mem) \cup {0} /\ FindKey(k).ok \in BOOLEAN
         /\ FindKey(k).at # 0 => mem.index[FindKey(k).at] = HashOf[k]
         /\ \A u \in BlocksOf(mem) : mem.data[u].key = k => u = FindKey(k).at
         /\ \A torn : FindValue(k, torn) \in BlocksOf(mem) \cup {0}
<1> DEFINE c == Chain(HashOf[k])
           hits == {i \in DOMAIN c : mem.data[c[i]].key = k}
<1>1. HashOf[k] \in Buckets /\ k # None
  BY HashMapAssumption
<1>2. /\ DOMAIN c = 1..Len(c) /\ Len(c) \in Nat
      /\ \A j \in DOMAIN c : c[j] \in BlocksOf(mem) /\ mem.index[c[j]] = HashOf[k]
      /\ \A u \in BlocksOf(mem) : mem.index[u] = HashOf[k] => \E j \in DOMAIN c : c[j] = u
  BY <1>1, ChainIn
<1>3. /\ FindKey(k).at = IF hits = {} THEN 0 ELSE c[Min(hits)]
      /\ FindKey(k).ok \in BOOLEAN
  BY DEF FindKey
<1>4. ASSUME NEW H, H \subseteq DOMAIN c, H # {} PROVE c[Min(H)] \in BlocksOf(mem) /\ Min(H) \in H
  <2>1. H \subseteq Nat
    BY <1>2, <1>4
  <2>2. Min(H) \in H
    BY <1>4, <2>1, MinIn
  <2> QED  BY <1>2, <1>4, <2>2
<1>5. ASSUME NEW torn PROVE FindValue(k, torn) \in BlocksOf(mem) \cup {0}
  <2> DEFINE H == {i \in DOMAIN c : mem.data[c[i]].key = k /\ GetBlockData(c[i], torn) # "err"}
  <2>1. FindValue(k, torn) = IF H = {} THEN 0 ELSE c[Min(H)]
    BY DEF FindValue
  <2>2. H \subseteq DOMAIN c
    OBVIOUS
  <2> HIDE DEF H, c
  <2> QED  BY <1>4, <2>1, <2>2
<1>6. hits \subseteq DOMAIN c /\ \A i \in hits : mem.data[c[i]].key = k
  OBVIOUS
<1>7. \A i \in DOMAIN c : mem.data[c[i]].key = k => i \in hits
  OBVIOUS
<1> HIDE DEF hits, c
<1>8. FindKey(k).at \in BlocksOf(mem) \cup {0}
  BY <1>3, <1>4, <1>6
<1>9. 0 \notin BlocksOf(mem)
  BY BlockUnits DEF Shape
<1>10. FindKey(k).at # 0 => mem.index[FindKey(k).at] = HashOf[k] /\ mem.data[FindKey(k).at].key = k
  BY <1>2, <1>3, <1>4, <1>6
<1>11. ASSUME NEW u \in BlocksOf(mem), mem.data[u].key = k PROVE u = FindKey(k).at
  <2>1. mem.index[u] = HashOf[k]
    BY <1>1, <1>11 DEF Shape, Keyed
  <2>2. hits # {}
    BY <1>2, <1>7, <1>11, <2>1
  <2>3. FindKey(k).at = c[Min(hits)] /\ c[Min(hits)] \in BlocksOf(mem) /\ Min(hits) \in hits
    BY <1>3, <1>4, <1>6, <2>2
  <2>4. mem.data[FindKey(k).at].key = k
    BY <1>6, <2>3
  <2> QED  BY <1>1, <1>11, <2>3, <2>4 DEF Shape, Keyed
<1> QED  BY <1>3, <1>5, <1>8, <1>10, <1>11

\* get keeps the invariant Base.
LEMMA GetKeeps == ASSUME Base, NEW k \in Keys, NEW torn, Get(k, torn) PROVE Base'
<1> DEFINE u == FindValue(k, torn)
           o == [Idle EXCEPT !.b = u]
           c == u # 0 /\ ~mem.onlyKey[u]
           hit == u # 0
           st == When(c, <<"rget">>)
<1>1. Begin(o, Counted(hit), st) /\ mem' = mem /\ free' = free /\ due' = due
  BY DEF Get
<1>2. todo = <<>>
  BY <1>1 DEF Begin
<1>3. Shape(mem) /\ Owned(mem) \cap free = {}
  BY <1>2, Begun
<1>4. u \in BlocksOf(mem) \cup {0} /\ u \in Addr
  BY <1>3, Found, BlockUnits DEF Shape, Addr
<1>5. c \in BOOLEAN /\ hit \in BOOLEAN /\ (c => u \in BlocksOf(mem))
  BY <1>4
<1> HIDE DEF u
<1>6. o \in Op /\ o.b = u /\ o.got = <<>> /\ o.gone = {}
  BY <1>4, IdleBlock
<1> HIDE DEF o, c, hit
<1>7. Counted(hit) \in Seq(Quiet) /\ Len(Counted(hit)) <= 2
  BY <1>5, CountedQuiet
<1>8. Script(st) /\ (Len(st) # 0 => st[1] # "copied") /\ Elements(st) = IF c THEN {"rget"} ELSE {}
  <2>1. Script(<<"rget">>) /\ Elements(<<"rget">>) = {"rget"} /\ <<"rget">>[1] # "copied"
    BY Scripts DEF Stages
  <2> QED  BY <1>5, <2>1, WhenScript
<1> HIDE DEF st
<1>9. Sound(mem, Elements(st), o, free)
  <2>1. Elements(st) \cap Setting = {} /\ (Elements(st) # {} => c) /\ Elements(st) \subseteq {"rget"}
    BY <1>8 DEF Setting, Filling
  <2>2. /\ Elements(st) \cap Working # {} => o.b \in BlocksOf(mem)
        /\ "item" \notin Elements(st) /\ "recover" \notin Elements(st)
    BY <1>5, <1>6, <2>1
  <2> QED  BY <1>3, <1>6, <2>1, <2>2, PlainSound
<1> QED  BY <1>1, <1>6, <1>7, <1>8, <1>9, BeginQuiet

\* del keeps the invariant Base.
LEMMA DelKeeps == ASSUME Base, NEW k \in Keys, NEW torn, Del(k, torn) PROVE Base'
<1> DEFINE u == FindValue(k, torn)
           o == [Idle EXCEPT !.b = u]
           c == u # 0
           st == When(c, <<"erase">>)
<1>1. Begin(o, Counted(c), st) /\ mem' = mem /\ free' = free /\ due' = due
  BY DEF Del
<1>2. todo = <<>>
  BY <1>1 DEF Begin
<1>3. Shape(mem) /\ Owned(mem) \cap free = {}
  BY <1>2, Begun
<1>4. u \in BlocksOf(mem) \cup {0} /\ u \in Addr
  BY <1>3, Found, BlockUnits DEF Shape, Addr
<1>5. c \in BOOLEAN /\ (c => u \in BlocksOf(mem))
  BY <1>4
<1> HIDE DEF u
<1>6. o \in Op /\ o.b = u /\ o.got = <<>> /\ o.gone = {}
  BY <1>4, IdleBlock
<1> HIDE DEF o, c
<1>7. Counted(c) \in Seq(Quiet) /\ Len(Counted(c)) <= 2
  BY <1>5, CountedQuiet
<1>8. Script(st) /\ (Len(st) # 0 => st[1] # "copied") /\ Elements(st) = IF c THEN {"erase"} ELSE {}
  <2>1. Script(<<"erase">>) /\ Elements(<<"erase">>) = {"erase"} /\ <<"erase">>[1] # "copied"
    BY Scripts DEF Stages
  <2> QED  BY <1>5, <2>1, WhenScript
<1> HIDE DEF st
<1>9. Sound(mem, Elements(st), o, free)
  <2>1. Elements(st) \cap Setting = {} /\ (Elements(st) # {} => c) /\ Elements(st) \subseteq {"erase"}
    BY <1>8 DEF Setting, Filling
  <2>2. /\ Elements(st) \cap Working # {} => o.b \in BlocksOf(mem)
        /\ "item" \notin Elements(st) /\ "recover" \notin Elements(st)
    BY <1>5, <1>6, <2>1
  <2> QED  BY <1>3, <1>6, <2>1, <2>2, PlainSound
<1> QED  BY <1>1, <1>6, <1>7, <1>8, <1>9, BeginQuiet

\* The scripts of set are scripts.
LEMMA FillScript ==
  ASSUME NEW c \in BOOLEAN, NEW w \in BOOLEAN, NEW st,
         st = <<"fit", "dirty", "rset">> \/ st = <<"fit", "rset">>,
         NEW r, r = When(c, When(w, <<"alloc">>) \o st)
  PROVE  /\ Script(r) /\ (Len(r) # 0 => r[1] # "copied")
         /\ Elements(r) \subseteq {"alloc", "fit", "dirty", "rset"}
         /\ Elements(r) # {} => c /\ ("alloc" \in Elements(r) <=> w)
         /\ Elements(r) # {} => "fit" \in Elements(r) /\ "rset" \in Elements(r)
         /\ "dirty" \in Elements(r) => st # <<"fit", "rset">>
<1> DEFINE q == When(w, <<"alloc">>) \o st
<1>1. /\ Script(st) /\ Elements(st) \subseteq {"fit", "dirty", "rset"} /\ st[1] = "fit"
      /\ st \in Seq(Stages) /\ "fit" \in Elements(st) /\ "rset" \in Elements(st)
      /\ "dirty" \in Elements(st) => st # <<"fit", "rset">>
  <2>1. CASE st = <<"fit", "dirty", "rset">>
    BY <2>1, Scripts DEF Script
  <2>2. CASE st = <<"fit", "rset">>
    BY <2>2, Scripts DEF Script
  <2> QED  BY <2>1, <2>2
<1>2. /\ Script(q) /\ (Len(q) # 0 => q[1] # "copied")
      /\ Elements(q) \subseteq {"alloc", "fit", "dirty", "rset"} /\ ("alloc" \in Elements(q) <=> w)
      /\ "fit" \in Elements(q) /\ "rset" \in Elements(q)
      /\ "dirty" \in Elements(q) => st # <<"fit", "rset">>
  <2>1. CASE w
    <3>1. q = <<"alloc">> \o st
      BY <2>1 DEF When
    <3>2. "alloc" \in Stages /\ "alloc" # "copied" /\ Elements(st) \subseteq Later("alloc")
      BY <1>1, LaterIs DEF Stages
    <3>3. /\ Script(<<"alloc">> \o st) /\ Elements(<<"alloc">> \o st) = {"alloc"} \cup Elements(st)
          /\ (<<"alloc">> \o st)[1] = "alloc"
      BY <1>1, <3>2, ScriptMore
    <3> HIDE DEF q
    <3> QED  BY <1>1, <2>1, <3>1, <3>3
  <2>2. CASE ~w
    <3>1. q = st
      BY <1>1, <2>2 DEF When
    <3> HIDE DEF q
    <3> QED  BY <1>1, <2>2, <3>1
  <2> QED  BY <2>1, <2>2
<1> HIDE DEF q
<1>3. /\ Script(When(c, q)) /\ (Len(When(c, q)) # 0 => When(c, q)[1] # "copied")
      /\ Elements(When(c, q)) = IF c THEN Elements(q) ELSE {}
  BY <1>2, WhenScript
<1>4. r = When(c, q)
  BY DEF q
<1> QED  BY <1>2, <1>3, <1>4

\* set keeps the invariant Base.
LEMMA SetKeeps ==
  ASSUME Base, NEW k \in Keys, NEW need \in 0..MaxExtra, NEW dirty \in BOOLEAN, Set(k, need, dirty)
  PROVE  Base'
<1> DEFINE f == FindKey(k)
           w == f.at = 0
           hit == f.at # 0
           o == [Idle EXCEPT !.b = f.at, !.key = k, !.need = need, !.dirty = dirty, !.new = w]
           st == When(f.ok, When(w, <<"alloc">>) \o <<"fit", "dirty", "rset">>)
<1>1. Begin(o, Counted(hit), st) /\ mem' = mem /\ free' = free /\ due' = due
  BY DEF Set
<1>2. todo = <<>>
  BY <1>1 DEF Begin
<1>3. Shape(mem) /\ Owned(mem) \cap free = {}
  BY <1>2, Begun
<1>4. /\ f.at \in BlocksOf(mem) \cup {0} /\ f.ok \in BOOLEAN /\ (f.at # 0 => mem.index[f.at] = HashOf[k])
      /\ \A u \in BlocksOf(mem) : mem.data[u].key = k => u = f.at
  BY <1>3, Found
<1>5. f.at \in Addr /\ w \in BOOLEAN /\ hit \in BOOLEAN
  BY <1>3, <1>4, BlockUnits DEF Shape, Addr
<1>w. w <=> f.at = 0
  OBVIOUS
<1> HIDE DEF f, w
<1>6. o \in Op /\ o.b = f.at /\ o.key = k /\ o.got = <<>> /\ o.gone = {}
  <2> DEFINE a == f.at
  <2>1. o = [Idle EXCEPT !.b = a, !.key = k, !.need = need, !.dirty = dirty, !.new = w] /\ a \in Addr
    BY <1>5
  <2> HIDE DEF a, o
  <2>2. o \in Op /\ o.b = a /\ o.key = k /\ o.got = <<>> /\ o.gone = {}
    BY <1>5, <2>1, IdleOp DEF Op, Idle
  <2> QED  BY <2>2 DEF a
<1>7. Counted(hit) \in Seq(Quiet) /\ Len(Counted(hit)) <= 2
  BY <1>5, CountedQuiet
<1>8. /\ Script(st) /\ (Len(st) # 0 => st[1] # "copied")
      /\ Elements(st) \subseteq {"alloc", "fit", "dirty", "rset"}
      /\ Elements(st) # {} => ("alloc" \in Elements(st) <=> w)
  BY <1>4, <1>5, FillScript
<1>9. Sound(mem, Elements(st), o, free)
  <2> HIDE DEF o, st
  <2>1. CASE Elements(st) = {}
    <3>1. Elements(st) \cap Setting = {} /\ Elements(st) \cap Working = {}
      BY <2>1
    <3> QED  BY <1>3, <1>6, <2>1, <3>1, PlainSound
  <2>2. CASE Elements(st) # {}
    <3>1. Elements(st) \cap {"grab", "join", "item", "recover"} = {}
      BY <1>8
    <3>2. /\ o.key \in Keys /\ ("alloc" \in Elements(st) <=> o.b = 0)
          /\ (o.b # 0 => o.b \in BlocksOf(mem) /\ mem.index[o.b] = HashOf[o.key])
          /\ \A u \in BlocksOf(mem) : mem.data[u].key = o.key => u = o.b
      BY <1>4, <1>6, <1>8, <1>w, <2>2
    <3> QED  BY <1>3, <1>6, <3>1, <3>2, SettingSound
  <2> QED  BY <2>1, <2>2
<1> HIDE DEF o, st
<1> QED  BY <1>1, <1>6, <1>7, <1>8, <1>9, BeginQuiet

\* set of a key only keeps the invariant Base.
LEMMA SetKeyKeeps == ASSUME Base, NEW k \in Keys, SetKey(k) PROVE Base'
<1> DEFINE f == FindKey(k)
           w == f.at = 0
           hit == f.at # 0
           o == [Idle EXCEPT !.b = f.at, !.key = k, !.only = TRUE, !.new = w]
           st == When(f.ok, When(w, <<"alloc">>) \o <<"fit", "rset">>)
<1>1. Begin(o, Counted(hit), st) /\ mem' = mem /\ free' = free /\ due' = due
  BY DEF SetKey
<1>2. todo = <<>>
  BY <1>1 DEF Begin
<1>3. Shape(mem) /\ Owned(mem) \cap free = {}
  BY <1>2, Begun
<1>4. /\ f.at \in BlocksOf(mem) \cup {0} /\ f.ok \in BOOLEAN /\ (f.at # 0 => mem.index[f.at] = HashOf[k])
      /\ \A u \in BlocksOf(mem) : mem.data[u].key = k => u = f.at
  BY <1>3, Found
<1>5. f.at \in Addr /\ w \in BOOLEAN /\ hit \in BOOLEAN
  BY <1>3, <1>4, BlockUnits DEF Shape, Addr
<1>w. w <=> f.at = 0
  OBVIOUS
<1> HIDE DEF f, w
<1>6. o \in Op /\ o.b = f.at /\ o.key = k /\ o.got = <<>> /\ o.gone = {}
  <2> DEFINE a == f.at
  <2>1. o = [Idle EXCEPT !.b = a, !.key = k, !.only = TRUE, !.new = w] /\ a \in Addr
    BY <1>5
  <2> HIDE DEF a, o
  <2>2. o \in Op /\ o.b = a /\ o.key = k /\ o.got = <<>> /\ o.gone = {}
    BY <1>5, <2>1, IdleOp DEF Op, Idle
  <2> QED  BY <2>2 DEF a
<1>7. Counted(hit) \in Seq(Quiet) /\ Len(Counted(hit)) <= 2
  BY <1>5, CountedQuiet
<1>8. /\ Script(st) /\ (Len(st) # 0 => st[1] # "copied")
      /\ Elements(st) \subseteq {"alloc", "fit", "dirty", "rset"}
      /\ Elements(st) # {} => ("alloc" \in Elements(st) <=> w)
  BY <1>4, <1>5, FillScript
<1>9. Sound(mem, Elements(st), o, free)
  <2> HIDE DEF o, st
  <2>1. CASE Elements(st) = {}
    <3>1. Elements(st) \cap Setting = {} /\ Elements(st) \cap Working = {}
      BY <2>1
    <3> QED  BY <1>3, <1>6, <2>1, <3>1, PlainSound
  <2>2. CASE Elements(st) # {}
    <3>1. Elements(st) \cap {"grab", "join", "item", "recover"} = {}
      BY <1>8
    <3>2. /\ o.key \in Keys /\ ("alloc" \in Elements(st) <=> o.b = 0)
          /\ (o.b # 0 => o.b \in BlocksOf(mem) /\ mem.index[o.b] = HashOf[o.key])
          /\ \A u \in BlocksOf(mem) : mem.data[u].key = o.key => u = o.b
      BY <1>4, <1>6, <1>8, <1>w, <2>2
    <3> QED  BY <1>3, <1>6, <3>1, <3>2, SettingSound
  <2> QED  BY <2>1, <2>2
<1> HIDE DEF o, st
<1> QED  BY <1>1, <1>6, <1>7, <1>8, <1>9, BeginQuiet

\* setDirty and setClean keeps the invariant Base.
LEMMA SetDirtyKeeps == ASSUME Base, NEW k \in Keys, NEW dirty \in BOOLEAN, SetDirty(k, dirty) PROVE Base'
<1> DEFINE f == FindKey(k)
           a == f.at
           o == [Idle EXCEPT !.b = a, !.dirty = dirty]
           hit == a # 0
           c == a # 0 /\ ~mem.onlyKey[a]
           clean == ~dirty
           q == <<"dirty", "rset">> \o When(clean, <<"commit">>)
           st == When(c, q)
<1>1. Begin(o, Counted(hit), st) /\ mem' = mem /\ free' = free /\ due' = due
  BY DEF SetDirty
<1>2. todo = <<>>
  BY <1>1 DEF Begin
<1>3. Shape(mem) /\ Owned(mem) \cap free = {}
  BY <1>2, Begun
<1>4. a \in BlocksOf(mem) \cup {0}
  BY <1>3, Found
<1>5. a \in Addr /\ hit \in BOOLEAN /\ c \in BOOLEAN /\ (c => a \in BlocksOf(mem)) /\ clean \in BOOLEAN
  BY <1>3, <1>4, BlockUnits DEF Shape, Addr
<1> HIDE DEF a, c, hit
<1>6. o \in Op /\ o.b = a /\ o.got = <<>> /\ o.gone = {}
  BY <1>5, IdleDirty
<1>7. Counted(hit) \in Seq(Quiet) /\ Len(Counted(hit)) <= 2
  BY <1>5, CountedQuiet
<1>8. Script(q) /\ (Len(q) # 0 => q[1] # "copied") /\ Elements(q) \subseteq {"dirty", "rset", "commit"}
  <2>1. CASE dirty
    <3>1. q = <<"dirty", "rset">> /\ q[1] = "dirty"
      BY <2>1 DEF When
    <3> HIDE DEF q
    <3> QED  BY <3>1, Scripts
  <2>2. CASE ~dirty
    <3> DEFINE r == <<"rset">> \o <<"commit">>
    <3>1. /\ Script(<<"commit">>) /\ Elements(<<"commit">>) = {"commit"} /\ <<"commit">> \in Seq(Stages)
          /\ Elements(<<"commit">>) \subseteq Later("rset")
      <4>1. "commit" \in Stages \ {"copied"} /\ "commit" \in Later("rset")
        BY LaterIs DEF Stages
      <4>2. <<"commit">> \in Seq(Stages)
        BY <4>1
      <4> QED  BY <4>1, <4>2, Scripts
    <3>2. "rset" \in Stages /\ "rset" # "copied" /\ "dirty" \in Stages /\ "dirty" # "copied"
      BY DEF Stages
    <3>3. Script(r) /\ Elements(r) = {"rset"} \cup {"commit"}
      BY <3>1, <3>2, ScriptMore
    <3>4. Elements(r) \subseteq Later("dirty")
      BY <3>3, LaterIs
    <3>5. q = <<"dirty", "rset">> \o <<"commit">>
      BY <2>2 DEF When
    <3>6. <<"dirty", "rset">> \o <<"commit">> = <<"dirty">> \o r
      BY <3>1, <3>2, TwoStages
    <3> HIDE DEF r, q
    <3>7. /\ Script(<<"dirty">> \o r) /\ Elements(<<"dirty">> \o r) = {"dirty"} \cup Elements(r)
          /\ (<<"dirty">> \o r)[1] = "dirty"
      BY <3>2, <3>3, <3>4, ScriptMore
    <3> QED  BY <3>3, <3>5, <3>6, <3>7
  <2> QED  BY <2>1, <2>2
<1> HIDE DEF q
<1>9. Script(st) /\ (Len(st) # 0 => st[1] # "copied") /\ Elements(st) = IF c THEN Elements(q) ELSE {}
  BY <1>5, <1>8, WhenScript
<1> HIDE DEF o, st
<1>10. Sound(mem, Elements(st), o, free)
  <2>1. /\ Elements(st) \cap Setting = {} /\ (Elements(st) # {} => c)
        /\ Elements(st) \subseteq {"dirty", "rset", "commit"}
    BY <1>8, <1>9 DEF Setting, Filling
  <2>2. /\ Elements(st) \cap Working # {} => o.b \in BlocksOf(mem)
        /\ "item" \notin Elements(st) /\ "recover" \notin Elements(st)
    BY <1>5, <1>6, <2>1
  <2> QED  BY <1>3, <1>6, <2>1, <2>2, PlainSound
<1> QED  BY <1>1, <1>6, <1>7, <1>9, <1>10, BeginQuiet

\* HashMapItem::setDirty keeps the invariant Base.
LEMMA SetBucketDirtyKeeps == ASSUME Base, NEW i \in Buckets, SetBucketDirty(i) PROVE Base'
<1> DEFINE a == mem.bucket[i]
           o == [Idle EXCEPT !.dirty = TRUE, !.next = a]
           c == a # 0
           st == When(c, <<"item">>)
<1>1. Begin(o, log, st) /\ mem' = mem /\ free' = free /\ due' = due
  BY DEF SetBucketDirty
<1>2. todo = <<>>
  BY <1>1 DEF Begin
<1>3. Shape(mem) /\ Owned(mem) \cap free = {} /\ log \in Seq(Quiet) /\ Len(log) <= 2
  BY <1>2, Begun
<1>4. a \in BlocksOf(mem) \cup {0}
  <2>1. /\ Forth(ChainOf(mem, i), mem.blockNext, a)
        /\ Elements(ChainOf(mem, i)) = {u \in BlocksOf(mem) : mem.index[u] = i}
    BY <1>3 DEF Shape, Chains, ChainFits, Listed
  <2>2. a # 0 => a \in Elements(ChainOf(mem, i))
    BY <2>1, ForthElements
  <2> QED  BY <2>1, <2>2
<1>5. a \in Addr /\ c \in BOOLEAN /\ (c => a \in BlocksOf(mem))
  BY <1>3, <1>4, BlockUnits DEF Shape, Addr
<1> HIDE DEF a, c
<1>6. o \in Op /\ o.next = a /\ o.got = <<>> /\ o.gone = {}
  BY <1>5, IdleBucket
<1>7. Script(st) /\ (Len(st) # 0 => st[1] # "copied") /\ Elements(st) = IF c THEN {"item"} ELSE {}
  <2>1. Script(<<"item">>) /\ Elements(<<"item">>) = {"item"} /\ <<"item">>[1] # "copied"
    BY Scripts DEF Stages
  <2> QED  BY <1>5, <2>1, WhenScript
<1> HIDE DEF o, st
<1>8. Sound(mem, Elements(st), o, free)
  <2>1. /\ Elements(st) \cap Setting = {} /\ Elements(st) \cap Working = {}
        /\ ("item" \in Elements(st) => o.next \in BlocksOf(mem)) /\ "recover" \notin Elements(st)
    BY <1>5, <1>6, <1>7 DEF Setting, Filling, Working
  <2> QED  BY <1>3, <1>6, <2>1, PlainSound
<1> QED  BY <1>1, <1>3, <1>6, <1>7, <1>8, BeginQuiet

\* recover of a bucket keeps the invariant Base.
LEMMA RecoverKeeps == ASSUME Base, NEW i \in Buckets, Recover(i) PROVE Base'
<1> DEFINE o == [Idle EXCEPT !.next = i]
<1>1. Begin(o, <<>>, <<"recover">>) /\ mem' = mem /\ free' = free /\ due' = due
  BY DEF Recover
<1>2. todo = <<>>
  BY <1>1 DEF Begin
<1>3. Shape(mem) /\ Owned(mem) \cap free = {} /\ <<>> \in Seq(Quiet) /\ Len(<<>>) <= 2
  BY <1>2, Begun
<1>4. o \in Op /\ o.next = i /\ o.got = <<>> /\ o.gone = {}
  BY IdleChain
<1>5. Script(<<"recover">>) /\ Elements(<<"recover">>) = {"recover"} /\ <<"recover">>[1] # "copied"
  BY Scripts DEF Stages
<1> HIDE DEF o
<1>6. Sound(mem, {"recover"}, o, free)
  <2>1. {"recover"} \cap Setting = {} /\ {"recover"} \cap Working = {}
    BY DEF Setting, Filling, Working
  <2> QED  BY <1>3, <1>4, <2>1, PlainSound
<1>7. Sound(mem, Elements(<<"recover">>), o, free)
  BY <1>5, <1>6
<1> QED  BY <1>1, <1>3, <1>4, <1>5, <1>7, BeginQuiet

\* sync() keeps the invariant Base.
LEMMA SyncStartKeeps == ASSUME Base, SyncStart PROVE Base'
<1>1. Begin(Idle, <<>>, <<>>) /\ free' = free /\ due' = due
  BY DEF SyncStart
<1>2. todo = <<>>
  BY <1>1 DEF Begin
<1>3. Shape(mem) /\ Owned(mem) \cap free = {} /\ <<>> \in Seq(Quiet) /\ Len(<<>>) <= 2
  BY <1>2, Begun
<1>4. mem' = PutHead(mem, "syncTail", mem.head.dirtyTail)
  BY DEF SyncStart, PutHead
<1>5. mem.head.dirtyTail \in BlocksOf(mem) \cup {0}
  BY <1>3 DEF Shape, Cursors
<1>6. ButCursors(mem, mem') /\ mem'.head.backupTail = mem.head.backupTail
  BY <1>3, <1>4, <1>5, PutEffect DEF Heads, HeadLinks
<1>7. Sound(mem, Elements(<<>>), Idle, free)
  BY <1>3, IdleSound, NoScript
<1> QED  BY <1>1, <1>3, <1>6, <1>7, IdleOp, NoScript, BeginSame

\* sync of one block keeps the invariant Base.
LEMMA SyncOneKeeps ==
  ASSUME Base, NEW old \in BOOLEAN, NEW refused \in BOOLEAN, NEW torn, SyncOne(old, refused, torn)
  PROVE  Base'
<1> DEFINE u == mem.head.syncTail
           skip == ~mem.dirty[u] \/ GetBlockData(u, torn) # "ok"
           moved == PutHead(mem, "syncTail", mem.setPrev[u])
           o == [Idle EXCEPT !.b = u]
           c == ~skip /\ old
           again == When(refused, <<"resync", "dirty", "resynced">>)
           q == <<"dirty", "synced">> \o again
           st == When(c, q)
<1>1. Begin(o, <<>>, st) /\ free' = free /\ due' = due /\ u # 0
  BY DEF SyncOne
<1>2. todo = <<>>
  BY <1>1 DEF Begin
<1>3. Shape(mem) /\ Owned(mem) \cap free = {} /\ <<>> \in Seq(Quiet) /\ Len(<<>>) <= 2
  BY <1>2, Begun
<1>4. mem' = IF skip THEN DirtyPast(moved, u) ELSE moved
  BY DEF SyncOne, PutHead
<1>5. u \in BlocksOf(mem) /\ u \in Addr /\ c \in BOOLEAN
  BY <1>1, <1>3, BlockUnits DEF Shape, Cursors, Addr
<1>6. mem.setPrev[u] \in BlocksOf(mem) \cup {0}
  BY <1>3, <1>5, Ends
<1>7. ButCursors(mem, moved) /\ moved.head.backupTail = mem.head.backupTail
  BY <1>3, <1>6, PutEffect DEF Heads, HeadLinks
<1> HIDE DEF u, skip, moved, c
<1>8. ButCursors(mem, mem') /\ mem'.head.backupTail = mem.head.backupTail
  <2>1. Shape(moved) /\ BlocksOf(moved) = BlocksOf(mem)
    BY <1>3, <1>7, CursorsStay
  <2>2. ButCursors(moved, DirtyPast(moved, u)) /\ DirtyPast(moved, u).head.backupTail = moved.head.backupTail
    BY <1>5, <2>1, PastEffect DEF Heads, HeadLinks
  <2>3. ButCursors(mem, DirtyPast(moved, u))
    BY <1>3, <1>7, <2>2, CursorsTwice
  <2> QED  BY <1>4, <1>7, <2>2, <2>3
<1>9. o \in Op /\ o.b = u /\ o.got = <<>> /\ o.gone = {}
  BY <1>5, IdleBlock
<1>10. /\ Script(q) /\ (Len(q) # 0 => q[1] # "copied")
       /\ Elements(q) \subseteq {"dirty", "synced", "resync", "resynced"}
  <2>1. Script(again) /\ Elements(again) \subseteq {"resync", "dirty", "resynced"} /\ again \in Seq(Stages)
    <3>1. /\ Script(<<"resync", "dirty", "resynced">>)
          /\ Elements(<<"resync", "dirty", "resynced">>) = {"resync", "dirty", "resynced"}
      BY Scripts
    <3>2. CASE refused
      BY <3>1, <3>2 DEF When, Script
    <3>3. CASE ~refused
      BY <3>3, NoScript DEF When, Script
    <3> QED  BY <3>2, <3>3
  <2> HIDE DEF again
  <2> DEFINE r == <<"synced">> \o again
  <2>2. "synced" \in Stages /\ "synced" # "copied" /\ Elements(again) \subseteq Later("synced")
    BY <2>1, LaterIs DEF Stages
  <2>3. Script(r) /\ Elements(r) = {"synced"} \cup Elements(again)
    BY <2>1, <2>2, ScriptMore
  <2>4. "dirty" \in Stages /\ "dirty" # "copied" /\ Elements(r) \subseteq Later("dirty")
    BY <2>1, <2>3, LaterIs DEF Stages
  <2>5. q = <<"dirty">> \o r
    BY <2>1, <2>2, <2>4, TwoStages
  <2> HIDE DEF r
  <2>6. /\ Script(<<"dirty">> \o r) /\ Elements(<<"dirty">> \o r) = {"dirty"} \cup Elements(r)
        /\ (<<"dirty">> \o r)[1] = "dirty"
    BY <2>3, <2>4, ScriptMore
  <2> HIDE DEF q
  <2> QED  BY <2>1, <2>3, <2>5, <2>6
<1> HIDE DEF q
<1>11. Script(st) /\ (Len(st) # 0 => st[1] # "copied") /\ Elements(st) = IF c THEN Elements(q) ELSE {}
  BY <1>5, <1>10, WhenScript
<1> HIDE DEF o, st
<1>12. Sound(mem, Elements(st), o, free)
  <2>1. /\ Elements(st) \cap Setting = {} /\ "item" \notin Elements(st) /\ "recover" \notin Elements(st)
    BY <1>10, <1>11 DEF Setting, Filling
  <2>2. o.b \in BlocksOf(mem)
    BY <1>5, <1>9
  <2> QED  BY <1>3, <1>9, <2>1, <2>2, PlainSound
<1> QED  BY <1>1, <1>3, <1>8, <1>9, <1>11, <1>12, BeginSame

\* All blocks are up to the tail of the get list.
LEMMA TailOfGet ==
  ASSUME NEW m, Shape(m)
  PROVE  /\ m.head.getTail \in BlocksOf(m) \cup {0} /\ m.head.getHead \in BlocksOf(m) \cup {0}
         /\ Upto(GetOf(m), m.head.getTail) = BlocksOf(m)
<1> DEFINE s == GetOf(m)
<1>1. /\ s \in Seq(Units) /\ Once(s) /\ m.head.getTail = End(s) /\ Elements(s) = BlocksOf(m)
      /\ m.head.getHead = IF Len(s) = 0 THEN 0 ELSE s[1]
  BY DEF Shape, GetFits, Listed, Forth
<1>2. Len(s) \in Nat /\ DOMAIN s = 1..Len(s)
  BY <1>1
<1> HIDE DEF s
<1>3. CASE Len(s) = 0
  <2>1. Elements(s) = {}
    BY <1>2, <1>3 DEF Elements
  <2>2. m.head.getTail = 0 /\ m.head.getHead = 0
    BY <1>1, <1>3 DEF End
  <2>3. Upto(s, m.head.getTail) = {}
    BY <1>1, <2>1, <2>2, UptoNone
  <2> QED  BY <1>1, <2>1, <2>2, <2>3 DEF s
<1>4. CASE Len(s) # 0
  <2>1. Len(s) \in 1..Len(s) /\ 1 \in 1..Len(s) /\ m.head.getTail = s[Len(s)] /\ m.head.getHead = s[1]
    BY <1>1, <1>2, <1>4 DEF End
  <2>2. Upto(s, m.head.getTail) = {s[j] : j \in 1..Len(s)}
    BY <1>1, <2>1, UptoAt
  <2>3. Elements(s) = {s[j] : j \in 1..Len(s)}
    BY <1>2 DEF Elements
  <2>4. s[Len(s)] \in Elements(s) /\ s[1] \in Elements(s)
    BY <2>1, <2>3
  <2> QED  BY <1>1, <2>1, <2>2, <2>3, <2>4 DEF s
<1> QED  BY <1>3, <1>4

\* backup keeps the invariant Base.
LEMMA BackupStartKeeps == ASSUME Base, NEW force \in BOOLEAN, BackupStart(force) PROVE Base'
<1> DEFINE start == force \/ mem.head.backupTail = 0
           v == IF start THEN mem.head.getTail ELSE mem.head.backupTail
<1>1. Begin(Idle, <<>>, <<>>) /\ free' = free /\ due' = IF start THEN BlocksOf(mem) ELSE due
  BY Reading DEF BackupStart
<1>2. todo = <<>>
  BY <1>1 DEF Begin
<1>3. /\ Shape(mem) /\ Owned(mem) \cap free = {} /\ <<>> \in Seq(Quiet) /\ Len(<<>>) <= 2
      /\ Comes(mem, due) /\ free \subseteq Units
  BY <1>2, Begun
<1>4. mem' = PutHead(mem, "backupTail", v)
  <2>1. mem' = [mem EXCEPT !.head.backupTail = IF start THEN mem.head.getTail ELSE @]
    BY DEF BackupStart
  <2>2. "backupTail" \in DOMAIN mem.head /\ "head" \in DOMAIN mem
    BY <1>3 DEF Shape, IsMemory, Fields, Heads, HeadLinks
  <2> QED  BY <2>1, <2>2 DEF PutHead
<1>5. v \in BlocksOf(mem) \cup {0}
  BY <1>3, TailOfGet DEF Shape, Cursors
<1>6. /\ Upto(GetOf(mem), mem.head.getTail) = BlocksOf(mem)
  BY <1>3, TailOfGet
<1>7. due' \subseteq Upto(GetOf(mem), v)
  BY <1>1, <1>3, <1>6 DEF Comes
<1> HIDE DEF v, start
<1>8. ButCursors(mem, mem') /\ mem'.head.backupTail = v
  BY <1>3, <1>4, <1>5, PutEffect
<1>9. Shape(mem') /\ GetOf(mem') = GetOf(mem) /\ Owned(mem') = Owned(mem)
  BY <1>3, <1>8, CursorsStay
<1>10. Comes(mem', due')
  BY <1>7, <1>8, <1>9 DEF Comes
<1>11. Goes(Idle, <<>>) /\ log' = <<>>
  BY <1>1, BeginGoes, IdleOp, NoScript
<1>12. Sound(mem', Elements(<<>>), Idle, free')
  <2>1. Owned(mem') \cap free' = {}
    BY <1>1, <1>3, <1>9
  <2> QED  BY <1>9, <2>1, IdleSound, NoScript
<1>13. log' \in Seq(Quiet) /\ Len(log') <= 2 /\ free' \subseteq Units
  BY <1>1, <1>3, <1>11
<1> QED  BY <1>9, <1>10, <1>11, <1>12, <1>13, NoScript, WentOn

\* All blocks before one are up to its predecessor.
LEMMA UptoBefore ==
  ASSUME NEW s \in Seq(Units), Once(s), NEW prev, Back(s, prev), NEW u \in Elements(s)
  PROVE  Upto(s, u) \ {u} \subseteq Upto(s, prev[u])
<1>1. PICK k \in 1..Len(s) : s[k] = u
  BY InElements
<1>2. Upto(s, u) = {s[j] : j \in 1..k}
  <2>1. Upto(s, s[k]) = {s[j] : j \in 1..k}
    BY UptoAt
  <2> QED  BY <1>1, <2>1
<1>3. prev[u] = IF k = 1 THEN 0 ELSE s[k - 1]
  BY <1>1 DEF Back
<1>4. CASE k = 1
  BY <1>1, <1>2, <1>4
<1>5. CASE k # 1
  <2>1. k - 1 \in 1..Len(s) /\ s[k - 1] = prev[u]
    <3>1. Len(s) \in Nat
      OBVIOUS
    <3> QED  BY <3>1, <1>3, <1>5
  <2>2. Upto(s, prev[u]) = {s[j] : j \in 1..(k - 1)}
    BY <2>1, UptoAt
  <2>3. \A j \in 1..k : j = k \/ j \in 1..(k - 1)
    OBVIOUS
  <2> QED  BY <1>1, <1>2, <2>2, <2>3
<1> QED  BY <1>4, <1>5

\* backup of one block keeps the invariant Base.
LEMMA BackupOneKeeps == ASSUME Base, BackupOne PROVE Base'
<1> DEFINE u == mem.head.backupTail
           v == mem.getPrev[u]
<1>1. Begin(Idle, <<>>, <<>>) /\ free' = free /\ due' = due \ {u} /\ u # 0
  BY DEF BackupOne
<1>2. todo = <<>>
  BY <1>1 DEF Begin
<1>3. /\ Shape(mem) /\ Owned(mem) \cap free = {} /\ <<>> \in Seq(Quiet) /\ Len(<<>>) <= 2
      /\ Comes(mem, due) /\ free \subseteq Units
  BY <1>2, Begun
<1>4. mem' = PutHead(mem, "backupTail", v)
  BY DEF BackupOne, PutHead
<1>5. u \in BlocksOf(mem)
  BY <1>1, <1>3 DEF Shape, Cursors
<1>6. v \in BlocksOf(mem) \cup {0}
  BY <1>3, <1>5, Ends
<1>7. due' \subseteq Upto(GetOf(mem), v)
  <2>1. /\ GetOf(mem) \in Seq(Units) /\ Once(GetOf(mem)) /\ Back(GetOf(mem), mem.getPrev)
        /\ u \in Elements(GetOf(mem))
    BY <1>3, <1>5 DEF Shape, GetFits, Listed, Forth
  <2>2. Upto(GetOf(mem), u) \ {u} \subseteq Upto(GetOf(mem), v)
    BY <2>1, UptoBefore
  <2> QED  BY <1>1, <1>3, <2>2 DEF Comes
<1> HIDE DEF v
<1>8. ButCursors(mem, mem') /\ mem'.head.backupTail = v
  BY <1>3, <1>4, <1>6, PutEffect
<1>9. Shape(mem') /\ GetOf(mem') = GetOf(mem) /\ Owned(mem') = Owned(mem)
  BY <1>3, <1>8, CursorsStay
<1>10. Comes(mem', due')
  BY <1>7, <1>8, <1>9 DEF Comes
<1>11. Goes(Idle, <<>>) /\ log' = <<>>
  BY <1>1, BeginGoes, IdleOp, NoScript
<1>12. Sound(mem', Elements(<<>>), Idle, free')
  <2>1. Owned(mem') \cap free' = {}
    BY <1>1, <1>3, <1>9
  <2> QED  BY <1>9, <2>1, IdleSound, NoScript
<1>13. log' \in Seq(Quiet) /\ Len(log') <= 2 /\ free' \subseteq Units
  BY <1>1, <1>3, <1>11
<1> QED  BY <1>9, <1>10, <1>11, <1>12, <1>13, NoScript, WentOn

\* erase of the oldest block keeps the invariant Base.
LEMMA EraseOldKeeps == ASSUME Base, NEW checkDirty \in BOOLEAN, EraseOld(checkDirty) PROVE Base'
<1> DEFINE u == mem.head.getTail
           keep == checkDirty /\ mem.dirty[u]
           p == mem.getPrev[u]
           first == mem.head.getHead
           g == StepOff("backupTail", "getPrev", u)
                  \o <<ToHead("getTail", p), <<"getNext", p, 0>>, <<"getPrev", u, 0>>,
                       <<"getNext", u, first>>, <<"getPrev", first, u>>, ToHead("getHead", u)>>
<1>1. u # 0 /\ free' = free /\ due' = due /\ todo = <<>>
  BY DEF EraseOld, Begin
<1>2. /\ Shape(mem) /\ Owned(mem) \cap free = {} /\ <<>> \in Seq(Quiet) /\ Len(<<>>) <= 2
      /\ Comes(mem, due) /\ free \subseteq Units /\ due \subseteq BlocksOf(mem)
  BY <1>1, Begun
<1>3. u \in BlocksOf(mem) /\ u \in Addr
  BY <1>1, <1>2, TailOfGet, BlockUnits DEF Shape, Addr
<1>4. CASE ~keep
  <2> DEFINE o == [Idle EXCEPT !.b = u]
  <2>1. Begin(o, <<>>, <<"erase">>) /\ mem' = mem
    BY <1>4 DEF EraseOld
  <2>2. o \in Op /\ o.b = u /\ o.got = <<>> /\ o.gone = {}
    BY <1>3, IdleBlock
  <2> HIDE DEF o
  <2>3. Script(<<"erase">>) /\ Elements(<<"erase">>) = {"erase"} /\ <<"erase">>[1] # "copied"
    BY Scripts DEF Stages
  <2>4. Sound(mem, {"erase"}, o, free)
    <3>1. {"erase"} \cap Setting = {} /\ o.b \in BlocksOf(mem)
      BY <1>3, <2>2 DEF Setting, Filling
    <3> QED  BY <1>2, <2>2, <3>1, PlainSound
  <2>5. Sound(mem, Elements(<<"erase">>), o, free)
    BY <2>3, <2>4
  <2> QED  BY <1>1, <1>2, <2>1, <2>2, <2>3, <2>5, BeginQuiet
<1>5. CASE keep
  <2> DEFINE v == IF mem.head.dirtyTail = 0 THEN u ELSE mem.head.dirtyTail
  <2>1. /\ mem' = PutHead(mem, "dirtyTail", v)
        /\ Begin(Idle, When(first # u, g), When(first # u, <<"commit">>))
    <3>1. mem' = [mem EXCEPT !.head.dirtyTail = IF @ = 0 THEN u ELSE @]
      BY <1>5 DEF EraseOld
    <3>2. "dirtyTail" \in DOMAIN mem.head /\ "head" \in DOMAIN mem
      BY <1>2 DEF Shape, IsMemory, Fields, Heads, HeadLinks
    <3>3. mem' = PutHead(mem, "dirtyTail", v)
      BY <3>1, <3>2 DEF PutHead
    <3>4. Begin(Idle, When(first # u, g), When(first # u, <<"commit">>))
      BY <1>5 DEF EraseOld
    <3> QED  BY <3>3, <3>4
  <2>2. v \in BlocksOf(mem) \cup {0}
    BY <1>2, <1>3 DEF Shape, Cursors
  <2> HIDE DEF v
  <2>3. /\ ButCursors(mem, mem') /\ \A h \in Heads \ {"dirtyTail"} : mem'.head[h] = mem.head[h]
    BY <1>2, <2>1, <2>2, PutEffect
  <2>4. /\ Shape(mem') /\ BlocksOf(mem') = BlocksOf(mem) /\ GetOf(mem') = GetOf(mem)
        /\ Owned(mem') = Owned(mem)
    BY <1>2, <2>3, CursorsStay
  <2>5. /\ mem'.head.backupTail = mem.head.backupTail /\ mem'.head.getHead = first
        /\ mem'.head.getTail = u
    BY <2>3 DEF Heads, HeadLinks
  <2>6. CASE first = u
    <3>1. Begin(Idle, <<>>, <<>>)
      BY <2>1, <2>6 DEF When
    <3>2. Sound(mem, Elements(<<>>), Idle, free)
      BY <1>2, IdleSound, NoScript
    <3> QED  BY <1>1, <1>2, <2>3, <2>5, <3>1, <3>2, IdleOp, NoScript, BeginSame
  <2>7. CASE first # u
    <3> DEFINE m2 == Apply(mem', g)
    <3>1. Begin(Idle, g, <<"commit">>)
      BY <2>1, <2>7 DEF When
    <3>2. ButDirtyTail(mem, mem')
      BY <2>3 DEF ButDirtyTail, ButCursors
    <3>3. g \in Seq(Entry) /\ Len(g) <= 7 /\ MovedGet(mem', m2, u)
      BY <1>2, <1>3, <2>7, <3>2, KeepEffect
    <3> HIDE DEF g, m2
    <3>4. /\ Shape(m2) /\ BlocksOf(m2) = BlocksOf(mem) /\ Owned(m2) = Owned(mem)
          /\ Upto(GetOf(mem), mem.head.backupTail) \subseteq Upto(GetOf(m2), m2.head.backupTail)
      <4>1. u \in BlocksOf(mem') /\ u # mem'.head.getHead
        BY <1>3, <2>4, <2>5, <2>7
      <4>2. /\ Shape(m2) /\ BlocksOf(m2) = BlocksOf(mem') /\ Owned(m2) = Owned(mem')
            /\ Upto(GetOf(mem'), mem'.head.backupTail) \subseteq Upto(GetOf(m2), m2.head.backupTail)
        BY <2>4, <3>3, <4>1, MovedGetShape
      <4> QED  BY <2>4, <2>5, <4>2
    <3>5. Script(<<"commit">>) /\ Elements(<<"commit">>) = {"commit"} /\ <<"commit">>[1] = "commit"
          /\ Len(<<"commit">>) # 0
      BY OneStage DEF Stages
    <3>6. Goes(Idle, <<"commit">>) /\ log' = g
      BY <3>1, <3>5, BeginGoes, IdleOp
    <3>7. LogOK(<<"commit">>, log')
      <4>1. Len(g) <= 15
        <5>1. Len(g) \in Nat
          BY <3>3
        <5> QED  BY <3>3, <5>1
      <4> QED  BY <3>3, <3>5, <3>6, <4>1 DEF LogOK
    <3>8. Sound(m2, Elements(<<"commit">>), Idle, free')
      <4>1. {"commit"} \cap Setting = {} /\ {"commit"} \cap Working = {} /\ Owned(m2) \cap free' = {}
        BY <1>1, <1>2, <3>4 DEF Setting, Filling, Working
      <4>2. Sound(m2, {"commit"}, Idle, free')
        BY <3>4, <4>1, IdleOp, PlainSound
      <4> QED  BY <3>5, <4>2
    <3>9. Comes(mem', due') /\ Comes(m2, due' \cap BlocksOf(m2))
      BY <1>1, <1>2, <2>4, <2>5, <3>4 DEF Comes
    <3>10. free' \subseteq Units /\ Owned(mem') \cap free' = {} /\ Apply(mem', log') = m2
      BY <1>1, <1>2, <2>4, <3>6 DEF m2
    <3> QED  BY <2>4, <3>6, <3>7, <3>8, <3>9, <3>10, Went
  <2> QED  BY <2>6, <2>7
<1> QED  BY <1>4, <1>5

-----------------------------------------------------------------------------
(* The invariant holds. *)

\* Every stage keeps the invariant Base.
LEMMA StageKeeps == ASSUME Base, Stage PROVE Base'
<1>1. Commit \/ Alloc \/ Free \/ Erase => Base'
  BY CommitKeeps, AllocKeeps, FreeKeeps, EraseKeeps
<1>2. (\E torn \in Torn : Evict(torn)) \/ (\E torn \in Torn : RecoverOne(torn)) => Base'
  BY EvictKeeps, RecoverOneKeeps
<1>3. Fit \/ Grab \/ Join \/ Write \/ Copied => Base'
  BY FitKeeps, GrabKeeps, JoinKeeps, WriteKeeps, CopiedKeeps
<1>4. SetDirtyFlag \/ RefreshSetList \/ RefreshGetList \/ NextItem => Base'
  BY SetDirtyFlagKeeps, RefreshSetListKeeps, RefreshGetListKeeps, NextItemKeeps
<1>5. Synced \/ Resync \/ Resynced => Base'
  BY SyncedKeeps, ResyncKeeps, ResyncedKeeps
<1> QED  BY <1>1, <1>2, <1>3, <1>4, <1>5 DEF Stage

\* Every operation that begins keeps the invariant Base.
LEMMA OperationKeeps == ASSUME Base, Operation PROVE Base'
<1>1. ASSUME NEW k \in Keys,
             \/ SetKey(k)
             \/ \E torn \in Torn : Get(k, torn) \/ Del(k, torn)
             \/ \E dirty \in BOOLEAN : \/ SetDirty(k, dirty)
                                       \/ \E n \in 0..MaxExtra : Set(k, n, dirty)
      PROVE  Base'
  BY <1>1, SetKeyKeeps, GetKeeps, DelKeeps, SetDirtyKeeps, SetKeeps
<1>2. ASSUME NEW i \in Buckets, SetBucketDirty(i) \/ Recover(i) PROVE Base'
  BY <1>2, SetBucketDirtyKeeps, RecoverKeeps
<1>3. ASSUME NEW yes \in BOOLEAN, EraseOld(yes) \/ BackupStart(yes) PROVE Base'
  BY <1>3, EraseOldKeeps, BackupStartKeeps
<1>4. SyncStart \/ BackupOne => Base'
  BY SyncStartKeeps, BackupOneKeeps
<1>5. ASSUME NEW old \in BOOLEAN, NEW refused \in BOOLEAN, NEW torn \in Torn,
             SyncOne(old, refused, torn)
      PROVE  Base'
  BY <1>5, SyncOneKeeps
<1> QED  BY <1>1, <1>2, <1>3, <1>4, <1>5 DEF Operation

\* Every step keeps the invariant Base.
LEMMA NextKeeps == ASSUME Base, [Next]_vars PROVE Base'
<1>1. CASE Next
  BY <1>1, StageKeeps, OperationKeeps, CrashKeeps DEF Next
<1>2. CASE UNCHANGED vars
  BY <1>2 DEF vars, Base, After, Comes
<1> QED  BY <1>1, <1>2

\* A new memory has the right shape and no blocks.
LEMMA InitShape == ASSUME Init PROVE Shape(mem) /\ BlocksOf(mem) = {} /\ GetOf(mem) = <<>>
<1>1. /\ \A f \in UnitLinks : mem[f] = [u \in Units |-> u]
      /\ mem.head = [h \in HeadLinks \cup HeadCounts |-> 0]
      /\ mem.index = [u \in Units |-> CHOOSE i \in Buckets : TRUE]
      /\ mem.data = [u \in Units |-> Empty]
      /\ mem.dirty = [u \in Units |-> FALSE] /\ mem.onlyKey = [u \in Units |-> FALSE]
      /\ mem.bucket = [i \in Buckets |-> 0] /\ mem.listCount = [i \in Buckets |-> 0]
  BY DEF Init, UnitLinks
<1>2. mem = [f \in Fields |-> mem[f]]
  BY DEF Init, Fields
<1>3. (CHOOSE i \in Buckets : TRUE) \in Buckets /\ Empty \in Datum /\ 0 \in Addr
  BY HashMapAssumption DEF Empty, Datum, Addr
<1>4. IsMemory(mem)
  <2>1. /\ \A f \in UnitLinks : mem[f] \in [Units -> Addr]
        /\ mem.index \in [Units -> Buckets] /\ mem.data \in [Units -> Datum]
        /\ mem.dirty \in [Units -> BOOLEAN] /\ mem.onlyKey \in [Units -> BOOLEAN]
        /\ mem.bucket \in [Buckets -> Addr] /\ mem.listCount \in [Buckets -> Int]
    <3>1. \A f \in UnitLinks : mem[f] \in [Units -> Addr]
      BY <1>1 DEF Addr
    <3>2. mem.index \in [Units -> Buckets]
      <4>1. ASSUME NEW c \in Buckets PROVE [u \in Units |-> c] \in [Units -> Buckets]
        OBVIOUS
      <4> QED  BY <1>1, <1>3, <4>1
    <3>3. mem.data \in [Units -> Datum]
      BY <1>1, <1>3
    <3>4. /\ mem.dirty \in [Units -> BOOLEAN] /\ mem.onlyKey \in [Units -> BOOLEAN]
          /\ mem.bucket \in [Buckets -> Addr] /\ mem.listCount \in [Buckets -> Int]
      BY <1>1, <1>3
    <3> QED  BY <3>1, <3>2, <3>3, <3>4
  <2>2. /\ mem.head = [h \in Heads |-> mem.head[h]]
        /\ \A h \in HeadLinks : mem.head[h] \in Addr
        /\ \A h \in HeadCounts : mem.head[h] \in Int
        /\ mem.head.getCount = 0 /\ mem.head.hitCount = 0
    BY <1>1, <1>3 DEF Heads, HeadCounts, HeadLinks
  <2> QED  BY <1>2, <2>1, <2>2 DEF IsMemory
<1>5. /\ mem.head.setHead = 0 /\ mem.head.setTail = 0 /\ mem.head.getHead = 0 /\ mem.head.getTail = 0
      /\ mem.head.elements = 0 /\ mem.head.dirtyTail = 0 /\ mem.head.syncTail = 0
      /\ mem.head.backupTail = 0
  BY <1>1 DEF HeadCounts, HeadLinks
<1>6. /\ SetOf(mem) = <<>> /\ GetOf(mem) = <<>>
      /\ \A i \in Buckets : ChainOf(mem, i) = <<>> /\ mem.bucket[i] = 0 /\ mem.listCount[i] = 0
  BY <1>1, <1>5, PathOfNone DEF SetOf, GetOf, ChainOf
<1>7. Len(<<>>) = 0 /\ Elements(<<>>) = {} /\ \A next, prev : Listed(<<>>, next, prev, 0, 0)
  BY DEF Listed, Forth, Back, Once, End, Elements
<1>8. BlocksOf(mem) = {}
  BY <1>6, <1>7 DEF BlocksOf
<1>9. SetFits(mem) /\ GetFits(mem) /\ mem.head.elements = Len(SetOf(mem))
  BY <1>5, <1>6, <1>7, <1>8 DEF SetFits, GetFits
<1>10. Chains(mem)
  <2>1. End(<<>>) = 0
    BY <1>7 DEF End
  <2> QED  BY <1>6, <1>7, <1>8, <2>1 DEF Chains, ChainFits
<1>11. Chunks(mem) /\ Keyed(mem) /\ Cursors(mem)
  BY <1>5, <1>8 DEF Chunks, Keyed, Cursors
<1> QED  BY <1>4, <1>6, <1>8, <1>9, <1>10, <1>11 DEF Shape

\* A new memory satisfies the invariant Base.
LEMMA InitBase == ASSUME Init PROVE Base
<1>1. /\ conf \in Evictions /\ free = Units /\ log = <<>> /\ todo = <<>> /\ op = Idle /\ due = {}
      /\ crashes = 0 /\ ops = 0
  BY DEF Init
<1>2. Shape(mem) /\ BlocksOf(mem) = {} /\ IsMemory(mem)
  BY InitShape DEF Shape
<1>3. Owned(mem) = {}
  BY <1>2 DEF Owned
<1>4. <<>> \in Seq(Quiet) /\ Len(<<>>) = 0
  OBVIOUS
<1>5. Apply(mem, <<>>) = mem /\ <<>> \in Seq(Entry)
  BY <1>2, <1>4, QuietKeeps
<1>6. After = mem
  BY <1>1, <1>5 DEF After
<1>7. LogOK(todo, log) /\ Script(todo) /\ Elements(todo) = {}
  BY <1>1, <1>4, <1>5, NoScript DEF LogOK
<1>8. Sound(mem, {}, Idle, free)
  BY <1>2, <1>3, IdleSound
<1>9. Comes(mem, due) /\ Comes(mem, due \cap BlocksOf(mem))
  BY <1>1 DEF Comes
<1>10. crashes \in 0..MaxCrashes /\ ops \in 0..MaxOps
  BY <1>1, HashMapAssumption
<1> QED  BY <1>1, <1>2, <1>3, <1>6, <1>7, <1>8, <1>9, <1>10, IdleOp DEF Base

(* For any number of units, keys and buckets and any sizes of values,      *)
(* whenever a process dies in an operation of TC_HashMap: the memory as it *)
(* is has the shape the next process relies on, and so has the memory once *)
(* what doUpdate(true) was asked for is written.                           *)
THEOREM BaseHolds == Spec => []Base
<1>1. Init => Base
  BY InitBase
<1>2. Base /\ [Next]_vars => Base'
  BY NextKeeps
<1> QED  BY <1>1, <1>2, PTL DEF Spec

\* Base bounds the log.
LEMMA BaseLogFits == ASSUME Base PROVE LogFits
<1>1. Len(log) <= 15 /\ Len(log) \in Nat /\ MaxModify \in Nat /\ MaxModify > 15
  BY HashMapAssumption DEF Base, LogOK
<1> QED  BY <1>1 DEF LogFits

\* Walking the back links from the last block returns the list in reverse.
LEMMA Reverse ==
  ASSUME NEW s, NEW next, NEW prev, NEW first, NEW last, Listed(s, next, prev, first, last)
  PROVE  Path(prev, last) = Backwards(s)
<1>1. s \in Seq(Units) /\ Once(s) /\ Back(s, prev) /\ last = End(s) /\ Len(s) \in Nat
  BY DEF Listed, Forth
<1>2. CASE Len(s) = 0
  <2>1. s = <<>> /\ last = 0
    BY <1>1, <1>2, NoneIn DEF End
  <2>2. Backwards(<<>>) = <<>>
    BY DEF Backwards
  <2> QED  BY <2>1, <2>2, PathOfNone
<1>3. CASE Len(s) # 0
  <2> DEFINE k == Len(s)
  <2>1. k \in 1..Len(s) /\ last = s[k] /\ DOMAIN s = 1..k
    BY <1>1, <1>3 DEF End
  <2>2. Path(prev, s[k]) = [i \in 1..k |-> s[k + 1 - i]]
    BY <1>1, <2>1, WayBack
  <2> QED  BY <2>1, <2>2 DEF Backwards
<1> QED  BY <1>2, <1>3

\* Base gives the types.
LEMMA BaseTyped == ASSUME Base PROVE TypeOK
<1>1. IsMemory(mem) /\ Shape(mem) /\ op \in Op /\ free \subseteq Units
  BY DEF Base, Shape
<1>2. mem.listCount \in [Buckets -> Nat]
  <2>1. ASSUME NEW i \in Buckets PROVE mem.listCount[i] \in Nat
    <3>1. mem.listCount[i] = Len(ChainOf(mem, i)) /\ ChainOf(mem, i) \in Seq(Units)
      BY <1>1 DEF Shape, Chains, ChainFits, Listed, Forth
    <3> QED  BY <3>1
  <2>2. mem.listCount \in [Buckets -> Int]
    BY <1>1 DEF IsMemory
  <2> QED  BY <2>1, <2>2
<1>3. due \subseteq Units
  <2>1. GetOf(mem) \in Seq(Units) /\ due \subseteq Upto(GetOf(mem), mem.head.backupTail)
    BY <1>1 DEF Base, Comes, Shape, GetFits, Listed, Forth
  <2>2. Upto(GetOf(mem), mem.head.backupTail) \subseteq Units
    BY <2>1 DEF Upto
  <2> QED  BY <2>1, <2>2
<1>4. op.b \in Addr /\ op.gone \subseteq Units /\ op.left \in 0..EraseCount
  BY <1>1 DEF Op
<1>5. crashes \in 0..MaxCrashes /\ ops \in 0..MaxOps
  BY DEF Base
<1> QED  BY <1>1, <1>2, <1>3, <1>4, <1>5 DEF IsMemory, TypeOK

\* Base: both lists hold the same blocks in both directions, each once.
LEMMA BaseLists == ASSUME Base PROVE ListsAgree
<1>1. SetFits(mem) /\ GetFits(mem)
  BY DEF Base, Shape
<1>2. Len(SetOrder) <= Cardinality(Units) /\ Len(SetOrder) = Cardinality(Blocks)
  BY <1>1, BlockUnits, Reading DEF Size
<1>3. Follow("setPrev", mem.head.setTail) = Backwards(SetOrder)
  BY <1>1, Reverse, Reading DEF SetFits, Follow
<1> DEFINE order == Follow("getNext", mem.head.getHead)
<1>4. order = GetOf(mem)
  BY DEF Follow, GetOf
<1>5. Follow("getPrev", mem.head.getTail) = Backwards(order)
  BY <1>1, <1>4, Reverse DEF GetFits, Follow
<1>6. GetOf(mem) \in Seq(Units) /\ Once(GetOf(mem)) /\ Elements(GetOf(mem)) = Blocks
  BY <1>1, Reading DEF GetFits, Listed, Forth
<1>7. Len(order) = Cardinality(Blocks)
  BY <1>4, <1>6, OnceShort
<1> QED  BY <1>2, <1>3, <1>4, <1>5, <1>6, <1>7 DEF ListsAgree

\* Base: a bucket's chain holds its blocks, each once.
LEMMA BaseChains == ASSUME Base PROVE ChainsAgree
<1> SUFFICES ASSUME NEW i \in Buckets
             PROVE  LET c == Chain(i)
                    IN  /\ Elements(c) = {u \in Blocks : mem.index[u] = i}
                        /\ Len(c) = Cardinality(Elements(c))
                        /\ \A j \in DOMAIN c :
                             /\ mem.blockPrev[c[j]] = IF j = 1 THEN 0 ELSE c[j - 1]
                             /\ \A k \in DOMAIN c :
                                  mem.data[c[j]].key = mem.data[c[k]].key => j = k \/ mem.data[c[j]].key = None
  BY DEF ChainsAgree
<1> DEFINE c == Chain(i)
<1>1. c = ChainOf(mem, i) /\ Blocks = BlocksOf(mem)
  BY Reading
<1>2. Shape(mem) /\ ChainFits(mem, i)
  BY DEF Base, Shape, Chains
<1>3. /\ c \in Seq(Units) /\ Once(c) /\ Back(c, mem.blockPrev)
      /\ Elements(c) = {u \in Blocks : mem.index[u] = i}
  BY <1>1, <1>2 DEF ChainFits, Listed, Forth
<1> HIDE DEF c
<1>4. Len(c) = Cardinality(Elements(c)) /\ DOMAIN c = 1..Len(c)
  <2>1. DOMAIN c = 1..Len(c)
    BY <1>3
  <2> QED  BY <1>3, <2>1, OnceShort
<1>5. \A j \in DOMAIN c : mem.blockPrev[c[j]] = IF j = 1 THEN 0 ELSE c[j - 1]
  BY <1>3, <1>4 DEF Back
<1>6. ASSUME NEW j \in DOMAIN c, NEW k \in DOMAIN c, mem.data[c[j]].key = mem.data[c[k]].key,
             mem.data[c[j]].key # None
      PROVE  j = k
  <2>1. c[j] \in BlocksOf(mem) /\ c[k] \in BlocksOf(mem)
    BY <1>1, <1>3 DEF Elements
  <2>2. c[j] = c[k]
    BY <1>2, <1>6, <2>1 DEF Shape, Keyed
  <2> QED  BY <1>3, <1>4, <2>2 DEF Once
<1> QED  BY <1>3, <1>4, <1>5, <1>6 DEF c

\* Base gives Linked.
LEMMA BaseLinked == ASSUME Base PROVE Linked
<1>1. CursorsLive
  BY Reading DEF Base, Shape, Cursors, CursorsLive
<1> QED  BY <1>1, BaseTyped, BaseLists, BaseChains DEF Linked

\* Base gives BackupComes.
LEMMA BaseBackup == ASSUME Base PROVE BackupComes
<1>1. /\ GetOf(mem) \in Seq(Units) /\ Once(GetOf(mem)) /\ Back(GetOf(mem), mem.getPrev)
      /\ Elements(GetOf(mem)) = BlocksOf(mem) /\ mem.head.backupTail \in BlocksOf(mem) \cup {0}
  BY DEF Base, Shape, GetFits, Listed, Forth, Cursors
<1>2. Elements(Path(mem.getPrev, mem.head.backupTail)) = Upto(GetOf(mem), mem.head.backupTail)
  BY <1>1, UptoPath
<1> QED  BY <1>2 DEF Base, Comes, BackupComes, Follow

\* mem and After have the blocks that the stages ahead work on in common.
LEMMA BaseStays == ASSUME Base PROVE BlockStays
<1> SUFFICES ASSUME todo # <<>>,
                    Head(todo) \in {"fit", "grab", "join", "write", "copied",
                                    "dirty", "rset", "rget", "synced", "resync", "resynced"}
             PROVE  op.b \in BlocksOf(mem)
  BY Reading DEF BlockStays
<1> DEFINE s == Head(todo)
<1>1. At(s) /\ s \in Working
  BY DEF At, Working, Filling
<1>2. s \in Elements(todo) /\ Elements(todo) \subseteq {s} \cup Later(s) /\ todo[1] = s
  BY <1>1, AtStage
<1>3. "alloc" \notin Elements(todo)
  BY <1>2, LaterIs
<1>4. op.b \in BlocksOf(After)
  BY <1>1, <1>2, <1>3 DEF Base, Sound, Placed
<1>5. CASE s = "copied"
  <2>1. log \in Seq(Counts) /\ Shape(mem)
    BY <1>1, <1>2, <1>5, AtStage DEF Base, LogOK
  <2>2. BlocksOf(After) = BlocksOf(mem)
    <3>1. Stays(mem, After)
      BY <2>1, CountsStay DEF After, Recounts
    <3> QED  BY <2>1, <3>1, ListsStay
  <2> QED  BY <1>4, <2>2
<1>6. CASE s # "copied"
  <2>1. Calm
    BY <1>1, <1>2, <1>6, AtStage DEF Calm
  <2> QED  BY <1>4, <2>1, CalmAfter
<1> QED  BY <1>5, <1>6

\* The counters and the owners as far as a crash cannot disturb them.
LEMMA BaseOwned ==
  ASSUME Base
  PROVE  /\ \A u \in Blocks : /\ Len(ChunksOf(u)) = Cardinality(Elements(ChunksOf(u)))
                              /\ Elements(ChunksOf(u)) \cap free = {}
         /\ \A u, v \in Blocks : u # v => Elements(ChunksOf(u)) \cap Elements(ChunksOf(v)) = {}
<1>1. Chunks(mem) /\ Owned(mem) \cap free = {} /\ SetFits(mem)
  BY DEF Base, Shape
<1>2. ASSUME NEW u \in BlocksOf(mem)
      PROVE  Len(ChunksIn(mem, u)) = Cardinality(Own(mem, u)) /\ Own(mem, u) \cap free = {}
  <2>1. ChunksIn(mem, u) \in Seq(Units) /\ Once(ChunksIn(mem, u))
    BY <1>1 DEF Chunks, Forth
  <2>2. Own(mem, u) \subseteq Owned(mem)
    BY DEF Owned
  <2> QED  BY <1>1, <2>1, <2>2, OnceShort DEF Own
<1>3. \A u, v \in BlocksOf(mem) : u # v => Own(mem, u) \cap Own(mem, v) = {}
  BY <1>1 DEF Chunks
<1> QED  BY <1>2, <1>3, Reading DEF Own

\* Base: the number of elements and of the blocks of each bucket are right.
LEMMA BaseCounted ==
  ASSUME Base
  PROVE  mem.head.elements = Cardinality(Blocks) /\ \A i \in Buckets : mem.listCount[i] = Len(Chain(i))
  BY BlockUnits, Reading DEF Base, Shape, Chains, ChainFits

(* For any number of units and whatever cursors stand on an erased block,  *)
(* no operation records more entries with update than the array of the     *)
(* modification log holds, those of the counters of get included.          *)
THEOREM LogFitsHolds == Spec => []LogFits
<1>1. Base => LogFits
  BY BaseLogFits
<1> QED  BY BaseHolds, <1>1, PTL

(* For any number of units, keys and buckets, whenever a process dies      *)
(* between two parts of set, get, del, erase, sync, backup or recover: the *)
(* Set and Get lists have the same blocks in both directions, the chain of *)
(* a bucket has its blocks and each key once, and the cursors of           *)
(* write-back, sync and backup stand on blocks.                            *)
THEOREM LinkedHolds == Spec => []Linked
<1>1. Base => Linked
  BY BaseLinked
<1> QED  BY BaseHolds, <1>1, PTL

(* A backup comes to every block that was in the map when it began and was *)
(* not erased since: refreshGetList, erase and makeNew move its cursor so  *)
(* that no block is skipped, whatever operations come in between.          *)
THEOREM BackupComesHolds == Spec => []BackupComes
<1>1. Base => BackupComes
  BY BaseBackup
<1> QED  BY BaseHolds, <1>1, PTL

-----------------------------------------------------------------------------
(* What holds as long as no process dies: counts, owners, dirty blocks. *)

\* The counts of dirty blocks and of bare keys are right.
Tallied(m) ==
    /\ m.head.dirtyCount = Cardinality({u \in BlocksOf(m) : m.dirty[u]})
    /\ m.head.onlyKeyCount = Cardinality({u \in BlocksOf(m) : m.onlyKey[u]})

\* The units that somebody can still release.
Held(m, A, o, fr) == fr \cup Loose(A, o) \cup o.gone \cup Owned(m)

\* The block that the stages ahead bring into the dirty chain, or erase.
Behind(A, o) ==
    IF \/ "erase" \in A \/ "resynced" \in A
       \/ "rset" \in A /\ (o.new \/ A \cap Filling = {})
    THEN {o.b} ELSE {}

\* The block whose data the stages ahead write, or drop.
Torso(A, o) ==
    IF A \cap {"write", "copied", "erase"} # {} \/ (o.new /\ A \cap Filling # {})
    THEN {o.b} ELSE {}

\* Every dirty block but those of S is found from the end of the dirty chain.
Reached(m, S) == {u \in BlocksOf(m) : m.dirty[u]} \subseteq Upto(SetOf(m), m.head.dirtyTail) \cup S

\* Every block but those of S has its key and all of its value.
Whole(m, S) == \A u \in BlocksOf(m) \ S : m.data[u].key # None /\ m.data[u].val = "whole"

\* A bare key is not dirty, and a block that is flagged has a value.
Bare(m) == \A u \in BlocksOf(m) : m.dirty[u] => ~m.onlyKey[u]

\* A block that is about to be flagged dirty has a value.
Valued(m, A, o) ==
    "dirty" \in A => IF A \cap (Filling \cup {"alloc"}) # {} THEN ~o.only ELSE ~m.onlyKey[o.b]

\* A sync takes a clean block out of the dirty chain, or puts it back where it was.
Synching(m, td, o) ==
    /\ "synced" \in Elements(td) => o.b \in Upto(SetOf(m), m.head.dirtyTail) /\ ~o.dirty
    /\ "resynced" \in Elements(td) =>
         \/ o.b \in Upto(SetOf(m), m.head.dirtyTail)
         \/ "synced" \notin Elements(td) /\ m.head.dirtyTail = m.setPrev[o.b]
    /\ "synced" \in Elements(td) /\ td[1] # "dirty" => ~m.dirty[o.b]
    /\ "synced" \in Elements(td) /\ "dirty" \in Elements(Tail(td)) => "resynced" \in Elements(td)

\* Blocks are evicted for a unit that is wanted; a new block is filled, what is filled
\* is moved to the front, and what is flagged is moved or belongs to a sync.
Planned(A, o) ==
    /\ "evict" \in A => A \cap {"alloc", "grab"} # {}
    /\ "alloc" \in A => o.new /\ "fit" \in A
    /\ A \cap (Filling \cup {"alloc"}) # {} => "rset" \in A
    /\ "dirty" \in A => A \cap {"rset", "synced", "resynced"} # {}

\* The counts, the owners, the dirty chain and the values are right for what is ahead.
Exact(m, td, o, fr) ==
    /\ Tallied(m) /\ Bare(m) /\ Units \subseteq Held(m, Elements(td), o, fr)
    /\ Reached(m, Behind(Elements(td), o)) /\ Whole(m, Torso(Elements(td), o))
    /\ Valued(m, Elements(td), o) /\ Synching(m, td, o) /\ Planned(Elements(td), o)

\* The same for the memory once the log is written.
Ledger == Exact(After, todo, op, free)

\* Nothing about the blocks differs that the ledger speaks of.
SameMarks(m, m2) ==
    /\ BlocksOf(m2) = BlocksOf(m)
    /\ \A u \in BlocksOf(m) : m2.dirty[u] = m.dirty[u] /\ m2.onlyKey[u] = m.onlyKey[u]
    /\ m2.head.dirtyCount = m.head.dirtyCount /\ m2.head.onlyKeyCount = m.head.onlyKeyCount

\* The set list and the end of the dirty chain are not touched.
SameReach(m, m2) ==
    /\ SetOf(m2) = SetOf(m) /\ m2.head.dirtyTail = m.head.dirtyTail
    /\ \A u \in BlocksOf(m) : m2.setPrev[u] = m.setPrev[u]

\* The data of blocks is not touched.
SameData(m, m2) == \A u \in BlocksOf(m) : m2.data[u] = m.data[u]

\* The counts stay right when blocks and flags stay.
LEMMA TalliedKept ==
  ASSUME NEW m, NEW m2, Tallied(m), SameMarks(m, m2)
  PROVE  Tallied(m2)
<1>1. /\ {u \in BlocksOf(m2) : m2.dirty[u]} = {u \in BlocksOf(m) : m.dirty[u]}
      /\ {u \in BlocksOf(m2) : m2.onlyKey[u]} = {u \in BlocksOf(m) : m.onlyKey[u]}
  BY DEF SameMarks
<1> QED  BY <1>1 DEF Tallied, SameMarks

\* What the ledger says of flags and data stays when they stay.
LEMMA MarksKept ==
  ASSUME NEW m, NEW m2, SameMarks(m, m2), SameData(m, m2)
  PROVE  /\ Bare(m) => Bare(m2)
         /\ \A S : Whole(m, S) => Whole(m2, S)
         /\ \A A, o : Valued(m, A, o) /\ o.b \in BlocksOf(m) => Valued(m2, A, o)
BY DEF SameMarks, SameData, Bare, Whole, Valued

\* What the ledger says of the dirty cursor stays when flags and the set list stay.
LEMMA ReachKept ==
  ASSUME NEW m, NEW m2, SameMarks(m, m2), SameReach(m, m2)
  PROVE  /\ \A S : Reached(m, S) => Reached(m2, S)
         /\ \A td, o : Synching(m, td, o) /\ o.b \in BlocksOf(m) => Synching(m2, td, o)
<1>1. ASSUME NEW S, Reached(m, S) PROVE Reached(m2, S)
  BY <1>1 DEF SameMarks, SameReach, Reached
<1>2. ASSUME NEW td, NEW o, Synching(m, td, o), o.b \in BlocksOf(m) PROVE Synching(m2, td, o)
  BY <1>2 DEF SameMarks, SameReach, Synching
<1> QED  BY <1>1, <1>2

\* The stages at which the block of the operation matters.
LEMMA Unplaced ==
  ASSUME NEW A, NEW o, A \cap {"dirty", "synced", "resynced"} = {}
  PROVE  /\ \A m : Valued(m, A, o)
         /\ \A m, td : Elements(td) = A => Synching(m, td, o)
BY DEF Valued, Synching

\* The ledger stays when blocks, owners, flags, data and the set list stay.
LEMMA ExactKept ==
  ASSUME NEW m, NEW m2, NEW td, NEW o, NEW fr, Exact(m, td, o, fr), SameMarks(m, m2),
         SameReach(m, m2), SameData(m, m2), Owned(m2) = Owned(m),
         Elements(td) \cap {"dirty", "synced", "resynced"} # {} /\ "alloc" \notin Elements(td)
            => o.b \in BlocksOf(m),
         "alloc" \in Elements(td) => Elements(td) \cap {"synced", "resynced"} = {}
  PROVE  Exact(m2, td, o, fr)
<1>1. Tallied(m2)
  BY TalliedKept DEF Exact
<1>2. Bare(m2) /\ Whole(m2, Torso(Elements(td), o)) /\ Reached(m2, Behind(Elements(td), o))
  BY MarksKept, ReachKept DEF Exact
<1>3. Valued(m2, Elements(td), o)
  <2>1. CASE "alloc" \in Elements(td)
    BY <2>1 DEF Exact, Valued
  <2>2. CASE "alloc" \notin Elements(td) /\ Elements(td) \cap {"dirty", "synced", "resynced"} # {}
    BY <2>2, MarksKept DEF Exact
  <2>3. CASE Elements(td) \cap {"dirty", "synced", "resynced"} = {}
    BY <2>3, Unplaced
  <2> QED  BY <2>1, <2>2, <2>3
<1>4. Synching(m2, td, o)
  <2>1. CASE o.b \in BlocksOf(m)
    BY <2>1, ReachKept DEF Exact
  <2>2. CASE Elements(td) \cap {"synced", "resynced"} = {}
    BY <2>2 DEF Synching
  <2> QED  BY <2>1, <2>2
<1>5. Units \subseteq Held(m2, Elements(td), o, fr)
  BY DEF Held, Exact
<1> QED  BY <1>1, <1>2, <1>3, <1>4, <1>5 DEF Exact

\* What a step leaves for its operation to go on with.
LEMMA LedgerWent ==
  ASSUME NEW o, NEW st, todo' = st, op' = IF st = <<>> THEN Idle ELSE o,
         NEW m2, Apply(mem', log') = m2, Exact(m2, st, o, free'),
         st = <<>> => o.got = <<>> /\ o.gone = {}
  PROVE  Ledger'
<1>1. After' = m2
  BY DEF After
<1>2. Exact(m2, st, op', free')
  <2>1. CASE st # <<>>
    BY <2>1
  <2>2. CASE st = <<>>
    <3>1. Elements(st) = {} /\ op' = Idle
      BY <2>2, NoScript
    <3>2. Held(m2, Elements(st), op', free') = Held(m2, Elements(st), o, free')
      BY <2>2, <3>1, IdleOp DEF Held, Loose
    <3>4. Behind({}, o) = Behind({}, op') /\ Torso({}, o) = Torso({}, op')
      BY DEF Behind, Torso
    <3>5. Valued(m2, {}, op') /\ Synching(m2, st, op') /\ Planned({}, op')
      BY <3>1, Unplaced DEF Planned
    <3> QED  BY <3>1, <3>2, <3>4, <3>5 DEF Exact
  <2> QED  BY <2>1, <2>2
<1> QED  BY <1>1, <1>2 DEF Ledger

\* Unless a group waits for its commit, the ledger is about the memory itself.
LEMMA LedgerCalm ==
  ASSUME Base, Calm, Ledger
  PROVE  Exact(mem, todo, op, free)
BY CalmAfter DEF Ledger

\* What a step has to establish for the ledger.
LEMMA LedgerOn ==
  ASSUME NEW o, NEW st, todo' = st, op' = IF st = <<>> THEN Idle ELSE o, log' \in Seq(Quiet),
         IsMemory(mem'), Exact(mem', st, o, free'), st = <<>> => o.got = <<>> /\ o.gone = {}
  PROVE  Ledger'
<1>1. Apply(mem', log') = mem'
  BY QuietKeeps
<1> QED  BY <1>1, LedgerWent

\* What a step that records a group has to establish for the ledger.
LEMMA LedgerRecorded ==
  ASSUME Base, Calm, NEW g \in Seq(Entry), NEW o, NEW st \in Seq(Stages), Record(g, o, st),
         IsMemory(mem'), NEW m2, m2 = Apply(mem', g), Exact(m2, <<"commit">> \o st, o, free')
  PROVE  Ledger'
<1>1. log' = log \o g /\ todo' = <<"commit">> \o st /\ op' = o
  <2>1. Len(<<"commit">> \o st) # 0 /\ <<"commit">> \o st # <<>>
    BY ElementsPut DEF Stages
  <2> QED  BY <2>1 DEF Record, Go
<1>2. log \in Seq(Quiet)
  BY CalmAfter
<1>3. Apply(mem', log') = m2
  BY <1>1, <1>2, AfterQuiet
<1>4. <<"commit">> \o st # <<>>
  BY ElementsPut DEF Stages
<1> QED  BY <1>1, <1>3, <1>4, LedgerWent

\* doUpdate keeps the ledger.
LEMMA CommitLedger == ASSUME Base, Ledger, Commit PROVE Ledger'
<1> DEFINE R == Elements(Tail(todo))
<1>1. At("commit") /\ mem' = After /\ log' = <<>> /\ Go(op, Tail(todo)) /\ free' = free
  BY DEF Commit, After
<1>2. /\ Script(Tail(todo)) /\ Elements(todo) = {"commit"} \cup R /\ todo[1] = "commit"
      /\ (Len(Tail(todo)) # 0 => Tail(todo)[1] # "copied")
  BY <1>1, AtStage
<1>3. Sound(After, {"commit"} \cup R, op, free) /\ Exact(After, todo, op, free) /\ op \in Op
  BY <1>2 DEF Base, Ledger
<1>4. Behind(Elements(todo), op) = Behind(R, op) /\ Torso(Elements(todo), op) = Torso(R, op)
  BY <1>2 DEF Behind, Torso, Filling
<1>5. Held(After, Elements(todo), op, free) = Held(After, R, op, free)
  BY <1>2 DEF Held, Loose
<1>6. Valued(After, R, op)
  BY <1>2, <1>3 DEF Exact, Valued, Filling
<1>7. Synching(After, Tail(todo), op) /\ Planned(R, op)
  <2>1. Synching(After, todo, op) /\ Planned({"commit"} \cup R, op)
    BY <1>2, <1>3 DEF Exact
  <2>2. Len(Tail(todo)) # 0 => Elements(Tail(Tail(todo))) \subseteq R
    <3>1. Script(Tail(todo))
      BY <1>2
    <3> QED  BY <3>1, ScriptTail
  <2>3. Len(Tail(todo)) = 0 => R = {}
    <3>1. Tail(todo) \in Seq(Stages)
      BY <1>2 DEF Script
    <3> QED  BY <3>1, NoneIn, NoScript
  <2>4. Planned(R, op)
    BY <2>1 DEF Planned, Filling
  <2>5. Synching(After, Tail(todo), op)
    BY <1>2, <2>1, <2>2, <2>3 DEF Synching
  <2> QED  BY <2>4, <2>5
<1>8. Exact(After, Tail(todo), op, free)
  BY <1>3, <1>4, <1>5, <1>6, <1>7 DEF Exact
<1>9. Tail(todo) = <<>> => op.got = <<>> /\ op.gone = {}
  <2>1. SUFFICES ASSUME Tail(todo) = <<>> PROVE op.got = <<>> /\ op.gone = {}
    OBVIOUS
  <2>2. R = {}
    BY <2>1, NoScript
  <2>3. op.gone = {} /\ Len(op.got) = 0
    BY <1>3, <2>2 DEF Sound, Apart
  <2> QED  BY <1>3, <2>3, NoneIn DEF Op
<1>10. IsMemory(mem')
  BY <1>1, <1>3 DEF Sound, Shape
<1>11. log' \in Seq(Quiet) /\ todo' = Tail(todo) /\ op' = IF Tail(todo) = <<>> THEN Idle ELSE op
  BY <1>1 DEF Go
<1> QED  BY <1>1, <1>8, <1>9, <1>10, <1>11, LedgerOn

\* Without a synchronising stage there is nothing to say of it.
LEMMA NoSynching ==
  ASSUME NEW m, NEW td, NEW o, Elements(td) \cap {"synced", "resynced"} = {}
  PROVE  Synching(m, td, o)
BY DEF Synching

\* The dirty blocks and the blocks with a key only are finitely many.
LEMMA TallySets ==
  ASSUME NEW m, Shape(m)
  PROVE  /\ IsFiniteSet({u \in BlocksOf(m) : m.dirty[u]})
         /\ IsFiniteSet({u \in BlocksOf(m) : m.onlyKey[u]})
<1>1. IsFiniteSet(BlocksOf(m))
  BY BlockUnits DEF Shape
<1>2. {u \in BlocksOf(m) : m.dirty[u]} \subseteq BlocksOf(m)
  OBVIOUS
<1>3. {u \in BlocksOf(m) : m.onlyKey[u]} \subseteq BlocksOf(m)
  OBVIOUS
<1> QED  BY <1>1, <1>2, <1>3, FS_Subset

\* The end of the dirty chain in the list.
LEMMA DirtyEnd ==
  ASSUME NEW m, Shape(m)
  PROVE  /\ m.head.dirtyTail \in BlocksOf(m) \cup {0} /\ 0 \notin BlocksOf(m)
         /\ Upto(SetOf(m), 0) = {} /\ SetOf(m) \in Seq(Units) /\ Once(SetOf(m))
         /\ Back(SetOf(m), m.setPrev) /\ BlocksOf(m) = Elements(SetOf(m))
<1>1. m.head.dirtyTail \in BlocksOf(m) \cup {0}
  BY DEF Shape, Cursors
<1>2. 0 \notin BlocksOf(m)
  BY BlockUnits DEF Shape
<1>3. SetOf(m) \in Seq(Units) /\ Once(SetOf(m)) /\ Back(SetOf(m), m.setPrev)
  BY DEF Shape, SetFits, Listed, Forth
<1>4. Upto(SetOf(m), 0) = {}
  BY <1>2, <1>3, UptoNone DEF BlocksOf
<1> QED  BY <1>1, <1>2, <1>3, <1>4 DEF BlocksOf

\* Block::erase takes the block out of the counts it is in.
LEMMA ErasedTally ==
  ASSUME NEW m, NEW m2, Shape(m), NEW u \in BlocksOf(m), Erases(m, m2, u),
         BlocksOf(m2) = BlocksOf(m) \ {u}, Tallied(m)
  PROVE  Tallied(m2)
<1> DEFINE D == {x \in BlocksOf(m) : m.dirty[x]}
           K == {x \in BlocksOf(m) : m.onlyKey[x]}
<1>1. IsFiniteSet(D) /\ IsFiniteSet(K)
  BY TallySets
<1>2. /\ {x \in BlocksOf(m2) : m2.dirty[x]} = D \ {u}
      /\ {x \in BlocksOf(m2) : m2.onlyKey[x]} = K \ {u}
  BY DEF Erases
<1>3. (u \in D <=> m.dirty[u]) /\ (u \in K <=> m.onlyKey[u])
  OBVIOUS
<1>4. m.head.dirtyCount = Cardinality(D) /\ m.head.onlyKeyCount = Cardinality(K)
  BY DEF Tallied
<1>5. /\ m2.head.dirtyCount = m.head.dirtyCount - IF m.dirty[u] THEN 1 ELSE 0
      /\ m2.head.onlyKeyCount = m.head.onlyKeyCount - IF m.onlyKey[u] THEN 1 ELSE 0
  BY DEF Erases
<1> HIDE DEF D, K
<1>6. m2.head.dirtyCount = Cardinality(D \ {u})
  <2>1. Cardinality(D \ {u}) = IF u \in D THEN Cardinality(D) - 1 ELSE Cardinality(D)
    BY <1>1, FS_RemoveElement
  <2>2. Cardinality(D) \in Nat
    BY <1>1, FS_CardinalityType
  <2> QED  BY <1>3, <1>4, <1>5, <2>1, <2>2
<1>7. m2.head.onlyKeyCount = Cardinality(K \ {u})
  <2>1. Cardinality(K \ {u}) = IF u \in K THEN Cardinality(K) - 1 ELSE Cardinality(K)
    BY <1>1, FS_RemoveElement
  <2>2. Cardinality(K) \in Nat
    BY <1>1, FS_CardinalityType
  <2> QED  BY <1>3, <1>4, <1>5, <2>1, <2>2
<1> QED  BY <1>2, <1>6, <1>7 DEF Tallied

\* Block::erase keeps what the ledger says of the other blocks.
LEMMA ErasedMarks ==
  ASSUME NEW m, NEW m2, Shape(m), NEW u \in BlocksOf(m), Erases(m, m2, u), IsMemory(m2)
  PROVE  /\ Tallied(m) => Tallied(m2)
         /\ Bare(m) => Bare(m2)
         /\ \A S : Reached(m, S) => Reached(m2, S \ {u})
         /\ \A S : Whole(m, S) => Whole(m2, S \ {u})
<1>1. /\ BlocksOf(m2) = BlocksOf(m) \ {u} /\ Shape(m2)
      /\ \A c \in BlocksOf(m) :
           Upto(SetOf(m2), IF c = u THEN m.setPrev[u] ELSE c) = Upto(SetOf(m), c) \ {u}
  BY EraseShape
<1>2. Tallied(m) => Tallied(m2)
  BY <1>1, ErasedTally
<1>3. m2.dirty = m.dirty /\ m2.onlyKey = m.onlyKey /\ m2.data = m.data
      /\ m2.head.dirtyTail = IF m.head.dirtyTail = u THEN m.setPrev[u] ELSE m.head.dirtyTail
  BY DEF Erases
<1>4. Bare(m) => Bare(m2)
  BY <1>1, <1>3 DEF Bare
<1>5. ASSUME NEW S, Whole(m, S) PROVE Whole(m2, S \ {u})
  BY <1>1, <1>3, <1>5 DEF Whole
<1>6. Upto(SetOf(m), m.head.dirtyTail) \ {u} \subseteq Upto(SetOf(m2), m2.head.dirtyTail)
  <2>1. CASE m.head.dirtyTail \in BlocksOf(m)
    BY <2>1, <1>1, <1>3
  <2>2. CASE m.head.dirtyTail = 0
    BY <2>2, DirtyEnd
  <2> QED  BY <2>1, <2>2, DirtyEnd
<1>7. ASSUME NEW S, Reached(m, S) PROVE Reached(m2, S \ {u})
  BY <1>1, <1>3, <1>6, <1>7 DEF Reached
<1> QED  BY <1>2, <1>4, <1>5, <1>7

\* Releasing the units of an erased block keeps the ledger.
LEMMA FreeLedger == ASSUME Base, Ledger, Free PROVE Ledger'
<1> DEFINE R == Elements(Tail(todo))
           o == [op EXCEPT !.gone = {}]
<1>1. /\ At("free") /\ free' = free \cup op.gone /\ Go(o, Tail(todo)) /\ log' = log
  BY DEF Free
<1>2. /\ Elements(todo) = {"free"} \cup R /\ R \subseteq Later("free") /\ Calm
  BY <1>1, AtStage
<1>3. /\ log \in Seq(Quiet) /\ Sound(mem, {"free"} \cup R, op, free) /\ Shape(mem) /\ IsMemory(mem)
      /\ Exact(mem, todo, op, free)
  BY <1>2, CalmAfter, LedgerCalm
<1>4. op \in Op
  BY DEF Base
<1>5. /\ o.gone = {} /\ o.got = op.got /\ o.b = op.b /\ o.new = op.new /\ o.only = op.only
      /\ o.dirty = op.dirty /\ o.got \in Seq(Units)
  BY <1>4 DEF Op
<1>6. todo' = Tail(todo) /\ op' = IF Tail(todo) = <<>> THEN Idle ELSE o
  BY <1>1 DEF Go
<1> HIDE DEF o
<1>7. Owned(mem) \cap op.gone = {}
  BY <1>3 DEF Sound, Apart
<1>8. Stays(mem, mem') /\ SameChunks(mem, mem') /\ Released(mem, mem', op.gone)
  BY <1>3, <1>7, FreeEffect, ReleasedStays
<1>9. /\ Shape(mem') /\ BlocksOf(mem') = BlocksOf(mem) /\ SetOf(mem') = SetOf(mem)
      /\ Owned(mem') = Owned(mem)
  BY <1>3, <1>8, ShapeStays
<1>10. SameMarks(mem, mem') /\ SameReach(mem, mem') /\ SameData(mem, mem')
  <2>1. BlocksOf(mem) \subseteq Units \ op.gone
    BY <1>3, <1>7, OwnUnits DEF Shape
  <2>2. "setPrev" \in UnitLinks
    BY DEF UnitLinks
  <2> QED  BY <2>1, <2>2, <1>8, <1>9 DEF Released, SameMarks, SameReach, SameData
<1>11. R \subseteq {"evict", "alloc", "grab", "fit", "write", "dirty", "rset", "erase", "recover"}
  BY <1>2, LaterIs
<1>12. Elements(todo) \cap {"dirty", "synced", "resynced"} # {} /\ "alloc" \notin Elements(todo)
         => op.b \in BlocksOf(mem)
  BY <1>2, <1>3, <1>11 DEF Sound, Placed, Working
<1>13. "alloc" \in Elements(todo) => Elements(todo) \cap {"synced", "resynced"} = {}
  BY <1>2, <1>11
<1>14. Exact(mem', todo, op, free)
  BY <1>3, <1>9, <1>10, <1>12, <1>13, ExactKept
<1>15. /\ Behind(R, o) = Behind(Elements(todo), op) /\ Torso(R, o) = Torso(Elements(todo), op)
  BY <1>2, <1>5 DEF Behind, Torso, Filling
<1>16. Held(mem', R, o, free') = Held(mem', Elements(todo), op, free)
  BY <1>1, <1>2, <1>5 DEF Held, Loose
<1>17. Valued(mem', R, o)
  BY <1>2, <1>5, <1>14 DEF Exact, Valued, Filling
<1>18. Synching(mem', Tail(todo), o) /\ Planned(R, o)
  BY <1>2, <1>5, <1>11, <1>14, NoSynching DEF Exact, Planned, Filling
<1>19. Exact(mem', Tail(todo), o, free')
  BY <1>14, <1>15, <1>16, <1>17, <1>18 DEF Exact
<1>20. Tail(todo) = <<>> => o.got = <<>> /\ o.gone = {}
  <2>1. SUFFICES ASSUME Tail(todo) = <<>> PROVE o.got = <<>>
    BY <1>5
  <2>2. R = {}
    BY <2>1, NoScript
  <2>3. Len(op.got) = 0
    BY <1>3, <2>2 DEF Sound, Apart
  <2> QED  BY <1>5, <2>3, NoneIn
<1> QED  BY <1>1, <1>3, <1>6, <1>9, <1>19, <1>20, LedgerOn DEF Shape

\* What is left for the ledger when a block was erased.
LEMMA ErasedLedger ==
  ASSUME NEW td, Exact(mem, td, op, free), Shape(mem), "free" \notin Elements(td), op.gone = {},
         NEW u \in BlocksOf(mem), NEW m2, Erases(mem, m2, u), IsMemory(m2), NEW o,
         o.gone = Own(mem, u), o.got = op.got, NEW st,
         "join" \in Elements(td) <=> "join" \in Elements(st),
         Behind(Elements(td), op) \ {u} \subseteq Behind(Elements(st), o),
         Torso(Elements(td), op) \ {u} \subseteq Torso(Elements(st), o),
         Elements(st) \cap {"synced", "resynced"} = {}, Valued(m2, Elements(st), o), Planned(Elements(st), o)
  PROVE  Exact(m2, st, o, free)
<1>1. /\ Tallied(m2) /\ Bare(m2) /\ Reached(m2, Behind(Elements(td), op) \ {u})
      /\ Whole(m2, Torso(Elements(td), op) \ {u})
  BY ErasedMarks DEF Exact
<1>2. Reached(m2, Behind(Elements(st), o)) /\ Whole(m2, Torso(Elements(st), o))
  BY <1>1 DEF Reached, Whole
<1>3. Owned(m2) = Owned(mem) \ Own(mem, u)
  BY EraseShape
<1>4. Units \subseteq Held(m2, Elements(st), o, free)
  BY <1>3 DEF Held, Loose, Exact
<1> QED  BY <1>1, <1>2, <1>4, NoSynching DEF Exact

\* erase of a block keeps the ledger.
LEMMA EraseLedger == ASSUME Base, Ledger, Erase PROVE Ledger'
<1> DEFINE R == Elements(Tail(todo))
           u == op.b
           o == [op EXCEPT !.gone = Own(mem, u)]
           st == <<"free">> \o Tail(todo)
           g == UnlinkBlock(u)
<1>1. At("erase") /\ Record(g, o, st) /\ mem' = mem /\ free' = free
  BY Reading DEF Erase, Own
<1>2. /\ Script(Tail(todo)) /\ Elements(todo) = {"erase"} \cup R /\ R \subseteq Later("erase")
      /\ Calm
  BY <1>1, AtStage
<1>3. /\ Sound(mem, {"erase"} \cup R, op, free) /\ Shape(mem) /\ IsMemory(mem)
      /\ Exact(mem, todo, op, free)
  BY <1>2, CalmAfter, LedgerCalm
<1>4. op \in Op
  BY DEF Base
<1>5. R \subseteq {"recover"}
  BY <1>2, LaterIs
<1>6. u \in BlocksOf(mem)
  <2>1. "alloc" \notin {"erase"} \cup R /\ ({"erase"} \cup R) \cap Working # {}
    BY <1>5 DEF Working
  <2> QED  BY <1>3, <2>1 DEF Sound, Placed
<1>7. o.got = op.got /\ o.gone = Own(mem, u) /\ o.b = op.b
  BY <1>4 DEF Op
<1>8. Script(st) /\ Elements(st) = {"free"} \cup R
  <2>1. "free" \in Stages /\ R \subseteq Later("free") /\ "free" # "copied"
    BY <1>5, LaterIs DEF Stages
  <2> QED  BY <1>2, <2>1, ScriptMore
<1>9. g \in Seq(Entry) /\ Erases(mem, Apply(mem, g), u) /\ IsMemory(Apply(mem, g))
  BY <1>3, <1>6, EraseEffect
<1> DEFINE ts == <<"commit">> \o st
           m2 == Apply(mem, g)
<1>10. st \in Seq(Stages) /\ Elements(ts) = {"commit", "free"} \cup R
  <2>1. st \in Seq(Stages) /\ "commit" \in Stages
    BY <1>8 DEF Script, Stages
  <2> HIDE DEF st
  <2> QED  BY <1>8, <2>1, ElementsPut
<1> HIDE DEF o, st, g, ts, u, R
<1>11. "free" \notin Elements(todo) /\ op.gone = {}
  <2>1. "free" \notin {"erase"} \cup R
    BY <1>5
  <2> QED  BY <1>2, <1>3, <2>1 DEF Sound, Apart
<1>12. /\ "join" \notin Elements(todo) /\ "join" \notin Elements(ts)
       /\ Elements(ts) \cap {"dirty", "synced", "resynced"} = {}
  BY <1>2, <1>5, <1>10
<1>13. /\ Behind(Elements(todo), op) \subseteq {u} /\ Torso(Elements(todo), op) \subseteq {u}
  BY DEF Behind, Torso, u
<1>14. Valued(m2, Elements(ts), o) /\ Planned(Elements(ts), o)
  BY <1>5, <1>10, <1>12, Unplaced DEF Planned, Filling
<1>15. Exact(m2, ts, o, free)
  BY <1>3, <1>6, <1>7, <1>9, <1>11, <1>12, <1>13, <1>14, ErasedLedger
<1> QED  BY <1>1, <1>2, <1>3, <1>9, <1>10, <1>15, LedgerRecorded DEF ts

\* A stage that finds no memory and gives up keeps the ledger.
LEMMA NoMemoryLedger ==
  ASSUME Base, Ledger, NEW s \in {"alloc", "grab", "evict"}, At(s), NoMemory,
         mem' = mem, free' = free, log' = log
  PROVE  Ledger'
<1> DEFINE R == Elements(Tail(todo))
           A == {s} \cup R
           o == [op EXCEPT !.gone = Elements(op.got), !.got = <<>>]
           c == op.new /\ op.b # 0
           last == When(c, <<"erase">>)
           st == <<"free">> \o last
<1>1. Go(o, st)
  BY DEF NoMemory
<1>2. Elements(todo) = A /\ R \subseteq Later(s) /\ Calm
  BY AtStage
<1>3. /\ log \in Seq(Quiet) /\ Sound(mem, A, op, free) /\ Shape(mem) /\ IsMemory(mem)
      /\ Exact(mem, todo, op, free)
  BY <1>2, CalmAfter, LedgerCalm
<1>4. op \in Op
  BY DEF Base
<1>5. A \subseteq {"alloc", "grab", "evict", "fit", "dirty", "rset"}
  BY <1>2, LaterIs
<1>6. o.gone = Elements(op.got) /\ o.got = <<>> /\ o.b = op.b /\ o.new = op.new
  <2>1. Elements(op.got) \subseteq Units
    BY <1>4, InElements DEF Op
  <2>2. <<>> \in Seq(Units)
    OBVIOUS
  <2>3. \A G \in SUBSET Units, e \in Seq(Units) :
          LET p == [op EXCEPT !.gone = G, !.got = e]
          IN  p.gone = G /\ p.got = e /\ p.b = op.b /\ p.new = op.new
    BY <1>4 DEF Op
  <2> QED  BY <2>1, <2>2, <2>3
<1>7. /\ Script(last) /\ Elements(last) = IF c THEN {"erase"} ELSE {}
  <2>1. CASE c
    <3>1. last = <<"erase">>
      BY <2>1 DEF When
    <3>2. "erase" \in Stages \ {"copied"}
      BY DEF Stages
    <3> QED  BY <2>1, <3>1, <3>2, OneStage
  <2>2. CASE ~c
    <3>1. last = <<>>
      BY <2>2 DEF When
    <3> QED  BY <2>2, <3>1, NoScript
  <2> QED  BY <2>1, <2>2
<1> HIDE DEF last, o
<1>8. Elements(st) = {"free"} \cup Elements(last) /\ Len(st) # 0
  <2>1. "free" \in Stages /\ "free" # "copied" /\ Elements(last) \subseteq Later("free")
    BY <1>7, LaterIs DEF Stages
  <2> QED  BY <1>7, <2>1, ScriptMore
<1>9. st # <<>>
  BY <1>8
<1> HIDE DEF st, c
<1>10. Elements(st) = {"free"} \cup IF c THEN {"erase"} ELSE {}
  BY <1>7, <1>8
<1>11. /\ Loose(A, op) = Elements(op.got) /\ op.gone = {}
  <2>1. Len(op.got) = 0 => Elements(op.got) = {}
    BY <1>4, NoneIn, NoScript DEF Op
  <2> QED  BY <1>3, <1>5 DEF Loose, Sound, Apart
<1>12. Units \subseteq Held(mem, Elements(st), o, free)
  <2>1. Units \subseteq Held(mem, A, op, free)
    BY <1>2, <1>3 DEF Exact
  <2> QED  BY <2>1, <1>6, <1>11 DEF Held
<1>13. 0 \notin BlocksOf(mem)
  BY <1>3, DirtyEnd
<1>14. ~c /\ op.b # 0 => ~op.new /\ "grab" \in A
  <2>1. "alloc" \in A => op.b = 0
    BY <1>3 DEF Sound, Placed
  <2>2. "evict" \in A => A \cap {"alloc", "grab"} # {}
    BY <1>2, <1>3 DEF Exact, Planned
  <2> QED  BY <2>1, <2>2 DEF c
<1>15. /\ Behind(A, op) \ {0} \subseteq Behind(Elements(st), o)
       /\ Torso(A, op) \ {0} \subseteq Torso(Elements(st), o)
  <2>1. CASE c
    BY <2>1, <1>6, <1>10 DEF Behind, Torso
  <2>2. CASE op.b = 0
    BY <2>2 DEF Behind, Torso
  <2>3. CASE ~c /\ op.b # 0
    <3>1. A \cap Filling # {} /\ ~op.new /\ A \cap {"write", "copied", "erase", "resynced"} = {}
      BY <2>3, <1>5, <1>14 DEF Filling
    <3> HIDE DEF A
    <3>2. Behind(A, op) = {} /\ Torso(A, op) = {}
      BY <3>1 DEF Behind, Torso
    <3> QED  BY <3>2
  <2> QED  BY <2>1, <2>2, <2>3
<1>16. Reached(mem, Behind(Elements(st), o)) /\ Whole(mem, Torso(Elements(st), o))
  BY <1>2, <1>3, <1>13, <1>15 DEF Exact, Reached, Whole
<1>17. /\ Elements(st) \cap {"dirty", "synced", "resynced"} = {} /\ Planned(Elements(st), o)
  BY <1>10 DEF Planned, Filling
<1>18. Exact(mem, st, o, free)
  BY <1>3, <1>12, <1>16, <1>17, Unplaced, NoSynching DEF Exact
<1> QED  BY <1>1, <1>3, <1>9, <1>18, LedgerOn DEF Go

\* A stage that finds no memory and calls for evictions keeps the ledger.
LEMMA EvictionLedger ==
  ASSUME Base, Ledger, NEW s \in {"alloc", "grab"}, At(s),
         Go([op EXCEPT !.left = EraseCount], <<"evict">> \o todo),
         mem' = mem, free' = free, log' = log
  PROVE  Ledger'
<1> DEFINE A == Elements(todo)
           o == [op EXCEPT !.left = EraseCount]
           st == <<"evict">> \o todo
<1>1. /\ A = {s} \cup Elements(Tail(todo)) /\ Elements(Tail(todo)) \subseteq Later(s) /\ Calm
  BY AtStage
<1>2. A \subseteq {"alloc", "grab", "fit", "dirty", "rset"} /\ s \in A
  BY <1>1, LaterIs
<1>3. /\ log \in Seq(Quiet) /\ Shape(mem) /\ IsMemory(mem) /\ Exact(mem, todo, op, free)
  BY <1>1, CalmAfter, LedgerCalm
<1>4. op \in Op /\ Script(todo)
  BY DEF Base
<1>5. /\ o.got = op.got /\ o.gone = op.gone /\ o.b = op.b /\ o.new = op.new /\ o.only = op.only
  BY <1>4 DEF Op
<1> HIDE DEF o
<1>6. Elements(st) = {"evict"} \cup A /\ Len(st) # 0
  <2>1. "evict" \in Stages /\ "evict" # "copied" /\ Elements(todo) \subseteq Later("evict")
    BY <1>2, LaterIs DEF Stages
  <2> QED  BY <1>4, <2>1, ScriptMore
<1>7. st # <<>> /\ todo' = st /\ op' = IF st = <<>> THEN Idle ELSE o
  BY <1>6 DEF Go, o
<1> HIDE DEF st
<1>8. /\ Behind(Elements(st), o) = Behind(A, op) /\ Torso(Elements(st), o) = Torso(A, op)
  BY <1>5, <1>6 DEF Behind, Torso, Filling
<1>9. Held(mem, Elements(st), o, free) = Held(mem, A, op, free)
  BY <1>5, <1>6 DEF Held, Loose
<1>10. Valued(mem, Elements(st), o) /\ Planned(Elements(st), o)
  BY <1>2, <1>3, <1>5, <1>6 DEF Exact, Valued, Planned, Filling
<1>11. Elements(st) \cap {"synced", "resynced"} = {}
  BY <1>2, <1>6
<1>12. Exact(mem, st, o, free)
  BY <1>3, <1>8, <1>9, <1>10, <1>11, NoSynching DEF Exact
<1> QED  BY <1>3, <1>7, <1>12, LedgerOn

\* eraseExcept keeps the ledger.
LEMMA EvictLedger == ASSUME Base, Ledger, NEW torn, Evict(torn) PROVE Ledger'
<1> DEFINE A == Elements(todo)
           v == Victim
           R == Elements(Tail(todo))
<1>1. At("evict") /\ mem' = mem /\ free' = free
  BY DEF Evict
<1>2. /\ A = {"evict"} \cup R /\ R \subseteq Later("evict") /\ Calm
  BY <1>1, AtStage
<1>3. A \subseteq {"evict", "alloc", "grab", "fit", "dirty", "rset"} /\ "evict" \notin R
  BY <1>2, LaterIs
<1>4. /\ log \in Seq(Quiet) /\ Sound(mem, A, op, free)
      /\ Shape(mem) /\ IsMemory(mem) /\ Exact(mem, todo, op, free)
  BY <1>2, CalmAfter, LedgerCalm
<1>5. op \in Op /\ Script(todo)
  BY DEF Base
<1>6. CASE op.left = 0 \/ v = 0
  <2>1. log' = log
    BY <1>6 DEF Evict
  <2>2. CASE op.left = EraseCount
    <3>1. NoMemory
      BY <1>6, <2>2 DEF Evict
    <3> QED  BY <1>1, <2>1, <3>1, NoMemoryLedger
  <2>3. CASE op.left # EraseCount
    <3>1. Go(op, Tail(todo))
      BY <1>6, <2>3 DEF Evict
    <3>2. Behind(R, op) = Behind(A, op) /\ Torso(R, op) = Torso(A, op)
      BY <1>2 DEF Behind, Torso, Filling
    <3>3. Held(mem, R, op, free) = Held(mem, A, op, free)
      BY <1>2 DEF Held, Loose
    <3>4. Valued(mem, R, op) /\ Planned(R, op)
      BY <1>2, <1>3, <1>4 DEF Exact, Valued, Planned, Filling
    <3>5. R \cap {"synced", "resynced"} = {}
      BY <1>2, <1>3
    <3>6. Exact(mem, Tail(todo), op, free)
      BY <1>4, <3>2, <3>3, <3>4, <3>5, NoSynching DEF Exact
    <3>7. Tail(todo) # <<>>
      <4>1. R # {}
        BY <1>2, <1>3, <1>4 DEF Exact, Planned
      <4> QED  BY <4>1, NoScript
    <3> QED  BY <1>1, <1>4, <2>1, <3>1, <3>6, <3>7, LedgerOn DEF Go
  <2> QED  BY <2>2, <2>3
<1>7. CASE ~(op.left = 0 \/ v = 0)
  <2> DEFINE w == IF GetBlockData(v, torn) = "ok" THEN op.left - 1 ELSE op.left
             o == [op EXCEPT !.gone = Own(mem, v), !.left = w]
             st == <<"free">> \o todo
             g == UnlinkBlock(v)
  <2>1. Record(g, o, st)
    BY <1>7, Reading DEF Evict, Own
  <2>2. v \in BlocksOf(mem) /\ v # op.b
    BY <1>4, <1>7, VictimIs
  <2> HIDE DEF v
  <2>3. /\ o.got = op.got /\ o.gone = Own(mem, v) /\ o.b = op.b /\ o.new = op.new /\ o.only = op.only
    BY <1>5 DEF Op
  <2>4. Script(st) /\ Elements(st) = {"free"} \cup A
    <3>1. "free" \in Stages /\ "free" # "copied" /\ Elements(todo) \subseteq Later("free")
      BY <1>3, LaterIs DEF Stages
    <3> QED  BY <1>5, <3>1, ScriptMore
  <2>5. g \in Seq(Entry) /\ Erases(mem, Apply(mem, g), v) /\ IsMemory(Apply(mem, g))
    BY <1>4, <2>2, EraseEffect
  <2> DEFINE ts == <<"commit">> \o st
             m2 == Apply(mem, g)
  <2>6. st \in Seq(Stages) /\ Elements(ts) = {"commit", "free"} \cup A
    <3>1. st \in Seq(Stages) /\ "commit" \in Stages
      BY <2>4 DEF Script, Stages
    <3> HIDE DEF st
    <3> QED  BY <2>4, <3>1, ElementsPut
  <2> HIDE DEF o, st, g, ts, A
  <2>7. "free" \notin A /\ op.gone = {} /\ "join" \notin A /\ "join" \notin Elements(ts)
    BY <1>3, <1>4, <2>6 DEF Sound, Apart
  <2>8. /\ Behind(Elements(ts), o) = Behind(A, op) /\ Torso(Elements(ts), o) = Torso(A, op)
    BY <2>3, <2>6 DEF Behind, Torso, Filling
  <2>9. Valued(m2, Elements(ts), o) /\ Planned(Elements(ts), o)
    <3>1. m2.onlyKey = mem.onlyKey
      BY <2>5 DEF Erases
    <3>2. Valued(mem, A, op) /\ Planned(A, op)
      BY <1>4 DEF Exact, A
    <3> QED  BY <2>3, <2>6, <3>1, <3>2 DEF Valued, Planned, Filling
  <2>10. Elements(ts) \cap {"synced", "resynced"} = {}
    BY <1>3, <2>6
  <2>11. Exact(m2, ts, o, free)
    BY <1>4, <2>2, <2>3, <2>5, <2>7, <2>8, <2>9, <2>10, ErasedLedger DEF A
  <2> QED  BY <1>1, <1>2, <1>4, <2>1, <2>5, <2>6, <2>11, LedgerRecorded DEF ts
<1> QED  BY <1>6, <1>7

\* Block::makeNew keeps what the ledger says of the other blocks.
LEMMA LinkedMarks ==
  ASSUME NEW m, NEW m2, Shape(m), NEW u \in Units, u \notin Owned(m), NEW i \in Buckets,
         Links(m, m2, u, i), IsMemory(m2)
  PROVE  /\ Tallied(m) => Tallied(m2)
         /\ Bare(m) => Bare(m2)
         /\ \A S : Reached(m, S) => Reached(m2, S \cup {u})
         /\ \A S : Whole(m, S) => Whole(m2, S \cup {u})
<1>1. /\ BlocksOf(m2) = BlocksOf(m) \cup {u} /\ u \notin BlocksOf(m)
      /\ \A c \in BlocksOf(m) : Upto(SetOf(m2), c) = Upto(SetOf(m), c) \cup {u}
  BY LinkShape
<1>2. BlocksOf(m) \subseteq Units \ {u}
  BY <1>1, BlockUnits DEF Shape
<1>3. /\ m2.dirty[u] = TRUE /\ m2.onlyKey[u] = FALSE
      /\ \A x \in BlocksOf(m) :
           m2.data[x] = m.data[x] /\ m2.dirty[x] = m.dirty[x] /\ m2.onlyKey[x] = m.onlyKey[x]
      /\ m2.head.dirtyCount = m.head.dirtyCount + 1 /\ m2.head.onlyKeyCount = m.head.onlyKeyCount
      /\ m2.head.dirtyTail = m.head.dirtyTail
  BY <1>2 DEF Links
<1>4. Tallied(m) => Tallied(m2)
  <2> DEFINE D == {x \in BlocksOf(m) : m.dirty[x]}
             K == {x \in BlocksOf(m) : m.onlyKey[x]}
  <2>1. IsFiniteSet(D)
    BY TallySets
  <2>2. {x \in BlocksOf(m2) : m2.dirty[x]} = D \cup {u} /\ u \notin D
    BY <1>1, <1>3
  <2>3. {x \in BlocksOf(m2) : m2.onlyKey[x]} = K
    BY <1>1, <1>3
  <2>4. Tallied(m) => m.head.dirtyCount = Cardinality(D) /\ m.head.onlyKeyCount = Cardinality(K)
    BY DEF Tallied
  <2> HIDE DEF D, K
  <2>5. Cardinality(D \cup {u}) = Cardinality(D) + 1
    BY <2>1, <2>2, FS_AddElement
  <2> QED  BY <1>3, <2>2, <2>3, <2>4, <2>5 DEF Tallied
<1>5. Bare(m) => Bare(m2)
  BY <1>1, <1>3 DEF Bare
<1>6. ASSUME NEW S, Whole(m, S) PROVE Whole(m2, S \cup {u})
  BY <1>1, <1>3, <1>6 DEF Whole
<1>7. Upto(SetOf(m), m.head.dirtyTail) \subseteq Upto(SetOf(m2), m2.head.dirtyTail)
  BY <1>1, <1>3, DirtyEnd
<1>8. ASSUME NEW S, Reached(m, S) PROVE Reached(m2, S \cup {u})
  BY <1>1, <1>3, <1>7, <1>8 DEF Reached
<1> QED  BY <1>4, <1>5, <1>6, <1>8

\* A new block (allocate, makeNew) keeps the ledger.
LEMMA AllocLedger == ASSUME Base, Ledger, Alloc PROVE Ledger'
<1> DEFINE R == Elements(Tail(todo))
<1>1. At("alloc")
  BY DEF Alloc
<1>2. /\ Elements(todo) = {"alloc"} \cup R /\ R \subseteq Later("alloc") /\ R \subseteq Stages
      /\ Script(Tail(todo)) /\ Calm
  BY <1>1, AtStage
<1>3. R \subseteq {"fit", "dirty", "rset"}
  BY <1>2, LaterIs
<1>4. /\ Sound(mem, {"alloc"} \cup R, op, free) /\ Shape(mem) /\ IsMemory(mem)
      /\ Exact(mem, todo, op, free)
  BY <1>2, CalmAfter, LedgerCalm
<1>5. op \in Op /\ free \subseteq Units /\ Owned(mem) \cap free = {}
  BY DEF Base
<1>6. CASE \E u \in free :
             LET i == HashOf[op.key]
             IN  /\ free' = free \ {u}
                 /\ mem' = [f \in DOMAIN mem |->
                             CASE f \in UnitLinks -> [mem[f] EXCEPT ![u] = 0]
                               [] f = "index"     -> [mem[f] EXCEPT ![u] = i]
                               [] f = "data"      -> [mem[f] EXCEPT ![u] = Empty]
                               [] f = "dirty"     -> [mem[f] EXCEPT ![u] = TRUE]
                               [] f = "onlyKey"   -> [mem[f] EXCEPT ![u] = FALSE]
                               [] OTHER           -> mem[f]]
                 /\ Record(LinkNew(u, i), [op EXCEPT !.b = u], Tail(todo))
  <2> DEFINE i == HashOf[op.key]
  <2>1. PICK u \in free :
          /\ free' = free \ {u}
          /\ mem' = [f \in DOMAIN mem |->
                      CASE f \in UnitLinks -> [mem[f] EXCEPT ![u] = 0]
                        [] f = "index"     -> [mem[f] EXCEPT ![u] = i]
                        [] f = "data"      -> [mem[f] EXCEPT ![u] = Empty]
                        [] f = "dirty"     -> [mem[f] EXCEPT ![u] = TRUE]
                        [] f = "onlyKey"   -> [mem[f] EXCEPT ![u] = FALSE]
                        [] OTHER           -> mem[f]]
          /\ Record(LinkNew(u, i), [op EXCEPT !.b = u], Tail(todo))
    BY <1>6
  <2>2. u \in Units /\ u \notin Owned(mem) /\ i \in Buckets
    <3>1. op.key \in Keys
      BY <1>4 DEF Sound, Placed, Setting
    <3> QED  BY <1>5, <3>1, HashMapAssumption
  <2> DEFINE g == LinkNew(u, i)
             o == [op EXCEPT !.b = u]
             m2 == Apply(mem', g)
  <2>3. Record(g, o, Tail(todo))
    BY <2>1
  <2> HIDE DEF i
  <2>4. Fresh(mem, mem', u, i)
    <3>1. Makes(mem, mem', u, i)
      BY <2>1 DEF Makes
    <3> QED  BY <1>4, <2>2, <3>1, AllocEffect
  <2>5. g \in Seq(Entry) /\ Links(mem, m2, u, i) /\ IsMemory(m2) /\ IsMemory(mem')
    BY <1>4, <2>2, <2>4, LinkEffect DEF Fresh
  <2>6. o.got = op.got /\ o.gone = op.gone /\ o.b = u /\ o.new = op.new /\ o.only = op.only
    BY <1>5 DEF Op
  <2> DEFINE ts == <<"commit">> \o Tail(todo)
  <2>7. Tail(todo) \in Seq(Stages) /\ Elements(ts) = {"commit"} \cup R
    <3>1. Tail(todo) \in Seq(Stages) /\ "commit" \in Stages
      BY <1>2 DEF Script, Stages
    <3> QED  BY <3>1, ElementsPut
  <2> HIDE DEF g, o, ts, R
  <2>8. op.new /\ "fit" \in R /\ "rset" \in R /\ op.b = 0
    <3>1. op.new /\ "fit" \in Elements(todo) /\ "rset" \in Elements(todo)
      BY <1>2, <1>4 DEF Exact, Planned
    <3> QED  BY <1>2, <1>4, <3>1 DEF Sound, Placed
  <2>9. Owned(m2) = Owned(mem) \cup {u}
    BY <1>4, <2>2, <2>5, LinkShape
  <2>10. /\ Tallied(m2) /\ Bare(m2) /\ Reached(m2, Behind(Elements(todo), op) \cup {u})
         /\ Whole(m2, Torso(Elements(todo), op) \cup {u})
    BY <1>4, <2>2, <2>5, LinkedMarks DEF Exact
  <2>11. Behind(Elements(todo), op) \subseteq {0} /\ Torso(Elements(todo), op) \subseteq {0}
    BY <2>8 DEF Behind, Torso
  <2>12. Behind(Elements(ts), o) = {u} /\ Torso(Elements(ts), o) = {u}
    BY <2>6, <2>7, <2>8 DEF Behind, Torso, Filling
  <2>13. 0 \notin BlocksOf(m2)
    <3>1. BlocksOf(m2) = BlocksOf(mem) \cup {u} /\ 0 \notin BlocksOf(mem)
      BY <1>4, <2>2, <2>5, LinkShape, DirtyEnd
    <3> QED  BY <2>2, <3>1, HashMapAssumption
  <2>14. Reached(m2, Behind(Elements(ts), o)) /\ Whole(m2, Torso(Elements(ts), o))
    BY <2>10, <2>11, <2>12, <2>13 DEF Reached, Whole
  <2>15. Units \subseteq Held(m2, Elements(ts), o, free')
    <3>1. Units \subseteq Held(mem, Elements(todo), op, free)
      BY <1>4 DEF Exact
    <3>2. Loose(Elements(ts), o) = Loose(Elements(todo), op)
      BY <1>2, <2>6, <2>7 DEF Loose
    <3>3. free' = free \ {u}
      BY <2>1
    <3> QED  BY <2>6, <2>9, <3>1, <3>2, <3>3 DEF Held
  <2>16. Valued(m2, Elements(ts), o) /\ Planned(Elements(ts), o)
    <3>1. Valued(mem, {"alloc"} \cup R, op) /\ Planned({"alloc"} \cup R, op)
      BY <1>2, <1>4 DEF Exact
    <3>2. Elements(ts) \cap (Filling \cup {"alloc"}) # {}
      BY <2>7, <2>8 DEF Filling
    <3>3. Valued(m2, Elements(ts), o)
      BY <2>6, <2>7, <3>1, <3>2 DEF Valued
    <3>4. Planned(Elements(ts), o)
      BY <1>3, <2>7, <2>8 DEF Planned
    <3> QED  BY <3>3, <3>4
  <2>17. Elements(ts) \cap {"synced", "resynced"} = {}
    BY <1>3, <2>7
  <2>18. Exact(m2, ts, o, free')
    BY <2>10, <2>14, <2>15, <2>16, <2>17, NoSynching DEF Exact
  <2> QED  BY <1>2, <2>3, <2>5, <2>7, <2>18, LedgerRecorded DEF ts
<1>7. CASE /\ free = {}
           /\ IF conf = "off" THEN NoMemory
              ELSE Go([op EXCEPT !.left = EraseCount], <<"evict">> \o todo)
           /\ UNCHANGED <<mem, free, log>>
  <2>1. mem' = mem /\ free' = free /\ log' = log
    BY <1>7
  <2>2. CASE conf = "off"
    BY <1>1, <1>7, <2>1, <2>2, NoMemoryLedger
  <2>3. CASE conf # "off"
    BY <1>1, <1>7, <2>1, <2>3, EvictionLedger
  <2> QED  BY <2>2, <2>3
<1> QED  BY <1>6, <1>7 DEF Alloc

\* A stage in front of a script of stages.
LEMMA StagePut ==
  ASSUME NEW s \in Stages, NEW td \in Seq(Stages)
  PROVE  /\ <<s>> \o td \in Seq(Stages) /\ <<s>> \o td # <<>> /\ Len(<<s>> \o td) # 0
         /\ Elements(<<s>> \o td) = {s} \cup Elements(td)
<1> DEFINE r == <<s>> \o td
<1>1. r \in Seq(Stages) /\ Len(r) = Len(td) + 1 /\ Elements(r) = {s} \cup Elements(td)
  BY ElementsPut
<1>2. Len(td) \in Nat
  OBVIOUS
<1>3. Len(r) # 0
  BY <1>1, <1>2
<1> HIDE DEF r
<1>4. r # <<>>
  BY <1>3
<1> QED  BY <1>1, <1>3, <1>4 DEF r

\* A step that brings a block nearer to the size of its value.
Grows(m, m2, s, R, td, td2, o, o2) ==
    /\ s \in {"fit", "grab", "join"} /\ R \subseteq {"dirty", "rset"} /\ Elements(td) = {s} \cup R
    /\ R \subseteq Elements(td2) /\ Elements(td2) \cap {"write", "grab", "join"} # {}
    /\ Elements(td2) \subseteq {"commit", "free", "write", "grab", "join"} \cup R
    /\ o2.b = o.b /\ o2.new = o.new /\ o2.only = o.only
    /\ SetOf(m2) = SetOf(m) /\ m2.head = m.head
    /\ m2.dirty = m.dirty /\ m2.onlyKey = m.onlyKey
    /\ \A u \in BlocksOf(m) : u \in Torso(Elements(td2), o2) \/ m2.data[u] = m.data[u]

\* What a step that changes the chunks of a block has to establish for the ledger.
LEMMA GrowsLedger ==
  ASSUME NEW m, NEW m2, NEW s, NEW R, NEW td, NEW td2, NEW o, NEW o2, NEW fr, NEW fr2,
         Exact(m, td, o, fr), Grows(m, m2, s, R, td, td2, o, o2),
         Units \subseteq Held(m2, Elements(td2), o2, fr2)
  PROVE  Exact(m2, td2, o2, fr2)
<1> DEFINE A == Elements(td)
           B == Elements(td2)
<1>1. /\ s \in {"fit", "grab", "join"} /\ R \subseteq {"dirty", "rset"} /\ A = {s} \cup R
      /\ R \subseteq B /\ B \cap {"write", "grab", "join"} # {}
      /\ B \subseteq {"commit", "free", "write", "grab", "join"} \cup R
      /\ o2.b = o.b /\ o2.new = o.new /\ o2.only = o.only
  BY DEF Grows
<1>2. BlocksOf(m2) = BlocksOf(m)
  BY DEF Grows, BlocksOf
<1>3. /\ Tallied(m) /\ Bare(m) /\ Reached(m, Behind(A, o)) /\ Whole(m, Torso(A, o))
      /\ Valued(m, A, o) /\ Planned(A, o)
  BY DEF Exact
<1>4. Tallied(m2) /\ Bare(m2)
  BY <1>2, <1>3 DEF Grows, Tallied, Bare
<1> HIDE DEF A, B
<1>5. "rset" \in R
  BY <1>1, <1>3 DEF Planned, Filling
<1>6. Behind(A, o) = Behind(B, o2) /\ Torso(A, o) \subseteq Torso(B, o2)
  <2>1. A \cap Filling # {} /\ B \cap Filling # {} /\ "rset" \in A /\ "rset" \in B
    BY <1>1, <1>5 DEF Filling
  <2>2. /\ "erase" \notin A /\ "resynced" \notin A /\ "erase" \notin B /\ "resynced" \notin B
        /\ A \cap {"write", "copied", "erase"} = {}
    BY <1>1
  <2> QED  BY <1>1, <2>1, <2>2 DEF Behind, Torso
<1>7. Reached(m2, Behind(B, o2)) /\ Whole(m2, Torso(B, o2))
  <2>1. \A u \in BlocksOf(m) : u \in Torso(B, o2) \/ m2.data[u] = m.data[u]
    BY DEF Grows, B
  <2>2. Reached(m2, Behind(B, o2))
    BY <1>2, <1>3, <1>6 DEF Grows, Reached
  <2>3. Whole(m2, Torso(B, o2))
    BY <1>2, <1>3, <1>6, <2>1 DEF Whole
  <2> QED  BY <2>2, <2>3
<1>8. Valued(m2, B, o2)
  <2>1. A \cap (Filling \cup {"alloc"}) # {} /\ B \cap (Filling \cup {"alloc"}) # {}
    BY <1>1 DEF Filling
  <2>2. "dirty" \in B => "dirty" \in A
    BY <1>1
  <2> QED  BY <1>1, <1>3, <2>1, <2>2 DEF Valued
<1>9. Planned(B, o2)
  BY <1>1, <1>5 DEF Planned
<1>10. Synching(m2, td2, o2)
  <2>1. B \cap {"synced", "resynced"} = {}
    BY <1>1
  <2> QED  BY <2>1, NoSynching DEF B
<1> QED  BY <1>4, <1>7, <1>8, <1>9, <1>10 DEF Exact, B

\* Comparing the size of a block with that of the value keeps the ledger.
LEMMA FitLedger == ASSUME Base, Ledger, Fit PROVE Ledger'
<1> DEFINE R == Elements(Tail(todo))
           A == {"fit"} \cup R
           c == ChunksIn(mem, op.b)
           extra == Len(c) - 1
<1>1. At("fit") /\ mem' = mem /\ free' = free
  BY DEF Fit
<1>2. /\ Elements(todo) = A /\ R \subseteq Later("fit")
      /\ Script(Tail(todo)) /\ Calm
  BY <1>1, AtStage
<1>3. R \subseteq {"dirty", "rset"}
  BY <1>2, LaterIs
<1>4. /\ log \in Seq(Quiet) /\ Sound(mem, A, op, free) /\ Shape(mem) /\ IsMemory(mem)
      /\ Exact(mem, todo, op, free)
  BY <1>2, CalmAfter, LedgerCalm
<1>5. op \in Op /\ op.got \in Seq(Units)
  BY DEF Base, Op
<1>6. op.b \in BlocksOf(mem)
  <2>1. A \cap Working # {} /\ "alloc" \notin A
    BY <1>3 DEF Working, Filling
  <2> QED  BY <1>4, <2>1 DEF Sound, Placed
<1>7. /\ c \in Seq(Units) /\ Len(c) \in Nat /\ Len(c) >= 1
      /\ \A i \in 1..Len(c) : c[i] \in Units
      /\ op.b \in Units
  BY <1>4, <1>6, OwnChunks
<1>8. op.need \in Nat
  BY <1>5 DEF Op
<1>9. Elements(op.got) = {} /\ op.gone = {} /\ Loose(A, op) = {}
  <2>1. Apart(mem, A, op, free) /\ "grab" \notin A /\ "join" \notin A /\ "free" \notin A
    BY <1>3, <1>4 DEF Sound
  <2>2. op.gone = {}
    BY <2>1 DEF Apart
  <2> QED  BY <1>5, <2>1, <2>2, NoneLoose
<1>10. Units \subseteq free \cup Owned(mem)
  <2>1. Units \subseteq Held(mem, A, op, free)
    BY <1>2, <1>4 DEF Exact
  <2> QED  BY <1>9, <2>1 DEF Held
<1>11. CASE /\ op.need < extra
            /\ Record(<<<<"chunk", c[op.need + 1], 0>>,
                        <<"data", op.b,
                          IF c[op.need + 1] = op.b THEN Empty
                          ELSE [mem.data[op.b] EXCEPT !.val = "short"]>>>>,
                      [op EXCEPT !.gone = {c[i] : i \in (op.need + 2)..Len(c)}],
                      <<"free", "write">> \o Tail(todo))
  <2> DEFINE k == op.need + 1
             a == c[k]
             d == IF a = op.b THEN Empty ELSE [mem.data[op.b] EXCEPT !.val = "short"]
             g == <<<<"chunk", a, 0>>, <<"data", op.b, d>>>>
             G == Part(c, k + 1, Len(c))
             o == [op EXCEPT !.gone = G]
             st == <<"free">> \o (<<"write">> \o Tail(todo))
             ts == <<"commit">> \o st
             m2 == Apply(mem, g)
  <2>1. k \in 1..Len(c) /\ k + 1 = op.need + 2 /\ k + 1 \in Nat
    BY <1>7, <1>8, <1>11
  <2>2. a \in Units
    BY <1>7, <2>1
  <2>3. Record(g, o, st)
    <3>1. <<"free", "write">> \o Tail(todo) = st
      <4>1. "free" \in Stages /\ "write" \in Stages /\ Tail(todo) \in Seq(Stages)
        BY <1>2 DEF Stages, Script
      <4> QED  BY <4>1, TwoStages
    <3>2. {c[i] : i \in (op.need + 2)..Len(c)} = G
      BY <2>1 DEF Part
    <3> HIDE DEF st, G
    <3> QED  BY <1>11, <3>1, <3>2
  <2>4. d \in Datum /\ (d.key = mem.data[op.b].key \/ d.key = None)
    <3>1. mem.data[op.b] \in Datum
      BY <1>4, <1>7 DEF IsMemory
    <3> QED  BY <3>1 DEF Datum, Empty
  <2>g. g = <<<<"chunk", a, 0>>, <<"data", op.b, d>>>>
    OBVIOUS
  <2> HIDE DEF d, a, k, g
  <2>5. /\ g \in Seq(Entry) /\ Cuts(mem, m2, op.b, a, d)
    BY <1>4, <1>6, <2>g, <2>2, <2>4, CutEffect
  <2>m. m2 = Apply(mem, g)
    OBVIOUS
  <2> HIDE DEF m2
  <2>6. Owned(m2) = Owned(mem) \ G
    <3>1. Owned(mem) \subseteq Units
      BY <1>4, OwnUnits DEF Shape
    <3>2. /\ m2.chunk[c[k]] = 0 /\ Stays(mem, m2)
          /\ \A x \in Owned(mem) \ {c[k]} : m2.chunk[x] = mem.chunk[x]
      BY <2>5, <3>1 DEF a, Cuts
    <3> QED  BY <1>4, <1>6, <2>1, <3>2, CutShape
  <2>7. G \subseteq Units
    <3>1. \A i \in (k + 1)..Len(c) : i \in 1..Len(c)
      BY <1>7, <2>1
    <3> QED  BY <1>7, <3>1 DEF Part
  <2>8. /\ o.gone = G /\ o.got = op.got /\ o.b = op.b /\ o.new = op.new /\ o.only = op.only
    <3> HIDE DEF G
    <3> QED  BY <1>5, <2>7 DEF Op
  <2>9. st \in Seq(Stages) /\ Elements(ts) = {"commit", "free", "write"} \cup R
    <3>1. "commit" \in Stages /\ "free" \in Stages /\ "write" \in Stages /\ Tail(todo) \in Seq(Stages)
      BY <1>2 DEF Stages, Script
    <3>2. <<"write">> \o Tail(todo) \in Seq(Stages) /\ Elements(<<"write">> \o Tail(todo)) = {"write"} \cup R
      BY <3>1, ElementsPut
    <3> DEFINE w == <<"write">> \o Tail(todo)
    <3> HIDE DEF w
    <3>3. st \in Seq(Stages) /\ Elements(st) = {"free", "write"} \cup R
      <4>1. st = <<"free">> \o w /\ w \in Seq(Stages) /\ Elements(w) = {"write"} \cup R
        BY <3>2 DEF w
      <4>2. <<"free">> \o w \in Seq(Stages) /\ Elements(<<"free">> \o w) = {"free"} \cup Elements(w)
        BY <3>1, <4>1, StagePut
      <4> HIDE DEF st
      <4> QED  BY <4>1, <4>2
    <3> HIDE DEF st
    <3>4. Elements(ts) = {"commit"} \cup Elements(st)
      BY <3>1, <3>3, ElementsPut
    <3> QED  BY <3>3, <3>4
  <2> HIDE DEF o, st, ts, G, R
  <2>10. Grows(mem, m2, "fit", R, todo, ts, op, o)
    <3>1. SetOf(m2) = SetOf(mem)
      BY <1>4, <2>5, ListsStay DEF Cuts
    <3>2. m2.head = mem.head /\ m2.dirty = mem.dirty /\ m2.onlyKey = mem.onlyKey
      BY <2>5 DEF Cuts, Fields
    <3>3. Torso(Elements(ts), o) = {op.b}
      BY <2>8, <2>9 DEF Torso
    <3>4. \A u \in BlocksOf(mem) : u \in Torso(Elements(ts), o) \/ m2.data[u] = mem.data[u]
      <4>1. BlocksOf(mem) \subseteq Units
        BY <1>4, BlockUnits DEF Shape
      <4> QED  BY <2>5, <3>3, <4>1 DEF Cuts
    <3> QED  BY <1>2, <1>3, <2>8, <2>9, <3>1, <3>2, <3>4 DEF Grows
  <2>11. Units \subseteq Held(m2, Elements(ts), o, free)
    BY <1>10, <2>6, <2>8 DEF Held
  <2>12. Exact(m2, ts, o, free)
    BY <1>4, <2>10, <2>11, GrowsLedger
  <2> QED  BY <1>1, <1>2, <1>4, <2>m, <2>3, <2>5, <2>9, <2>12, LedgerRecorded DEF ts
<1>12. ASSUME NEW s \in {"write", "grab"}, Go(op, <<s>> \o Tail(todo)), log' = log
       PROVE  Ledger'
  <2> DEFINE st == <<s>> \o Tail(todo)
  <2>1. Elements(st) = {s} \cup R /\ st # <<>>
    <3>1. s \in Stages /\ Tail(todo) \in Seq(Stages)
      BY <1>2 DEF Stages, Script
    <3> QED  BY <3>1, StagePut
  <2>2. todo' = st /\ op' = IF st = <<>> THEN Idle ELSE op
    BY <1>12 DEF Go
  <2> HIDE DEF st, R
  <2>3. Grows(mem, mem, "fit", R, todo, st, op, op)
    BY <1>2, <1>3, <2>1 DEF Grows
  <2>4. Units \subseteq Held(mem, Elements(st), op, free)
    BY <1>10 DEF Held
  <2>5. Exact(mem, st, op, free)
    BY <1>4, <2>3, <2>4, GrowsLedger
  <2> QED  BY <1>1, <1>4, <1>12, <2>1, <2>2, <2>5, LedgerOn
<1>13. CASE op.need = extra /\ Go(op, <<"write">> \o Tail(todo)) /\ UNCHANGED log
  BY <1>12, <1>13
<1>14. CASE op.need > extra /\ Go(op, <<"grab">> \o Tail(todo)) /\ UNCHANGED log
  BY <1>12, <1>14
<1> QED  BY <1>11, <1>13, <1>14, Reading DEF Fit

\* Gathering units for a larger value keeps the ledger.
LEMMA GrabLedger == ASSUME Base, Ledger, Grab PROVE Ledger'
<1> DEFINE R == Elements(Tail(todo))
           A == {"grab"} \cup R
           c == ChunksIn(mem, op.b)
           missing == op.need - (Len(c) - 1)
<1>1. At("grab") /\ mem' = mem
  BY DEF Grab
<1>2. /\ Elements(todo) = A /\ R \subseteq Later("grab") /\ Script(Tail(todo)) /\ Calm
      /\ Len(todo) # 0
  BY <1>1, AtStage
<1>3. R \subseteq {"dirty", "rset"}
  BY <1>2, LaterIs
<1>4. /\ log \in Seq(Quiet) /\ Sound(mem, A, op, free) /\ Shape(mem) /\ IsMemory(mem)
      /\ Exact(mem, todo, op, free)
  BY <1>2, CalmAfter, LedgerCalm
<1>5. op \in Op /\ op.got \in Seq(Units) /\ free \subseteq Units
  BY DEF Base, Op
<1>6. op.b \in BlocksOf(mem) /\ Len(c) <= op.need
  <2>1. A \cap Working # {} /\ "alloc" \notin A
    BY <1>3 DEF Working, Filling
  <2> QED  BY <1>4, <2>1 DEF Sound, Placed
<1>7. /\ Len(c) \in Nat /\ Len(c) >= 1 /\ c[Len(c)] = End(c)
      /\ End(c) \in Own(mem, op.b) /\ Own(mem, op.b) \subseteq Owned(mem) /\ End(c) \in Units
  <2>1. \A i \in 1..Len(c) : c[i] \in Units
    BY <1>4, <1>6, OwnChunks
  <2>2. /\ Len(c) \in Nat /\ Len(c) >= 1 /\ c[Len(c)] = End(c)
        /\ End(c) \in Own(mem, op.b) /\ Own(mem, op.b) \subseteq Owned(mem)
    BY <1>4, <1>6, OwnChunks
  <2>3. Len(c) \in 1..Len(c)
    BY <2>2
  <2> QED  BY <2>1, <2>2, <2>3
<1>8. /\ op.gone = {} /\ Loose(A, op) = Elements(op.got) /\ Once(op.got)
      /\ Owned(mem) \cap Elements(op.got) = {} /\ free \cap Elements(op.got) = {}
  BY <1>3, <1>4 DEF Sound, Apart, Loose
<1>9. Units \subseteq free \cup Elements(op.got) \cup Owned(mem)
  <2>1. Units \subseteq Held(mem, A, op, free)
    BY <1>2, <1>4 DEF Exact
  <2> QED  BY <1>8, <2>1 DEF Held
<1>10. CASE /\ Len(op.got) = missing
            /\ Record(<<<<"chunk", c[Len(c)], op.got[1]>>, <<"chunk", op.got[1], 0>>>>,
                      op, <<"join">> \o Tail(todo))
            /\ UNCHANGED free
  <2> DEFINE a == c[Len(c)]
             v == op.got[1]
             g == <<<<"chunk", a, v>>, <<"chunk", v, 0>>>>
             m2 == Apply(mem, g)
             st == <<"join">> \o Tail(todo)
             ts == <<"commit">> \o st
  <2>1. Len(op.got) # 0 /\ Record(g, op, st) /\ free' = free
    <3>1. Len(op.got) # 0
      BY <1>5, <1>6, <1>7, <1>10 DEF Op
    <3> QED  BY <1>10, <3>1
  <2>2. /\ v \in Units /\ v \in Elements(op.got)
        /\ Elements(op.got) = {v} \cup Elements(Tail(op.got))
    BY <1>5, <1>8, <2>1, GotTail
  <2>3. a \in Units /\ a # v /\ a = End(c) /\ v \in Units \ Owned(mem)
    BY <1>7, <1>8, <2>2
  <2>g. g = <<<<"chunk", a, v>>, <<"chunk", v, 0>>>>
    OBVIOUS
  <2> HIDE DEF a, v, g
  <2>4. g \in Seq(Entry) /\ Hangs(mem, m2, a, v)
    BY <1>4, <2>2, <2>3, <2>g, HangEffect
  <2>m. m2 = Apply(mem, g)
    OBVIOUS
  <2> HIDE DEF m2
  <2>5. /\ Stays(mem, m2) /\ m2.chunk[End(c)] = v /\ m2.chunk[v] = 0
        /\ \A x \in Owned(mem) \ {End(c)} : m2.chunk[x] = mem.chunk[x]
    <3>1. Owned(mem) \subseteq Units
      BY <1>4, OwnUnits DEF Shape
    <3> QED  BY <2>3, <2>4, <3>1 DEF Hangs
  <2>6. Owned(m2) = Owned(mem) \cup {v}
    BY <1>4, <1>6, <2>3, <2>5, LongerShape
  <2>7. st \in Seq(Stages) /\ Elements(ts) = {"commit", "join"} \cup R
    <3>1. "join" \in Stages /\ "commit" \in Stages /\ Tail(todo) \in Seq(Stages)
      BY <1>2 DEF Stages, Script
    <3>2. st \in Seq(Stages) /\ Elements(st) = {"join"} \cup R
      BY <3>1, StagePut
    <3> HIDE DEF st
    <3>3. Elements(ts) = {"commit"} \cup Elements(st)
      BY <3>1, <3>2, StagePut
    <3> QED  BY <3>2, <3>3
  <2> HIDE DEF st, ts, R
  <2>8. Grows(mem, m2, "grab", R, todo, ts, op, op)
    <3>1. SetOf(m2) = SetOf(mem)
      BY <1>4, <2>5, ListsStay
    <3>2. m2.head = mem.head /\ m2.dirty = mem.dirty /\ m2.onlyKey = mem.onlyKey /\ m2.data = mem.data
      BY <2>4 DEF Hangs, Fields
    <3> QED  BY <1>2, <1>3, <2>7, <3>1, <3>2 DEF Grows
  <2>9. Units \subseteq Held(m2, Elements(ts), op, free)
    <3>1. Loose(Elements(ts), op) = Elements(Tail(op.got))
      BY <2>7 DEF Loose
    <3> QED  BY <1>9, <2>2, <2>6, <3>1 DEF Held
  <2>10. Exact(m2, ts, op, free)
    BY <1>4, <2>8, <2>9, GrowsLedger
  <2> QED  BY <1>1, <1>2, <1>4, <2>m, <2>1, <2>4, <2>7, <2>10, LedgerRecorded DEF ts
<1>11. CASE /\ Len(op.got) < missing
            /\ \E u \in free : /\ free' = free \ {u}
                               /\ Go([op EXCEPT !.got = Append(@, u)], todo)
            /\ UNCHANGED log
  <2>1. PICK u \in free : free' = free \ {u} /\ Go([op EXCEPT !.got = Append(op.got, u)], todo)
    BY <1>11
  <2> DEFINE r == Append(op.got, u)
             o == [op EXCEPT !.got = r]
  <2>2. u \in Units /\ u \notin Elements(op.got)
    BY <1>5, <1>8
  <2>3. r \in Seq(Units) /\ Elements(r) = Elements(op.got) \cup {u}
    BY <1>5, <1>8, <2>2, GotMore
  <2>4. Go(o, todo) /\ todo # <<>>
    BY <1>2, <2>1
  <2> HIDE DEF r
  <2>5. o.got = r /\ o.gone = op.gone /\ o.b = op.b /\ o.new = op.new /\ o.only = op.only
    BY <1>5, <2>3 DEF Op
  <2> HIDE DEF o, R
  <2>6. Grows(mem, mem, "grab", R, todo, todo, op, o)
    BY <1>2, <1>3, <2>5 DEF Grows
  <2>7. Units \subseteq Held(mem, Elements(todo), o, free')
    <3>1. Loose(A, o) = Elements(op.got) \cup {u}
      BY <1>3, <2>3, <2>5 DEF Loose
    <3> QED  BY <1>2, <1>9, <2>1, <3>1 DEF Held
  <2>8. Exact(mem, todo, o, free')
    BY <1>4, <2>6, <2>7, GrowsLedger
  <2> QED  BY <1>1, <1>4, <1>11, <2>4, <2>8, LedgerOn DEF Go
<1>12. CASE /\ Len(op.got) < missing
            /\ free = {}
            /\ IF conf = "off" THEN NoMemory
               ELSE Go([op EXCEPT !.left = EraseCount], <<"evict">> \o todo)
            /\ UNCHANGED <<free, log>>
  <2>1. free' = free /\ log' = log
    BY <1>12
  <2>2. CASE conf = "off"
    BY <1>1, <1>12, <2>1, <2>2, NoMemoryLedger
  <2>3. CASE conf # "off"
    BY <1>1, <1>12, <2>1, <2>3, EvictionLedger
  <2> QED  BY <2>2, <2>3
<1> QED  BY <1>10, <1>11, <1>12, Reading DEF Grab

\* Hanging the gathered units on the block keeps the ledger.
LEMMA JoinLedger == ASSUME Base, Ledger, Join PROVE Ledger'
<1> DEFINE R == Elements(Tail(todo))
           A == {"join"} \cup R
           c == ChunksIn(mem, op.b)
           a == op.got[1]
<1>1. At("join") /\ mem' = mem /\ free' = free
  BY DEF Join
<1>2. /\ Elements(todo) = A /\ R \subseteq Later("join") /\ Script(Tail(todo)) /\ Calm
  BY <1>1, AtStage
<1>3. R \subseteq {"dirty", "rset"}
  BY <1>2, LaterIs
<1>4. /\ Sound(mem, A, op, free) /\ Shape(mem) /\ IsMemory(mem) /\ Exact(mem, todo, op, free)
  BY <1>2, CalmAfter, LedgerCalm
<1>5. op \in Op /\ op.got \in Seq(Units) /\ todo \in Seq(Stages)
  BY DEF Base, Op, Script
<1>6. op.b \in BlocksOf(mem) /\ Len(op.got) # 0 /\ a = End(c)
  <2>1. A \cap Working # {} /\ "alloc" \notin A
    BY <1>3 DEF Working, Filling
  <2> QED  BY <1>4, <2>1 DEF Sound, Placed
<1>7. /\ End(c) \in Owned(mem) /\ mem.chunk[End(c)] = 0 /\ Owned(mem) \subseteq Units
  <2>1. Owned(mem) \subseteq Units
    BY <1>4, OwnUnits DEF Shape
  <2> QED  BY <1>4, <1>6, <2>1, OwnChunks
<1>8. /\ op.gone = {} /\ Loose(A, op) = Elements(Tail(op.got)) /\ Once(op.got)
      /\ Owned(mem) \cap Elements(Tail(op.got)) = {}
  BY <1>3, <1>4 DEF Sound, Apart, Loose
<1>9. /\ Tail(op.got) \in Seq(Units) /\ Once(Tail(op.got)) /\ Len(Tail(op.got)) = Len(op.got) - 1
      /\ Len(op.got) \in Nat /\ a \in Units
      /\ Len(op.got) > 1 => /\ Tail(op.got)[1] = op.got[2] /\ op.got[2] \in Elements(Tail(op.got))
                            /\ op.got[2] \in Units
  BY <1>5, <1>6, <1>8, GotTail
<1>10. Units \subseteq free \cup Elements(Tail(op.got)) \cup Owned(mem)
  <2>1. Units \subseteq Held(mem, A, op, free)
    BY <1>2, <1>4 DEF Exact
  <2> QED  BY <1>8, <2>1 DEF Held
<1>11. CASE Len(op.got) = 1
  <2> DEFINE g == <<<<"chunk", a, 0>>>>
             o == [op EXCEPT !.got = <<>>]
             st == <<"write">> \o Tail(todo)
             ts == <<"commit">> \o st
             m2 == Apply(mem, g)
  <2>1. Record(g, o, st)
    BY <1>11 DEF Join
  <2>g. g = <<<<"chunk", a, 0>>>>
    OBVIOUS
  <2> HIDE DEF g, a
  <2>2. g \in Seq(Entry) /\ Closes(mem, m2, a)
    BY <1>4, <1>9, <2>g, CloseEffect
  <2>m. m2 = Apply(mem, g)
    OBVIOUS
  <2> HIDE DEF m2
  <2>3. SameChunks(mem, m2) /\ Stays(mem, m2)
    BY <1>6, <1>7, <2>2 DEF Closes, SameChunks
  <2>4. SetOf(m2) = SetOf(mem) /\ Owned(m2) = Owned(mem)
    BY <1>4, <2>3, ShapeStays
  <2>5. m2.head = mem.head /\ m2.dirty = mem.dirty /\ m2.onlyKey = mem.onlyKey /\ m2.data = mem.data
    BY <2>2 DEF Closes, Fields
  <2>6. o.got = <<>> /\ o.gone = op.gone /\ o.b = op.b /\ o.new = op.new /\ o.only = op.only
    <3>1. \A e \in Seq(Units) :
            LET p == [op EXCEPT !.got = e]
            IN  p.got = e /\ p.gone = op.gone /\ p.b = op.b /\ p.new = op.new /\ p.only = op.only
      BY <1>5 DEF Op
    <3>2. <<>> \in Seq(Units)
      OBVIOUS
    <3> QED  BY <3>1, <3>2
  <2>7. st \in Seq(Stages) /\ Elements(ts) = {"commit", "write"} \cup R
    <3>1. "write" \in Stages /\ "commit" \in Stages /\ Tail(todo) \in Seq(Stages)
      BY <1>2 DEF Stages, Script
    <3>2. st \in Seq(Stages) /\ Elements(st) = {"write"} \cup R
      BY <3>1, StagePut
    <3> HIDE DEF st
    <3>3. Elements(ts) = {"commit"} \cup Elements(st)
      BY <3>1, <3>2, StagePut
    <3> QED  BY <3>2, <3>3
  <2> HIDE DEF o, st, ts, R
  <2>8. Grows(mem, m2, "join", R, todo, ts, op, o)
    BY <1>2, <1>3, <2>4, <2>5, <2>6, <2>7 DEF Grows
  <2>9. Units \subseteq Held(m2, Elements(ts), o, free)
    <3>1. Elements(Tail(op.got)) = {}
      <4>1. Len(Tail(op.got)) = 0
        BY <1>9, <1>11
      <4>2. Tail(op.got) = <<>>
        BY <1>9, <4>1, NoneIn
      <4> QED  BY <4>2, NoScript
    <3> QED  BY <1>10, <2>4, <3>1 DEF Held
  <2>10. Exact(m2, ts, o, free)
    BY <1>4, <2>8, <2>9, GrowsLedger
  <2> QED  BY <1>1, <1>2, <1>4, <2>m, <2>1, <2>2, <2>7, <2>10, LedgerRecorded DEF ts
<1>12. CASE Len(op.got) # 1
  <2> DEFINE v == op.got[2]
             g == <<<<"chunk", a, v>>, <<"chunk", v, 0>>>>
             o == [op EXCEPT !.got = Tail(op.got)]
             m2 == Apply(mem, g)
             ts == <<"commit">> \o todo
  <2>1. Record(g, o, todo)
    BY <1>12 DEF Join
  <2>2. Len(op.got) > 1
    <3>1. \A n \in Nat : n # 0 /\ n # 1 => n > 1
      OBVIOUS
    <3>2. Len(op.got) \in Nat /\ Len(op.got) # 0
      BY <1>6, <1>9
    <3> QED  BY <1>12, <3>1, <3>2
  <2>3. v \in Units \ Owned(mem) /\ v \in Elements(Tail(op.got)) /\ v = Tail(op.got)[1] /\ a # v
    BY <1>6, <1>7, <1>8, <1>9, <2>2
  <2>g. g = <<<<"chunk", a, v>>, <<"chunk", v, 0>>>>
    OBVIOUS
  <2>4. o.got = Tail(op.got) /\ o.gone = op.gone /\ o.b = op.b /\ o.new = op.new /\ o.only = op.only
    BY <1>5, <1>9 DEF Op
  <2> HIDE DEF a, v, g, o
  <2>5. g \in Seq(Entry) /\ Hangs(mem, m2, a, v)
    BY <1>4, <1>9, <2>3, <2>g, HangEffect
  <2>m. m2 = Apply(mem, g)
    OBVIOUS
  <2> HIDE DEF m2
  <2>6. /\ Stays(mem, m2) /\ m2.chunk[End(c)] = v /\ m2.chunk[v] = 0
        /\ \A x \in Owned(mem) \ {End(c)} : m2.chunk[x] = mem.chunk[x]
    BY <1>6, <1>7, <2>3, <2>5 DEF Hangs
  <2>7. SetOf(m2) = SetOf(mem) /\ Owned(m2) = Owned(mem) \cup {v}
    <3>1. op.b \in BlocksOf(mem) /\ v \in Units \ Owned(mem) /\ Shape(mem)
      BY <1>4, <1>6, <2>3
    <3> QED  BY <2>6, <3>1, LongerShape, ListsStay
  <2>8. m2.head = mem.head /\ m2.dirty = mem.dirty /\ m2.onlyKey = mem.onlyKey /\ m2.data = mem.data
    BY <2>5 DEF Hangs, Fields
  <2>9. Elements(ts) = {"commit", "join"} \cup R
    <3>1. "commit" \in Stages
      BY DEF Stages
    <3> QED  BY <1>2, <1>5, <3>1, StagePut
  <2>10. /\ Len(o.got) # 0 /\ Elements(Tail(op.got)) = {v} \cup Elements(Tail(o.got))
    <3>1. Len(Tail(op.got)) # 0
      BY <1>9, <2>2
    <3> QED  BY <1>9, <2>3, <2>4, <3>1, GotTail
  <2> HIDE DEF ts, R
  <2>11. Grows(mem, m2, "join", R, todo, ts, op, o)
    BY <1>2, <1>3, <2>4, <2>7, <2>8, <2>9 DEF Grows
  <2>12. Units \subseteq Held(m2, Elements(ts), o, free)
    <3>1. Loose(Elements(ts), o) = Elements(Tail(o.got))
      BY <2>9 DEF Loose
    <3> QED  BY <1>10, <2>7, <2>10, <3>1 DEF Held
  <2>13. Exact(m2, ts, o, free)
    BY <1>4, <2>11, <2>12, GrowsLedger
  <2> QED  BY <1>1, <1>2, <1>4, <1>5, <2>m, <2>1, <2>5, <2>13, LedgerRecorded DEF ts
<1> QED  BY <1>11, <1>12

\* A mark of one block is set or cleared.
LEMMA TallySwitch ==
  ASSUME NEW T, IsFiniteSet(T), NEW u, NEW v \in BOOLEAN, NEW T2,
         T2 = IF v THEN T \cup {u} ELSE T \ {u}
  PROVE  Cardinality(T2) = IF v /\ u \notin T THEN Cardinality(T) + 1
                           ELSE IF ~v /\ u \in T THEN Cardinality(T) - 1
                           ELSE Cardinality(T)
<1>1. Cardinality(T \cup {u}) = IF u \in T THEN Cardinality(T) ELSE Cardinality(T) + 1
  BY FS_AddElement
<1>2. Cardinality(T \ {u}) = IF u \in T THEN Cardinality(T) - 1 ELSE Cardinality(T)
  BY FS_RemoveElement
<1> QED  BY <1>1, <1>2

\* Writing the value (Block::set) keeps the ledger.
LEMMA WriteLedger == ASSUME Base, Ledger, Write PROVE Ledger'
<1> DEFINE R == Elements(Tail(todo))
           A == {"write"} \cup R
           u == op.b
           g == Recounting(log, u, op.only)
           m2 == Apply(mem', g)
           st == <<"copied">> \o (<<"commit">> \o Tail(todo))
           e == IF op.need = 0 /\ mem.data[u] = Empty THEN Empty ELSE [key |-> op.key, val |-> "part"]
           no == ~op.only
<1>1. At("write") /\ free' = free
  BY DEF Write
<1>2. /\ Elements(todo) = A /\ R \subseteq Later("write")
      /\ Script(Tail(todo)) /\ Calm
  BY <1>1, AtStage
<1>3. R \subseteq {"dirty", "rset"}
  BY <1>2, LaterIs
<1>4. /\ Sound(mem, A, op, free) /\ Shape(mem) /\ IsMemory(mem) /\ Exact(mem, todo, op, free)
      /\ log \in Seq(Quiet) /\ Len(log) <= 2
  BY <1>2, CalmAfter, LedgerCalm
<1>5. op \in Op /\ op.only \in BOOLEAN
  BY DEF Base, Op
<1>6. /\ u \in BlocksOf(mem) /\ u \in Units /\ op.key \in Keys /\ mem.index[u] = HashOf[op.key]
      /\ \A x \in BlocksOf(mem) : mem.data[x].key = op.key => x = u
  <2>1. A \cap Working # {} /\ "alloc" \notin A /\ A \cap Setting # {}
    BY <1>3 DEF Working, Setting, Filling
  <2>2. u \in BlocksOf(mem) /\ u # 0 /\ u \in Units
    BY <1>4, <2>1, BlockUnits DEF Sound, Placed, Shape
  <2> QED  BY <1>4, <2>1, <2>2 DEF Sound, Placed
<1>7. log' = g
  BY DEF Write, Recounting
<1>8. Writes(mem, mem', u, op.key) /\ mem'.dirty[u] = no /\ mem'.onlyKey[u] = op.only
  <2>1. e \in Datum /\ e.key \in {op.key, None} /\ no \in BOOLEAN
    BY <1>5, <1>6 DEF Empty, Datum
  <2>2. mem' = Written(mem, u, no, op.only, e)
    <3>1. DOMAIN mem = Fields /\ DOMAIN mem.data = Units
      BY <1>4 DEF IsMemory
    <3> QED  BY <1>6, <3>1 DEF Write, Written, Fields
  <2> HIDE DEF e, no, u
  <2>3. op.key \in Keys \cup {None} /\ op.only \in BOOLEAN /\ u \in Units /\ IsMemory(mem)
    BY <1>4, <1>5, <1>6
  <2> QED  BY <2>1, <2>2, <2>3, DataWritten
<1>9. /\ g \in Seq(Counts)
      /\ \A m1 : IsMemory(m1) /\ m1.head = mem.head => Recounted(mem, Apply(m1, g), u, op.only)
  BY <1>4, <1>5, <1>6, WriteCounts
<1> HIDE DEF g, e
<1>10. Stays(mem, mem') /\ SameChunks(mem, mem') /\ mem'.head = mem.head /\ IsMemory(mem')
  <2>1. Meant(mem, u, op.key) /\ u \in BlocksOf(mem) /\ Shape(mem)
    BY <1>4, <1>6 DEF Meant
  <2> HIDE DEF u
  <2> QED  BY <1>8, <2>1, WritesStay DEF Writes
<1>11. /\ Shape(mem') /\ SetOf(mem') = SetOf(mem) /\ Owned(mem') = Owned(mem)
  BY <1>4, <1>10, ShapeStays
<1>12. Recounts(mem', m2) /\ Recounted(mem, m2, u, op.only)
  BY <1>9, <1>10, <1>11, CountsStay
<1>m. m2 = Apply(mem', log')
  BY <1>7
<1> HIDE DEF m2
<1>13. /\ SetOf(m2) = SetOf(mem) /\ BlocksOf(m2) = BlocksOf(mem) /\ Owned(m2) = Owned(mem)
  <2>1. Stays(mem', m2) /\ SameChunks(mem', m2)
    BY <1>12 DEF Recounts
  <2>2. SetOf(m2) = SetOf(mem) /\ Owned(m2) = Owned(mem)
    BY <1>11, <2>1, ShapeStays
  <2> QED  BY <2>2 DEF BlocksOf
<1>14. /\ m2.data = mem'.data /\ m2.dirty = mem'.dirty /\ m2.onlyKey = mem'.onlyKey
       /\ m2.head.dirtyTail = mem.head.dirtyTail
  BY <1>10, <1>12 DEF Recounts, Fields, Heads, HeadLinks, HeadCounts
<1>15. /\ m2.dirty[u] = no /\ m2.onlyKey[u] = op.only
       /\ \A x \in BlocksOf(mem) \ {u} : /\ m2.data[x] = mem.data[x] /\ m2.dirty[x] = mem.dirty[x]
                                         /\ m2.onlyKey[x] = mem.onlyKey[x]
  <2>1. BlocksOf(mem) \subseteq Units
    BY <1>4, BlockUnits DEF Shape
  <2> QED  BY <1>8, <1>14, <2>1 DEF Writes
<1>16. Tallied(m2)
  <2> DEFINE D == {x \in BlocksOf(mem) : mem.dirty[x]}
             K == {x \in BlocksOf(mem) : mem.onlyKey[x]}
             D2 == {x \in BlocksOf(m2) : m2.dirty[x]}
             K2 == {x \in BlocksOf(m2) : m2.onlyKey[x]}
  <2>1. IsFiniteSet(D) /\ IsFiniteSet(K)
    BY <1>4, TallySets
  <2>2. /\ D2 = IF no THEN D \cup {u} ELSE D \ {u}
        /\ K2 = IF op.only THEN K \cup {u} ELSE K \ {u}
    BY <1>6, <1>13, <1>15
  <2>3. (u \in D <=> mem.dirty[u]) /\ (u \in K <=> mem.onlyKey[u])
    BY <1>6
  <2>4. mem.head.dirtyCount = Cardinality(D) /\ mem.head.onlyKeyCount = Cardinality(K)
    BY <1>4 DEF Exact, Tallied
  <2>5. no \in BOOLEAN /\ (no <=> ~op.only)
    BY <1>5
  <2>6. Tallied(m2) <=> m2.head.dirtyCount = Cardinality(D2) /\ m2.head.onlyKeyCount = Cardinality(K2)
    BY DEF Tallied
  <2> HIDE DEF D, K, D2, K2, no, u
  <2>7. Cardinality(D2) = IF no /\ u \notin D THEN Cardinality(D) + 1
                          ELSE IF ~no /\ u \in D THEN Cardinality(D) - 1
                          ELSE Cardinality(D)
    BY <2>1, <2>2, <2>5, TallySwitch
  <2>8. Cardinality(K2) = IF op.only /\ u \notin K THEN Cardinality(K) + 1
                          ELSE IF ~op.only /\ u \in K THEN Cardinality(K) - 1
                          ELSE Cardinality(K)
    BY <1>5, <2>1, <2>2, TallySwitch
  <2>9. m2.head.dirtyCount = Cardinality(D2)
    BY <1>12, <2>3, <2>4, <2>5, <2>7 DEF Recounted
  <2>10. m2.head.onlyKeyCount = Cardinality(K2)
    BY <1>12, <2>3, <2>4, <2>8 DEF Recounted
  <2> QED  BY <2>6, <2>9, <2>10
<1>17. Elements(st) = {"copied", "commit"} \cup R /\ st # <<>> /\ Go(op, st)
  <2> DEFINE r == <<"commit">> \o Tail(todo)
  <2>1. "commit" \in Stages /\ "copied" \in Stages /\ Tail(todo) \in Seq(Stages)
    BY <1>2 DEF Stages, Script
  <2>2. r \in Seq(Stages) /\ Elements(r) = {"commit"} \cup R
    BY <2>1, StagePut
  <2>3. Go(op, <<"copied", "commit">> \o Tail(todo))
    BY DEF Write
  <2>4. <<"copied", "commit">> \o Tail(todo) = <<"copied">> \o r
    BY <2>1, TwoStages
  <2> HIDE DEF r
  <2>5. Elements(<<"copied">> \o r) = {"copied"} \cup Elements(r) /\ <<"copied">> \o r # <<>>
    BY <2>1, <2>2, StagePut
  <2>6. {"copied"} \cup Elements(r) = {"copied", "commit"} \cup R
    BY <2>2
  <2> QED  BY <2>3, <2>4, <2>5, <2>6 DEF r
<1> HIDE DEF st, R
<1>18. "rset" \in R
  <2>1. Planned(A, op)
    BY <1>2, <1>4 DEF Exact
  <2> QED  BY <2>1 DEF Planned, Filling
<1>19. Behind(Elements(st), op) = {u} /\ Torso(Elements(st), op) = {u}
  BY <1>3, <1>17, <1>18 DEF Behind, Torso, Filling
<1>20. Behind(A, op) \subseteq {u} /\ Torso(A, op) \subseteq {u}
  BY DEF Behind, Torso
<1>21. Reached(m2, {u}) /\ Whole(m2, {u}) /\ Bare(m2)
  <2>1. Reached(mem, Behind(A, op)) /\ Whole(mem, Torso(A, op)) /\ Bare(mem)
    BY <1>2, <1>4 DEF Exact
  <2>2. Reached(m2, {u})
    BY <1>13, <1>14, <1>15, <1>20, <2>1 DEF Reached
  <2>3. Whole(m2, {u})
    BY <1>13, <1>15, <1>20, <2>1 DEF Whole
  <2>4. Bare(m2)
    BY <1>13, <1>15, <2>1 DEF Bare
  <2> QED  BY <2>2, <2>3, <2>4
<1>22. Valued(m2, Elements(st), op)
  <2>1. Valued(mem, A, op) /\ A \cap (Filling \cup {"alloc"}) # {}
    BY <1>2, <1>4 DEF Exact, Filling
  <2>2. "dirty" \in Elements(st) => ~op.only
    BY <1>17, <2>1 DEF Valued
  <2>3. Elements(st) \cap (Filling \cup {"alloc"}) = {}
    BY <1>3, <1>17 DEF Filling
  <2> QED  BY <1>15, <2>2, <2>3 DEF Valued
<1>23. Planned(Elements(st), op)
  BY <1>3, <1>17, <1>18 DEF Planned, Filling
<1>24. Units \subseteq Held(m2, Elements(st), op, free)
  <2>1. Units \subseteq Held(mem, A, op, free)
    BY <1>2, <1>4 DEF Exact
  <2>2. Loose(A, op) = Loose(Elements(st), op)
    BY <1>3, <1>17 DEF Loose
  <2> QED  BY <1>13, <2>1, <2>2 DEF Held
<1>25. Elements(st) \cap {"synced", "resynced"} = {}
  BY <1>3, <1>17
<1>26. Exact(m2, st, op, free)
  BY <1>16, <1>19, <1>21, <1>22, <1>23, <1>24, <1>25, NoSynching DEF Exact
<1> QED  BY <1>1, <1>m, <1>17, <1>26, LedgerWent DEF Go

\* The end of the copy keeps the ledger.
LEMMA CopiedLedger == ASSUME Base, Ledger, Copied PROVE Ledger'
<1> DEFINE R == Elements(Tail(todo))
           A == {"copied"} \cup R
           u == op.b
           e == [key |-> op.key, val |-> "whole"]
           o == [Idle EXCEPT !.b = op.b, !.dirty = op.dirty]
           m2 == Apply(mem', log)
           st == Tail(todo)
<1>1. At("copied") /\ free' = free /\ log' = log /\ Go(o, st)
  BY DEF Copied
<1>2. /\ Elements(todo) = A /\ R \subseteq Later("copied") /\ Script(st) /\ Len(todo) # 0
      /\ todo[1] = "copied" /\ Script(todo)
  BY <1>1, AtStage DEF Base
<1>3. R \subseteq {"commit", "dirty", "rset"} /\ Len(st) # 0
  <2>1. Len(todo) > 1 /\ todo \in Seq(Stages)
    BY <1>2 DEF Script
  <2>2. Len(Tail(todo)) # 0
    <3>1. Len(todo) \in Nat /\ Len(todo) # 0
      BY <2>1
    <3>2. Len(Tail(todo)) = Len(todo) - 1
      BY <2>1, <3>1
    <3> QED  BY <2>1, <3>1, <3>2
  <2> QED  BY <1>2, <2>2, LaterIs
<1>4. /\ Sound(After, A, op, free) /\ Shape(mem) /\ IsMemory(mem) /\ log \in Seq(Counts)
      /\ Exact(After, todo, op, free)
  BY <1>2 DEF Base, LogOK, Shape, Ledger
<1>5. op \in Op /\ op.b \in Addr /\ op.dirty \in BOOLEAN /\ op.got \in Seq(Units)
  BY DEF Base, Op
<1>6. Recounts(mem, After)
  BY <1>4, CountsStay DEF After
<1>7. /\ SetOf(After) = SetOf(mem) /\ BlocksOf(After) = BlocksOf(mem) /\ Owned(After) = Owned(mem)
      /\ After.index = mem.index /\ After.data = mem.data /\ After.dirty = mem.dirty
      /\ After.onlyKey = mem.onlyKey
  <2>1. Stays(mem, After) /\ SameChunks(mem, After)
    BY <1>6 DEF Recounts
  <2>2. SetOf(After) = SetOf(mem) /\ BlocksOf(After) = BlocksOf(mem) /\ Owned(After) = Owned(mem)
    BY <1>4, <2>1, ShapeStays
  <2> QED  BY <1>6, <2>2 DEF Recounts, Fields
<1>8. /\ u \in BlocksOf(mem) /\ u \in Units /\ op.key \in Keys /\ mem.index[u] = HashOf[op.key]
      /\ \A x \in BlocksOf(mem) : mem.data[x].key = op.key => x = u
  <2>1. A \cap Working # {} /\ "alloc" \notin A /\ A \cap Setting # {}
    BY <1>3 DEF Working, Setting, Filling
  <2>2. u \in BlocksOf(mem) /\ u # 0 /\ u \in Units
    BY <1>4, <1>7, <2>1, BlockUnits DEF Sound, Placed, Shape
  <2> QED  BY <1>4, <1>7, <2>1, <2>2 DEF Sound, Placed
<1>9. /\ Writes(mem, mem', u, op.key) /\ mem'.dirty[u] = mem.dirty[u] /\ mem'.onlyKey[u] = mem.onlyKey[u]
      /\ mem'.data[u] = e
  <2>1. /\ e \in Datum /\ e.key \in {op.key, None} /\ mem.dirty[u] \in BOOLEAN /\ mem.onlyKey[u] \in BOOLEAN
    BY <1>4, <1>8 DEF Datum, IsMemory
  <2>2. mem' = Written(mem, u, mem.dirty[u], mem.onlyKey[u], e) /\ mem'.data[u] = e
    <3>1. /\ DOMAIN mem = Fields /\ mem = [f \in Fields |-> mem[f]] /\ DOMAIN mem.data = Units
          /\ mem.dirty \in [Units -> BOOLEAN] /\ mem.onlyKey \in [Units -> BOOLEAN]
      BY <1>4 DEF IsMemory
    <3>2. [mem.dirty EXCEPT ![u] = mem.dirty[u]] = mem.dirty
          /\ [mem.onlyKey EXCEPT ![u] = mem.onlyKey[u]] = mem.onlyKey
      BY <3>1
    <3>3. mem' = [mem EXCEPT !.data = [mem.data EXCEPT ![u] = e]]
      BY DEF Copied
    <3>4. [mem EXCEPT !.dirty = mem.dirty, !.onlyKey = mem.onlyKey,
                      !.data = [mem.data EXCEPT ![u] = e]]
          = [mem EXCEPT !.data = [mem.data EXCEPT ![u] = e]]
      BY <3>1 DEF Fields
    <3>5. mem'.data[u] = e
      BY <1>8, <3>1, <3>3 DEF Fields
    <3> QED  BY <3>2, <3>3, <3>4, <3>5 DEF Written
  <2> HIDE DEF e, u
  <2>3. op.key \in Keys \cup {None} /\ u \in Units /\ IsMemory(mem)
    BY <1>4, <1>5, <1>8
  <2> QED  BY <2>1, <2>2, <2>3, DataWritten
<1>10. Stays(mem, mem') /\ SameChunks(mem, mem') /\ mem'.head = mem.head /\ IsMemory(mem')
  <2>1. Meant(mem, u, op.key) /\ u \in BlocksOf(mem) /\ Shape(mem)
    BY <1>4, <1>8 DEF Meant
  <2> HIDE DEF u, e
  <2> QED  BY <1>9, <2>1, WritesStay DEF Writes
<1>11. Shape(mem') /\ SetOf(mem') = SetOf(mem) /\ Owned(mem') = Owned(mem)
  BY <1>4, <1>10, ShapeStays
<1>12. Recounts(mem', m2)
  BY <1>4, <1>11, CountsStay
<1>13. m2.head = After.head
  <2>1. "head" \in DOMAIN mem /\ "head" \in DOMAIN mem'
    BY <1>4, <1>10 DEF IsMemory, Fields
  <2> QED  BY <1>10, <2>1 DEF Apply, After
<1>m. m2 = Apply(mem', log')
  BY <1>1
<1> HIDE DEF m2
<1>14. /\ SetOf(m2) = SetOf(After) /\ BlocksOf(m2) = BlocksOf(After) /\ Owned(m2) = Owned(After)
  <2>1. Stays(mem', m2) /\ SameChunks(mem', m2)
    BY <1>12 DEF Recounts
  <2>2. SetOf(m2) = SetOf(After) /\ Owned(m2) = Owned(After)
    BY <1>7, <1>11, <2>1, ShapeStays
  <2> QED  BY <2>2 DEF BlocksOf
<1>15. /\ \A x \in BlocksOf(After) : m2.dirty[x] = After.dirty[x] /\ m2.onlyKey[x] = After.onlyKey[x]
       /\ \A x \in BlocksOf(After) \ {u} : m2.data[x] = After.data[x]
       /\ m2.data[u] = e
  <2>1. BlocksOf(mem) \subseteq Units
    BY <1>4, BlockUnits DEF Shape
  <2>2. m2.data = mem'.data /\ m2.dirty = mem'.dirty /\ m2.onlyKey = mem'.onlyKey
    BY <1>12 DEF Recounts, Fields
  <2> HIDE DEF e
  <2> QED  BY <1>7, <1>9, <2>1, <2>2 DEF Writes
<1>16. m2.data[u].key # None /\ m2.data[u].val = "whole"
  BY <1>8, <1>15, HashMapAssumption
<1> HIDE DEF e
<1>17. /\ o.b = op.b /\ o.got = <<>> /\ o.gone = {} /\ o.new = FALSE
  <2>1. \A a \in Addr, d \in BOOLEAN :
          LET p == [Idle EXCEPT !.b = a, !.dirty = d]
          IN  p.b = a /\ p.got = <<>> /\ p.gone = {} /\ p.new = FALSE
    BY IdleOp DEF Op, Idle
  <2> QED  BY <1>5, <2>1
<1> HIDE DEF o
<1>st. Elements(st) = R
  OBVIOUS
<1> HIDE DEF R, st
<1>18. st # <<>> /\ todo' = st /\ op' = IF st = <<>> THEN Idle ELSE o
  BY <1>1, <1>3 DEF Go
<1>19. Tallied(m2) /\ Bare(m2)
  <2>1. SameMarks(After, m2)
    BY <1>13, <1>14, <1>15 DEF SameMarks
  <2> QED  BY <1>4, <1>14, <1>15, <2>1, TalliedKept DEF Exact, Bare
<1>20. Behind(A, op) = Behind(R, o) /\ Torso(A, op) = {u} /\ Torso(R, o) = {}
  BY <1>3, <1>17 DEF Behind, Torso, Filling
<1>21. Reached(m2, Behind(R, o)) /\ Whole(m2, Torso(R, o))
  <2>1. Reached(After, Behind(A, op)) /\ Whole(After, Torso(A, op))
    BY <1>2, <1>4 DEF Exact
  <2>2. Reached(m2, Behind(R, o))
    BY <1>13, <1>14, <1>15, <1>20, <2>1 DEF Reached
  <2>3. Whole(m2, Torso(R, o))
    BY <1>14, <1>15, <1>16, <1>20, <2>1 DEF Whole
  <2> QED  BY <2>2, <2>3
<1>22. Valued(m2, R, o)
  <2>1. Valued(After, A, op)
    BY <1>2, <1>4 DEF Exact
  <2>2. A \cap (Filling \cup {"alloc"}) = {} /\ R \cap (Filling \cup {"alloc"}) = {}
    BY <1>3 DEF Filling
  <2> QED  BY <1>7, <1>8, <1>15, <1>17, <2>1, <2>2 DEF Valued
<1>23. Planned(R, o) /\ R \cap {"synced", "resynced"} = {}
  <2>1. Planned(A, op)
    BY <1>2, <1>4 DEF Exact
  <2> QED  BY <1>3, <2>1 DEF Planned, Filling
<1>24. Units \subseteq Held(m2, R, o, free)
  <2>1. Units \subseteq Held(After, A, op, free)
    BY <1>2, <1>4 DEF Exact
  <2>2. Apart(After, A, op, free) /\ "grab" \notin A /\ "join" \notin A /\ "free" \notin A
    BY <1>3, <1>4 DEF Sound
  <2>3. op.gone = {}
    BY <2>2 DEF Apart
  <2>4. Loose(A, op) = {}
    BY <1>5, <2>2, NoneLoose
  <2> QED  BY <1>14, <2>1, <2>3, <2>4 DEF Held
<1>25. Exact(m2, st, o, free)
  BY <1>st, <1>19, <1>21, <1>22, <1>23, <1>24, NoSynching DEF Exact
<1> QED  BY <1>1, <1>m, <1>18, <1>25, LedgerWent

\* An operation that has no units in hand.
LEMMA EmptyHands ==
  ASSUME NEW m, NEW A, NEW o \in Op, NEW fr, Sound(m, A, o, fr), A \cap {"free", "grab", "join"} = {}
  PROVE  o.got = <<>> /\ o.gone = {} /\ Loose(A, o) = {}
<1>1. Apart(m, A, o, fr) /\ "grab" \notin A /\ "join" \notin A /\ "free" \notin A /\ o.got \in Seq(Units)
  BY DEF Sound, Op
<1>2. o.gone = {}
  BY <1>1 DEF Apart
<1> QED  BY <1>1, <1>2, NoneLoose

\* Block::setDirty keeps the ledger.
LEMMA SetDirtyFlagLedger == ASSUME Base, Ledger, SetDirtyFlag PROVE Ledger'
<1> DEFINE R == Elements(Tail(todo))
           A == {"dirty"} \cup R
           u == op.b
<1>1. At("dirty") /\ mem' = mem /\ free' = free
  BY DEF SetDirtyFlag
<1>2. /\ Elements(todo) = A /\ R \subseteq Later("dirty") /\ Script(Tail(todo)) /\ Calm /\ todo[1] = "dirty"
  BY <1>1, AtStage
<1>3. R \subseteq {"rset", "item", "commit", "synced", "resync", "dirty", "resynced"}
  BY <1>2, LaterIs
<1>4. /\ Sound(mem, A, op, free) /\ Shape(mem) /\ IsMemory(mem) /\ log \in Seq(Quiet)
      /\ Exact(mem, todo, op, free)
  BY <1>2, CalmAfter, LedgerCalm
<1>5. op \in Op /\ op.dirty \in BOOLEAN
  BY DEF Base, Op
<1>6. u \in BlocksOf(mem) /\ u \in Units
  <2>1. A \cap Working # {} /\ "alloc" \notin A
    BY <1>3 DEF Working
  <2> QED  BY <1>4, <2>1, BlockUnits DEF Sound, Placed, Shape
<1>7. /\ Tallied(mem) /\ Bare(mem) /\ Units \subseteq Held(mem, A, op, free)
      /\ Reached(mem, Behind(A, op)) /\ Whole(mem, Torso(A, op)) /\ Valued(mem, A, op)
      /\ Synching(mem, todo, op) /\ Planned(A, op)
  BY <1>2, <1>4 DEF Exact
<1>8. ~mem.onlyKey[u]
  <2>1. A \cap (Filling \cup {"alloc"}) = {}
    BY <1>3 DEF Filling
  <2> QED  BY <1>7, <2>1 DEF Valued
<1>t. /\ (Len(Tail(todo)) # 0 => Elements(Tail(Tail(todo))) \subseteq R)
      /\ (Len(Tail(todo)) = 0 => Tail(todo) = <<>> /\ R = {})
      /\ Tail(todo) \in Seq(Stages)
  <2>1. Tail(todo) \in Seq(Stages)
    BY <1>2 DEF Script
  <2> QED  BY <1>2, <2>1, ScriptTail, NoneIn, NoScript
<1>9. CASE mem.dirty[u] # op.dirty
  <2> DEFINE d == IF op.dirty THEN 1 ELSE -1
             g == Flagging(u, op.dirty, d)
             m2 == Apply(mem, g)
             ts == <<"commit">> \o Tail(todo)
  <2>1. Record(g, op, Tail(todo))
    BY <1>9 DEF SetDirtyFlag, Flagging
  <2>2. d \in Int
    OBVIOUS
  <2>g. g = Flagging(u, op.dirty, d)
    OBVIOUS
  <2>d. d = IF op.dirty THEN 1 ELSE -1
    OBVIOUS
  <2> HIDE DEF d, g
  <2>3. g \in Seq(Entry) /\ Flags(mem, m2, u, op.dirty, d)
    BY <1>4, <1>5, <1>6, <2>2, <2>g, FlagEffect
  <2>m. m2 = Apply(mem, g)
    OBVIOUS
  <2> HIDE DEF m2
  <2>4. SetOf(m2) = SetOf(mem) /\ BlocksOf(m2) = BlocksOf(mem) /\ Owned(m2) = Owned(mem)
    <3>1. Stays(mem, m2) /\ SameChunks(mem, m2)
      BY <2>3 DEF Flags
    <3> QED  BY <1>4, <3>1, ShapeStays
  <2>5. /\ m2.dirty[u] = op.dirty /\ \A x \in BlocksOf(mem) \ {u} : m2.dirty[x] = mem.dirty[x]
        /\ m2.onlyKey = mem.onlyKey /\ m2.data = mem.data /\ m2.setPrev = mem.setPrev
        /\ m2.head.dirtyCount = mem.head.dirtyCount + d
        /\ m2.head.onlyKeyCount = mem.head.onlyKeyCount /\ m2.head.dirtyTail = mem.head.dirtyTail
    <3>1. BlocksOf(mem) \subseteq Units
      BY <1>4, BlockUnits DEF Shape
    <3>2. m2.onlyKey = mem.onlyKey /\ m2.data = mem.data /\ m2.setPrev = mem.setPrev
      BY <2>3 DEF Flags, Fields, UnitLinks
    <3>3. m2.head.onlyKeyCount = mem.head.onlyKeyCount /\ m2.head.dirtyTail = mem.head.dirtyTail
      BY <2>3 DEF Flags, Heads, HeadLinks, HeadCounts
    <3> QED  BY <2>3, <3>1, <3>2, <3>3 DEF Flags
  <2>6. Elements(ts) = {"commit"} \cup R /\ Tail(ts) = Tail(todo) /\ ts[1] = "commit"
    <3>1. "commit" \in Stages
      BY DEF Stages
    <3>t. Tail(todo) \in Seq(Stages)
      BY <1>t
    <3>e. /\ Elements(<<"commit">> \o Tail(todo)) = {"commit"} \cup Elements(Tail(todo))
          /\ (<<"commit">> \o Tail(todo))[1] = "commit"
      BY <3>t, <3>1, ElementsPut
    <3>2. Elements(ts) = {"commit"} \cup R /\ ts[1] = "commit"
      BY <3>e
    <3>3. Tail(ts) = Tail(todo)
      BY <1>t
    <3> QED  BY <3>2, <3>3
  <2> HIDE DEF ts
  <2>7. Tallied(m2)
    <3> DEFINE D == {x \in BlocksOf(mem) : mem.dirty[x]}
               D2 == {x \in BlocksOf(m2) : m2.dirty[x]}
    <3>1. IsFiniteSet(D)
      BY <1>4, TallySets
    <3>2. D2 = IF op.dirty THEN D \cup {u} ELSE D \ {u}
      BY <1>6, <2>4, <2>5
    <3>3. (u \in D <=> mem.dirty[u]) /\ mem.dirty[u] \in BOOLEAN
      BY <1>4, <1>6 DEF IsMemory
    <3>4. mem.head.dirtyCount = Cardinality(D)
      BY <1>7 DEF Tallied
    <3>5. {x \in BlocksOf(m2) : m2.onlyKey[x]} = {x \in BlocksOf(mem) : mem.onlyKey[x]}
      BY <2>4, <2>5
    <3>6. Tallied(m2) <=> /\ m2.head.dirtyCount = Cardinality(D2)
                          /\ m2.head.onlyKeyCount = Cardinality({x \in BlocksOf(m2) : m2.onlyKey[x]})
      BY DEF Tallied
    <3> HIDE DEF D, D2, u
    <3>7. Cardinality(D2) = IF op.dirty /\ u \notin D THEN Cardinality(D) + 1
                            ELSE IF ~op.dirty /\ u \in D THEN Cardinality(D) - 1
                            ELSE Cardinality(D)
      BY <1>5, <3>1, <3>2, TallySwitch
    <3>8. Cardinality(D) \in Nat
      BY <3>1, FS_CardinalityType
    <3>9. m2.head.dirtyCount = Cardinality(D2)
      <4>1. CASE op.dirty
        <5>1. u \notin D /\ d = 1
          BY <1>5, <1>9, <2>d, <3>3, <4>1
        <5> QED  BY <2>5, <3>4, <3>7, <3>8, <4>1, <5>1
      <4>2. CASE ~op.dirty
        <5>1. u \in D /\ d = -1
          BY <1>5, <1>9, <2>d, <3>3, <4>2
        <5>2. Cardinality(D) + -1 = Cardinality(D) - 1
          BY <3>8
        <5> QED  BY <2>5, <3>4, <3>7, <4>2, <5>1, <5>2
      <4> QED  BY <4>1, <4>2
    <3> QED  BY <1>7, <2>5, <3>5, <3>6, <3>9 DEF Tallied
  <2> HIDE DEF R
  <2>8. Behind(Elements(ts), op) = Behind(A, op) /\ Torso(Elements(ts), op) = Torso(A, op)
    BY <2>6 DEF Behind, Torso, Filling
  <2>9. Bare(m2) /\ Whole(m2, Torso(A, op))
    BY <1>7, <1>8, <2>4, <2>5 DEF Bare, Whole
  <2>10. op.dirty => Behind(A, op) = {u}
    <3>1. SUFFICES ASSUME op.dirty PROVE Behind(A, op) = {u}
      OBVIOUS
    <3>2. "synced" \notin A
      BY <1>2, <1>7, <3>1 DEF Synching
    <3>3. A \cap {"rset", "resynced"} # {}
      BY <1>7, <3>2 DEF Planned
    <3>4. A \cap Filling = {}
      BY <1>3 DEF Filling
    <3> QED  BY <3>3, <3>4 DEF Behind
  <2>11. Reached(m2, Behind(A, op))
    BY <1>5, <1>7, <2>4, <2>5, <2>10 DEF Reached
  <2>12. Valued(m2, Elements(ts), op)
    BY <1>8, <2>5, <2>6, <1>3 DEF Valued, Filling
  <2>13. Planned(Elements(ts), op)
    BY <1>3, <1>7, <2>6 DEF Planned, Filling
  <2>14. Synching(m2, ts, op)
    <3>1. "synced" \in Elements(ts) => "synced" \in Elements(todo)
      BY <1>2, <2>6
    <3>2. "resynced" \in Elements(ts) <=> "resynced" \in Elements(todo)
      BY <1>2, <2>6
    <3>3. "synced" \in Elements(todo) => "synced" \in Elements(ts)
      BY <1>2, <2>6
    <3> QED  BY <1>5, <1>7, <2>4, <2>5, <2>6, <3>1, <3>2, <3>3 DEF Synching
  <2>15. Units \subseteq Held(m2, Elements(ts), op, free)
    <3>1. Loose(Elements(ts), op) = Loose(A, op)
      BY <2>6 DEF Loose
    <3> QED  BY <1>7, <2>4, <3>1 DEF Held
  <2>16. Exact(m2, ts, op, free)
    BY <2>7, <2>8, <2>9, <2>11, <2>12, <2>13, <2>14, <2>15 DEF Exact
  <2> QED  BY <1>1, <1>2, <1>4, <1>t, <2>m, <2>1, <2>3, <2>16, LedgerRecorded DEF ts
<1>10. CASE ~(mem.dirty[u] # op.dirty)
  <2> DEFINE st == Tail(todo)
  <2>1. Go(op, st) /\ log' = log
    BY <1>10 DEF SetDirtyFlag
  <2>st. /\ Elements(st) = R
         /\ (Len(st) # 0 => Elements(Tail(st)) \subseteq R)
         /\ (Len(st) = 0 => st = <<>> /\ R = {})
    BY <1>t
  <2>5. /\ "synced" \in A /\ "dirty" \in R => "resynced" \in A
    BY <1>2, <1>7 DEF Synching
  <2> HIDE DEF R, st
  <2>2. Behind(R, op) = Behind(A, op) /\ Torso(R, op) = Torso(A, op)
    BY DEF Behind, Torso, Filling
  <2>3. Valued(mem, R, op)
    BY <1>8, <1>3 DEF Valued, Filling
  <2>4. Planned(R, op) /\ R # {}
    BY <1>3, <1>7 DEF Planned, Filling
  <2>6. Synching(mem, st, op)
    <3>1. /\ "synced" \in R => "synced" \in Elements(todo)
          /\ "synced" \in Elements(todo) => "synced" \in R
          /\ "resynced" \in R <=> "resynced" \in Elements(todo)
      BY <1>2
    <3>2. "synced" \in R => ~mem.dirty[u]
      BY <1>7, <1>10, <3>1 DEF Synching
    <3>3. "synced" \in R /\ "dirty" \in Elements(Tail(st)) => "resynced" \in R
      BY <2>st, <2>4, <2>5
    <3> QED  BY <1>7, <2>st, <3>1, <3>2, <3>3 DEF Synching
  <2>7. Units \subseteq Held(mem, R, op, free)
    <3>1. Loose(R, op) = Loose(A, op)
      BY DEF Loose
    <3> QED  BY <1>7, <3>1 DEF Held
  <2>8. Exact(mem, st, op, free)
    BY <1>7, <2>st, <2>2, <2>3, <2>4, <2>6, <2>7 DEF Exact
  <2>9. st # <<>>
    BY <2>st, <2>4, NoScript
  <2> QED  BY <1>1, <1>4, <2>1, <2>8, <2>9, LedgerOn DEF Go
<1> QED  BY <1>9, <1>10

\* Block::refreshSetList keeps the ledger.
LEMMA RefreshSetListLedger == ASSUME Base, Ledger, RefreshSetList PROVE Ledger'
<1> DEFINE R == Elements(Tail(todo))
           A == {"rset"} \cup R
           u == op.b
           first == mem.head.setHead = u
           g == When(~first, StepOff("syncTail", "setPrev", u) \o StepOff("dirtyTail", "setPrev", u))
                  \o When(mem.head.dirtyTail = 0, <<ToHead("dirtyTail", u)>>)
                  \o When(~first, MoveFront(SetList, u))
           m2 == Apply(mem, g)
           st == <<"rget">> \o Tail(todo)
           ts == <<"commit">> \o st
<1>1. At("rset") /\ mem' = mem /\ free' = free /\ Record(g, op, st)
  BY DEF RefreshSetList
<1>2. /\ Elements(todo) = A /\ R \subseteq Later("rset") /\ Script(Tail(todo)) /\ Calm
  BY <1>1, AtStage
<1>3. R \subseteq {"commit", "item"}
  BY <1>2, LaterIs
<1>4. Sound(mem, A, op, free) /\ Shape(mem) /\ IsMemory(mem) /\ Exact(mem, todo, op, free)
  BY <1>2, CalmAfter, LedgerCalm
<1>5. u \in BlocksOf(mem)
  <2>1. A \cap Working # {} /\ "alloc" \notin A
    BY <1>3 DEF Working
  <2> QED  BY <1>4, <2>1 DEF Sound, Placed
<1>6. g \in Seq(Entry) /\ MovedSet(mem, m2, u)
  BY <1>4, <1>5, RefreshSetEffect
<1>m. m2 = Apply(mem, g)
  OBVIOUS
<1> HIDE DEF g, m2
<1>7. /\ BlocksOf(m2) = BlocksOf(mem) /\ Owned(m2) = Owned(mem)
      /\ Upto(SetOf(mem), mem.head.dirtyTail) \cup {u} \subseteq Upto(SetOf(m2), m2.head.dirtyTail)
  BY <1>4, <1>5, <1>6, MovedSetShape
<1>8. /\ m2.data = mem.data /\ m2.dirty = mem.dirty /\ m2.onlyKey = mem.onlyKey
      /\ m2.head.dirtyCount = mem.head.dirtyCount /\ m2.head.onlyKeyCount = mem.head.onlyKeyCount
  BY <1>6 DEF MovedSet, Fields, Heads, HeadCounts
<1>9. st \in Seq(Stages) /\ Elements(ts) = {"commit", "rget"} \cup R
  <2>1. "rget" \in Stages /\ "commit" \in Stages /\ Tail(todo) \in Seq(Stages)
    BY <1>2 DEF Stages, Script
  <2>2. st \in Seq(Stages) /\ Elements(st) = {"rget"} \cup R
    BY <2>1, StagePut
  <2> HIDE DEF st
  <2>3. Elements(ts) = {"commit"} \cup Elements(st)
    BY <2>1, <2>2, StagePut
  <2> QED  BY <2>2, <2>3
<1> HIDE DEF st, ts, R
<1>10. /\ Behind(A, op) \subseteq {u} /\ Torso(A, op) = {} /\ Torso(Elements(ts), op) = {}
  BY <1>3, <1>9 DEF Behind, Torso, Filling
<1>11. /\ Tallied(mem) /\ Bare(mem) /\ Reached(mem, Behind(A, op)) /\ Whole(mem, {})
       /\ Units \subseteq Held(mem, A, op, free)
  BY <1>2, <1>4, <1>10 DEF Exact
<1>12. Tallied(m2) /\ Bare(m2) /\ Whole(m2, {})
  BY <1>7, <1>8, <1>11 DEF Tallied, Bare, Whole
<1>13. Reached(m2, Behind(Elements(ts), op))
  BY <1>7, <1>8, <1>10, <1>11 DEF Reached
<1>14. /\ Elements(ts) \cap {"dirty", "synced", "resynced"} = {} /\ Planned(Elements(ts), op)
  BY <1>3, <1>9 DEF Planned, Filling
<1>15. Units \subseteq Held(m2, Elements(ts), op, free)
  <2>1. Loose(Elements(ts), op) = Loose(A, op)
    BY <1>9 DEF Loose
  <2> QED  BY <1>7, <1>11, <2>1 DEF Held
<1>16. Exact(m2, ts, op, free)
  BY <1>10, <1>12, <1>13, <1>14, <1>15, Unplaced DEF Exact
<1> QED  BY <1>1, <1>2, <1>4, <1>6, <1>m, <1>9, <1>16, LedgerRecorded DEF ts

\* Block::refreshGetList keeps the ledger.
LEMMA RefreshGetListLedger == ASSUME Base, Ledger, RefreshGetList PROVE Ledger'
<1> DEFINE R == Elements(Tail(todo))
           A == {"rget"} \cup R
           u == op.b
<1>1. At("rget") /\ mem' = mem /\ free' = free
  BY DEF RefreshGetList
<1>2. /\ Elements(todo) = A /\ R \subseteq Later("rget") /\ Script(Tail(todo)) /\ Calm
  BY <1>1, AtStage
<1>3. R \subseteq {"commit", "item"}
  BY <1>2, LaterIs
<1>4. /\ Sound(mem, A, op, free) /\ Shape(mem) /\ IsMemory(mem) /\ op \in Op /\ log \in Seq(Quiet)
      /\ Exact(mem, todo, op, free)
  BY <1>2, CalmAfter, LedgerCalm DEF Base
<1>5. u \in BlocksOf(mem)
  <2>1. A \cap Working # {} /\ "alloc" \notin A
    BY <1>3 DEF Working
  <2> QED  BY <1>4, <2>1 DEF Sound, Placed
<1>6. op.got = <<>> /\ op.gone = {}
  <2>1. A \cap {"free", "grab", "join"} = {}
    BY <1>3
  <2> QED  BY <1>4, <2>1, EmptyHands
<1>7. ASSUME NEW st, Elements(st) \in {R, {"commit"} \cup R}, NEW m2, BlocksOf(m2) = BlocksOf(mem),
             SetOf(m2) = SetOf(mem), Owned(m2) = Owned(mem), m2.data = mem.data, m2.dirty = mem.dirty,
             m2.onlyKey = mem.onlyKey, m2.head.dirtyTail = mem.head.dirtyTail,
             m2.head.dirtyCount = mem.head.dirtyCount, m2.head.onlyKeyCount = mem.head.onlyKeyCount
      PROVE  Exact(m2, st, op, free)
  <2>1. Elements(st) \subseteq {"commit", "item"} /\ A \subseteq {"rget", "commit", "item"}
    BY <1>3, <1>7
  <2>2. \A B \in SUBSET {"rget", "commit", "item"} : Behind(B, op) = {} /\ Torso(B, op) = {}
    BY DEF Behind, Torso, Filling
  <2>3. /\ Behind(Elements(st), op) = {} /\ Torso(Elements(st), op) = {}
        /\ Behind(A, op) = {} /\ Torso(A, op) = {}
    BY <2>1, <2>2
  <2>4. /\ Tallied(mem) /\ Bare(mem) /\ Reached(mem, {}) /\ Whole(mem, {})
        /\ Units \subseteq Held(mem, A, op, free)
    BY <1>2, <1>4, <2>3 DEF Exact
  <2>5. Tallied(m2) /\ Bare(m2) /\ Whole(m2, {}) /\ Reached(m2, {})
    BY <1>7, <2>4 DEF Tallied, Bare, Whole, Reached
  <2>6. /\ Elements(st) \cap {"dirty", "synced", "resynced"} = {} /\ Planned(Elements(st), op)
    BY <2>1 DEF Planned, Filling
  <2>7. Units \subseteq Held(m2, Elements(st), op, free)
    <3>1. Loose(Elements(st), op) = Loose(A, op)
      BY <1>3, <2>1 DEF Loose
    <3> QED  BY <1>7, <2>4, <3>1 DEF Held
  <2> QED  BY <2>3, <2>5, <2>6, <2>7, Unplaced DEF Exact
<1>8. CASE mem.head.getHead = u
  <2>1. Go(op, Tail(todo)) /\ log' = log
    BY <1>8 DEF RefreshGetList
  <2>2. Exact(mem, Tail(todo), op, free)
    BY <1>7
  <2> QED  BY <1>1, <1>4, <1>6, <2>1, <2>2, LedgerOn DEF Go
<1>9. CASE mem.head.getHead # u
  <2> DEFINE g == StepOff("backupTail", "getPrev", u) \o MoveFront(GetList, u)
             m2 == Apply(mem, g)
             ts == <<"commit">> \o Tail(todo)
  <2>1. Record(g, op, Tail(todo))
    BY <1>9 DEF RefreshGetList
  <2>2. g \in Seq(Entry) /\ MovedGet(mem, m2, u)
    BY <1>4, <1>5, <1>9, RefreshGetEffect
  <2>m. m2 = Apply(mem, g)
    OBVIOUS
  <2> HIDE DEF g, m2
  <2>3. SetOf(m2) = SetOf(mem) /\ BlocksOf(m2) = BlocksOf(mem) /\ Owned(m2) = Owned(mem)
    BY <1>4, <1>5, <1>9, <2>2, MovedGetShape
  <2>4. /\ m2.data = mem.data /\ m2.dirty = mem.dirty /\ m2.onlyKey = mem.onlyKey
        /\ m2.head.dirtyCount = mem.head.dirtyCount /\ m2.head.onlyKeyCount = mem.head.onlyKeyCount
        /\ m2.head.dirtyTail = mem.head.dirtyTail
    BY <2>2 DEF MovedGet, Fields, Heads, HeadCounts, HeadLinks
  <2>5. Elements(ts) = {"commit"} \cup R /\ Tail(todo) \in Seq(Stages)
    <3>1. "commit" \in Stages /\ Tail(todo) \in Seq(Stages)
      BY <1>2 DEF Stages, Script
    <3> QED  BY <3>1, StagePut
  <2> HIDE DEF ts
  <2>6. Exact(m2, ts, op, free)
    BY <1>7, <2>3, <2>4, <2>5
  <2> QED  BY <1>1, <1>2, <1>4, <2>m, <2>1, <2>2, <2>5, <2>6, LedgerRecorded DEF ts
<1> QED  BY <1>8, <1>9

\* The blocks up to one are that one and those up to its predecessor.
LEMMA UptoPrev ==
  ASSUME NEW m, Shape(m), NEW u \in BlocksOf(m)
  PROVE  Upto(SetOf(m), u) = Upto(SetOf(m), m.setPrev[u]) \cup {u}
<1> DEFINE s == SetOf(m)
           prev == m.setPrev
<1>0. s \in Seq(Units) /\ Once(s) /\ Back(s, prev) /\ u \in Elements(s)
  BY DEF Shape, SetFits, Listed, Forth, BlocksOf
<1> HIDE DEF s, prev
<1>1. PICK k \in 1..Len(s) : s[k] = u
  BY <1>0, InElements
<1>2. Upto(s, u) = {s[j] : j \in 1..k}
  <2>1. Upto(s, s[k]) = {s[j] : j \in 1..k}
    BY <1>0, UptoAt
  <2> QED  BY <1>1, <2>1
<1>3. prev[u] = (IF k = 1 THEN 0 ELSE s[k - 1]) /\ Len(s) \in Nat /\ 0 \notin Elements(s)
  BY <1>0, <1>1, InElements DEF Back
<1>4. CASE k = 1
  <2>1. Upto(s, prev[u]) = {}
    BY <1>0, <1>3, <1>4, UptoNone
  <2>2. Upto(s, u) = {u}
    BY <1>1, <1>2, <1>4
  <2> QED  BY <2>1, <2>2 DEF s, prev
<1>5. CASE k # 1
  <2>1. k - 1 \in 1..Len(s)
    BY <1>3, <1>5
  <2>2. Upto(s, s[k - 1]) = {s[j] : j \in 1..(k - 1)}
    BY <1>0, <2>1, UptoAt
  <2>3. 1..k = 1..(k - 1) \cup {k}
    BY <1>3
  <2> QED  BY <1>1, <1>2, <1>3, <1>5, <2>2, <2>3 DEF s, prev
<1> QED  BY <1>4, <1>5

\* Moving the cursors keeps counts, flags, data and owners.
LEMMA CursorLedger ==
  ASSUME NEW m, Shape(m), NEW m2, ButCursors(m, m2)
  PROVE  /\ Tallied(m) => Tallied(m2)
         /\ Bare(m) => Bare(m2)
         /\ \A S : Whole(m, S) => Whole(m2, S)
         /\ \A A, o, fr : Held(m2, A, o, fr) = Held(m, A, o, fr)
         /\ SetOf(m2) = SetOf(m) /\ BlocksOf(m2) = BlocksOf(m) /\ Owned(m2) = Owned(m)
         /\ m2.dirty = m.dirty /\ m2.onlyKey = m.onlyKey /\ m2.setPrev = m.setPrev /\ m2.data = m.data
<1>1. SetOf(m2) = SetOf(m) /\ BlocksOf(m2) = BlocksOf(m) /\ Owned(m2) = Owned(m)
  BY CursorsStay
<1>2. m2.dirty = m.dirty /\ m2.onlyKey = m.onlyKey /\ m2.setPrev = m.setPrev /\ m2.data = m.data
  BY DEF ButCursors, Fields, UnitLinks
<1>3. m2.head.dirtyCount = m.head.dirtyCount /\ m2.head.onlyKeyCount = m.head.onlyKeyCount
  BY DEF ButCursors, Heads, HeadLinks, HeadCounts
<1>4. Tallied(m) => Tallied(m2)
  BY <1>1, <1>2, <1>3 DEF Tallied
<1>5. (Bare(m) => Bare(m2)) /\ \A S : Whole(m, S) => Whole(m2, S)
  BY <1>1, <1>2 DEF Bare, Whole
<1>6. \A A, o, fr : Held(m2, A, o, fr) = Held(m, A, o, fr)
  BY <1>1 DEF Held
<1> QED  BY <1>1, <1>2, <1>4, <1>5, <1>6

\* The same memory under other stages.
LEMMA ExactTurn ==
  ASSUME NEW m, NEW td, NEW o, NEW fr, Exact(m, td, o, fr), NEW td2, NEW o2,
         Behind(Elements(td), o) \subseteq Behind(Elements(td2), o2),
         Torso(Elements(td), o) \subseteq Torso(Elements(td2), o2),
         Loose(Elements(td), o) \cup o.gone \subseteq Loose(Elements(td2), o2) \cup o2.gone,
         Valued(m, Elements(td2), o2), Synching(m, td2, o2), Planned(Elements(td2), o2)
  PROVE  Exact(m, td2, o2, fr)
<1>1. Reached(m, Behind(Elements(td2), o2))
  BY DEF Exact, Reached
<1>2. Whole(m, Torso(Elements(td2), o2))
  BY DEF Exact, Whole
<1>3. Units \subseteq Held(m, Elements(td2), o2, fr)
  BY DEF Exact, Held
<1> QED  BY <1>1, <1>2, <1>3 DEF Exact

\* The second half of sync keeps the ledger.
LEMMA SyncedLedger == ASSUME Base, Ledger, Synced PROVE Ledger'
<1> DEFINE R == Elements(Tail(todo))
           A == {"synced"} \cup R
           u == op.b
           st == Tail(todo)
<1>1. At("synced") /\ mem' = DirtyPast(mem, op.b) /\ free' = free /\ log' = log /\ Go(op, Tail(todo))
  BY DEF Synced
<1>2. /\ Elements(todo) = A /\ R \subseteq Later("synced") /\ Script(Tail(todo)) /\ Calm
      /\ todo[1] = "synced"
  BY <1>1, AtStage
<1>3. R \subseteq {"resync", "dirty", "resynced"}
  BY <1>2, LaterIs
<1>4. /\ Sound(mem, A, op, free) /\ Shape(mem) /\ op \in Op /\ log \in Seq(Quiet)
      /\ Exact(mem, todo, op, free)
  BY <1>2, CalmAfter, LedgerCalm DEF Base
<1>5. u \in BlocksOf(mem)
  <2>1. A \cap Working # {} /\ "alloc" \notin A
    BY <1>3 DEF Working
  <2> QED  BY <1>4, <2>1 DEF Sound, Placed
<1>6. op.got = <<>> /\ op.gone = {}
  <2>1. A \cap {"free", "grab", "join"} = {}
    BY <1>3
  <2> QED  BY <1>4, <2>1, EmptyHands
<1>7. /\ ButCursors(mem, mem')
      /\ mem'.head.dirtyTail = IF mem.head.dirtyTail = u THEN mem.setPrev[u] ELSE mem.head.dirtyTail
  BY <1>1, <1>4, <1>5, PastEffect
<1>8. /\ Tallied(mem) /\ Bare(mem) /\ Units \subseteq Held(mem, A, op, free)
      /\ Reached(mem, Behind(A, op)) /\ Whole(mem, Torso(A, op)) /\ Valued(mem, A, op)
      /\ Synching(mem, todo, op)
  BY <1>2, <1>4 DEF Exact
<1>9. /\ u \in Upto(SetOf(mem), mem.head.dirtyTail) /\ ~mem.dirty[u]
      /\ "dirty" \in R => "resynced" \in A
  <2>1. todo[1] # "dirty"
    BY <1>2
  <2> QED  BY <1>2, <1>8, <2>1 DEF Synching
<1>10. Upto(SetOf(mem), u) = Upto(SetOf(mem), mem.setPrev[u]) \cup {u}
  BY <1>4, <1>5, UptoPrev
<1>11. /\ Tallied(mem') /\ Bare(mem') /\ Whole(mem', Torso(A, op))
       /\ Held(mem', A, op, free) = Held(mem, A, op, free)
       /\ SetOf(mem') = SetOf(mem) /\ BlocksOf(mem') = BlocksOf(mem) /\ mem'.dirty = mem.dirty
       /\ mem'.onlyKey = mem.onlyKey /\ mem'.setPrev = mem.setPrev
  BY <1>4, <1>7, <1>8, CursorLedger
<1>e. Elements(st) = R
  OBVIOUS
<1> HIDE DEF R, st
<1>12. /\ Behind(R, op) = Behind(A, op) /\ Torso(R, op) = Torso(A, op)
       /\ Held(mem', R, op, free) = Held(mem', A, op, free)
  BY <1>3 DEF Behind, Torso, Filling, Held, Loose
<1>13. Reached(mem', Behind(R, op))
  BY <1>7, <1>8, <1>9, <1>10, <1>11, <1>12 DEF Reached
<1>14. Valued(mem', R, op) /\ Planned(R, op)
  BY <1>3, <1>8, <1>9, <1>11 DEF Valued, Planned, Filling
<1>15. Synching(mem', st, op)
  BY <1>e, <1>3, <1>7, <1>9, <1>11 DEF Synching
<1>16. Exact(mem', st, op, free)
  BY <1>e, <1>8, <1>11, <1>12, <1>13, <1>14, <1>15 DEF Exact
<1>17. IsMemory(mem')
  BY <1>7 DEF ButCursors
<1> QED  BY <1>1, <1>4, <1>6, <1>16, <1>17, LedgerOn DEF Go, st

\* setDirtyAfterSync keeps the ledger.
LEMMA ResyncLedger == ASSUME Base, Ledger, Resync PROVE Ledger'
<1> DEFINE R == Elements(Tail(todo))
           A == {"resync"} \cup R
           o == [op EXCEPT !.dirty = TRUE]
           st == Tail(todo)
<1>1. At("resync") /\ mem' = mem /\ free' = free /\ log' = Counted(TRUE) /\ Go(o, st)
  BY DEF Resync
<1>2. /\ Elements(todo) = A /\ R \subseteq Later("resync") /\ Script(Tail(todo)) /\ Calm
  BY <1>1, AtStage
<1>3. R \subseteq {"dirty", "resynced"}
  BY <1>2, LaterIs
<1>4. /\ Sound(mem, A, op, free) /\ Shape(mem) /\ IsMemory(mem) /\ op \in Op
      /\ Exact(mem, todo, op, free)
  BY <1>2, CalmAfter, LedgerCalm DEF Base, Shape
<1>5. /\ o.b = op.b /\ o.new = op.new /\ o.got = op.got /\ o.gone = op.gone /\ o.only = op.only
  BY <1>4 DEF Op
<1>6. op.got = <<>> /\ op.gone = {}
  <2>1. A \cap {"free", "grab", "join"} = {}
    BY <1>3
  <2> QED  BY <1>4, <2>1, EmptyHands
<1>e. Elements(st) = R
  OBVIOUS
<1>7. log' \in Seq(Quiet)
  BY <1>1, CountedQuiet
<1> HIDE DEF R, st, o
<1>8. /\ Behind(Elements(todo), op) = Behind(Elements(st), o)
      /\ Torso(Elements(todo), op) = Torso(Elements(st), o)
      /\ Loose(Elements(todo), op) = Loose(Elements(st), o)
  BY <1>e, <1>2, <1>3, <1>5 DEF Behind, Torso, Loose, Filling
<1>9. Valued(mem, Elements(st), o) /\ Planned(Elements(st), o)
  BY <1>e, <1>2, <1>3, <1>4, <1>5 DEF Exact, Valued, Planned, Filling
<1>10. Synching(mem, st, o)
  BY <1>e, <1>2, <1>3, <1>4, <1>5 DEF Exact, Synching
<1>11. Exact(mem, st, o, free)
  BY <1>4, <1>5, <1>8, <1>9, <1>10, ExactTurn
<1> QED  BY <1>1, <1>4, <1>5, <1>6, <1>7, <1>11, LedgerOn DEF Go

\* The end of setDirtyAfterSync keeps the ledger.
LEMMA ResyncedLedger == ASSUME Base, Ledger, Resynced PROVE Ledger'
<1> DEFINE R == Elements(Tail(todo))
           A == {"resynced"} \cup R
           u == op.b
           st == Tail(todo)
           c == mem.head.dirtyTail
           v == IF c = mem.setPrev[u] THEN u ELSE c
<1>1. At("resynced") /\ mem' = PutHead(mem, "dirtyTail", v) /\ free' = free /\ log' = log
      /\ Go(op, st)
  <2>1. mem' = [mem EXCEPT !.head.dirtyTail = IF @ = mem.setPrev[op.b] THEN op.b ELSE @]
    BY DEF Resynced
  <2>2. "dirtyTail" \in DOMAIN mem.head /\ "head" \in DOMAIN mem
    BY DEF Base, Shape, IsMemory, Fields, Heads, HeadLinks
  <2>3. mem' = PutHead(mem, "dirtyTail", v)
    BY <2>1, <2>2 DEF PutHead
  <2> QED  BY <2>3 DEF Resynced
<1>2. Elements(todo) = A /\ R \subseteq Later("resynced") /\ Script(Tail(todo)) /\ Calm
  BY <1>1, AtStage
<1>3. R = {}
  BY <1>2, LaterIs
<1>4. /\ Sound(mem, A, op, free) /\ Shape(mem) /\ op \in Op /\ log \in Seq(Quiet)
      /\ Exact(mem, todo, op, free)
  BY <1>2, CalmAfter, LedgerCalm DEF Base
<1>5. u \in BlocksOf(mem)
  <2>1. A \cap Working # {} /\ "alloc" \notin A
    BY <1>3 DEF Working
  <2> QED  BY <1>4, <2>1 DEF Sound, Placed
<1>6. op.got = <<>> /\ op.gone = {} /\ Loose(A, op) = {}
  <2>1. A \cap {"free", "grab", "join"} = {}
    BY <1>3
  <2> QED  BY <1>4, <2>1, EmptyHands
<1>7. v \in BlocksOf(mem) \cup {0}
  BY <1>4, <1>5 DEF Shape, Cursors
<1>8. ButCursors(mem, mem') /\ mem'.head.dirtyTail = v
  <2> HIDE DEF v
  <2> QED  BY <1>1, <1>4, <1>7, PutEffect
<1>9. /\ Tallied(mem) /\ Bare(mem) /\ Units \subseteq Held(mem, A, op, free)
      /\ Reached(mem, Behind(A, op)) /\ Whole(mem, Torso(A, op)) /\ Synching(mem, todo, op)
  BY <1>2, <1>4 DEF Exact
<1>10. Behind(A, op) = {u} /\ Torso(A, op) = {} /\ Behind({}, op) = {} /\ Torso({}, op) = {}
  BY <1>3 DEF Behind, Torso, Filling
<1>11. u \in Upto(SetOf(mem), c) \/ c = mem.setPrev[u]
  BY <1>2, <1>9 DEF Synching
<1>12. Upto(SetOf(mem), u) = Upto(SetOf(mem), mem.setPrev[u]) \cup {u}
  BY <1>4, <1>5, UptoPrev
<1>13. /\ Tallied(mem') /\ Bare(mem') /\ Whole(mem', {})
       /\ Held(mem', A, op, free) = Held(mem, A, op, free)
       /\ SetOf(mem') = SetOf(mem) /\ BlocksOf(mem') = BlocksOf(mem) /\ mem'.dirty = mem.dirty
  <2>1. Shape(mem) /\ ButCursors(mem, mem') /\ Whole(mem, {})
    BY <1>4, <1>8, <1>9, <1>10
  <2> HIDE DEF A, v, c
  <2> QED  BY <1>9, <2>1, CursorLedger
<1>14. Reached(mem', {})
  BY <1>8, <1>9, <1>10, <1>11, <1>12, <1>13 DEF Reached
<1>15. Held(mem', {}, op, free) = Held(mem', A, op, free)
  BY <1>6 DEF Held, Loose
<1>e. Elements(st) = {}
  BY <1>3
<1> HIDE DEF R, st
<1>16. Valued(mem', {}, op) /\ Synching(mem', st, op) /\ Planned({}, op)
  BY <1>e DEF Valued, Synching, Planned
<1>17. Exact(mem', st, op, free)
  BY <1>e, <1>9, <1>10, <1>13, <1>14, <1>15, <1>16 DEF Exact
<1>18. IsMemory(mem')
  BY <1>8 DEF ButCursors
<1> QED  BY <1>1, <1>4, <1>6, <1>17, <1>18, LedgerOn DEF Go

\* recover of one block keeps the ledger.
LEMMA RecoverOneLedger == ASSUME Base, Ledger, NEW torn, RecoverOne(torn) PROVE Ledger'
<1> DEFINE R == Elements(Tail(todo))
           A == {"recover"} \cup R
           c == Chain(op.next)
           bad == {j \in DOMAIN c : GetBlockData(c[j], torn) = "err"}
           o == [op EXCEPT !.b = c[Min(bad)]]
           st == <<"erase">> \o todo
<1>1. At("recover") /\ mem' = mem /\ free' = free /\ log' = log
  BY DEF RecoverOne
<1>2. /\ Elements(todo) = A /\ R \subseteq Later("recover") /\ Script(Tail(todo)) /\ Calm
      /\ todo \in Seq(Stages)
  BY <1>1, AtStage DEF Base, Script
<1>3. R = {}
  BY <1>2, LaterIs
<1>4. /\ Sound(mem, A, op, free) /\ IsMemory(mem) /\ op \in Op /\ log \in Seq(Quiet)
      /\ Exact(mem, todo, op, free)
  BY <1>2, CalmAfter, LedgerCalm DEF Base, Shape
<1>5. op.got = <<>> /\ op.gone = {} /\ Loose(A, op) = {}
  <2>1. A \cap {"free", "grab", "join"} = {}
    BY <1>3
  <2> QED  BY <1>4, <2>1, EmptyHands
<1>6. Behind(A, op) = {} /\ Torso(A, op) = {}
  BY <1>3 DEF Behind, Torso, Filling
<1>7. CASE bad = {}
  <2> DEFINE t == Tail(todo)
  <2>1. Go(op, t)
    BY <1>7 DEF RecoverOne
  <2>2. Elements(t) = {}
    BY <1>3
  <2> HIDE DEF t, R, bad, c
  <2>3. Valued(mem, {}, op) /\ Synching(mem, t, op) /\ Planned({}, op)
    BY <2>2 DEF Valued, Synching, Planned
  <2>4. Exact(mem, t, op, free)
    BY <1>2, <1>4, <1>5, <1>6, <2>2, <2>3, ExactTurn
  <2> QED  BY <1>1, <1>4, <1>5, <2>1, <2>4, LedgerOn DEF Go
<1>8. CASE bad # {}
  <2>1. Go(o, st)
    BY <1>8 DEF RecoverOne
  <2>2. o.got = op.got /\ o.gone = op.gone
    BY <1>4 DEF Op
  <2>3. Elements(st) = {"erase", "recover"} /\ st # <<>>
    <3>1. "erase" \in Stages
      BY DEF Stages
    <3>2. Elements(<<"erase">> \o todo) = {"erase"} \cup Elements(todo) /\ <<"erase">> \o todo # <<>>
      BY <1>2, <3>1, StagePut
    <3> QED  BY <1>2, <1>3, <3>2
  <2> HIDE DEF o, st, R, bad, c
  <2>4. /\ Valued(mem, Elements(st), o) /\ Synching(mem, st, o) /\ Planned(Elements(st), o)
    BY <2>3 DEF Valued, Synching, Planned, Filling
  <2>5. Exact(mem, st, o, free)
    BY <1>2, <1>4, <1>5, <1>6, <2>4, ExactTurn
  <2> QED  BY <1>1, <1>4, <2>1, <2>3, <2>5, LedgerOn DEF Go
<1> QED  BY <1>7, <1>8

\* The next block of a bucket keeps the ledger.
LEMMA NextItemLedger == ASSUME Base, Ledger, NextItem PROVE Ledger'
<1> DEFINE R == Elements(Tail(todo))
           A == {"item"} \cup R
           u == op.next
           n == mem.blockNext[u]
           o == [op EXCEPT !.b = u, !.next = n]
           rest == When(n # 0, <<"item">>) \o Tail(todo)
           st == <<"dirty">> \o (<<"rset">> \o rest)
<1>1. At("item") /\ mem' = mem /\ free' = free
  BY DEF NextItem
<1>2. /\ Elements(todo) = A /\ R \subseteq Later("item") /\ Calm /\ Tail(todo) \in Seq(Stages)
  BY <1>1, AtStage DEF Script
<1>3. R = {} /\ Tail(todo) = <<>>
  <2>1. R = {}
    BY <1>2, LaterIs
  <2> QED  BY <1>2, <2>1, EmptyScript
<1>4. /\ Sound(mem, A, op, free) /\ IsMemory(mem) /\ op \in Op /\ log \in Seq(Quiet)
      /\ Exact(mem, todo, op, free)
  BY <1>2, CalmAfter, LedgerCalm DEF Base, Shape
<1>5. op.got = <<>> /\ op.gone = {} /\ Loose(A, op) = {}
  <2>1. A \cap {"free", "grab", "join"} = {}
    BY <1>3
  <2> QED  BY <1>4, <2>1, EmptyHands
<1>6. Behind(A, op) = {} /\ Torso(A, op) = {}
  BY <1>3 DEF Behind, Torso, Filling
<1>7. o.b = u /\ o.got = op.got /\ o.gone = op.gone /\ o.next = n
  <2> HIDE DEF u, n
  <2> QED  BY <1>4 DEF Op
<1>8. rest \in Seq(Stages) /\ Elements(rest) \subseteq {"item"}
  <2>1. CASE n # 0
    <3>1. rest = <<"item">> \o <<>>
      BY <1>3, <2>1 DEF When
    <3>2. "item" \in Stages /\ <<>> \in Seq(Stages) /\ Elements(<<>>) = {}
      BY NoScript DEF Stages
    <3>3. /\ <<"item">> \o <<>> \in Seq(Stages)
          /\ Elements(<<"item">> \o <<>>) = {"item"} \cup Elements(<<>>)
      BY <3>2, StagePut
    <3> HIDE DEF rest, n
    <3> QED  BY <3>1, <3>2, <3>3
  <2>2. CASE n = 0
    <3>1. rest = <<>>
      BY <1>3, <2>2 DEF When
    <3> HIDE DEF rest, n
    <3> QED  BY <3>1, NoScript
  <2> QED  BY <2>1, <2>2
<1>9. /\ Elements(st) = {"dirty", "rset"} \cup Elements(rest) /\ st # <<>>
      /\ <<"dirty", "rset">> \o rest = st
  <2> DEFINE r == <<"rset">> \o rest
  <2> HIDE DEF rest
  <2>1. "rset" \in Stages /\ "dirty" \in Stages /\ rest \in Seq(Stages)
    BY <1>8 DEF Stages
  <2>2. r \in Seq(Stages) /\ Elements(r) = {"rset"} \cup Elements(rest)
    BY <2>1, StagePut
  <2>3. <<"dirty", "rset">> \o rest = <<"dirty">> \o r
    BY <2>1, TwoStages
  <2> HIDE DEF r
  <2>4. Elements(<<"dirty">> \o r) = {"dirty"} \cup Elements(r) /\ <<"dirty">> \o r # <<>>
    BY <2>1, <2>2, StagePut
  <2>5. {"dirty"} \cup Elements(r) = {"dirty", "rset"} \cup Elements(rest)
    BY <2>2
  <2> QED  BY <2>3, <2>4, <2>5 DEF r
<1>10. IF mem.onlyKey[u] THEN Go(o, rest) /\ log' = log ELSE Go(o, <<"dirty", "rset">> \o rest) /\ log' = <<>>
  <2>1. [op EXCEPT !.b = u, !.next = mem.blockNext[u]].next = n
    BY <1>7
  <2> QED  BY <2>1 DEF NextItem
<1> HIDE DEF o, rest, st, R
<1>11. CASE mem.onlyKey[u]
  <2>1. /\ Valued(mem, Elements(rest), o) /\ Synching(mem, rest, o) /\ Planned(Elements(rest), o)
    BY <1>8 DEF Valued, Synching, Planned, Filling
  <2>2. Exact(mem, rest, o, free)
    BY <1>2, <1>4, <1>5, <1>6, <2>1, ExactTurn
  <2> QED  BY <1>1, <1>4, <1>5, <1>7, <1>10, <1>11, <2>2, LedgerOn DEF Go
<1>12. CASE ~mem.onlyKey[u]
  <2>0. <<>> \in Seq(Quiet)
    OBVIOUS
  <2>1. Go(o, st) /\ log' = <<>> /\ log' \in Seq(Quiet)
    BY <1>9, <1>10, <1>12, <2>0
  <2>2. Elements(st) \subseteq {"dirty", "rset", "item"} /\ "rset" \in Elements(st)
    BY <1>8, <1>9
  <2>3. /\ Valued(mem, Elements(st), o) /\ Synching(mem, st, o) /\ Planned(Elements(st), o)
    BY <1>7, <1>12, <2>2 DEF Valued, Synching, Planned, Filling
  <2>4. Exact(mem, st, o, free)
    BY <1>2, <1>4, <1>5, <1>6, <2>3, ExactTurn
  <2> QED  BY <1>1, <1>4, <1>9, <2>1, <2>4, LedgerOn DEF Go
<1> QED  BY <1>11, <1>12

\* What is true between two operations.
Rested(m, fr) ==
    Tallied(m) /\ Bare(m) /\ Units \subseteq fr \cup Owned(m) /\ Reached(m, {}) /\ Whole(m, {})

\* Between two operations every unit is free or owned and the counts are right.
LEMMA Rest ==
  ASSUME Base, Ledger, todo = <<>>
  PROVE  Rested(mem, free)
<1>1. Calm /\ Elements(todo) = {}
  BY Begun, NoScript
<1>2. Exact(mem, todo, op, free) /\ Sound(mem, {}, op, free) /\ op \in Op
  BY <1>1, CalmAfter, LedgerCalm DEF Base
<1>3. op.gone = {} /\ Loose({}, op) = {}
  BY <1>2, EmptyHands
<1>4. Behind({}, op) = {} /\ Torso({}, op) = {}
  BY DEF Behind, Torso
<1> QED  BY <1>1, <1>2, <1>3, <1>4 DEF Exact, Rested, Held

\* What an operation that begins has to establish for the ledger.
LEMMA BeginLedger ==
  ASSUME NEW o, NEW g, NEW st, Begin(o, g, st), o.got = <<>>, o.gone = {},
         NEW m2, Apply(mem', g) = m2, Rested(m2, free'),
         Valued(m2, Elements(st), o), Synching(m2, st, o), Planned(Elements(st), o)
  PROVE  Ledger'
<1>1. log' = g /\ todo' = st /\ op' = IF st = <<>> THEN Idle ELSE o
  BY DEF Begin
<1>2. Exact(m2, st, o, free')
  <2>1. /\ Units \subseteq Held(m2, Elements(st), o, free')
        /\ Reached(m2, Behind(Elements(st), o)) /\ Whole(m2, Torso(Elements(st), o))
    BY DEF Rested, Held, Reached, Whole
  <2> QED  BY <2>1 DEF Exact, Rested
<1> QED  BY <1>1, <1>2, LedgerWent

\* The same for an operation that records only statistics.
LEMMA BeginCalm ==
  ASSUME NEW o, NEW g \in Seq(Quiet), NEW st, Begin(o, g, st), o.got = <<>>, o.gone = {},
         IsMemory(mem'), Rested(mem', free'),
         Valued(mem', Elements(st), o), Synching(mem', st, o), Planned(Elements(st), o)
  PROVE  Ledger'
<1>1. Apply(mem', g) = mem'
  BY QuietKeeps
<1> QED  BY <1>1, BeginLedger

\* Operations that start with none of the stages of a set or a sync.
LEMMA PlainStages ==
  ASSUME NEW st, Elements(st) \subseteq {"rget", "erase", "item", "recover", "commit"}, NEW o, NEW m
  PROVE  Valued(m, Elements(st), o) /\ Synching(m, st, o) /\ Planned(Elements(st), o)
  BY DEF Valued, Synching, Planned, Filling

\* An operation that changes no memory and only reads or erases keeps the ledger.
LEMMA BeginPlain ==
  ASSUME Base, Ledger, NEW o, NEW g \in Seq(Quiet), NEW st, Begin(o, g, st), o.got = <<>>, o.gone = {},
         mem' = mem, free' = free, Elements(st) \subseteq {"rget", "erase", "item", "recover", "commit"}
  PROVE  Ledger'
<1>1. Rested(mem, free) /\ IsMemory(mem)
  BY Rest DEF Begin, Base, Shape
<1>2. IsMemory(mem') /\ Rested(mem', free')
  BY <1>1
<1>3. Valued(mem', Elements(st), o) /\ Synching(mem', st, o) /\ Planned(Elements(st), o)
  BY PlainStages
<1> QED  BY <1>2, <1>3, BeginCalm

\* Moving the cursors keeps it, if the dirty cursor stays behind all dirty blocks.
LEMMA CursorsRested ==
  ASSUME NEW m, NEW fr, Shape(m), Rested(m, fr), NEW m2, ButCursors(m, m2),
         {u \in BlocksOf(m) : m.dirty[u]} \cap Upto(SetOf(m), m.head.dirtyTail)
            \subseteq Upto(SetOf(m), m2.head.dirtyTail)
  PROVE  Rested(m2, fr)
<1>1. /\ Tallied(m2) /\ Bare(m2) /\ Whole(m2, {}) /\ Owned(m2) = Owned(m)
      /\ SetOf(m2) = SetOf(m) /\ BlocksOf(m2) = BlocksOf(m) /\ m2.dirty = m.dirty
  BY CursorLedger DEF Rested
<1>2. Reached(m2, {})
  BY <1>1 DEF Rested, Reached
<1> QED  BY <1>1, <1>2 DEF Rested

\* get keeps the ledger.
LEMMA GetLedger == ASSUME Base, Ledger, NEW k \in Keys, NEW torn, Get(k, torn) PROVE Ledger'
<1> DEFINE u == FindValue(k, torn)
           o == [Idle EXCEPT !.b = u]
           c == u # 0 /\ ~mem.onlyKey[u]
           hit == u # 0
           st == When(c, <<"rget">>)
<1>1. Begin(o, Counted(hit), st) /\ mem' = mem /\ free' = free
  BY DEF Get
<1>2. c \in BOOLEAN /\ hit \in BOOLEAN
  OBVIOUS
<1> HIDE DEF u
<1>3. o.got = <<>> /\ o.gone = {}
  BY DEF Idle
<1> HIDE DEF o, c, hit
<1>4. Counted(hit) \in Seq(Quiet)
  BY <1>2, CountedQuiet
<1>5. Elements(st) \subseteq {"rget"}
  <2>1. Elements(<<"rget">>) = {"rget"} /\ Elements(<<>>) = {}
    BY Scripts, NoScript DEF Stages
  <2> QED  BY <1>2, <2>1 DEF When
<1> HIDE DEF st
<1> QED  BY <1>1, <1>3, <1>4, <1>5, BeginPlain

\* del keeps the ledger.
LEMMA DelLedger == ASSUME Base, Ledger, NEW k \in Keys, NEW torn, Del(k, torn) PROVE Ledger'
<1> DEFINE u == FindValue(k, torn)
           o == [Idle EXCEPT !.b = u]
           c == u # 0
           st == When(c, <<"erase">>)
<1>1. Begin(o, Counted(c), st) /\ mem' = mem /\ free' = free
  BY DEF Del
<1>2. c \in BOOLEAN
  OBVIOUS
<1> HIDE DEF u
<1>3. o.got = <<>> /\ o.gone = {}
  BY DEF Idle
<1> HIDE DEF o, c
<1>4. Counted(c) \in Seq(Quiet)
  BY <1>2, CountedQuiet
<1>5. Elements(st) \subseteq {"erase"}
  <2>1. Elements(<<"erase">>) = {"erase"} /\ Elements(<<>>) = {}
    BY Scripts, NoScript DEF Stages
  <2> QED  BY <1>2, <2>1 DEF When
<1> HIDE DEF st
<1> QED  BY <1>1, <1>3, <1>4, <1>5, BeginPlain

\* HashMapItem::setDirty keeps the ledger.
LEMMA SetBucketDirtyLedger == ASSUME Base, Ledger, NEW i \in Buckets, SetBucketDirty(i) PROVE Ledger'
<1> DEFINE a == mem.bucket[i]
           o == [Idle EXCEPT !.dirty = TRUE, !.next = a]
           c == a # 0
           st == When(c, <<"item">>)
<1>1. Begin(o, log, st) /\ mem' = mem /\ free' = free /\ todo = <<>>
  BY DEF SetBucketDirty, Begin
<1>2. c \in BOOLEAN /\ log \in Seq(Quiet)
  BY <1>1, Begun
<1> HIDE DEF a
<1>3. o.got = <<>> /\ o.gone = {}
  BY DEF Idle
<1> HIDE DEF o, c
<1>5. Elements(st) \subseteq {"item"}
  <2>1. Elements(<<"item">>) = {"item"} /\ Elements(<<>>) = {}
    BY Scripts, NoScript DEF Stages
  <2> QED  BY <1>2, <2>1 DEF When
<1> HIDE DEF st
<1> QED  BY <1>1, <1>2, <1>3, <1>5, BeginPlain

\* recover of a bucket keeps the ledger.
LEMMA RecoverLedger == ASSUME Base, Ledger, NEW i \in Buckets, Recover(i) PROVE Ledger'
<1> DEFINE o == [Idle EXCEPT !.next = i]
           st == <<"recover">>
<1>1. Begin(o, <<>>, st) /\ mem' = mem /\ free' = free
  BY DEF Recover
<1>2. <<>> \in Seq(Quiet)
  OBVIOUS
<1>3. o.got = <<>> /\ o.gone = {}
  BY DEF Idle
<1>4. Elements(st) = {"recover"}
  BY Scripts DEF Stages
<1> HIDE DEF o, st
<1> QED  BY <1>1, <1>2, <1>3, <1>4, BeginPlain

\* set keeps the ledger.
LEMMA SetLedger ==
  ASSUME Base, Ledger, NEW k \in Keys, NEW need, NEW dirty, Set(k, need, dirty)
  PROVE  Ledger'
<1> DEFINE f == FindKey(k)
           a == f.at
           w == a = 0
           hit == a # 0
           o == [Idle EXCEPT !.b = a, !.key = k, !.need = need, !.dirty = dirty, !.new = w]
           st == When(f.ok, When(w, <<"alloc">>) \o <<"fit", "dirty", "rset">>)
<1>1. Begin(o, Counted(hit), st) /\ mem' = mem /\ free' = free /\ todo = <<>>
  BY DEF Set, Begin
<1>2. Rested(mem, free) /\ Shape(mem) /\ IsMemory(mem)
  BY <1>1, Rest, Begun DEF Shape
<1>3. f.ok \in BOOLEAN /\ w \in BOOLEAN /\ hit \in BOOLEAN
  BY DEF FindKey
<1> HIDE DEF f, a, w, hit
<1>4. o.got = <<>> /\ o.gone = {} /\ o.only = FALSE /\ o.new = w
  BY DEF Idle
<1>5. Counted(hit) \in Seq(Quiet)
  BY <1>3, CountedQuiet
<1>6. /\ Elements(st) \subseteq {"alloc", "fit", "dirty", "rset"}
      /\ Elements(st) # {} => ("alloc" \in Elements(st) <=> w)
      /\ Elements(st) # {} => "fit" \in Elements(st) /\ "rset" \in Elements(st)
  BY <1>3, FillScript
<1> HIDE DEF o, st
<1>7. Valued(mem, Elements(st), o) /\ Synching(mem, st, o) /\ Planned(Elements(st), o)
  BY <1>4, <1>6 DEF Valued, Synching, Planned, Filling
<1> QED  BY <1>1, <1>2, <1>4, <1>5, <1>7, BeginCalm

\* set of a key only keeps the ledger.
LEMMA SetKeyLedger == ASSUME Base, Ledger, NEW k \in Keys, SetKey(k) PROVE Ledger'
<1> DEFINE f == FindKey(k)
           a == f.at
           w == a = 0
           hit == a # 0
           o == [Idle EXCEPT !.b = a, !.key = k, !.only = TRUE, !.new = w]
           q == <<"fit", "rset">>
           st == When(f.ok, When(w, <<"alloc">>) \o q)
<1>1. Begin(o, Counted(hit), st) /\ mem' = mem /\ free' = free /\ todo = <<>>
  BY DEF SetKey, Begin
<1>2. Rested(mem, free) /\ Shape(mem) /\ IsMemory(mem)
  BY <1>1, Rest, Begun DEF Shape
<1>3. f.ok \in BOOLEAN /\ w \in BOOLEAN /\ hit \in BOOLEAN
  BY DEF FindKey
<1> HIDE DEF f, a, w, hit
<1>4. o.got = <<>> /\ o.gone = {} /\ o.new = w
  BY DEF Idle
<1>5. Counted(hit) \in Seq(Quiet)
  BY <1>3, CountedQuiet
<1>6. /\ Elements(st) \subseteq {"alloc", "fit", "dirty", "rset"}
      /\ Elements(st) # {} => ("alloc" \in Elements(st) <=> w)
      /\ Elements(st) # {} => "fit" \in Elements(st) /\ "rset" \in Elements(st)
      /\ "dirty" \in Elements(st) => q # <<"fit", "rset">>
  BY <1>3, FillScript
<1>7. "dirty" \notin Elements(st)
  BY <1>6
<1> HIDE DEF o, st, q
<1>8. Valued(mem, Elements(st), o) /\ Synching(mem, st, o) /\ Planned(Elements(st), o)
  BY <1>4, <1>6, <1>7 DEF Valued, Synching, Planned, Filling
<1> QED  BY <1>1, <1>2, <1>4, <1>5, <1>8, BeginCalm

\* setDirty and setClean keeps the ledger.
LEMMA SetDirtyLedger ==
  ASSUME Base, Ledger, NEW k \in Keys, NEW dirty \in BOOLEAN, SetDirty(k, dirty)
  PROVE  Ledger'
<1> DEFINE a == FindKey(k).at
           o == [Idle EXCEPT !.b = a, !.dirty = dirty]
           hit == a # 0
           c == a # 0 /\ ~mem.onlyKey[a]
           clean == ~dirty
           t == When(clean, <<"commit">>)
           q == <<"dirty", "rset">> \o t
           st == When(c, q)
<1>1. Begin(o, Counted(hit), st) /\ mem' = mem /\ free' = free /\ todo = <<>>
  BY DEF SetDirty, Begin
<1>2. Rested(mem, free) /\ Shape(mem) /\ IsMemory(mem)
  BY <1>1, Rest, Begun DEF Shape
<1>3. hit \in BOOLEAN /\ c \in BOOLEAN /\ (c => ~mem.onlyKey[a])
  OBVIOUS
<1> HIDE DEF a, c, hit
<1>4. o.got = <<>> /\ o.gone = {} /\ o.b = a
  BY DEF Idle
<1>5. Counted(hit) \in Seq(Quiet)
  BY <1>3, CountedQuiet
<1>6. t \in Seq(Stages) /\ Elements(t) \subseteq {"commit"}
  <2>1. Elements(<<"commit">>) = {"commit"} /\ Elements(<<>>) = {}
    BY Scripts, NoScript DEF Stages
  <2>2. <<"commit">> \in Seq(Stages) /\ <<>> \in Seq(Stages)
    BY DEF Stages
  <2> QED  BY <2>1, <2>2 DEF When
<1> HIDE DEF t
<1>7. Elements(q) = {"dirty", "rset"} \cup Elements(t)
  <2> DEFINE r == <<"rset">> \o t
  <2>1. "rset" \in Stages /\ "dirty" \in Stages
    BY DEF Stages
  <2>2. r \in Seq(Stages) /\ Elements(r) = {"rset"} \cup Elements(t)
    BY <1>6, <2>1, StagePut
  <2>3. q = <<"dirty">> \o r
    BY <1>6, <2>1, TwoStages
  <2> HIDE DEF r
  <2>4. Elements(<<"dirty">> \o r) = {"dirty"} \cup Elements(r)
    BY <2>1, <2>2, StagePut
  <2> HIDE DEF q
  <2> QED  BY <2>2, <2>3, <2>4
<1> HIDE DEF q
<1>8. /\ Elements(st) \subseteq {"dirty", "rset", "commit"}
      /\ Elements(st) # {} => c /\ "rset" \in Elements(st)
  BY <1>3, <1>6, <1>7, NoScript DEF When
<1> HIDE DEF o, st
<1>9. Valued(mem, Elements(st), o) /\ Synching(mem, st, o) /\ Planned(Elements(st), o)
  BY <1>3, <1>4, <1>8 DEF Valued, Synching, Planned, Filling
<1> QED  BY <1>1, <1>2, <1>4, <1>5, <1>9, BeginCalm

\* An operation that sets one cursor keeps the ledger.
LEMMA BeginCursor ==
  ASSUME Base, Ledger, Begin(Idle, <<>>, <<>>), free' = free,
         NEW c \in {"syncTail", "backupTail"}, NEW v \in BlocksOf(mem) \cup {0}, mem' = PutHead(mem, c, v)
  PROVE  Ledger'
<1>1. Rested(mem, free) /\ Shape(mem)
  BY Rest, Begun DEF Begin
<1>2. ButCursors(mem, mem') /\ mem'.head.dirtyTail = mem.head.dirtyTail
  <2>1. c \in {"dirtyTail", "syncTail", "backupTail"} /\ "dirtyTail" \in Heads \ {c}
    BY DEF Heads, HeadLinks
  <2> QED  BY <1>1, <2>1, PutEffect
<1>3. Rested(mem', free') /\ IsMemory(mem')
  BY <1>1, <1>2, CursorsRested DEF ButCursors
<1>4. /\ Elements(<<>>) \subseteq {"rget", "erase", "item", "recover", "commit"}
      /\ <<>> \in Seq(Quiet)
  BY NoScript
<1>5. Valued(mem', Elements(<<>>), Idle) /\ Synching(mem', <<>>, Idle) /\ Planned(Elements(<<>>), Idle)
  BY <1>4, PlainStages
<1> QED  BY <1>3, <1>4, <1>5, IdleOp, BeginCalm

\* sync() keeps the ledger.
LEMMA SyncStartLedger == ASSUME Base, Ledger, SyncStart PROVE Ledger'
<1>1. Begin(Idle, <<>>, <<>>) /\ free' = free /\ mem' = PutHead(mem, "syncTail", mem.head.dirtyTail)
  BY DEF SyncStart, PutHead
<1>2. mem.head.dirtyTail \in BlocksOf(mem) \cup {0}
  BY DEF Base, Shape, Cursors
<1> QED  BY <1>1, <1>2, BeginCursor

\* backup keeps the ledger.
LEMMA BackupStartLedger == ASSUME Base, Ledger, NEW force \in BOOLEAN, BackupStart(force) PROVE Ledger'
<1> DEFINE start == force \/ mem.head.backupTail = 0
           v == IF start THEN mem.head.getTail ELSE mem.head.backupTail
<1>1. Begin(Idle, <<>>, <<>>) /\ free' = free /\ Shape(mem)
  BY DEF BackupStart, Base
<1>2. mem' = PutHead(mem, "backupTail", v)
  <2>1. mem' = [mem EXCEPT !.head.backupTail = IF start THEN mem.head.getTail ELSE @]
    BY DEF BackupStart
  <2>2. "backupTail" \in DOMAIN mem.head /\ "head" \in DOMAIN mem
    BY <1>1 DEF Shape, IsMemory, Fields, Heads, HeadLinks
  <2> QED  BY <2>1, <2>2 DEF PutHead
<1>3. v \in BlocksOf(mem) \cup {0}
  BY <1>1, TailOfGet DEF Shape, Cursors
<1> HIDE DEF v
<1> QED  BY <1>1, <1>2, <1>3, BeginCursor

\* backup of one block keeps the ledger.
LEMMA BackupOneLedger == ASSUME Base, Ledger, BackupOne PROVE Ledger'
<1> DEFINE u == mem.head.backupTail
           v == mem.getPrev[u]
<1>1. /\ Begin(Idle, <<>>, <<>>) /\ free' = free /\ Shape(mem) /\ u # 0
      /\ mem' = PutHead(mem, "backupTail", v)
  BY DEF BackupOne, Base, PutHead
<1>2. u \in BlocksOf(mem)
  BY <1>1 DEF Shape, Cursors
<1>3. v \in BlocksOf(mem) \cup {0}
  BY <1>1, <1>2, Ends
<1> HIDE DEF v
<1> QED  BY <1>1, <1>3, BeginCursor

\* sync of one block keeps the ledger.
LEMMA SyncOneLedger ==
  ASSUME Base, Ledger, NEW old \in BOOLEAN, NEW refused \in BOOLEAN, NEW torn,
         SyncOne(old, refused, torn)
  PROVE  Ledger'
<1> DEFINE u == mem.head.syncTail
           skip == ~mem.dirty[u] \/ GetBlockData(u, torn) # "ok"
           moved == PutHead(mem, "syncTail", mem.setPrev[u])
           o == [Idle EXCEPT !.b = u]
           c == ~skip /\ old
           again == When(refused, <<"resync", "dirty", "resynced">>)
           q == <<"dirty", "synced">> \o again
           st == When(c, q)
<1>1. Begin(o, <<>>, st) /\ free' = free /\ u # 0 /\ todo = <<>>
  BY DEF SyncOne, Begin
<1>2. Rested(mem, free) /\ Shape(mem) /\ <<>> \in Seq(Quiet)
  BY <1>1, Rest, Begun
<1>3. mem' = IF skip THEN DirtyPast(moved, u) ELSE moved
  BY DEF SyncOne, PutHead
<1>4. u \in BlocksOf(mem) /\ u \in Units
  BY <1>1, <1>2, BlockUnits DEF Shape, Cursors
<1>5. mem.setPrev[u] \in BlocksOf(mem) \cup {0}
  BY <1>2, <1>4, Ends
<1>6. mem.dirty[u] \in BOOLEAN /\ mem.onlyKey[u] \in BOOLEAN
  BY <1>2, <1>4 DEF Shape, IsMemory
<1>7. skip => ~mem.dirty[u]
  <2>1. SUFFICES ASSUME mem.dirty[u] PROVE GetBlockData(u, torn) = "ok"
    BY <1>6
  <2>2. mem.data[u].key # None /\ mem.data[u].val = "whole" /\ ~mem.onlyKey[u]
    BY <1>2, <1>4, <2>1 DEF Rested, Whole, Bare
  <2> QED  BY <2>2 DEF GetBlockData
<1>8. ButCursors(mem, moved) /\ moved.head.dirtyTail = mem.head.dirtyTail
  BY <1>2, <1>5, PutEffect DEF Heads, HeadLinks
<1>9. c \in BOOLEAN /\ (c => ~skip /\ mem.dirty[u])
  BY <1>6
<1> HIDE DEF u, skip, moved, c
<1>10. /\ ButCursors(mem, mem')
       /\ mem'.head.dirtyTail = IF skip /\ mem.head.dirtyTail = u THEN mem.setPrev[u]
                                ELSE mem.head.dirtyTail
  <2>1. Shape(moved) /\ BlocksOf(moved) = BlocksOf(mem) /\ moved.setPrev = mem.setPrev
    BY <1>2, <1>8, CursorsStay, CursorLedger
  <2>2. /\ ButCursors(moved, DirtyPast(moved, u))
        /\ DirtyPast(moved, u).head.dirtyTail = IF moved.head.dirtyTail = u THEN moved.setPrev[u]
                                                ELSE moved.head.dirtyTail
    BY <1>4, <2>1, PastEffect
  <2>3. ButCursors(mem, DirtyPast(moved, u))
    BY <1>2, <1>8, <2>2, CursorsTwice
  <2> QED  BY <1>3, <1>8, <2>1, <2>2, <2>3
<1>11. Rested(mem', free') /\ IsMemory(mem')
  <2>1. Upto(SetOf(mem), u) = Upto(SetOf(mem), mem.setPrev[u]) \cup {u}
    BY <1>2, <1>4, UptoPrev
  <2>2. {x \in BlocksOf(mem) : mem.dirty[x]} \cap Upto(SetOf(mem), mem.head.dirtyTail)
            \subseteq Upto(SetOf(mem), mem'.head.dirtyTail)
    BY <1>7, <1>10, <2>1
  <2> QED  BY <1>1, <1>2, <1>10, <2>2, CursorsRested DEF ButCursors
<1>12. o.b = u /\ o.got = <<>> /\ o.gone = {} /\ o.dirty = FALSE
  BY DEF Idle
<1>13. /\ again \in Seq(Stages) /\ Elements(again) \subseteq {"resync", "dirty", "resynced"}
       /\ Elements(again) # {} => "resynced" \in Elements(again)
  <2>1. /\ <<"resync", "dirty", "resynced">> \in Seq(Stages) /\ <<>> \in Seq(Stages)
        /\ Elements(<<"resync", "dirty", "resynced">>) = {"resync", "dirty", "resynced"}
        /\ Elements(<<>>) = {}
    BY Scripts, NoScript DEF Script
  <2> QED  BY <2>1 DEF When
<1> HIDE DEF again
<1>14. /\ Elements(q) = {"dirty", "synced"} \cup Elements(again) /\ q[1] = "dirty"
       /\ Elements(Tail(q)) = {"synced"} \cup Elements(again)
  <2> DEFINE r == <<"synced">> \o again
  <2>1. "synced" \in Stages /\ "dirty" \in Stages
    BY DEF Stages
  <2>2. r \in Seq(Stages) /\ Elements(r) = {"synced"} \cup Elements(again)
    BY <1>13, <2>1, StagePut
  <2>3. q = <<"dirty">> \o r
    BY <1>13, <2>1, TwoStages
  <2> HIDE DEF r
  <2>4. Elements(<<"dirty">> \o r) = {"dirty"} \cup Elements(r) /\ (<<"dirty">> \o r)[1] = "dirty"
    BY <2>1, <2>2, ElementsPut
  <2>5. Tail(<<"dirty">> \o r) = r
    BY <2>2
  <2> HIDE DEF q
  <2> QED  BY <2>2, <2>3, <2>4, <2>5
<1> HIDE DEF q
<1>15. (c => st = q) /\ (~c => st = <<>> /\ Elements(st) = {})
  BY NoScript DEF When
<1> HIDE DEF o, st
<1>16. /\ SetOf(mem') = SetOf(mem) /\ mem'.onlyKey = mem.onlyKey
  BY <1>2, <1>10, CursorLedger
<1>17. c => u \in Upto(SetOf(mem'), mem'.head.dirtyTail) /\ ~mem'.onlyKey[u]
  BY <1>2, <1>4, <1>9, <1>10, <1>16 DEF Rested, Reached, Bare
<1>18. Valued(mem', Elements(st), o) /\ Planned(Elements(st), o)
  <2>1. Elements(st) \subseteq {"dirty", "synced", "resync", "resynced"}
    BY <1>9, <1>13, <1>14, <1>15
  <2>2. "dirty" \in Elements(st) => c /\ "synced" \in Elements(st)
    BY <1>9, <1>14, <1>15
  <2> QED  BY <1>12, <1>17, <2>1, <2>2 DEF Valued, Planned, Filling
<1>19. Synching(mem', st, o)
  <2>1. CASE c
    <3>1. /\ st[1] = "dirty"
          /\ "dirty" \in Elements(Tail(st)) => "resynced" \in Elements(st)
      BY <1>13, <1>14, <1>15, <2>1
    <3> QED  BY <1>12, <1>17, <2>1, <3>1 DEF Synching
  <2>2. CASE ~c
    BY <1>15, <2>2 DEF Synching
  <2> QED  BY <1>9, <2>1, <2>2
<1> QED  BY <1>1, <1>2, <1>11, <1>12, <1>18, <1>19, BeginCalm

\* erase of the oldest block keeps the ledger.
LEMMA EraseOldLedger == ASSUME Base, Ledger, NEW checkDirty \in BOOLEAN, EraseOld(checkDirty) PROVE Ledger'
<1> DEFINE u == mem.head.getTail
           keep == checkDirty /\ mem.dirty[u]
           p == mem.getPrev[u]
           first == mem.head.getHead
           g == StepOff("backupTail", "getPrev", u)
                  \o <<ToHead("getTail", p), <<"getNext", p, 0>>, <<"getPrev", u, 0>>,
                       <<"getNext", u, first>>, <<"getPrev", first, u>>, ToHead("getHead", u)>>
<1>1. u # 0 /\ free' = free /\ todo = <<>>
  BY DEF EraseOld, Begin
<1>2. Rested(mem, free) /\ Shape(mem) /\ <<>> \in Seq(Quiet)
  BY <1>1, Rest, Begun
<1>3. u \in BlocksOf(mem) /\ u \in Addr
  BY <1>1, <1>2, TailOfGet, BlockUnits DEF Shape, Addr
<1>4. CASE ~keep
  <2> DEFINE o == [Idle EXCEPT !.b = u]
             st == <<"erase">>
  <2>1. Begin(o, <<>>, st) /\ mem' = mem
    BY <1>4 DEF EraseOld
  <2>2. o.got = <<>> /\ o.gone = {}
    BY DEF Idle
  <2>3. Elements(st) = {"erase"}
    BY Scripts DEF Stages
  <2> HIDE DEF o, st
  <2> QED  BY <1>1, <1>2, <2>1, <2>2, <2>3, BeginPlain
<1>5. CASE keep
  <2> DEFINE v == IF mem.head.dirtyTail = 0 THEN u ELSE mem.head.dirtyTail
  <2>1. /\ mem' = PutHead(mem, "dirtyTail", v)
        /\ Begin(Idle, When(first # u, g), When(first # u, <<"commit">>))
    <3>1. mem' = [mem EXCEPT !.head.dirtyTail = IF @ = 0 THEN u ELSE @]
      BY <1>5 DEF EraseOld
    <3>2. "dirtyTail" \in DOMAIN mem.head /\ "head" \in DOMAIN mem
      BY <1>2 DEF Shape, IsMemory, Fields, Heads, HeadLinks
    <3>3. mem' = PutHead(mem, "dirtyTail", v)
      BY <3>1, <3>2 DEF PutHead
    <3>4. Begin(Idle, When(first # u, g), When(first # u, <<"commit">>))
      BY <1>5 DEF EraseOld
    <3> QED  BY <3>3, <3>4
  <2>2. v \in BlocksOf(mem) \cup {0}
    BY <1>2, <1>3 DEF Shape, Cursors
  <2>3. Upto(SetOf(mem), mem.head.dirtyTail) \subseteq Upto(SetOf(mem), v)
    <3>1. SetOf(mem) \in Seq(Units) /\ 0 \notin Elements(SetOf(mem))
      BY <1>2, BlockUnits DEF Shape, SetFits, Listed, Forth, BlocksOf
    <3>2. Upto(SetOf(mem), 0) = {}
      BY <3>1, UptoNone
    <3> QED  BY <3>2
  <2> HIDE DEF v
  <2>4. /\ ButCursors(mem, mem') /\ mem'.head.dirtyTail = v
        /\ \A h \in Heads \ {"dirtyTail"} : mem'.head[h] = mem.head[h]
    BY <1>2, <2>1, <2>2, PutEffect
  <2>5. Rested(mem', free') /\ IsMemory(mem')
    BY <1>1, <1>2, <2>3, <2>4, CursorsRested DEF ButCursors
  <2>6. Shape(mem') /\ BlocksOf(mem') = BlocksOf(mem)
    BY <1>2, <2>4, CursorsStay
  <2>7. mem'.head.getHead = first /\ mem'.head.getTail = u
    BY <2>4 DEF Heads, HeadLinks
  <2>8. CASE first = u
    <3>1. Begin(Idle, <<>>, <<>>)
      BY <2>1, <2>8 DEF When
    <3>2. Elements(<<>>) \subseteq {"rget", "erase", "item", "recover", "commit"}
      BY NoScript
    <3>3. Valued(mem', Elements(<<>>), Idle) /\ Synching(mem', <<>>, Idle) /\ Planned(Elements(<<>>), Idle)
      BY <3>2, PlainStages
    <3> QED  BY <1>2, <2>5, <3>1, <3>3, IdleOp, BeginCalm
  <2>9. CASE first # u
    <3> DEFINE m2 == Apply(mem', g)
               st == <<"commit">>
    <3>1. Begin(Idle, g, st)
      BY <2>1, <2>9 DEF When
    <3>2. ButDirtyTail(mem, mem')
      BY <2>4 DEF ButDirtyTail, ButCursors
    <3>3. MovedGet(mem', m2, u)
      BY <1>2, <1>3, <2>9, <3>2, KeepEffect
    <3>m. m2 = Apply(mem', g)
      OBVIOUS
    <3> HIDE DEF g, m2
    <3>4. SetOf(m2) = SetOf(mem') /\ BlocksOf(m2) = BlocksOf(mem') /\ Owned(m2) = Owned(mem')
      <4>1. u \in BlocksOf(mem') /\ u # mem'.head.getHead
        BY <1>3, <2>6, <2>7, <2>9
      <4> QED  BY <2>6, <3>3, <4>1, MovedGetShape
    <3>5. /\ m2.data = mem'.data /\ m2.dirty = mem'.dirty /\ m2.onlyKey = mem'.onlyKey
          /\ m2.head.dirtyCount = mem'.head.dirtyCount /\ m2.head.onlyKeyCount = mem'.head.onlyKeyCount
          /\ m2.head.dirtyTail = mem'.head.dirtyTail
      BY <3>3 DEF MovedGet, Fields, Heads, HeadCounts, HeadLinks
    <3>6. Rested(m2, free')
      BY <2>5, <3>4, <3>5 DEF Rested, Tallied, Bare, Reached, Whole
    <3>7. Elements(st) = {"commit"}
      BY Scripts DEF Stages
    <3> HIDE DEF st
    <3>8. Valued(m2, Elements(st), Idle) /\ Synching(m2, st, Idle) /\ Planned(Elements(st), Idle)
      BY <3>7, PlainStages
    <3> QED  BY <3>1, <3>m, <3>6, <3>8, IdleOp, BeginLedger
  <2> QED  BY <2>8, <2>9
<1> QED  BY <1>4, <1>5

-----------------------------------------------------------------------------
(* The ledger is right as long as no process died. *)

\* A process that dies may leave units, counts and the dirty chain behind.
Full == crashes = 0 => Ledger

\* Every stage keeps the ledger.
LEMMA StageLedger == ASSUME Base, Ledger, Stage PROVE Ledger'
<1>1. Commit \/ Alloc \/ Free \/ Erase => Ledger'
  BY CommitLedger, AllocLedger, FreeLedger, EraseLedger
<1>2. (\E torn \in Torn : Evict(torn)) \/ (\E torn \in Torn : RecoverOne(torn)) => Ledger'
  BY EvictLedger, RecoverOneLedger
<1>3. Fit \/ Grab \/ Join \/ Write \/ Copied => Ledger'
  BY FitLedger, GrabLedger, JoinLedger, WriteLedger, CopiedLedger
<1>4. SetDirtyFlag \/ RefreshSetList \/ RefreshGetList \/ NextItem => Ledger'
  BY SetDirtyFlagLedger, RefreshSetListLedger, RefreshGetListLedger, NextItemLedger
<1>5. Synced \/ Resync \/ Resynced => Ledger'
  BY SyncedLedger, ResyncLedger, ResyncedLedger
<1> QED  BY <1>1, <1>2, <1>3, <1>4, <1>5 DEF Stage

\* Every operation that begins keeps the ledger.
LEMMA OperationLedger == ASSUME Base, Ledger, Operation PROVE Ledger'
<1>1. ASSUME NEW k \in Keys,
             \/ SetKey(k)
             \/ \E torn \in Torn : Get(k, torn) \/ Del(k, torn)
             \/ \E dirty \in BOOLEAN : \/ SetDirty(k, dirty)
                                       \/ \E n \in 0..MaxExtra : Set(k, n, dirty)
      PROVE  Ledger'
  BY <1>1, SetKeyLedger, GetLedger, DelLedger, SetDirtyLedger, SetLedger
<1>2. ASSUME NEW i \in Buckets, SetBucketDirty(i) \/ Recover(i) PROVE Ledger'
  BY <1>2, SetBucketDirtyLedger, RecoverLedger
<1>3. ASSUME NEW yes \in BOOLEAN, EraseOld(yes) \/ BackupStart(yes) PROVE Ledger'
  BY <1>3, EraseOldLedger, BackupStartLedger
<1>4. SyncStart \/ BackupOne => Ledger'
  BY SyncStartLedger, BackupOneLedger
<1>5. ASSUME NEW old \in BOOLEAN, NEW refused \in BOOLEAN, NEW torn \in Torn,
             SyncOne(old, refused, torn)
      PROVE  Ledger'
  BY <1>5, SyncOneLedger
<1> QED  BY <1>1, <1>2, <1>3, <1>4, <1>5 DEF Operation

\* A stage does not let the process die.
LEMMA StageLives == ASSUME Stage PROVE crashes' = crashes
<1>1. \A o, st : Go(o, st) => crashes' = crashes
  BY DEF Go
<1>2. \A g, o, st : Record(g, o, st) => crashes' = crashes
  BY <1>1 DEF Record
<1>3. NoMemory => crashes' = crashes
  BY <1>1 DEF NoMemory
<1>4. Commit \/ Alloc \/ Free \/ Erase => crashes' = crashes
  BY <1>1, <1>2, <1>3, Zenon DEF Commit, Alloc, Free, Erase
<1>5. \A torn : Evict(torn) \/ RecoverOne(torn) => crashes' = crashes
  BY <1>1, <1>2, <1>3, Zenon DEF Evict, RecoverOne
<1>6. Fit \/ Grab \/ Join => crashes' = crashes
  BY <1>1, <1>2, <1>3, Zenon DEF Fit, Grab, Join
<1>7. Write \/ Copied => crashes' = crashes
  BY <1>1, <1>2, Zenon DEF Write, Copied
<1>8. SetDirtyFlag \/ RefreshSetList \/ RefreshGetList \/ NextItem => crashes' = crashes
  BY <1>1, <1>2, Zenon DEF SetDirtyFlag, RefreshSetList, RefreshGetList, NextItem
<1>9. Synced \/ Resync \/ Resynced => crashes' = crashes
  BY <1>1, Zenon DEF Synced, Resync, Resynced
<1> QED  BY <1>4, <1>5, <1>6, <1>7, <1>8, <1>9 DEF Stage

\* An operation that begins does not let the process die.
LEMMA OperationLives == ASSUME Operation PROVE crashes' = crashes
<1>1. \A o, g, st : Begin(o, g, st) => crashes' = crashes
  BY DEF Begin
<1>2. ASSUME NEW k PROVE SetKey(k) => crashes' = crashes
  BY <1>1, Zenon DEF SetKey
<1>3. ASSUME NEW k, NEW torn PROVE Get(k, torn) \/ Del(k, torn) => crashes' = crashes
  BY <1>1, Zenon DEF Get, Del
<1>4. ASSUME NEW k, NEW dirty, NEW n PROVE SetDirty(k, dirty) \/ Set(k, n, dirty) => crashes' = crashes
  BY <1>1, Zenon DEF SetDirty, Set
<1>5. ASSUME NEW i PROVE SetBucketDirty(i) \/ Recover(i) => crashes' = crashes
  BY <1>1, Zenon DEF SetBucketDirty, Recover
<1>6. ASSUME NEW yes PROVE EraseOld(yes) \/ BackupStart(yes) => crashes' = crashes
  BY <1>1, Zenon DEF EraseOld, BackupStart
<1>7. SyncStart \/ BackupOne => crashes' = crashes
  BY <1>1, Zenon DEF SyncStart, BackupOne
<1>8. ASSUME NEW old, NEW refused, NEW torn PROVE SyncOne(old, refused, torn) => crashes' = crashes
  BY <1>1, Zenon DEF SyncOne
<1> QED  BY <1>2, <1>3, <1>4, <1>5, <1>6, <1>7, <1>8 DEF Operation

\* Every step keeps the ledger as long as no process dies.
LEMMA NextFull == ASSUME Base, Full, [Next]_vars PROVE Full'
<1>1. CASE Stage
  <2>1. crashes' = crashes
    BY <1>1, StageLives
  <2>2. crashes = 0 => Ledger'
    BY <1>1, StageLedger DEF Full
  <2> QED  BY <2>1, <2>2 DEF Full
<1>2. CASE Operation
  <2>1. crashes' = crashes
    BY <1>2, OperationLives
  <2>2. crashes = 0 => Ledger'
    BY <1>2, OperationLedger DEF Full
  <2> QED  BY <2>1, <2>2 DEF Full
<1>3. CASE Crash
  <2>1. crashes' = crashes + 1 /\ crashes \in 0..MaxCrashes /\ MaxCrashes \in Nat
    BY <1>3, HashMapAssumption DEF Crash, Base
  <2>2. crashes' # 0
    BY <2>1
  <2> QED  BY <2>2 DEF Full
<1>4. CASE UNCHANGED vars
  BY <1>4 DEF vars, Full, Ledger, After
<1> QED  BY <1>1, <1>2, <1>3, <1>4 DEF Next

\* The ledger of a new memory is right.
LEMMA InitFull == ASSUME Init PROVE Full
<1>1. free = Units /\ log = <<>> /\ todo = <<>> /\ op = Idle
  BY DEF Init
<1>2. Shape(mem) /\ BlocksOf(mem) = {} /\ IsMemory(mem)
  BY InitShape DEF Shape
<1>3. <<>> \in Seq(Quiet) /\ Elements(<<>>) = {}
  BY NoScript
<1>4. After = mem
  BY <1>1, <1>2, <1>3, QuietKeeps DEF After
<1>5. mem.head.dirtyCount = 0 /\ mem.head.onlyKeyCount = 0
  <2>1. mem.head = [h \in HeadLinks \cup HeadCounts |-> 0]
    BY DEF Init, UnitLinks
  <2> QED  BY <2>1 DEF HeadCounts
<1>6. Tallied(mem)
  <2>1. {u \in BlocksOf(mem) : mem.dirty[u]} = {} /\ {u \in BlocksOf(mem) : mem.onlyKey[u]} = {}
    BY <1>2
  <2> QED  BY <1>5, <2>1, FS_EmptySet DEF Tallied
<1>7. /\ Bare(mem) /\ (\A S : Reached(mem, S) /\ Whole(mem, S))
      /\ \A A, o : Units \subseteq Held(mem, A, o, Units)
  BY <1>2 DEF Bare, Reached, Whole, Held
<1>8. Valued(mem, Elements(<<>>), Idle) /\ Synching(mem, <<>>, Idle) /\ Planned(Elements(<<>>), Idle)
  BY <1>3, PlainStages
<1> QED  BY <1>1, <1>4, <1>6, <1>7, <1>8 DEF Full, Ledger, Exact

(* As long as no process died in an operation of TC_HashMap, the counts,   *)
(* the owners of the units, the dirty chain and the values are right for   *)
(* what the operation under way still has to do.                           *)
THEOREM FullHolds == Spec => [](Base /\ Full)
<1>1. Init => Base /\ Full
  BY InitBase, InitFull
<1>2. Base /\ Full /\ [Next]_vars => (Base /\ Full)'
  BY NextKeeps, NextFull
<1> QED  BY <1>1, <1>2, PTL DEF Spec

\* As long as no process died, the ledger is right between two operations.
LEMMA FullRest == ASSUME Base, Full, crashes = 0, todo = <<>> PROVE Rested(mem, free)
  BY Rest DEF Full

\* The ledger gives UnitsOwned.
LEMMA FullOwned == ASSUME Base, Full PROVE UnitsOwned
<1>1. ASSUME crashes = 0, todo = <<>>
      PROVE  UNION {Elements(ChunksOf(u)) : u \in Blocks} = Units \ free
  <2>1. Units \subseteq free \cup Owned(mem)
    BY <1>1, FullRest DEF Rested
  <2>2. Owned(mem) \cap free = {} /\ Owned(mem) \subseteq Units
    BY OwnUnits DEF Base, Shape
  <2>3. Owned(mem) = UNION {Elements(ChunksOf(u)) : u \in Blocks}
    BY Reading DEF Owned, Own
  <2> QED  BY <2>1, <2>2, <2>3
<1> QED  BY <1>1, BaseOwned, BaseStays DEF UnitsOwned

\* The ledger gives CountsAgree.
LEMMA FullCounts == ASSUME Base, Full PROVE CountsAgree
<1>1. crashes = 0 /\ todo = <<>> => Tallied(mem)
  BY FullRest DEF Rested
<1>2. Blocks = BlocksOf(mem)
  BY Reading
<1> QED  BY <1>1, <1>2, BaseCounted DEF CountsAgree, Tallied

\* The ledger gives DirtyReached.
LEMMA FullReached == ASSUME Base, Full PROVE DirtyReached
<1> SUFFICES ASSUME crashes = 0, todo = <<>>
             PROVE  {u \in Blocks : mem.dirty[u]} \subseteq Elements(Follow("setPrev", mem.head.dirtyTail))
  BY DEF DirtyReached
<1>1. Reached(mem, {})
  BY FullRest DEF Rested
<1>2. /\ SetOf(mem) \in Seq(Units) /\ Once(SetOf(mem)) /\ Back(SetOf(mem), mem.setPrev)
      /\ mem.head.dirtyTail \in Elements(SetOf(mem)) \cup {0}
  BY DEF Base, Shape, SetFits, Listed, Forth, Cursors, BlocksOf
<1>3. Elements(Path(mem.setPrev, mem.head.dirtyTail)) = Upto(SetOf(mem), mem.head.dirtyTail)
  BY <1>2, UptoPath
<1>4. Blocks = BlocksOf(mem)
  BY Reading
<1> QED  BY <1>1, <1>3, <1>4 DEF Reached, Follow

(* For any number of units: no unit of memory has two owners, whenever a   *)
(* process dies; as long as none does, allocate, allocateChunk, erase and  *)
(* eraseExcept lose none; and eraseExcept does not evict the block an      *)
(* operation is working on.                                                *)
THEOREM UnitsOwnedHolds == Spec => []UnitsOwned
<1>1. Base /\ Full => UnitsOwned
  BY FullOwned
<1> QED  BY FullHolds, <1>1, PTL

(* For any number of units and buckets: the numbers of elements and of the *)
(* blocks of a bucket are right whenever a process dies, and as long as    *)
(* none does the counts of dirty blocks and of bare keys are, which        *)
(* Block::set, setDirty and erase change in different groups of the log.   *)
THEOREM CountsAgreeHolds == Spec => []CountsAgree
<1>1. Base /\ Full => CountsAgree
  BY FullCounts
<1> QED  BY FullHolds, <1>1, PTL

(* For any number of units: between two operations sync finds every dirty  *)
(* block from the end of the dirty chain, which set, setDirty, sync,       *)
(* setDirtyAfterSync and erase move, as long as no process died in one.    *)
THEOREM DirtyReachedHolds == Spec => []DirtyReached
<1>1. Base /\ Full => DirtyReached
  BY FullReached
<1> QED  BY FullHolds, <1>1, PTL
=============================================================================
