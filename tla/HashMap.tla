------------------------------ MODULE HashMap ------------------------------
(* The shared-memory hash map TC_HashMap (src/util/src/tc_hashmap.cpp).    *)
(* Its memory outlives the process.  Structural words are changed in       *)
(* groups through the modification log, which ModifyLog shows to be        *)
(* atomic; flags, cursors and data are also written directly.  An          *)
(* operation is the stages of "todo", one per change of the memory, and    *)
(* the process may die between any two of them.                            *)
(* Abstracted: all units of memory have one size; a value is the number of *)
(* units it needs besides the block; the age that sync compares is a       *)
(* choice; the get and hit counters have one value.                        *)
EXTENDS Integers, Sequences, FiniteSets, FiniteSetsExt

CONSTANTS Units,       \* the blocks and chunks of the allocator
          Keys,
          Buckets,
          HashOf,      \* hashIndex of a key
          None,        \* the key of data that cannot be decoded
          MaxExtra,    \* chunks a value may need besides its block
          Evictions,   \* settings explored: "off", or by the "get" or the "set" list
          EraseCount,  \* _iEraseCount
          MaxModify,   \* length of _stModifyData
          MaxCrashes,  \* bound: processes that die
          MaxOps       \* bound: operations begun

ASSUME HashMapAssumption ==
    /\ HashOf \in [Keys -> Buckets] /\ Buckets # {}
    /\ None \notin Keys
    /\ 0 \notin Units
    /\ Evictions \subseteq {"off", "get", "set"}
    /\ EraseCount \in Nat \ {0}
    /\ IsFiniteSet(Units)
    /\ {MaxExtra, MaxModify, MaxCrashes, MaxOps} \subseteq Nat
    /\ MaxModify > 15   \* the code has 20

VARIABLES conf,      \* _bAutoErase and _cEraseMode (never changes)
          mem,       \* the shared memory
          free,      \* units in the allocator
          log,       \* recorded entries of the group that is not committed
          todo,      \* stages left of the operation that runs
          op,        \* its locals
          due,       \* history: blocks the running backup still has to hand out
          crashes,
          ops        \* operations begun

vars == <<conf, mem, free, log, todo, op, due, crashes, ops>>

Idle == [b |-> 0, key |-> None, need |-> 0, only |-> FALSE, dirty |-> FALSE,
         new |-> FALSE, got |-> <<>>, gone |-> {}, left |-> 0, next |-> 0]

Empty == [key |-> None, val |-> "short"]

Datum == [key : Keys \cup {None}, val : {"short", "part", "whole"}]

Addr == Units \cup {0}

HeadLinks == {"setHead", "setTail", "getHead", "getTail",
              "dirtyTail", "syncTail", "backupTail"}

HeadCounts == {"elements", "dirtyCount", "onlyKeyCount", "getCount", "hitCount"}

UnitLinks == {"setNext", "setPrev", "getNext", "getPrev",
              "blockNext", "blockPrev", "chunk"}

-----------------------------------------------------------------------------
(* Reading the memory. *)

\* The list that next leads along from a; one that runs in a circle is longer than
\* there are units.
Path(next, a) ==
    LET upto[n \in 0..Cardinality(Units)] ==
            IF n = 0 THEN IF a = 0 THEN <<>> ELSE <<a>>
            ELSE LET s == upto[n - 1]
                 IN  IF s = <<>> \/ next[s[Len(s)]] = 0 THEN s
                     ELSE Append(s, next[s[Len(s)]])
    IN  upto[Cardinality(Units)]

Follow(field, a) == Path(mem[field], a)

Elements(s) == {s[i] : i \in DOMAIN s}

SetOrder == Follow("setNext", mem.head.setHead)

Blocks == Elements(SetOrder)

Chain(i) == Follow("blockNext", mem.bucket[i])

ChunksOf(u) == Follow("chunk", u)

(* Block::getBlockData: what reading the data of a block returns.  Data    *)
(* that was half copied when the process died may still decode (torn).     *)
GetBlockData(u, torn) ==
    CASE mem.data[u].key = None     -> "err"
      [] mem.onlyKey[u]             -> "only"
      [] mem.data[u].val = "whole"  -> "ok"
      [] mem.data[u].val = "short"  -> "err"
      [] mem.data[u].val = "part"   -> torn

(* find(k, index, ret): the result is that of the last block compared, so  *)
(* an unreadable block at the end of the chain turns "not there" into an   *)
(* error.                                                                  *)
FindKey(k) ==
    LET c == Chain(HashOf[k])
        hits == {i \in DOMAIN c : mem.data[c[i]].key = k}
    IN  [at |-> IF hits = {} THEN 0 ELSE c[Min(hits)],
         ok |-> \/ hits # {} \/ c = <<>>
                \/ mem.data[c[Len(c)]].key # None]

(* find(k, index, v, ret): the value has to be readable as well. *)
FindValue(k, torn) ==
    LET c == Chain(HashOf[k])
        hits == {i \in DOMAIN c : /\ mem.data[c[i]].key = k
                                  /\ GetBlockData(c[i], torn) # "err"}
    IN  IF hits = {} THEN 0 ELSE c[Min(hits)]

-----------------------------------------------------------------------------
(* Groups of log entries <<field, index, value>>.  They are computed from  *)
(* the memory as it is, not from entries recorded before.                  *)

\* The entries of a group for one word.
Hits(group, f, x) == {i \in DOMAIN group : group[i][1] = f /\ group[i][2] = x}

\* A word that held v after the group is written, in order: the last entry counts.
Cell(group, f, x, v) ==
    LET hits == Hits(group, f, x)
    IN  IF hits = {} THEN v ELSE group[Max(hits)][3]

Apply(m, group) ==
    [f \in DOMAIN m |-> [x \in DOMAIN m[f] |-> Cell(group, f, x, m[f][x])]]

ToHead(field, v) == <<"head", field, v>>

\* A counter of the head of the map moves by d.
Count(field, d) == <<ToHead(field, mem.head[field] + d)>>

When(cond, group) == IF cond THEN group ELSE <<>>

SetList == [next |-> "setNext", prev |-> "setPrev", head |-> "setHead", tail |-> "setTail"]
GetList == [next |-> "getNext", prev |-> "getPrev", head |-> "getHead", tail |-> "getTail"]

\* Block::makeNew: in front of a list.
PushFront(l, u) ==
    LET first == mem.head[l.head]
    IN  IF first = 0
        THEN <<ToHead(l.head, u), ToHead(l.tail, u)>>
        ELSE <<<<l.next, u, first>>, <<l.prev, first, u>>, ToHead(l.head, u)>>

\* Block::erase: out of a list.
Unlink(l, u) ==
    LET p == mem[l.prev][u]
        n == mem[l.next][u]
        isHead == mem.head[l.head] = u
        isTail == mem.head[l.tail] = u
    IN  CASE ~isHead /\ isTail  -> <<ToHead(l.tail, p), <<l.next, p, 0>>>>
          [] ~isHead /\ ~isTail -> <<<<l.next, p, n>>, <<l.prev, n, p>>>>
          [] isHead /\ isTail   -> <<ToHead(l.head, 0), ToHead(l.tail, 0)>>
          [] isHead /\ ~isTail  -> <<ToHead(l.head, n), <<l.prev, n, 0>>>>

\* Mutant: the tail is not moved when the last block leaves its place.
MoveFrontKeepsTail(l, u) ==
    LET p == mem[l.prev][u]
        n == mem[l.next][u]
        first == mem.head[l.head]
    IN  <<<<l.next, u, first>>, <<l.prev, first, u>>, ToHead(l.head, u),
          <<l.prev, u, 0>>, <<l.next, p, n>>>>
        \o When(n # 0, <<<<l.prev, n, p>>>>)

\* Block::refreshSetList and refreshGetList: from inside a list to its front.
MoveFront(l, u) ==
    LET p == mem[l.prev][u]
        n == mem[l.next][u]
        first == mem.head[l.head]
    IN  <<<<l.next, u, first>>, <<l.prev, first, u>>, ToHead(l.head, u),
          <<l.prev, u, 0>>, <<l.next, p, n>>,
          IF n # 0 THEN <<l.prev, n, p>> ELSE ToHead(l.tail, p)>>

\* A cursor that stands on u steps on to the block before it.
StepOff(cursor, prev, u) ==
    When(mem.head[cursor] = u, <<ToHead(cursor, mem[prev][u])>>)

(* Block::makeNew, the part that goes through the log. *)
LinkNew(u, i) ==
    LET first == mem.bucket[i]
    IN  Count("dirtyCount", 1) \o Count("elements", 1)
        \o <<<<"listCount", i, mem.listCount[i] + 1>>>>
        \o When(first # 0, <<<<"blockPrev", first, u>>>>)
        \o <<<<"blockNext", u, first>>, <<"bucket", i, u>>, <<"blockPrev", u, 0>>>>
        \o PushFront(SetList, u) \o PushFront(GetList, u)

\* Mutant: the links of the erased block are cleared in the same group.
UnlinkBlockClears(u) ==
    LET p == mem.blockPrev[u]
        n == mem.blockNext[u]
        i == mem.index[u]
    IN  StepOff("dirtyTail", "setPrev", u) \o StepOff("syncTail", "setPrev", u)
        \o StepOff("backupTail", "getPrev", u)
        \o Unlink(SetList, u) \o Unlink(GetList, u)
        \o When(p # 0, <<<<"blockNext", p, n>>>>)
        \o When(n # 0, <<<<"blockPrev", n, p>>>>)
        \o <<<<"listCount", i, mem.listCount[i] - 1>>>>
        \o When(p = 0, <<<<"bucket", i, n>>>>)
        \o When(mem.dirty[u], Count("dirtyCount", -1))
        \o When(mem.onlyKey[u], Count("onlyKeyCount", -1))
        \o Count("elements", -1)
        \o <<<<"setNext", u, 0>>, <<"setPrev", u, 0>>, <<"getNext", u, 0>>,
             <<"getPrev", u, 0>>, <<"blockNext", u, 0>>, <<"blockPrev", u, 0>>,
             <<"dirty", u, FALSE>>>>

(* Block::erase, up to doUpdate(true). *)
UnlinkBlock(u) ==
    LET p == mem.blockPrev[u]
        n == mem.blockNext[u]
        i == mem.index[u]
    IN  StepOff("dirtyTail", "setPrev", u) \o StepOff("syncTail", "setPrev", u)
        \o StepOff("backupTail", "getPrev", u)
        \o Unlink(SetList, u) \o Unlink(GetList, u)
        \o When(p # 0, <<<<"blockNext", p, n>>>>)
        \o When(n # 0, <<<<"blockPrev", n, p>>>>)
        \o <<<<"listCount", i, mem.listCount[i] - 1>>>>
        \o When(p = 0, <<<<"bucket", i, n>>>>)
        \o When(mem.dirty[u], Count("dirtyCount", -1))
        \o When(mem.onlyKey[u], Count("onlyKeyCount", -1))
        \o Count("elements", -1)

\* incGetCount and incHitCount.
Counted(hit) == <<ToHead("getCount", 0)>> \o When(hit, <<ToHead("hitCount", 0)>>)

-----------------------------------------------------------------------------
(* Starting, continuing and ending an operation. *)

\* doUpdate(): what an earlier operation left in the log is dropped.
Begin(o, group, stages) ==
    /\ todo = <<>>
    /\ ops < MaxOps
    /\ ops' = ops + 1
    /\ log' = group
    /\ todo' = stages
    /\ op' = IF stages = <<>> THEN Idle ELSE o
    /\ UNCHANGED <<conf, crashes>>

At(stage) == todo # <<>> /\ Head(todo) = stage

Go(o, stages) ==
    /\ todo' = stages
    /\ op' = IF stages = <<>> THEN Idle ELSE o
    /\ UNCHANGED <<conf, crashes, ops>>

\* Entries are recorded; doUpdate(true) follows.
Record(group, o, stages) ==
    /\ log' = log \o group
    /\ Go(o, <<"commit">> \o stages)

(* doUpdate(true) *)
Commit ==
    /\ At("commit")
    /\ mem' = Apply(mem, log)
    /\ due' = due \cap Blocks'
    /\ log' = <<>>
    /\ Go(op, Tail(todo))
    /\ UNCHANGED free

-----------------------------------------------------------------------------
(* Memory for a block or a chunk. *)

\* allocateMemBlock or allocateChunk found nothing, and nothing can be evicted:
\* chunks go back, and with them a block that was made for this set.
NoMemory ==
    Go([op EXCEPT !.gone = Elements(op.got), !.got = <<>>],
       <<"free">> \o When(op.new /\ op.b # 0, <<"erase">>))

(* BlockAllocator::allocateMemBlock and Block::makeNew.  From here until   *)
(* the commit the unit is neither free nor linked.                         *)
Alloc ==
    /\ At("alloc")
    /\ \/ \E u \in free :
            LET i == HashOf[op.key]
            IN  /\ free' = free \ {u}
                /\ mem' = [f \in DOMAIN mem |->
                            CASE f \in UnitLinks -> [mem[f] EXCEPT ![u] = 0]
                              [] f = "index"     -> [mem[f] EXCEPT ![u] = i]
                              [] f = "data"      -> [mem[f] EXCEPT ![u] = Empty]
                              [] f = "dirty"     -> [mem[f] EXCEPT ![u] = TRUE]
                              [] f = "onlyKey"   -> [mem[f] EXCEPT ![u] = FALSE]
                              [] OTHER           -> mem[f]]
                /\ Record(LinkNew(u, i), [op EXCEPT !.b = u], Tail(todo))
       \/ /\ free = {}
          /\ IF conf = "off" THEN NoMemory
             ELSE Go([op EXCEPT !.left = EraseCount], <<"evict">> \o todo)
          /\ UNCHANGED <<mem, free, log>>
    /\ UNCHANGED due

\* Mutant: the block that is being given memory may be evicted.
VictimAny == mem.head[IF conf = "set" THEN "setTail" ELSE "getTail"]

(* eraseExcept: the oldest block of the list, but not the one that is      *)
(* being given memory.                                                     *)
Victim ==
    LET l == IF conf = "set" THEN SetList ELSE GetList
        last == mem.head[l.tail]
    IN  IF last # 0 /\ last = op.b THEN mem[l.prev][last] ELSE last

(* eraseExcept: one round of its loop.  Only blocks that can be read and   *)
(* have a value count as evicted.                                          *)
Evict(torn) ==
    /\ At("evict")
    /\ IF op.left = 0 \/ Victim = 0
       THEN /\ IF op.left = EraseCount THEN NoMemory ELSE Go(op, Tail(todo))
            /\ UNCHANGED log
       ELSE Record(UnlinkBlock(Victim),
                   [op EXCEPT !.gone = Elements(ChunksOf(Victim)),
                              !.left = IF GetBlockData(Victim, torn) = "ok"
                                       THEN @ - 1 ELSE @],
                   <<"free">> \o todo)
    /\ UNCHANGED <<mem, free, due>>

(* deallocateMemBlock.  Nothing may rely on what a free unit holds: its    *)
(* links lead to itself.                                                   *)
Free ==
    /\ At("free")
    /\ free' = free \cup op.gone
    /\ mem' = [f \in DOMAIN mem |->
                CASE f \in UnitLinks -> [u \in Units |-> IF u \in op.gone THEN u ELSE mem[f][u]]
                  [] f = "data" -> [u \in Units |-> IF u \in op.gone THEN Empty ELSE mem[f][u]]
                  [] f \in {"dirty", "onlyKey"} ->
                        [u \in Units |-> u \notin op.gone /\ mem[f][u]]
                  [] OTHER -> mem[f]]
    /\ Go([op EXCEPT !.gone = {}], Tail(todo))
    /\ UNCHANGED <<log, due>>

(* Block::erase *)
Erase ==
    /\ At("erase")
    /\ Record(UnlinkBlock(op.b), [op EXCEPT !.gone = Elements(ChunksOf(op.b))],
              <<"free">> \o Tail(todo))
    /\ UNCHANGED <<mem, free, due>>

-----------------------------------------------------------------------------
(* Block::set *)

(* Block::allocate: surplus chunks are cut off first and released then;    *)
(* data that reached into them can no longer be read.                      *)
Fit ==
    /\ At("fit")
    /\ LET c == ChunksOf(op.b)
           cut == c[op.need + 1]
           extra == Len(c) - 1
       IN  \/ /\ op.need < extra
              /\ Record(<<<<"chunk", cut, 0>>,
                          <<"data", op.b,
                            IF cut = op.b THEN Empty
                            ELSE [mem.data[op.b] EXCEPT !.val = "short"]>>>>,
                        [op EXCEPT !.gone = {c[i] : i \in (op.need + 2)..Len(c)}],
                        <<"free", "write">> \o Tail(todo))
           \/ /\ op.need = extra
              /\ Go(op, <<"write">> \o Tail(todo))
              /\ UNCHANGED log
           \/ /\ op.need > extra
              /\ Go(op, <<"grab">> \o Tail(todo))
              /\ UNCHANGED log
    /\ UNCHANGED <<mem, free, due>>

(* Block::allocateChunk, and the first chunk hung on the last unit. *)
Grab ==
    /\ At("grab")
    /\ LET c == ChunksOf(op.b)
           missing == op.need - (Len(c) - 1)
       IN  \/ /\ Len(op.got) = missing
              /\ Record(<<<<"chunk", c[Len(c)], op.got[1]>>, <<"chunk", op.got[1], 0>>>>,
                        op, <<"join">> \o Tail(todo))
              /\ UNCHANGED free
           \/ /\ Len(op.got) < missing
              /\ \E u \in free : /\ free' = free \ {u}
                                 /\ Go([op EXCEPT !.got = Append(@, u)], todo)
              /\ UNCHANGED log
           \/ /\ Len(op.got) < missing
              /\ free = {}
              /\ IF conf = "off" THEN NoMemory
                 ELSE Go([op EXCEPT !.left = EraseCount], <<"evict">> \o todo)
              /\ UNCHANGED <<free, log>>
    /\ UNCHANGED <<mem, due>>

(* Block::joinChunk: one chunk after the other. *)
Join ==
    /\ At("join")
    /\ IF Len(op.got) = 1
       THEN Record(<<<<"chunk", op.got[1], 0>>>>, [op EXCEPT !.got = <<>>],
                   <<"write">> \o Tail(todo))
       ELSE Record(<<<<"chunk", op.got[1], op.got[2]>>, <<"chunk", op.got[2], 0>>>>,
                   [op EXCEPT !.got = Tail(@)], todo)
    /\ UNCHANGED <<mem, free, due>>

\* Mutant: the dirty counter is not told of a value that becomes a bare key.
WriteKeepsCount ==
    /\ At("write")
    /\ LET u == op.b
       IN  /\ log' = log
                \o When(~op.only /\ ~mem.dirty[u], Count("dirtyCount", 1))
                \o When(op.only /\ ~mem.onlyKey[u], Count("onlyKeyCount", 1))
                \o When(~op.only /\ mem.onlyKey[u], Count("onlyKeyCount", -1))
           /\ mem' = [mem EXCEPT !.dirty[u] = ~op.only,
                                 !.onlyKey[u] = op.only,
                                 !.data[u] = IF op.need = 0 /\ @ = Empty THEN Empty
                                             ELSE [key |-> op.key, val |-> "part"]]
    /\ Go(op, <<"copied", "commit">> \o Tail(todo))
    /\ UNCHANGED <<free, due>>

(* The flags are written at once, the counters through the log, and the    *)
(* copying begins.                                                         *)
Write ==
    /\ At("write")
    /\ LET u == op.b
       IN  /\ log' = log
                \o When(op.only /\ mem.dirty[u], Count("dirtyCount", -1))
                \o When(~op.only /\ ~mem.dirty[u], Count("dirtyCount", 1))
                \o When(op.only /\ ~mem.onlyKey[u], Count("onlyKeyCount", 1))
                \o When(~op.only /\ mem.onlyKey[u], Count("onlyKeyCount", -1))
           /\ mem' = [mem EXCEPT !.dirty[u] = ~op.only,
                                 !.onlyKey[u] = op.only,
                                 !.data[u] = IF op.need = 0 /\ @ = Empty THEN Empty
                                             ELSE [key |-> op.key, val |-> "part"]]
    /\ Go(op, <<"copied", "commit">> \o Tail(todo))
    /\ UNCHANGED <<free, due>>

(* All of the data is in place and its length is set. *)
Copied ==
    /\ At("copied")
    /\ mem' = [mem EXCEPT !.data[op.b] = [key |-> op.key, val |-> "whole"]]
    /\ Go([Idle EXCEPT !.b = op.b, !.dirty = op.dirty], Tail(todo))
    /\ UNCHANGED <<free, log, due>>

-----------------------------------------------------------------------------
(* Block::setDirty, refreshSetList, refreshGetList. *)

SetDirtyFlag ==
    /\ At("dirty")
    /\ IF mem.dirty[op.b] # op.dirty
       THEN Record(Count("dirtyCount", IF op.dirty THEN 1 ELSE -1)
                     \o <<<<"dirty", op.b, op.dirty>>>>,
                   op, Tail(todo))
       ELSE Go(op, Tail(todo)) /\ UNCHANGED log
    /\ UNCHANGED <<mem, free, due>>

\* Mutant: the first dirty block does not become the end of the dirty chain.
RefreshSetListNoDirty ==
    /\ At("rset")
    /\ LET u == op.b
           first == mem.head.setHead = u
       IN  Record(When(~first, StepOff("syncTail", "setPrev", u)
                               \o StepOff("dirtyTail", "setPrev", u)
                               \o MoveFront(SetList, u)),
                  op, <<"rget">> \o Tail(todo))
    /\ UNCHANGED <<mem, free, due>>

RefreshSetList ==
    /\ At("rset")
    /\ LET u == op.b
           first == mem.head.setHead = u
       IN  Record(When(~first, StepOff("syncTail", "setPrev", u)
                               \o StepOff("dirtyTail", "setPrev", u))
                    \o When(mem.head.dirtyTail = 0, <<ToHead("dirtyTail", u)>>)
                    \o When(~first, MoveFront(SetList, u)),
                  op, <<"rget">> \o Tail(todo))
    /\ UNCHANGED <<mem, free, due>>

\* Mutant: the block moves to the front with the cursor of the backup on it.
RefreshGetListCarries ==
    /\ At("rget")
    /\ IF mem.head.getHead = op.b
       THEN Go(op, Tail(todo)) /\ UNCHANGED log
       ELSE Record(MoveFront(GetList, op.b), op, Tail(todo))
    /\ UNCHANGED <<mem, free, due>>

(* The front block stays where it is, and nothing is committed. *)
RefreshGetList ==
    /\ At("rget")
    /\ IF mem.head.getHead = op.b
       THEN Go(op, Tail(todo)) /\ UNCHANGED log
       ELSE Record(StepOff("backupTail", "getPrev", op.b) \o MoveFront(GetList, op.b),
                   op, Tail(todo))
    /\ UNCHANGED <<mem, free, due>>

-----------------------------------------------------------------------------
(* The operations. *)

(* get *)
Get(k, torn) ==
    LET u == FindValue(k, torn)
    IN  /\ Begin([Idle EXCEPT !.b = u], Counted(u # 0),
                 When(u # 0 /\ ~mem.onlyKey[u], <<"rget">>))
        /\ UNCHANGED <<mem, free, due>>

(* set, with a value that needs "need" chunks besides the block. *)
Set(k, need, dirty) ==
    LET f == FindKey(k)
    IN  /\ Begin([Idle EXCEPT !.b = f.at, !.key = k, !.need = need, !.dirty = dirty,
                              !.new = f.at = 0],
                 Counted(f.at # 0),
                 When(f.ok, When(f.at = 0, <<"alloc">>) \o <<"fit", "dirty", "rset">>))
        /\ UNCHANGED <<mem, free, due>>

(* set, with the key alone. *)
SetKey(k) ==
    LET f == FindKey(k)
    IN  /\ Begin([Idle EXCEPT !.b = f.at, !.key = k, !.only = TRUE, !.new = f.at = 0],
                 Counted(f.at # 0),
                 When(f.ok, When(f.at = 0, <<"alloc">>) \o <<"fit", "rset">>))
        /\ UNCHANGED <<mem, free, due>>

(* setDirty and setClean: the latter ends with a doUpdate(true) of its own. *)
SetDirty(k, dirty) ==
    LET f == FindKey(k)
    IN  /\ Begin([Idle EXCEPT !.b = f.at, !.dirty = dirty], Counted(f.at # 0),
                 When(f.at # 0 /\ ~mem.onlyKey[f.at],
                      <<"dirty", "rset">> \o When(~dirty, <<"commit">>)))
        /\ UNCHANGED <<mem, free, due>>

(* HashMapItem::setDirty: all the values of a bucket. *)
SetBucketDirty(i) ==
    /\ Begin([Idle EXCEPT !.dirty = TRUE, !.next = mem.bucket[i]], log,
             When(mem.bucket[i] # 0, <<"item">>))
    /\ UNCHANGED <<mem, free, due>>

NextItem ==
    /\ At("item")
    /\ LET u == op.next
           o == [op EXCEPT !.b = u, !.next = mem.blockNext[u]]
           rest == When(o.next # 0, <<"item">>) \o Tail(todo)
       IN  IF mem.onlyKey[u]
           THEN Go(o, rest) /\ UNCHANGED log
           ELSE Go(o, <<"dirty", "rset">> \o rest) /\ log' = <<>>
    /\ UNCHANGED <<mem, free, due>>

(* del *)
Del(k, torn) ==
    LET u == FindValue(k, torn)
    IN  /\ Begin([Idle EXCEPT !.b = u], Counted(u # 0), When(u # 0, <<"erase">>))
        /\ UNCHANGED <<mem, free, due>>

(* erase(radio, data, bCheckDirty) while more memory is used than asked    *)
(* for: a dirty block is kept, at the front of the Get list.               *)
EraseOld(checkDirty) ==
    LET u == mem.head.getTail
        keep == checkDirty /\ mem.dirty[u]
        p == mem.getPrev[u]
        first == mem.head.getHead
    IN  /\ u # 0
        /\ IF ~keep
           THEN /\ Begin([Idle EXCEPT !.b = u], <<>>, <<"erase">>)
                /\ UNCHANGED mem
           ELSE /\ mem' = [mem EXCEPT !.head.dirtyTail = IF @ = 0 THEN u ELSE @]
                /\ Begin(Idle,
                         When(first # u,
                              StepOff("backupTail", "getPrev", u)
                              \o <<ToHead("getTail", p), <<"getNext", p, 0>>,
                                   <<"getPrev", u, 0>>, <<"getNext", u, first>>,
                                   <<"getPrev", first, u>>, ToHead("getHead", u)>>),
                         When(first # u, <<"commit">>))
        /\ UNCHANGED <<free, due>>

(* sync() *)
SyncStart ==
    /\ Begin(Idle, <<>>, <<>>)
    /\ mem' = [mem EXCEPT !.head.syncTail = mem.head.dirtyTail]
    /\ UNCHANGED <<free, due>>

\* The dirty chain ends before u when it ended at u.
DirtyPast(m, u) ==
    IF m.head.dirtyTail = u THEN [m EXCEPT !.head.dirtyTail = m.setPrev[u]] ELSE m

(* sync(iNowTime, data): "old", the value was not written back for long    *)
(* enough; "refused", syncOnce of the jmem layer puts it back.             *)
SyncOne(old, refused, torn) ==
    LET u == mem.head.syncTail
        skip == ~mem.dirty[u] \/ GetBlockData(u, torn) # "ok"
        moved == [mem EXCEPT !.head.syncTail = mem.setPrev[u]]
    IN  /\ u # 0
        /\ mem' = IF skip THEN DirtyPast(moved, u) ELSE moved
        /\ Begin([Idle EXCEPT !.b = u], <<>>,
                 When(~skip /\ old,
                      <<"dirty", "synced">> \o When(refused, <<"resync", "dirty", "resynced">>)))
        /\ UNCHANGED <<free, due>>

Synced ==
    /\ At("synced")
    /\ mem' = DirtyPast(mem, op.b)
    /\ Go(op, Tail(todo))
    /\ UNCHANGED <<free, log, due>>

(* setDirtyAfterSync, under the lock of the sync before it. *)
Resync ==
    /\ At("resync")
    /\ log' = Counted(TRUE)
    /\ Go([op EXCEPT !.dirty = TRUE], Tail(todo))
    /\ UNCHANGED <<mem, free, due>>

Resynced ==
    /\ At("resynced")
    /\ mem' = [mem EXCEPT !.head.dirtyTail = IF @ = mem.setPrev[op.b] THEN op.b ELSE @]
    /\ Go(op, Tail(todo))
    /\ UNCHANGED <<free, log, due>>

(* backup(bForceFromBegin) *)
BackupStart(force) ==
    LET start == force \/ mem.head.backupTail = 0
    IN  /\ Begin(Idle, <<>>, <<>>)
        /\ mem' = [mem EXCEPT !.head.backupTail = IF start THEN mem.head.getTail ELSE @]
        /\ due' = IF start THEN Blocks ELSE due
        /\ UNCHANGED free

(* backup(data) *)
BackupOne ==
    LET u == mem.head.backupTail
    IN  /\ u # 0
        /\ Begin(Idle, <<>>, <<>>)
        /\ mem' = [mem EXCEPT !.head.backupTail = mem.getPrev[u]]
        /\ due' = due \ {u}
        /\ UNCHANGED free

(* recover(i, true): unreadable blocks are erased one after the other. *)
Recover(i) ==
    /\ Begin([Idle EXCEPT !.next = i], <<>>, <<"recover">>)
    /\ UNCHANGED <<mem, free, due>>

RecoverOne(torn) ==
    /\ At("recover")
    /\ LET c == Chain(op.next)
           bad == {j \in DOMAIN c : GetBlockData(c[j], torn) = "err"}
       IN  IF bad = {} THEN Go(op, Tail(todo))
           ELSE Go([op EXCEPT !.b = c[Min(bad)]], <<"erase">> \o todo)
    /\ UNCHANGED <<mem, free, log, due>>

(* The process dies; the memory stays as it is.  The next one drops what   *)
(* is in the log.                                                          *)
Crash ==
    /\ todo # <<>>
    /\ crashes < MaxCrashes
    /\ crashes' = crashes + 1
    /\ log' = <<>>
    /\ todo' = <<>>
    /\ op' = Idle
    /\ UNCHANGED <<conf, mem, free, due, ops>>

-----------------------------------------------------------------------------
Init ==
    /\ conf \in Evictions
    /\ mem = [f \in UnitLinks \cup {"head", "index", "data", "dirty", "onlyKey",
                                    "bucket", "listCount"} |->
                CASE f \in UnitLinks            -> [u \in Units |-> u]
                  [] f = "head"                 -> [h \in HeadLinks \cup HeadCounts |-> 0]
                  [] f = "index"                -> [u \in Units |-> CHOOSE i \in Buckets : TRUE]
                  [] f = "data"                 -> [u \in Units |-> Empty]
                  [] f \in {"dirty", "onlyKey"} -> [u \in Units |-> FALSE]
                  [] f \in {"bucket", "listCount"} -> [i \in Buckets |-> 0]]
    /\ free = Units
    /\ log = <<>>
    /\ todo = <<>>
    /\ op = Idle
    /\ due = {}
    /\ crashes = 0
    /\ ops = 0

\* What a reader makes of half-copied data.
Torn == {"ok", "err"}

Stage ==
    \/ Commit \/ Alloc \/ Free \/ Erase \/ (\E torn \in Torn : Evict(torn))
    \/ Fit \/ Grab \/ Join \/ Write \/ Copied
    \/ SetDirtyFlag \/ RefreshSetList \/ RefreshGetList \/ NextItem
    \/ Synced \/ Resync \/ Resynced \/ (\E torn \in Torn : RecoverOne(torn))

Operation ==
    \/ \E k \in Keys :
         \/ SetKey(k)
         \/ \E torn \in Torn : Get(k, torn) \/ Del(k, torn)
         \/ \E dirty \in BOOLEAN : \/ SetDirty(k, dirty)
                                   \/ \E n \in 0..MaxExtra : Set(k, n, dirty)
    \/ \E i \in Buckets : SetBucketDirty(i) \/ Recover(i)
    \/ \E yes \in BOOLEAN : EraseOld(yes) \/ BackupStart(yes)
    \/ SyncStart \/ BackupOne
    \/ \E old, refused \in BOOLEAN, torn \in Torn : SyncOne(old, refused, torn)

Next == Stage \/ Operation \/ Crash

Spec == Init /\ [][Next]_vars

-----------------------------------------------------------------------------
TypeOK ==
    /\ \A f \in UnitLinks : mem[f] \in [Units -> Addr]
    /\ \A h \in HeadLinks : mem.head[h] \in Addr
    /\ \A h \in HeadCounts : mem.head[h] \in Int
    /\ mem.index \in [Units -> Buckets]
    /\ mem.data \in [Units -> Datum]
    /\ mem.dirty \in [Units -> BOOLEAN] /\ mem.onlyKey \in [Units -> BOOLEAN]
    /\ mem.bucket \in [Buckets -> Addr] /\ mem.listCount \in [Buckets -> Nat]
    /\ free \subseteq Units /\ due \subseteq Units
    /\ op.b \in Addr /\ op.gone \subseteq Units /\ op.left \in 0..EraseCount
    /\ crashes \in 0..MaxCrashes /\ ops \in 0..MaxOps

Backwards(s) == [i \in DOMAIN s |-> s[Len(s) + 1 - i]]

(* The Set list and the Get list run through the same blocks, and lead     *)
(* back the way they came.                                                 *)
ListsAgree ==
    /\ Len(SetOrder) <= Cardinality(Units)
    /\ Follow("setPrev", mem.head.setTail) = Backwards(SetOrder)
    /\ LET order == Follow("getNext", mem.head.getHead)
       IN  /\ Follow("getPrev", mem.head.getTail) = Backwards(order)
           /\ Elements(order) = Blocks
           /\ Len(order) = Cardinality(Blocks)

(* The chain of a bucket has the blocks of its index, each key at most     *)
(* once, although an interrupted set may leave a block without its key.    *)
ChainsAgree ==
    \A i \in Buckets :
        LET c == Chain(i)
        IN  /\ Elements(c) = {u \in Blocks : mem.index[u] = i}
            /\ Len(c) = Cardinality(Elements(c))
            /\ \A j \in DOMAIN c :
                 /\ mem.blockPrev[c[j]] = IF j = 1 THEN 0 ELSE c[j - 1]
                 /\ \A k \in DOMAIN c :
                      mem.data[c[j]].key = mem.data[c[k]].key => j = k \/ mem.data[c[j]].key = None

(* The cursors of write-back, sync and backup never stand on a block that  *)
(* was erased.                                                             *)
CursorsLive ==
    {mem.head.dirtyTail, mem.head.syncTail, mem.head.backupTail} \subseteq Blocks \cup {0}

(* Whenever an operation is cut short, the lists, the chains of the        *)
(* buckets and the cursors of TC_HashMap are fit for the next process.     *)
Linked == TypeOK /\ ListsAgree /\ ChainsAgree /\ CursorsLive

(* The block an operation works on is not evicted under it: it stays in    *)
(* the lists until the operation erases it itself.                         *)
BlockStays ==
    todo # <<>> /\ Head(todo) \in {"fit", "grab", "join", "write", "copied",
                                   "dirty", "rset", "rget", "synced", "resync", "resynced"}
        => op.b \in Blocks

(* A unit belongs to one block, to the allocator or to nobody: a crash can *)
(* lose units, nothing else can, and nothing makes one belong twice.       *)
UnitsOwned ==
    LET own(u) == Elements(ChunksOf(u))
    IN  /\ \A u \in Blocks : /\ Len(ChunksOf(u)) = Cardinality(own(u))
                             /\ own(u) \cap free = {}
        /\ \A u, v \in Blocks : u # v => own(u) \cap own(v) = {}
        /\ crashes = 0 /\ todo = <<>> => UNION {own(u) : u \in Blocks} = Units \ free
        /\ BlockStays

(* The counters say how many blocks there are, in all and per bucket, and, *)
(* unless a process died in an operation, how many are dirty or bare keys. *)
CountsAgree ==
    /\ mem.head.elements = Cardinality(Blocks)
    /\ \A i \in Buckets : mem.listCount[i] = Len(Chain(i))
    /\ crashes = 0 /\ todo = <<>> =>
         /\ mem.head.dirtyCount = Cardinality({u \in Blocks : mem.dirty[u]})
         /\ mem.head.onlyKeyCount = Cardinality({u \in Blocks : mem.onlyKey[u]})

(* Between two operations every dirty block is found from the end of the   *)
(* dirty chain, so sync reaches it, unless a process died in an operation. *)
DirtyReached ==
    crashes = 0 /\ todo = <<>> =>
        {u \in Blocks : mem.dirty[u]} \subseteq Elements(Follow("setPrev", mem.head.dirtyTail))

(* A running backup still comes to every block that it has not handed out, *)
(* however gets, sets, evictions and crashes change the Get list.          *)
BackupComes == due \subseteq Elements(Follow("getPrev", mem.head.backupTail))

(* The assertion behind update: no group fills the log. *)
LogFits == Len(log) < MaxModify
=============================================================================
