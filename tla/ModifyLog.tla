----------------------------- MODULE ModifyLog -----------------------------
(* The modification log that makes the shared-memory containers survive a  *)
(* crash (TC_HashMap::update and doUpdate of src/util/src/tc_hashmap.cpp;  *)
(* the compact and the multi-key maps and the tree carry the same code).   *)
(* Every word of the log and of the memory outlives the process: a crash   *)
(* loses only where the process was.                                       *)
EXTENDS Integers

CONSTANTS Cells,       \* the words of the map that are modified through the log
          Values,
          LogSize      \* length of _stModifyData

ASSUME LogSizeAssumption == LogSize \in Nat \ {0}

VARIABLES memory,      \* the map
          status,      \* _cModifyStatus
          index,       \* _iNowIndex
          data,        \* _stModifyData
          pc,          \* where the process is; "start": attached, nothing called yet
          cursor,      \* the loop variable of doUpdate
          want         \* history: memory with the writes of the current group applied

logVars == <<memory, status, index, data, pc, cursor, want>>

LogEntry == [cell : Cells, val : Values]

LogTypeOK ==
    /\ memory \in [Cells -> Values]
    /\ status \in 0..2
    /\ index \in 0..LogSize
    /\ data \in [1..LogSize -> LogEntry]
    /\ pc \in {"start", "idle", "record", "redo", "drop", "redone", "dropped"}
    /\ cursor \in 1..(LogSize + 1)
    /\ want \in [Cells -> Values]

LogInit ==
    /\ memory \in [Cells -> Values]
    /\ status = 0
    /\ index = 0
    /\ data \in [1..LogSize -> LogEntry]
    /\ pc = "start"
    /\ cursor = 1
    /\ want = memory

-----------------------------------------------------------------------------
(* update: the status and the words of the entry are written first, the    *)
(* index last.  The assertion behind the increment leaves the last element *)
(* of the array unused.                                                    *)
RecordEntry(c, v) ==
    /\ pc = "idle"
    /\ index + 1 < LogSize
    /\ status' = 1
    /\ data' = [data EXCEPT ![index + 1] = [cell |-> c, val |-> v]]
    /\ pc' = "record"
    /\ UNCHANGED <<memory, index, cursor, want>>

RecordIndex ==
    /\ pc = "record"
    /\ index' = index + 1
    /\ want' = [want EXCEPT ![data[index + 1].cell] = data[index + 1].val]
    /\ pc' = "idle"
    /\ UNCHANGED <<memory, status, data, cursor>>

\* Mutant: the loop leaves out the first entry.
CommitFromSecond ==
    /\ pc = "idle"
    /\ status' = 2
    /\ pc' = "redo"
    /\ cursor' = 2
    /\ UNCHANGED <<memory, index, data, want>>

(* doUpdate(true): from here on the group counts. *)
LogCommit ==
    /\ pc = "idle"
    /\ status' = 2
    /\ pc' = "redo"
    /\ cursor' = 1
    /\ UNCHANGED <<memory, index, data, want>>

\* Mutant: an incomplete group is completed.
InspectRedoes ==
    /\ pc \in {"start", "idle"}
    /\ \/ /\ status = 0
          /\ pc' = "idle"
          /\ UNCHANGED cursor
       \/ /\ status # 0
          /\ pc' = "redo"
          /\ cursor' = 1
    /\ UNCHANGED <<memory, status, index, data, want>>

(* doUpdate(): what an operation, the first one after a crash included,    *)
(* finds in the log.                                                       *)
Inspect ==
    /\ pc \in {"start", "idle"}
    /\ \/ /\ status = 0
          /\ pc' = "idle"
          /\ UNCHANGED cursor
       \/ /\ status = 1
          /\ pc' = "drop"
          /\ UNCHANGED cursor
       \/ /\ status = 2
          /\ pc' = "redo"
          /\ cursor' = 1
    /\ UNCHANGED <<memory, status, index, data, want>>

(* status 2: the entries are copied to their places in order. *)
Redo ==
    /\ pc = "redo"
    /\ cursor <= index
    /\ memory' = [memory EXCEPT ![data[cursor].cell] = data[cursor].val]
    /\ cursor' = cursor + 1
    /\ UNCHANGED <<status, index, data, pc, want>>

RedoClear ==
    /\ pc = "redo"
    /\ cursor > index
    /\ index' = 0
    /\ pc' = "redone"
    /\ UNCHANGED <<memory, status, data, cursor, want>>

(* status 1: the group was not complete and is forgotten. *)
DropClear ==
    /\ pc = "drop"
    /\ index' = 0
    /\ want' = memory
    /\ pc' = "dropped"
    /\ UNCHANGED <<memory, status, data, cursor>>

Finish ==
    /\ pc \in {"redone", "dropped"}
    /\ status' = 0
    /\ pc' = "idle"
    /\ UNCHANGED <<memory, index, data, cursor, want>>

(* The process dies between two of its writes and another one attaches. *)
LogCrash ==
    /\ pc' = "start"
    /\ UNCHANGED <<memory, status, index, data, cursor, want>>

LogNext ==
    \/ \E c \in Cells, v \in Values : RecordEntry(c, v)
    \/ RecordIndex \/ LogCommit \/ Inspect \/ Redo \/ RedoClear \/ DropClear \/ Finish
    \/ LogCrash

LogSpec == LogInit /\ [][LogNext]_logVars

-----------------------------------------------------------------------------
(* A cell that does not yet have the value it should get has an entry that *)
(* will still be copied: any of the log as long as nothing was copied, one *)
(* at or behind the cursor while the log is replayed.  A replay that a     *)
(* crash interrupted can therefore be started again from the beginning.    *)
Covered ==
    /\ \A c \in Cells :
         memory[c] # want[c] => \E j \in 1..index : data[j].cell = c
    /\ pc = "redo" =>
         \A c \in Cells :
            memory[c] # want[c] => \E j \in cursor..index : data[j].cell = c

(* The last entry of a cell holds the value the cell should get. *)
LastWins ==
    \A j \in 1..index :
        (\A k \in (j + 1)..index : data[k].cell # data[j].cell)
            => want[data[j].cell] = data[j].val

(* Where the process can be for each status: with nothing to do the memory *)
(* is what was asked for.                                                  *)
StatusAgrees ==
    /\ status = 0 => index = 0 /\ pc \in {"start", "idle"}
    /\ status = 1 => pc \in {"start", "idle", "record", "drop", "dropped"}
    /\ status = 2 => pc \in {"start", "redo", "redone"}
    /\ pc = "record" => status = 1 /\ index + 1 < LogSize
    /\ pc \in {"redone", "dropped"} => index = 0
    /\ pc = "drop" => status = 1
    /\ pc = "redo" => status = 2 /\ cursor <= index + 1

(* Whatever is written and whenever the process dies, the log that the     *)
(* next one finds is right: its replay from the beginning ends with what   *)
(* was asked for, and its status tells whether it is to be replayed.       *)
Replayable == Covered /\ LastWins /\ StatusAgrees

(* The log implements the atomic group of writes: as soon as the status is *)
(* 2 a reader, who calls doUpdate first, finds what was asked for.         *)
Atomic == INSTANCE AtomicWrite
            WITH store <- IF status = 2 THEN want ELSE memory, want <- want

(* Whenever the process dies, a reader of the map finds all the writes of  *)
(* a group of update calls that doUpdate(true) closed, or none of them.    *)
AllOrNothing == Atomic!Spec
=============================================================================
