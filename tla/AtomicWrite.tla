---------------------------- MODULE AtomicWrite ----------------------------
(* What the modification log of the shared-memory containers promises: a   *)
(* group of writes takes effect as a whole or not at all, whenever the     *)
(* process dies.  "store" is the memory as a reader finds it, "want" the   *)
(* memory with the writes that were asked for since the last commit.       *)
CONSTANTS Cells, Values

VARIABLES store, want

vars == <<store, want>>

Init == store \in [Cells -> Values] /\ want = store

(* A write of the group that is being put together. *)
Ask(c, v) == want' = [want EXCEPT ![c] = v] /\ UNCHANGED store

(* All the writes of the group at once. *)
Commit == store' = want /\ UNCHANGED want

(* None of the writes of the group: it died before it was complete. *)
Discard == want' = store /\ UNCHANGED store

Next == (\E c \in Cells, v \in Values : Ask(c, v)) \/ Commit \/ Discard

Spec == Init /\ [][Next]_vars
=============================================================================
