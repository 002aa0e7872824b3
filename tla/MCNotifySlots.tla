--------------------------- MODULE MCNotifySlots ---------------------------
(***************************************************************************)
(* Three thread lives on two numbers, so that numbers are used again.      *)
(***************************************************************************)
EXTENDS NotifySlots, TLC

Symmetry == Permutations(Threads)
=============================================================================
