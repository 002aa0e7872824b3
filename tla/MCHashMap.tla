----------------------------- MODULE MCHashMap -----------------------------
(* Instances of HashMap for TLC.  Units, and keys of one bucket, are    *)
(* interchangeable: no definition tells one from another.                  *)
EXTENDS HashMap, TLC

MCHashOf == [k \in Keys |-> 1]

MCSymmetry == Permutations(Units) \cup Permutations(Keys)
=============================================================================
