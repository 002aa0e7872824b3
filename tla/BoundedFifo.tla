----------------------------- MODULE BoundedFifo -----------------------------
(***************************************************************************)
(* What a user of TC_LoopQueue may rely on: a first-in first-out queue of  *)
(* at most Size values.  push_back refuses values only when they do not    *)
(* fit, and pop_front hands out the oldest value.                          *)
(***************************************************************************)
EXTENDS Naturals, Sequences

CONSTANTS Value,    \* the values a caller may push
          Size,     \* the capacity given to the constructor (iSize)
          MaxBatch  \* the longest vector handed to push_back(vector)

VARIABLES q,        \* the values held, oldest first
          out,      \* the value the last pop_front returned
          refused   \* how often push_back returned false, modulo 2

vars == <<q, out, refused>>

Init == /\ q = <<>>
        /\ out \in Value
        /\ refused = 0

Put == \E v \in Value :
           /\ Len(q) < Size
           /\ q' = Append(q, v)
           /\ UNCHANGED <<out, refused>>

Get == /\ q # <<>>
       /\ out' = Head(q)
       /\ q' = Tail(q)
       /\ UNCHANGED refused

\* push_back may say "full" only if n more values really do not fit.
Refuse == \E n \in 1..MaxBatch :
              /\ Len(q) + n > Size
              /\ refused' = 1 - refused
              /\ UNCHANGED <<q, out>>

Next == Put \/ Get \/ Refuse

Spec == Init /\ [][Next]_vars
=============================================================================
