---------------------------- MODULE MCCoroutines ----------------------------
(* A pool of three coroutines, made two and one at a time, with one active *)
(* coroutine a round, so that both limits are met.                         *)
EXTENDS Coroutines
=============================================================================
