---------------------------- MODULE MCLoopQueue ----------------------------
EXTENDS LoopQueue
=============================================================================
