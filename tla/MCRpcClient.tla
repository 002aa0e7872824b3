----------------------------- MODULE MCRpcClient -----------------------------
(***************************************************************************)
(* Small instances of RpcClient: the kinds of the three calls, and the     *)
(* proxies and endpoints they are made with.                               *)
(***************************************************************************)
EXTENDS RpcClient, TLC

CONSTANTS c1, c2, c3, t1, t2

SyncAsyncOneway == (c1 :> "sync") @@ (c2 :> "async") @@ (c3 :> "oneway")
SyncAsyncPing   == (c1 :> "sync") @@ (c2 :> "async") @@ (c3 :> "ping")
SyncAsyncAsync  == (c1 :> "sync") @@ (c2 :> "async") @@ (c3 :> "async")
NoRpcIds == [c \in Calls |-> 0]

Parallel(kind, secured, faults) ==
    [kind |-> kind, serial |-> FALSE, secured |-> secured, faults |-> faults]
OneAtATime(kind, secured, faults) ==
    [kind |-> kind, serial |-> TRUE, secured |-> secured, faults |-> faults]

AllFaults == {"error", "throw", "torn"}
EveryFault == {Parallel(SyncAsyncOneway, FALSE, AllFaults), OneAtATime(SyncAsyncPing, TRUE, AllFaults)}
NoException == {Parallel(SyncAsyncOneway, TRUE, {"error"}), OneAtATime(SyncAsyncAsync, TRUE, {"error"})}
Exception   == {Parallel(SyncAsyncOneway, FALSE, {"throw"})}
=============================================================================
