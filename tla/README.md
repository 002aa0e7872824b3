# A TLA+ verification of TarsCpp

TarsCpp is an RPC framework: a client library (`servant/libservant`), a server framework
(`Application`, `ServantHandle`, `util/src/tc_epoll_server.cpp`) and the utility library both stand
on (`util/`). This directory holds TLA+ models of the client's core, of the server's connections, of the
coroutine scheduler and of the hash map in shared memory, the TLC runs that check them and the TLAPS
proofs about them. `PROJECT.json` lists, for every definition that models code, the lines it
models; for every property, a plausible bug that breaks it; and the hazards the properties are for.

Paths below are relative to `src/`.

## 1. Inventory

### Parts of the client

| part | state | operations | hard behaviour | what makes it correct |
|---|---|---|---|---|
| Request ring, `TC_LoopQueue` | array `_p`, indices `_iBegin`, `_iEnd` | `push_back` of a value or a vector, `pop_front` | producer and consumer without a lock | a bounded FIFO; no cell read and written at once; `bEmpty` is enough to wake the consumer |
| Caller, `ServantProxy::invoke`, `ReqMonitor` | the `ReqMessage` and its monitor | push, notify, wait, read the result, delete | message shared with the network thread by a raw pointer | the message is used by one side at a time; the caller returns |
| Thread numbers, `SeqManager` | free list threaded through an array | `get`, `del` | long sequences of thread starts and exits | no number twice, none lost |
| Notify slots, `ServantProxyThreadData`, `CommunicatorEpoll::_notify` | `_notify[]`, `FDInfo` | `initNotify`, `notify`, `handleNotify`, thread exit | slots written by the calling threads, released by the network thread | the slot of a thread is its own; no lost wake-up |
| Network thread, `CommunicatorEpoll` | object proxies, timers, `_reconnect` | `handleNotify`, input, output and close handlers, `doTimeout`, `doReconnect`, `doKeepAlive` | callbacks re-enter the proxies | every queued request reaches a queue with a deadline |
| Object proxy, `ObjectProxy` | `_reqTimeoutQueue` | `invoke`, `prepareConnection`, `doInvokeException`, `doTimeout` | requests parked until the registry or the connection is ready | a parked request is sent once or failed once |
| Adapter proxy, `AdapterProxy` | `_timeoutQueue` (id map, unsent list, deadlines), `_requestMsg`, health counters | `invoke`, `doInvoke`, `finishInvoke`, `doTimeout`, `checkActive`, `addConnExc` | late responses, partial sends, one connection for many requests | a response reaches its own request; unsent requests get sent |
| Transceiver, `TC_Transceiver` | `_connStatus`, `_sendBuffer`, `_recvBuffer` | `connect`, `close`, `sendRequest`, `doRequest`, `doResponse` | exceptions in the middle of a send | whole requests on the wire |
| Callback thread, `AsyncProcThread` | `_msgQueue` | `push_back` with a limit, `run` | full queue | every message is called back or deleted |
| Endpoint choice, `EndpointManager` | lists of adapters, `_lastRoundPosition` | registry queries, `getNextValidProxy`, hash and weight choices | shielding, retry | calls avoid shielded endpoints, which come back |
| `Communicator` | proxies, network threads | creation, `terminate` | termination under callers | no caller waits for ever |

### Parts of the server and of the utility library

| part | state | hard behaviour | what would make it correct |
|---|---|---|---|
| `TC_EpollServer` | `ConnectionList` (uids, timeouts), `DataBuffer`, `NetThread::_sbuffer` | handle threads name connections by uid while the network thread deletes them; overload; shutdown | a response goes to the connection of its request or nowhere; overload is answered |
| `ServantHandle`, `Current`, `Servant` | response flag, push queue | asynchronous responses | at most one response per request |
| `TC_CoroutineScheduler` | lists of free, available, active, inactive and timed coroutines, queues of wake-ups | `yield`, `put`, `sleep`, a call whose answer comes before or after the wait | a coroutine is on one list; one that was put runs again |
| `TC_Epoller`, `TC_Timer` | registered descriptors, timer tables | callbacks that remove themselves, `syncCallback` with a timeout | a callback runs at most once after removal |
| timeout queues | id map, time list, unsent list, 32-bit ids | ids wrap | the three views agree |
| `TC_ThreadQueue`, `TC_ThreadPool` | deque, `_lockId` | wake-up without data | a waiter never misses data |
| `Future`, `Promise` | value, watchers | watcher added while the value is set | every watcher runs once |
| statistics, properties, remote log, config, notify, admin, cache | buffers and files | none that other parts depend on | - |
| codec, protocols, network buffer, SSL, authentication | bytes | - | - |
| `TC_HashMap` in shared memory | modification log, blocks and chunks, Set and Get lists, hash chains, dirty, sync and backup cursors, counters | the process dies between any two writes; eviction while a set is allocating | a group of modifications is done completely or not at all; the lists agree; no unit has two owners; sync and backup come to every block |
| other shared-memory containers | the same log under other lists and trees | the same | the same |
| tools, examples, tests, helpers | - | - | - |

### How they interact

A calling thread owns a number, a ring and a notify descriptor per network thread. `invoke` pushes a
`ReqMessage` pointer on the ring, triggers the descriptor and, for a synchronous call, waits on the
message's monitor. The network thread pops the message and either parks it in the object proxy, hands
it to the adapter proxy chosen by the endpoint manager, or fails it. The adapter sends through the
transceiver, whose callbacks (connected, writable, response complete, closed) call back into the
adapter and the object. Deadlines are checked by timers of the same thread. A finished message goes
to the monitor, to the callback thread, or is deleted.

In a coroutine the caller's thread is its own network thread: `invoke` sends at once and yields, and the
scheduler's loop asks the same epoller for answers, which `put` the coroutine.

On the server the accept thread enters a connection in the list of a network thread; the network thread
parses requests into the adapter's receive queue; handle threads pop them and queue an answer or a close,
named by the connection's uid, for the network thread.

A `TC_HashMap` lives in memory that outlives the process. Operations record their modifications in a log
inside that memory and then apply it; the next operation, of whichever process, first finishes or drops
what it finds there.

## 2. Modules

| module | models |
|---|---|
| `LoopQueue` | `TC_LoopQueue`, one step per access to a shared index or cell |
| `BoundedFifo` | what a user of the ring relies on: the abstract specification of `LoopQueue` |
| `SeqManager` | `SeqManager::get` and `del` |
| `NotifySlots` | the life of calling threads and their notify slots; extends `SeqManager` |
| `RpcClient` | a call from `ServantProxy::invoke` to its end, for one endpoint |
| `EndpointHealth` | failure accounting, shielding, retry, reconnect and round robin, for any number of endpoints |
| `ServerConnections` | the connection list, the receive and send queues and the handle threads of one adapter |
| `Coroutines` | the scheduler of one thread and the coroutines it runs |
| `ModifyLog` | `update` and `doUpdate`, one step per write that matters |
| `AtomicWrite` | a group of writes that happens at once: the abstract specification of `ModifyLog` |
| `HashMap` | the operations of `TC_HashMap` on top of the log |
| `LoopQueueProofs`, `NotifySlotsProofs` (also of `SeqManager`), `RpcClientProofs`, `EndpointHealthProofs`, `HashMapLogProofs` (of `ModifyLog`, and of the groups of `HashMap`), `HashMapProofs`, `ServerConnectionsProofs`, `CoroutinesProofs` | proofs |
| `MC...` | instances for TLC |

**LoopQueue.** `iBegin`, `iEnd` are `_iBegin`, `_iEnd`; `ppc` and `cpc` say where the producer and the
consumer are. `PushStart` is the full test, `PushCopy` the copy, `PushTest` the reading of `_iEnd` for
`bEmpty`, `PushPublish` the assignment of `_iBegin`, `PushHint` the size test after it; the pop side
likewise. The indices are plain `size_t` in the code, with no atomics or fences. The model takes each
access to be indivisible and the accesses of a thread to happen in program order; a compiler or a
processor that reorders them is not covered.

**SeqManager.** `next[i]`, `isFree[i]`, `free`, `freeTail` are the fields of the class; `order` is an
auxiliary copy of the list. `get` on an empty list aborts the process on its assert; the action is
then not enabled. With `MAX_CLIENT_NOTIFYEVENT_NUM` (2048) threads calling at once the next thread's first
call aborts: a limit of the code, not a property.

**NotifySlots.** Each member of `Threads` is one thread life. `Bind` is `initNotify`, which runs in the
calling thread; `PostQuit` and `ReturnNumber` are the two halves of `~ServantProxyThreadData`;
`HandleQuit`, `Wake`, `PopRequest`, `QueueDrained` and `CheckDestroy` are steps of the network
thread. `invoke` returns or throws on each request: an exception ends `handleNotify` (the last alternative of `PopRequest`)
before it signals the descriptor again and before it tests `autoDestroy`. `threw` is a history variable:
the last `handleNotify` of the descriptor ended so. `NetLags` says whether a number may come round again before the network thread has handled
the exit of its last holder.

**RpcClient.** A handler of the network thread is one action, except that the loops of
`prepareConnection` and `doInvoke` take one action per turn (`netpc`). `setting` is chosen once: the
kinds of the calls, serial or multiplexed connection, handshake or not, and how a send may fail.
`"error"` is a result of `send`, `"throw"` the exception of `TC_TCPTransceiver::send`, `"torn"` the same
after a part of the request was written. The variables of each class are grouped in the module. Time
is not counted: any queued request may be the next whose deadline passes, which includes every order
of deadlines the code can produce. The outcome of `finishInvoke(bool)` is that it may close the
connection; which failures do is the subject of `EndpointHealth`.

**EndpointHealth.** An adapter is `<<proxy, position>>` and its state a record with the members of
`AdapterProxy` that matter. Deadlines are the seconds left until them, down to the value where the
code's comparison no longer changes, so time needs no bound. `rootPrx`, `getRootServantProxy` and
`Told` are the proxies that serial connections create under a root and the way they are meant to tell
each other of a shielded endpoint. `idle` is auxiliary.

**ServerConnections.** `free`, `vConn`, `uid` and `cur` are `_free`, `_vConn`, a connection's place and
`_iCurConns`. The accept thread's steps are the limit test, `getUniqId`, `add`, the counter and
`registerEvent`; the network thread's are one per event, with `delConnection` split where it touches the
list and the counter, and `checkTimeout` holding the lock across its loop. `Sends` is what
`ServantHandle` queues for each kind of element: an answer, a close (a handler that throws), both, or
nothing, which for a two-way request happens only in a protocol other than TARS (`Tars = FALSE`). A connection is `"broken"`
after a `send` of `processPipe` threw: its socket is closed, but it is still in the list. `Conns` are numbered in the order
in which the clients are accepted. `owed`, `strays` and `notices` are history variables. Nothing keeps a
place from being given again while something queued names it, as in the code.

**Coroutines.** One step lasts until control is passed on, because everything runs in one thread.
`avail`, `active`, `queue`, `need` are `_avail`, `_active`, `_activeCoroQueue`, `_needActiveCoroId`;
`asleep` and `due` are `_timeoutCoroId` before and after the deadline. `pc` walks through the loop of
`run`. `asserted` records that an `assert(false)` of a move was reached. `Call` is `ServantProxy::invoke`
in a coroutine: the request is sent by the same thread, and one that fails at once is put before it waits.

**ModifyLog.** `status`, `index`, `data` are `_cModifyStatus`, `_iNowIndex`, `_stModifyData`. `LogCrash` is
possible in every state and loses only where the process was. `want` is a history variable.

**HashMap.** `mem` holds every word of the map by name, and a group of modifications is a sequence of
`<<field, index, value>>` that `Commit` applies, which is what `ModifyLog` justifies. An operation is a
sequence of stages (`todo`): the parts between two commits, and those that write without the log
(allocation, flags, copying). A `Crash` may come between any two stages. Data that was half copied
reads as an error or not (`torn`). Free units keep links to themselves, so nothing can rely on them. One
size of data block is modelled; `need` is how many chunks a value takes besides its block.

## 3. Runs

| run | instance | checks |
|---|---|---|
| `loop_queue` | two cells and the spare one, vectors of up to two values, two values | `FifoSpec` (refinement of `BoundedFifo`), `NoCellRace`, `HintSound`, `TypeOK` |
| `notify_slots` | three thread lives on two numbers, two requests each, symmetric threads | `NumberUnique`, `NumberKept`, `AssertsHold`, `SlotValid`, `NoLostWakeup`, `ExitServed` |
| `rpc_safety` | two threads, three calls, two connections, both connection modes, every send fault | `OneHolder`, `QueueConsistent`, `AnswerMatches`, `SerialInFlight`, `SendListServed`, `TypeOK` |
| `rpc_live` | one thread, three calls, one connection, both modes, sends that fail by result | `Owned`, `SyncReturns`, `AsyncEnds`; no deadlock |
| `health_one` | one endpoint, the whole accounting with the ratio, frequency and connection-error rules, reconnects | `ShieldedIsClosed`, `ErrorShields`, `TypeOK` |
| `health_two` | two endpoints, each failure shields | `PrefersConnected`, `RetrySpaced`, `Recovers` |
| `modify_log` | two cells, two values, a log of four, crashes anywhere | `AllOrNothing` (refinement of `AtomicWrite`), `Replayable`; no deadlock |
| `hash_map` | three units, three keys of one bucket, up to two chunks, four operations, one crash, eviction off, by Get and by Set | `Linked`, `UnitsOwned`, `CountsAgree`, `DirtyReached`, `BackupComes`, `LogFits` |
| `server` | three clients for two places, one handle thread, two requests, a queue of one | `AcceptSafe`, `ListAgrees`, `Answered` |
| `coroutines` | three coroutines made two at a time, one active coroutine per round | `ListsAgree`, `OneReason`, `TurnComes`, `AnswerWakes`; no deadlock |
| `rpc_send_throws` | as `rpc_live`, a send may throw | `SyncReturns` is violated |
| `server_reuse` | as `server` | `RightClient` is violated |

**Bounds and why they are enough.** Two cells let the ring's indices wrap at different times, and two
values make loss, repetition and reordering visible. Two numbers for three lives make a number come
round while another is held; `SlotValid` and `NoLostWakeup` relate one thread to one slot. Three calls
let one be on the wire, one in the send buffer or unsent and one parked, which are the places a message
can be in; two connections let a request or response of the first meet the second; a ring, an unsent
list and a callback queue of one or two elements make each limit reachable. `rpc_live` uses one thread
and one connection, because a call's progress depends only on the shared network thread and
on deadlines; a lost connection that is never replaced is part of it. `MaxTotal` is larger than
`minTimeoutInvoke` and `frequenceFailInvoke` in `health_one`, so each rule can shield; `health_two`
reduces the accounting to "each failure shields" to afford two endpoints. `MaxDials`, `MaxRequests`,
`MaxTotal`, `MaxInflight`, `MaxOps` and `MaxCrashes` appear in guards or caps of the modules and are only bounds.
Two cells and a log of three usable entries let one cell be written twice in a group, which is where a
replay could go wrong. In the map three units make one bucket with a first, a middle and a last block, or
one block with two chunks and nothing left, so that every allocation can fail and evict; four operations
are enough to build such a state and change it once more, before or after the crash. (With five
operations and at most one chunk the properties hold as well, in 2.4 million states; the run keeps to what
a few minutes allow.) One bucket
makes all keys collide. Two places for three clients make the limit, the refusal and the reuse of a place
happen; a receive queue of one can be below, at and beyond its capacity. Three coroutines of a pool that
starts with two make the pool grow, and a batch of one active coroutine makes the other active ones
wait over a round.
`rpc_safety` and `rpc_send_throws` do not check deadlock: with a throwing send a call may
fall out of every queue and the client then really stops. Neither do `hash_map`, `server` and
`server_reuse`, whose operations and clients are bounded and may be used up.

**Fairness.** `RpcClient`: the caller goes on after its push, the network thread continues its loops
and the callback thread runs (weak fairness: threads of a running process). The network thread comes
to a notified ring and to a passed deadline however many other events it handles (strong fairness),
because one `epoll_wait` returns all ready descriptors and the timers run between two of them. Nothing is assumed of the registry, the network, the server
or of callers making calls. `ServerConnections`: threads go on with what they began and take what is
queued, and a connection with unsent data becomes writable or fails (weak fairness; an idle peer is
closed by `checkTimeout`). `Coroutines`: the thread runs, a coroutine gives up control at last, and
deadlines pass (weak fairness); nothing is assumed of answers. `EndpointHealth`: time passes, calls keep coming
(weak fairness), and a connection that is dialled again and again is at last accepted (strong fairness
of `Connected`); the last is an assumption on the server, without which recovery cannot be asked for.

## 4. What the runs show

The properties above hold. In particular a response is always given to the call it answers, in both
connection modes, across timeouts, reconnects and late responses, as long as request ids are generated
(`RpcId` is 0): ids given to `rpc_call` share the id map with generated ones and may meet them.

A crash at any write leaves the modification log of a map in a state from which the next process
finishes or forgets the whole group, and the map built on it keeps its lists, cursors and owners
consistent through crashes in the middle of any operation; what a crash may cost is lost units and the
counters of dirty and key-only blocks. The server's list, its counter and its
close notices agree in every interleaving of accept, close and timeout, and an answer that goes to another client than
the asker goes to one that was given the asker's place. A coroutine has exactly one
wake-up to come for each wait.

Two runs show a disagreement of the code with its comments or documentation; `PROJECT.json` quotes
the lines.

1. *A send that throws loses the call* (`rpc_send_throws`). `TC_TCPTransceiver::send` reports a hard
   error by an exception, which leaves `AdapterProxy::invoke` before the request is in the timeout
   queue. The synchronous caller waits for ever.
2. *A uid is not unique* (`server_reuse`). It is the number of a place and a magic fixed when the list is
   made. An answer queued for a connection that closed meanwhile goes to the client that was given its
   place. The free places are first-in first-out, so this takes a small or full list. A close queued for the old
   connection closes the new one in the same way, even while the accept thread is still entering it
   (the third part of `AcceptSafe`); the list and the counter survive that.

Seen in the code while modelling, without a run of their own:

- *Torn requests.* The unsent list and the transceiver share one `Buffer` (`AdapterProxy.cpp:549`); after a
  partial write and an exception the remaining bytes are sent on the next connection, although
  `tc_transceiver.h:60` says that what was not sent can go over another connection. `RpcClient` has
  the case (`"torn"`).
- *An exception ends the drain.* An exception of `invoke` leaves the loop of `handleNotify`
  (`CommunicatorEpoll.cpp:567`, caught at 584) with the rest of the ring unserved and the descriptor not armed. The
  rest waits for the next call of the same thread; when the thread has exited and its exit is handled, nothing
  signals the descriptor again, and its requests and the descriptor stay until the process ends. `NoLostWakeup` and
  `ExitServed` say that this is the only way.
- *A broken connection stays listed.* When the system call of a send fails, `TC_Transceiver` closes the socket and throws
  (`THROW_ERROR`, `tc_transceiver.cpp:31` and 1040); `processPipe` (`tc_epoll_server.cpp:1770`) does not catch it, and it ends
  in `TC_Epoller::done` (`tc_epoller.cpp:644`). `delConnection` is not called: the connection keeps its place and counts
  against the limit, and `doClose` is not told, until `checkTimeout` finds it or another element names it. The client sees
  the close, so `Answered` counts it as one. The elements behind it wait for the next turn of the loop.
- *Requests of other protocols may go unanswered.* `handleNoTarsProtocol` swallows an exception of the servant, and
  `handleTimeout` and `handleOverload` answer only TARS (`ServantHandle.cpp:355`, 375, 701): such a request is neither
  answered nor its connection closed. `Answered` is checked, and is only true, for `Tars = TRUE`.
- *Reconnect is inverted.* `doReconnect` (`CommunicatorEpoll.cpp:537`) drops the adapters that still ask to
  be reconnected and dials those whose reconnect was called off; the comment above the test says the
  opposite. The action `DoReconnect` follows the code.
- *Siblings are not told.* `ServantProxy::onSetInactive` returns at once when called on a root, and it is
  only ever called on a root, although `AdapterProxy.cpp:777` means to tell all servants under it.
- *Yielding starves the epoller.* `run` asks the epoller only when no coroutine is runnable
  (`tc_coroutine.cpp:501`). Two coroutines that keep yielding keep it away for ever, and with it answers,
  timeouts of calls and posted callbacks. `AnswerWakes` therefore has the premise that the loop keeps coming to the
  epoller; TLC refutes it without. Deadlines of `sleep` do not depend on it.
- *Eviction that is not counted.* `eraseExcept` counts only evicted blocks that can be read and have a value. If
  it evicts only bare keys or unreadable blocks it reports nothing, and `set` returns
  `RT_NO_MEMORY` although memory was just freed and eviction is on (`jmem_hashmap.h:80` promises that error
  without eviction).
- *Dropped counts.* `get` that misses, or finds the first block of the Get list, returns without
  `doUpdate(true)`; the counts of gets and hits it recorded are dropped by the next operation.
- *An erased iterator is incremented* by the loop over empty connections in `ConnectionList::checkTimeout`
  (`tc_epoll_server.cpp:1261`), undefined behaviour in one sequential loop.
- *A deque without a lock.* `tc_coroutine.h:646` says other threads use `_activeCoroQueue`, which `put`
  changes without one.

What the code does not promise, found while modelling and worth knowing:

- An asynchronous call for which no adapter was chosen is deleted without its callback
  (`ObjectProxy::doInvokeException`; in the model `fate = "silent"`).
- With an SSL endpoint the connect callback, and so `prepareConnection`, runs when the handshake has only
  begun (`TC_Transceiver::onSetConnected`); the requests it moves are queued as unsent.
- The ratio rule of `finishInvoke(bool)` judges the first call after the interval together with all
  failures counted before it, however old.
- An endpoint shielded because `connect` threw has no retry time and is tried again by the next call:
  `RetrySpaced` holds for `ConnectThrows = FALSE` and fails for `TRUE`.
- For TCP the branch of `finishInvoke(bool)` that lifts the shield is unreachable (`ShieldedIsClosed`):
  only a new connection lifts it, and it keeps the consecutive-failure count, so that one more failure
  shields the endpoint again.
- A thread number is returned when its slot's release is posted, not when it is handled. If
  all other numbers are used in between, the late release takes the slot of the new holder: with
  `NetLags = TRUE` `SlotValid` fails. The list is first-in first-out over 2048 numbers.

## 5. Proofs

TLAPS proves the following for every value of the constants that satisfies the named `ASSUME`s of the
modules. The last column is what a theorem assumes beyond them.

| theorem | statement | beyond the assumptions on the constants |
|---|---|---|
| `LoopQueueProofs!Refinement` | `Spec => FifoSpec` | |
| `LoopQueueProofs!CellRaceFree`, `HintIsSound`, `TypeCorrect` | `[]NoCellRace`, `[]HintSound`, `[]TypeOK` | |
| `NotifySlotsProofs!SeqInvariant` | `SeqSpec => []SeqInv` | |
| `NotifySlotsProofs!UniqueNumbers`, `NoAssertFails`, `NoNumberLost` | `[]NumberUnique`, `[]AssertsHold`, `[]NumberKept` | |
| `NotifySlotsProofs!UsesNumbers` | `Spec => SeqSpec` | |
| `NotifySlotsProofs!SlotsValid`, `WakeupsKept`, `ExitsServed` | `[]SlotValid`, `[]NoLostWakeup`, `[]ExitServed` | `~NetLags` |
| `RpcClientProofs!ClientTyped`, `MessagesHeldOnce`, `QueuesConsistent`, `SerialCarriesOne`, `UnsentServed` | `[]TypeOK`, `[]OneHolder`, `[]QueueConsistent`, `[]SerialInFlight`, `[]SendListServed` | |
| `RpcClientProofs!NoCallForgotten` | `[]Owned` | sends fail by their result only |
| `RpcClientProofs!AnswersMatch` | `[]AnswerMatches` | serial connections, or generated ids only |
| `EndpointHealthProofs!HealthTyped` | `[]TypeOK` | |
| `EndpointHealthProofs!HealthInvariant`, `Shielding`, `ErrorsShield` | `[]HealthInv`, `[]ShieldedIsClosed`, `[]ErrorShields` | `Udp = FALSE` |
| `EndpointHealthProofs!CallsPreferConnected` | `Spec => PrefersConnected` | `Udp = FALSE` |
| `EndpointHealthProofs!RetriesSpaced` | `Spec => RetrySpaced` | `Udp`, `ConnectThrows`, `AutoReconnect` all `FALSE` |
| `HashMapLogProofs!LogTyped`, `ReplaySafe` | `[]LogTypeOK`, `[]Replayable` | |
| `HashMapLogProofs!LogIsAtomic` | `LogSpec => AllOrNothing` | |
| `HashMapProofs!LinkedHolds`, `BackupComesHolds`, `LogFitsHolds`, `UnitsOwnedHolds`, `CountsAgreeHolds`, `DirtyReachedHolds` | `[]Linked`, `[]BackupComes`, `[]LogFits`, `[]UnitsOwned`, `[]CountsAgree`, `[]DirtyReached` | |
| `ServerConnectionsProofs!AcceptNeverFails`, `ListStaysConsistent`, `StraysShareAPlace` | `[]AcceptSafe`, `[]ListAgrees`, `[]StraysExplained` | |
| `CoroutinesProofs!CoroutinesListed`, `WokenOnce` | `[]ListsAgree`, `[]OneReason` | |

Each of these conditions marks where the code stops keeping the promise, and each is met by a setting
that a run checks. With `NetLags` a late release takes the slot of the next holder of a number; a `send`
that throws loses its call (run `rpc_send_throws`); an id that `rpc_call` brings along may meet a generated
one on a shared connection; an endpoint shielded because `connect` threw has no retry time, and the reconnect timer
dials whatever the shield says. A UDP socket counts as connected at once.

*The ring.* The inductive invariant `IInv` says that a push that passed the full test has room for all
it still stores (the consumer can only make more), that the cell about to be published holds the
value being pushed, that a pop that found a value still finds it, and what a sleeping consumer may have
missed. None of the checked properties is inductive alone: that the indices differ while the consumer
copies needs the count, and the count needs the room. Four lemmas about the index arithmetic carry
the case distinctions of wrapped and unwrapped indices.

*The numbers.* `SeqInv` says that `order` is exactly what following `next` from `free` to `freeTail`
meets, without repetition, and that a number is on it if and only if it is marked free. Uniqueness needs it because `get`
trusts the link of the head, and a link is only right because of the whole chain.

*The slots.* `SlotInv` adds to `SeqInv` the life of a descriptor: bound to the slot of its owner's number,
left there by an owner that exited while the exit is posted, then out of the table and signalled or served
until its queue is empty, or left by an exception of `invoke`, which `threw` remembers. That a caller's slot is its own needs the uniqueness of numbers, and that an
exit releases the right descriptor needs that it is posted once and before the number comes round. `UsesNumbers` is
the refinement that lets the theorems about `SeqManager` be used here.

*A call.* `RpcInv` is proved without conditions. Its part `Messages` says where a message is by its
state: a queue holds only unfinished ones, each is in one place, and, unless a send throws, a call that was
made and is not finished is in some place (`Kept`). `SerialBusy` ties `_requestMsg` to what is in the send
buffer and on the wire; serial requests have increasing ids, so a response cannot be taken for that of a
later request. `Owned` needs `Awake` besides: a ring with requests has its notification pending, or its
caller is about to give it. `AnswerMatches` needs `Ids`: on a shared connection everything outstanding, in the send
buffer or on the wire has an id, and no two calls were given the same one.

*The endpoints.* `HealthInv` is local to one adapter: connected implies not shielded, a remembered
connection error implies shielded. Each operator on adapter records has a lemma that it preserves this,
and the steps of the network thread combine them. The error part is needed to show that lifting the
shield also forgets the error, and the theorems need TCP because a UDP socket counts as connected at
once, whatever the shield. The other three theorems rest on a relation `Move(r, s)` that lists all a step of
any actor may do to one adapter; `Moves` shows that each action is a `Move` of every adapter. `Sound`, the
bounds of counters and deadlines, is preserved by `Move`. `PrefersConnected` needs that a round of
`getNextValidProxy` looks at every adapter once, wherever it starts (`RoundComplete`, by arithmetic modulo the number of
adapters), and that nothing but a selection or a ping begins a call or a connection (`Quiet`). `RetrySpaced` needs `Rested`: the
time since an adapter was shielded or tried and the time until its next try add up to the interval.

*The log.* `Replayable` together with the types is inductive, and each of its three parts needs the
others: a cell that differs from what was asked for has an entry still to be copied (`Covered`), the
last entry of a cell has the right value (`LastWins`), and the status fits the place of the process
(`StatusAgrees`). A replay that starts again copies an old entry over a newer one for a while; `Covered`
survives because the newer entry is then ahead of the cursor. The refinement maps the abstract store to `want`
while the status is 2 and to `mem` otherwise, so that the group happens when the status is written, and
needs `Covered` at the end of the replay, to see that nothing is left.

*The map.* None of the six invariants is inductive, and two invariants carry them. `Base` is kept by every
step, the death of the process included:

- what is left of an operation is a `Script`: only certain stages follow others, and the copying of a value
  is followed by a commit;
- the log holds statistics only, or a whole group whose commit comes next (`LogOK`, which bounds its length);
- the memory as it is, and the memory once the log is written (`After`), both have their `Shape`: the Set list and
  the Get list are doubly linked and have the same blocks, the chain of a bucket has the blocks of its index, the
  chunks of the blocks are disjoint chains, no key is in two blocks, the cursors stand on blocks. `After` is needed
  because a group is computed from the memory before it is committed, the memory itself because the process
  may die in between;
- no unit is in two hands (`Apart`: blocks, allocator, the chunks being gathered, the units being released), and the
  block, key and bucket that the stages ahead work on are there (`Placed`);
- what a backup still owes is at or before its cursor in the Get list, in both memories (`Comes`).

`Linked`, `BackupComes` and `LogFits` follow from `Base`, and so do the parts of `UnitsOwned` and
`CountsAgree` that hold after a crash. The rest needs `Ledger`, which is claimed only while no process has died in an operation: each
unit is in some hand (`Held`), the counts of dirty blocks and bare keys are right (`Tallied`), each dirty block is
found from the end of the dirty chain (`Reached`) and each block can be read (`Whole`), which matters because a
sync or an eviction treats an unreadable block differently. Within an operation the last two fail for
the block being worked on, and which one that is follows from the stages ahead (`Behind`, `Torso`); `Synching` says where
the dirty chain ends while a sync puts a block back.

The proof has three layers. Lemmas about lists say what putting, taking and moving a unit does to a doubly
linked list and to what lies before a cursor; `PathIs` ties the walks of the model to them. Lemmas about groups
say which word of the memory each group of log entries changes (`EraseEffect`, `LinkEffect` and the like), so that
`EraseShape`, `LinkShape`, `MovedSetShape`, `CutShape` and `LongerShape` give the shape after the commit. Both
are in `HashMapLogProofs`. Last, in `HashMapProofs`, there is one lemma per action for `Base` and one for
`Ledger`. TLC checked the parts of `Base` and `Ledger` on the instance of the run, with three operations,
before they were proved.

*The server's list.* `ListInv` follows a connection through the four steps of an accept and the two of a
close: which place it has, that the place is not free in between (`FreeKept`), and by how much the
counter lags or leads the list (`Counts`). The accept thread tests the limit without the lock, so that
`getUniqId` finds a place follows only from the counter, which is never below the places taken at that moment.
`Tied` says that whatever is queued names the place its connection was given, so that what the network thread finds there is that
connection or, if it was closed, a later one; a later one that is still being entered may be deleted, and
`Entering` says what the accept thread then finds. `StraysShareAPlace` needs besides that a connection keeps its place once
it was registered. `ListAgrees` also says that no debt is negative, which needs `Debts`: requests queued, requests
being handled and answers queued, counted together, never exceed what is owed.

*The coroutines.* `CoroInv` joins the lists with the wake-ups. That no assert of `moveToActive` fails is a
fact about wake-ups (whoever is queued waits, and is queued once), and that a coroutine which gives up control
leaves no second wake-up behind is a fact about the lists (whoever runs is runnable, so nothing that is
queued names it). `WakeUps` is only claimed until `terminate`: `put` then drops what it is given.

Only model-checked: everything about liveness and fairness (`SyncReturns`, `AsyncEnds`, `Recovers`, `Answered`,
`TurnComes`, `AnswerWakes`), which is out of the prover's reach. Every invariant that a passing run checks is
proved as well, under the conditions of the table.

## 6. Not modelled

Within the modelled parts of the client: the memory model; connections that are established at once by
`connect`; several endpoints in `RpcClient` and the interplay of its queues with `EndpointHealth`; hash,
weight and set choices; server push; the private network threads of coroutines; termination of the
communicator; UDP in `RpcClient`; the collision of two reconnect times in one millisecond.

Of the server: UDP, several adapters and network threads, the modes in which the network thread or
coroutines run the handlers, flow control, closing all connections of an adapter and shutdown,
asynchronous responses and push.

Of the scheduler: the context switch, coroutine queues and when-all, wake-ups from other threads.

Of the map: several block sizes, `append`, `clear`, dump and load, iterators of the user.

Byte contents are abstracted everywhere. The remaining parts of section 1 are listed in `PROJECT.json`
with the reason. Most of the repository's lines are outside the models: generated code and grammars,
the Windows epoll, the codec, MySQL, HTTP and text helpers, which have no state or concurrency a model
checker would add to, and the multi-key and tree containers, which repeat the map's scheme.

## 7. Plan

In this order; the abstract specification or the theorem worth having is in parentheses.

1. `ServantDispatch`: `ServantHandle`, `Current`, asynchronous response (at most one response per
   request), composed with `ServerConnections`.
2. `TimeoutQueue`: `TC_TimeoutQueueNew` with 32-bit ids (the id map, time list and unsent list agree, as
   a theorem; `RpcClient`'s set and sequence as its abstraction).
3. `Termination`: `Communicator::terminate`, `handleTerminate`, `ReqMonitor` at the level of its mutex.
4. `EndpointLists`: `QueryEpBase` refresh, failure and cache; several endpoints in the client.
5. `ThreadQueue`, `Promise`: waiting and watchers against an abstract queue and an abstract future.
