--------------------------- MODULE EndpointHealth ---------------------------
(***************************************************************************)
(* Which endpoint a call goes to.  Each ObjectProxy keeps one AdapterProxy *)
(* per endpoint; the adapter counts the calls that fail and shields itself *)
(* (_activeStatus), EndpointManager::getNextValidProxy goes round the      *)
(* adapters, and a shielded one is tried again from time to time.          *)
(*                                                                         *)
(* An adapter is <<proxy, position>>.  A time_t deadline d is kept as the  *)
(* seconds left, d - now, down to the value from which on the code's test  *)
(* no longer changes.                                                      *)
(***************************************************************************)
EXTENDS Integers

CONSTANTS
    Proxies, Root,          \* a ServantProxy and the _servantList made by its serial connections
    Nodes,                  \* number of endpoints
    Udp,                    \* the endpoints are UDP
    ConnectThrows,          \* whether TC_Transceiver::connect may throw
    AutoReconnect,          \* whether tars_reconnect was called with a positive time
    minTimeoutInvoke, checkTimeoutInterval, frequenceFailInvoke,  \* CheckTimeoutInfo
    minFrequenceFailTime, tryTimeInterval, maxConnectExc,
    RadioNum, RadioDen,     \* radio, as a fraction
    MaxTotal,               \* bound on _totalInvoke
    MaxInflight,            \* calls of an adapter that are told apart
    NoProxy

ASSUME HealthAssumption ==
    /\ Root \in Proxies /\ NoProxy \notin Proxies /\ Nodes \in Nat \ {0}
    /\ Udp \in BOOLEAN /\ ConnectThrows \in BOOLEAN /\ AutoReconnect \in BOOLEAN
    /\ minTimeoutInvoke \in Nat /\ checkTimeoutInterval \in Nat /\ tryTimeInterval \in Nat
    /\ frequenceFailInvoke \in Nat \ {0} /\ minFrequenceFailTime \in Nat
    /\ maxConnectExc \in Nat \ {0} /\ RadioNum \in Nat /\ RadioDen \in Nat \ {0}
    /\ MaxTotal \in Nat /\ MaxInflight \in Nat

VARIABLES
    ad,       \* ad[a]: the adapter a
    last,     \* last[p]: _lastRoundPosition of p's EndpointManager
    auto      \* whether _reConnectSecond is positive
vars == <<ad, last, auto>>

Positions == 0..(Nodes - 1)
Adapters == Proxies \X Positions

Fresh == [active |-> TRUE, conn |-> "closed", connTimeout |-> FALSE,
          connExc |-> FALSE, connExcCnt |-> 0, redial |-> FALSE,
          total |-> 0, timeouts |-> 0, finishIn |-> -1,
          freq |-> 0, freqIn |-> 0, retryIn |-> 0, inflight |-> 0,
          idle |-> tryTimeInterval]   \* auxiliary: seconds since it was shielded or tried

Init ==
    /\ ad = [a \in Adapters |-> Fresh]
    /\ last = [p \in Proxies |-> 0]
    /\ auto = AutoReconnect

Least(x, y) == IF x < y THEN x ELSE y
Most(x, y) == IF x > y THEN x ELSE y

-----------------------------------------------------------------------------
(* One adapter: operators from its record before to its record after. *)

\* tcpClose and onCloseCallback; nothing happens to a closed transceiver.
Closed(r) ==
    IF r.conn = "closed" THEN r
    ELSE [r EXCEPT !.conn = "closed", !.redial = @ \/ (auto /\ ~Udp)]

\* Mutant: a shielded endpoint keeps its connection.
OnSetInactiveKeepsConn(r) ==
    [r EXCEPT !.active = FALSE, !.retryIn = tryTimeInterval, !.idle = 0]

OnSetInactive(r) ==
    [Closed(r) EXCEPT !.active = FALSE, !.retryIn = tryTimeInterval, !.idle = 0]

Connect(r) ==
    IF r.conn # "closed" THEN r
    ELSE [r EXCEPT !.conn = IF Udp THEN "connected" ELSE "connecting",
                   !.connTimeout = @ /\ Udp,
                   !.idle = IF r.active THEN @ ELSE 0]

\* Mutant: the deadline of a shielded endpoint is not looked at.
DueAlways(r, connecting) == connecting \/ r.active \/ TRUE

\* Whether checkActive goes on to the connection.
Due(r, connecting) == connecting \/ r.active \/ r.retryIn = 0

\* checkActive; throws says whether connect throws, if it is called.
CheckActive(r, connecting, throws) ==
    LET tried == IF r.active THEN r ELSE [r EXCEPT !.retryIn = tryTimeInterval, !.idle = 0]
    IN  IF ~Due(r, connecting) THEN r
        ELSE IF r.conn = "closed" /\ throws
        THEN [tried EXCEPT !.active = FALSE, !.connTimeout = @ /\ Udp, !.idle = 0,
                           !.redial = @ \/ (auto /\ ~Udp)]
        ELSE Connect(tried)

\* The result of checkActive(false).
Usable(r, throws) ==
    /\ Due(r, FALSE)
    /\ r.conn = "connected" \/ (Udp /\ r.conn = "closed" /\ ~throws)

\* addConnExc(true), after the exception closed the transceiver.
ConnFailed(r) ==
    LET n == Least(r.connExcCnt + 1, maxConnectExc)
    IN  IF r.connExc THEN Closed(r)
        ELSE IF n < maxConnectExc THEN [Closed(r) EXCEPT !.connExcCnt = n]
        ELSE [OnSetInactive(Closed(r)) EXCEPT !.connExcCnt = n, !.connExc = TRUE]

\* Mutant: a connection that came back is still taken for failed.
ConnMadeKeepsExc(r) ==
    [r EXCEPT !.conn = "connected", !.connExcCnt = 0, !.active = TRUE]

\* setConnected and addConnExc(false).
ConnMade(r) ==
    [r EXCEPT !.conn = "connected", !.connExc = FALSE, !.connExcCnt = 0, !.active = TRUE]

\* Mutant: only the calls that succeed are added to the total.
CountedSuccesses(r, bFail) ==
    [r EXCEPT !.total = IF bFail THEN @ ELSE @ + 1,
              !.timeouts = IF bFail THEN @ + 1 ELSE @,
              !.freqIn = IF bFail /\ r.freq = 0 THEN minFrequenceFailTime ELSE @,
              !.freq = IF bFail THEN Least(@ + 1, frequenceFailInvoke) ELSE 0]

Counted(r, bFail) ==
    [r EXCEPT !.total = @ + 1,
              !.timeouts = IF bFail THEN @ + 1 ELSE @,
              !.freqIn = IF bFail /\ r.freq = 0 THEN minFrequenceFailTime ELSE @,
              !.freq = IF bFail THEN Least(@ + 1, frequenceFailInvoke) ELSE 0]

\* Too many failures one after the other, over at least minFrequenceFailTime.
FrequentFail(r) ==
    r.freq >= frequenceFailInvoke /\ (r.freqIn = 0 \/ frequenceFailInvoke = 1)

RatioFail(r) ==
    r.timeouts >= minTimeoutInvoke /\ r.timeouts * RadioDen >= RadioNum * r.total

\* finishInvoke(bool).
FinishInvoke(r, bFail) ==
    LET c == Counted(r, bFail)
        w == [c EXCEPT !.finishIn = checkTimeoutInterval]
    IN  CASE ~r.active /\ bFail -> r
          [] ~r.active /\ ~bFail ->
               [r EXCEPT !.active = TRUE, !.freq = 0, !.finishIn = checkTimeoutInterval,
                         !.total = 1, !.timeouts = 0, !.connTimeout = FALSE, !.connExc = FALSE]
          [] r.active /\ bFail /\ FrequentFail(c) -> OnSetInactive(c)
          [] r.active /\ ~(bFail /\ FrequentFail(c)) /\ r.finishIn >= 0 -> c
          [] OTHER -> IF bFail /\ RatioFail(w)
                      THEN OnSetInactive(w)
                      ELSE [w EXCEPT !.total = 0, !.timeouts = 0]

Older(r) ==
    [r EXCEPT !.finishIn = Most(@ - 1, -1), !.freqIn = Most(@ - 1, 0), !.retryIn = Most(@ - 1, 0),
              !.idle = Least(@ + 1, tryTimeInterval)]

-----------------------------------------------------------------------------
(* The proxies of one root, and who is told of a shielded endpoint. *)

\* _rootPrx, as getServantPrx sets it.
rootPrx == [p \in Proxies |-> IF p = Root THEN NoProxy ELSE Root]

getRootServantProxy(p) == IF rootPrx[p] # NoProxy THEN rootPrx[p] ELSE p

\* ServantProxy::onSetInactive, called on the root.
Told(a) ==
    IF rootPrx[getRootServantProxy(a[1])] = NoProxy THEN {}
    ELSE {<<p, a[2]>> : p \in Proxies}

\* The adapter a becomes r; if r is newly shielded, setInactive tells the others.
Become(a, r) ==
    ad' = [b \in Adapters |->
             CASE b = a -> r
               [] b # a /\ b \in Told(a) /\ ad[a].active /\ ~r.active -> OnSetInactive(ad[b])
               [] OTHER -> ad[b]]

-----------------------------------------------------------------------------
(* Steps of the network thread. *)

\* A connect that throws, where the build allows it.
Throws == IF ConnectThrows THEN SUBSET Adapters ELSE {{}}

Assigned(r) == [r EXCEPT !.inflight = Least(@ + 1, MaxInflight)]

\* Mutant: every round starts at the same place.
VisitFixed(p, i) == <<p, i - 1>>

\* The i-th adapter of the round.
Visit(p, i) == <<p, (last[p] + i) % Nodes>>

\* Mutant: the first adapter is taken, usable or not.
FirstUsableAny(p, bad) == 1

\* The place in the round of the first usable adapter, 0 when there is none.
FirstUsable(p, bad) ==
    LET ok == {i \in 1..Nodes : Usable(ad[Visit(p, i)], Visit(p, i) \in bad)}
    IN  IF ok = {} THEN 0 ELSE CHOOSE i \in ok : \A j \in ok : i <= j

\* getNextValidProxy finds a usable adapter, after asking those before it.
SelectUsable(p) ==
    \E bad \in Throws :
        LET k == FirstUsable(p, bad)
            asked == {Visit(p, i) : i \in 1..k}
        IN  /\ k > 0
            /\ ad' = [a \in Adapters |->
                        LET r == IF a \in asked THEN CheckActive(ad[a], FALSE, a \in bad) ELSE ad[a]
                        IN  IF a = Visit(p, k) THEN Assigned(r) ELSE r]
            /\ last' = [last EXCEPT ![p] = Visit(p, k)[2]]
            /\ UNCHANGED auto

\* getNextValidProxy finds none: a random adapter, if possible one without a
\* connection error, is connected by force.
SelectAny(p) ==
    \E bad \in Throws, pos \in Positions :
        LET asked == [a \in Adapters |->
                        IF a[1] = p THEN CheckActive(ad[a], FALSE, a \in bad) ELSE ad[a]]
            conn == {i \in Positions : ~asked[<<p, i>>].connTimeout /\ ~asked[<<p, i>>].connExc}
            again == IF conn # {} THEN asked[<<p, pos>>] ELSE [asked[<<p, pos>>] EXCEPT !.retryIn = 0]
        IN  /\ FirstUsable(p, bad) = 0
            /\ conn # {} => pos \in conn
            /\ ad' = [asked EXCEPT ![<<p, pos>>] = Assigned(CheckActive(again, TRUE, <<p, pos>> \in bad))]
            /\ UNCHANGED <<last, auto>>

\* A call of a ends: with an answer, or with an error answer or its timeout.
Finish(a, bFail) ==
    /\ ad[a].inflight > 0 /\ ad[a].total < MaxTotal
    /\ ~bFail => ad[a].conn = "connected"
    /\ Become(a, FinishInvoke([ad[a] EXCEPT !.inflight = @ - 1], bFail))
    /\ UNCHANGED <<last, auto>>

\* checkConnect succeeds.
Connected(a) ==
    /\ ad[a].conn = "connecting"
    /\ Become(a, ConnMade(ad[a]))
    /\ UNCHANGED <<last, auto>>

\* checkConnectTimeout.
ConnectTimeout(a) ==
    /\ ad[a].conn = "connecting"
    /\ Become(a, [Closed(ad[a]) EXCEPT !.connTimeout = TRUE])
    /\ UNCHANGED <<last, auto>>

\* An exception of doRequest or doResponse: refused, reset, closed by the peer.
ConnError(a) ==
    /\ ad[a].conn # "closed"
    /\ Become(a, ConnFailed(ad[a]))
    /\ UNCHANGED <<last, auto>>

\* handleCloseImp, on EPOLLERR, or a posted onClose.
CloseEvent(a) ==
    /\ ad[a].conn # "closed"
    /\ Become(a, Closed(ad[a]))
    /\ UNCHANGED <<last, auto>>

\* doKeepAlive; the ping is skipped while the last one is recent.
KeepAlive(a) ==
    \E bad \in Throws :
        LET r == CheckActive(ad[a], FALSE, a \in bad)
        IN  /\ \/ Usable(ad[a], a \in bad) /\ ad' = [ad EXCEPT ![a] = Assigned(r)]
               \/ ad' = [ad EXCEPT ![a] = r]
            /\ UNCHANGED <<last, auto>>

\* doReconnect, for an adapter whose time has come.
DoReconnect(a) ==
    /\ ad[a].redial
    /\ Become(a, IF auto THEN [ad[a] EXCEPT !.redial = FALSE]
                 ELSE Connect([ad[a] EXCEPT !.redial = FALSE]))
    /\ UNCHANGED <<last, auto>>

\* tars_close calls reconnecting off at once and posts the closing of the
\* connections, each of which is a CloseEvent; tars_reconnect asks for it again.
TarsClose == auto /\ auto' = FALSE /\ UNCHANGED <<ad, last>>
TarsReconnect == AutoReconnect /\ ~auto /\ auto' = TRUE /\ UNCHANGED <<ad, last>>

\* A second passes.
Tick ==
    /\ ad' = [a \in Adapters |-> Older(ad[a])]
    /\ UNCHANGED <<last, auto>>

Select(p) == SelectUsable(p) \/ SelectAny(p)

Next ==
    \/ \E p \in Proxies : Select(p)
    \/ \E a \in Adapters :
          \/ \E bFail \in BOOLEAN : Finish(a, bFail)
          \/ Connected(a) \/ ConnectTimeout(a) \/ ConnError(a) \/ CloseEvent(a)
          \/ KeepAlive(a) \/ DoReconnect(a)
    \/ TarsClose \/ TarsReconnect
    \/ Tick

Spec == Init /\ [][Next]_vars

\* Time passes, calls keep coming, and an endpoint that is dialled again and again
\* at last accepts.
Fairness ==
    /\ WF_vars(Tick)
    /\ \A p \in Proxies : WF_vars(Select(p))
    /\ \A a \in Adapters : SF_vars(Connected(a))

LiveSpec == Spec /\ Fairness

-----------------------------------------------------------------------------
AdapterType ==
    [active : BOOLEAN, conn : {"closed", "connecting", "connected"}, connTimeout : BOOLEAN,
     connExc : BOOLEAN, connExcCnt : Nat, redial : BOOLEAN,
     total : Nat, timeouts : Nat, finishIn : Int,
     freq : Nat, freqIn : Nat, retryIn : Nat, inflight : Nat,
     idle : Nat]

Shape ==
    /\ ad \in [Adapters -> AdapterType]
    /\ last \in [Proxies -> Positions] /\ auto \in BOOLEAN

\* The bounds make sense: no more failures than calls, no deadline further off than
\* the interval it was set for.
Bounds ==
    \A a \in Adapters :
       /\ ad[a].timeouts <= ad[a].total /\ ad[a].total <= MaxTotal
       /\ ad[a].finishIn \in -1..checkTimeoutInterval
       /\ ad[a].freqIn <= minFrequenceFailTime /\ ad[a].retryIn <= tryTimeInterval

TypeOK == Shape /\ Bounds

\* A shielded endpoint has no established connection, so no call is sent over one:
\* what getNextValidProxy relies on when it takes the first connected adapter.
ShieldedIsClosed == \A a \in Adapters : ad[a].conn = "connected" => ad[a].active

\* A connection error that is still remembered shields the endpoint.
ErrorShields == \A a \in Adapters : ad[a].connExc => ~ad[a].active

\* A call goes to an endpoint that is not connected only when none is.
PrefersConnected ==
    [][\A a \in Adapters : ad'[a].inflight > ad[a].inflight =>
          \/ ad[a].conn = "connected"
          \/ \A b \in Adapters : b[1] = a[1] => ad[b].conn # "connected"]_vars

\* While another endpoint serves the calls, a shielded one is tried at most once in
\* tryTimeInterval.
RetrySpaced ==
    [][\A a \in Adapters :
          ~ad[a].active /\ ad[a].conn = "closed" /\ ad'[a].conn = "connecting" =>
             \/ ad[a].idle >= tryTimeInterval
             \/ \A b \in Adapters : b[1] = a[1] => ad[b].conn # "connected"]_vars

\* A shielded endpoint is tried again and comes back.
Recovers == \A a \in Adapters : []<>(ad[a].active)
=============================================================================
