------------------------ MODULE EndpointHealthProofs ------------------------
(***************************************************************************)
(* For TCP endpoints, any number of them and of sibling proxies, and any   *)
(* settings: a shielded endpoint has no established connection, and a      *)
(* remembered connection error shields it.  The inductive invariant is     *)
(* local to an adapter, so each operator on adapter records gets a lemma,  *)
(* and the steps of the network thread only combine them.                  *)
(*                                                                         *)
(* Then, from one relation Move that covers whatever a step does to one    *)
(* adapter: the counters and deadlines stay in their bounds, calls go to   *)
(* connected endpoints first, and retries are spaced.                      *)
(***************************************************************************)
EXTENDS EndpointHealth, WellFoundedInduction, TLAPS

Fields == {"active", "conn", "connTimeout", "connExc", "connExcCnt", "redial",
           "total", "timeouts", "finishIn", "freq", "freqIn", "retryIn",
           "inflight", "idle"}

\* What every step of the code preserves of one adapter.
Good(r) ==
    /\ DOMAIN r = Fields
    /\ r.active \in BOOLEAN /\ r.connExc \in BOOLEAN
    /\ r.conn = "connected" => r.active = TRUE
    /\ r.connExc = TRUE => r.active = FALSE

HealthInv == DOMAIN ad = Adapters /\ \A a \in Adapters : Good(ad[a])

LEMMA ClosedGood ==
  ASSUME NEW r, Good(r)
  PROVE  Good(Closed(r)) /\ Closed(r).conn = "closed" /\ Closed(r).connExc = r.connExc
  BY DEF Good, Fields, Closed

LEMMA OnSetInactiveGood ==
  ASSUME NEW r, Good(r)
  PROVE  /\ Good(OnSetInactive(r))
         /\ OnSetInactive(r).conn = "closed" /\ OnSetInactive(r).active = FALSE
  BY ClosedGood DEF Good, Fields, OnSetInactive

LEMMA ConnectGood ==
  ASSUME NEW r, Good(r), Udp = FALSE
  PROVE  Good(Connect(r))
  BY DEF Good, Fields, Connect

\* checkActive never makes a connection by itself: connect only starts one.
LEMMA CheckActiveGood ==
  ASSUME NEW r, Good(r), Udp = FALSE, NEW connecting, NEW throws
  PROVE  Good(CheckActive(r, connecting, throws))
<1> DEFINE tried == IF r.active THEN r ELSE [r EXCEPT !.retryIn = tryTimeInterval, !.idle = 0]
<1>1. Good(tried) /\ tried.conn = r.conn
  BY DEF Good, Fields
<1>2. Good(Connect(tried))
  BY <1>1, ConnectGood
<1>3. r.conn = "closed" =>
        Good([tried EXCEPT !.active = FALSE, !.connTimeout = @ /\ Udp, !.idle = 0,
                           !.redial = @ \/ (auto /\ ~Udp)])
  <2> HIDE DEF tried
  <2> QED BY <1>1 DEF Good, Fields
<1> QED BY <1>2, <1>3 DEF CheckActive

LEMMA ConnFailedGood ==
  ASSUME NEW r, Good(r)
  PROVE  Good(ConnFailed(r))
<1> DEFINE n == Least(r.connExcCnt + 1, maxConnectExc)
<1> HIDE DEF n
<1>1. Good(Closed(r))
  BY ClosedGood
<1>2. Good([Closed(r) EXCEPT !.connExcCnt = n])
  BY <1>1 DEF Good, Fields
<1>3. /\ Good(OnSetInactive(Closed(r))) /\ OnSetInactive(Closed(r)).conn = "closed"
      /\ OnSetInactive(Closed(r)).active = FALSE
  BY <1>1, OnSetInactiveGood
<1>4. Good([OnSetInactive(Closed(r)) EXCEPT !.connExcCnt = n, !.connExc = TRUE])
  BY <1>3 DEF Good, Fields
<1> QED BY <1>1, <1>2, <1>4 DEF ConnFailed, n

LEMMA ConnMadeGood ==
  ASSUME NEW r, Good(r)
  PROVE  Good(ConnMade(r))
  BY DEF Good, Fields, ConnMade

LEMMA CountedGood ==
  ASSUME NEW r, Good(r), NEW bFail
  PROVE  Good(Counted(r, bFail))
  BY DEF Good, Fields, Counted

\* finishInvoke shields the adapter and closes it, or leaves both alone, or (a call
\* that succeeded) lifts the shield.
LEMMA FinishInvokeGood ==
  ASSUME NEW r, Good(r), NEW bFail \in BOOLEAN
  PROVE  Good(FinishInvoke(r, bFail))
<1> DEFINE c == Counted(r, bFail)
           w == [c EXCEPT !.finishIn = checkTimeoutInterval]
           up == [r EXCEPT !.active = TRUE, !.freq = 0, !.finishIn = checkTimeoutInterval,
                           !.total = 1, !.timeouts = 0, !.connTimeout = FALSE, !.connExc = FALSE]
           down == OnSetInactive(w)
           clear == [w EXCEPT !.total = 0, !.timeouts = 0]
<1>1. Good(c)
  BY CountedGood
<1>2. Good(w)
  <2> HIDE DEF c
  <2> QED BY <1>1 DEF Good, Fields
<1>3. Good(up)
  BY DEF Good, Fields
<1>4. Good(OnSetInactive(c))
  BY <1>1, OnSetInactiveGood
<1>5. Good(down)
  BY <1>2, OnSetInactiveGood
<1>6. Good(clear)
  <2> HIDE DEF w
  <2> QED BY <1>2 DEF Good, Fields
<1>7. FinishInvoke(r, bFail) \in {r, up, OnSetInactive(c), c, down, clear}
  <2>1. r.active \in BOOLEAN
    BY DEF Good
  <2> HIDE DEF c, w, up, down, clear
  <2> QED BY <2>1 DEF FinishInvoke, c, w, up, down, clear
<1> HIDE DEF c, w, up, down, clear
<1> QED BY <1>1, <1>3, <1>4, <1>5, <1>6, <1>7

LEMMA AssignedGood ==
  ASSUME NEW r, Good(r)
  PROVE  Good(Assigned(r))
  BY DEF Good, Fields, Assigned

LEMMA OlderGood ==
  ASSUME NEW r, Good(r)
  PROVE  Good(Older(r))
  BY DEF Good, Fields, Older

\* A step of one adapter, with whatever setInactive tells the others.
LEMMA BecomeInv ==
  ASSUME HealthInv, NEW a \in Adapters, NEW r, Good(r), Become(a, r)
  PROVE  HealthInv'
<1>1. DOMAIN ad' = Adapters
  BY DEF Become
<1>2. ASSUME NEW b \in Adapters PROVE Good(ad'[b])
  <2>1. Good(ad[b]) /\ Good(OnSetInactive(ad[b]))
    BY OnSetInactiveGood DEF HealthInv
  <2>2. ad'[b] \in {r, ad[b], OnSetInactive(ad[b])}
    BY DEF Become
  <2> QED BY <2>1, <2>2
<1> QED BY <1>1, <1>2 DEF HealthInv, Good

LEMMA SelectUsableInv ==
  ASSUME HealthInv, Udp = FALSE, NEW p \in Proxies, SelectUsable(p)
  PROVE  HealthInv'
<1>1. PICK bad \in Throws :
        LET k == FirstUsable(p, bad)
            asked == {Visit(p, i) : i \in 1..k}
        IN  ad' = [a \in Adapters |->
                     LET r == IF a \in asked THEN CheckActive(ad[a], FALSE, a \in bad) ELSE ad[a]
                     IN  IF a = Visit(p, k) THEN Assigned(r) ELSE r]
  BY DEF SelectUsable
<1>2. DOMAIN ad' = Adapters
  BY <1>1
<1>3. ASSUME NEW a \in Adapters PROVE Good(ad'[a])
  <2> DEFINE c == CheckActive(ad[a], FALSE, a \in bad)
  <2>1. Good(ad[a]) /\ Good(c)
    BY CheckActiveGood DEF HealthInv
  <2>2. Good(Assigned(ad[a])) /\ Good(Assigned(c))
    BY <2>1, AssignedGood
  <2>3. ad'[a] \in {ad[a], c, Assigned(ad[a]), Assigned(c)}
    BY <1>1
  <2> QED BY <2>1, <2>2, <2>3
<1> QED BY <1>2, <1>3 DEF HealthInv, Good

LEMMA SelectAnyInv ==
  ASSUME HealthInv, Udp = FALSE, NEW p \in Proxies, SelectAny(p)
  PROVE  HealthInv'
<1>1. PICK bad \in Throws, pos \in Positions :
        LET asked == [a \in Adapters |->
                        IF a[1] = p THEN CheckActive(ad[a], FALSE, a \in bad) ELSE ad[a]]
            conn == {i \in Positions : ~asked[<<p, i>>].connTimeout /\ ~asked[<<p, i>>].connExc}
            again == IF conn # {} THEN asked[<<p, pos>>] ELSE [asked[<<p, pos>>] EXCEPT !.retryIn = 0]
        IN  ad' = [asked EXCEPT ![<<p, pos>>] = Assigned(CheckActive(again, TRUE, <<p, pos>> \in bad))]
  BY DEF SelectAny
<1> DEFINE asked == [a \in Adapters |->
                       IF a[1] = p THEN CheckActive(ad[a], FALSE, a \in bad) ELSE ad[a]]
           conn == {i \in Positions : ~asked[<<p, i>>].connTimeout /\ ~asked[<<p, i>>].connExc}
           again == IF conn # {} THEN asked[<<p, pos>>] ELSE [asked[<<p, pos>>] EXCEPT !.retryIn = 0]
           final == Assigned(CheckActive(again, TRUE, <<p, pos>> \in bad))
<1>2. ad' = [asked EXCEPT ![<<p, pos>>] = final]
  BY <1>1
<1>3. ASSUME NEW a \in Adapters PROVE Good(asked[a])
  BY CheckActiveGood DEF HealthInv
<1>4. DOMAIN asked = Adapters /\ <<p, pos>> \in Adapters
  BY DEF Adapters
<1>5. Good(again)
  <2>1. Good(asked[<<p, pos>>])
    BY <1>3, <1>4
  <2> HIDE DEF asked, conn
  <2>2. Good([asked[<<p, pos>>] EXCEPT !.retryIn = 0])
    BY <2>1 DEF Good, Fields
  <2> QED BY <2>1, <2>2
<1> HIDE DEF asked, again
<1>6. Good(final)
  BY <1>5, CheckActiveGood, AssignedGood
<1> HIDE DEF final
<1> QED BY <1>2, <1>3, <1>4, <1>6 DEF HealthInv, Good

\* One step of the client, whichever it is.
LEMMA StepInv ==
  ASSUME HealthInv, Udp = FALSE, Next
  PROVE  HealthInv'
<1>1. ASSUME NEW p \in Proxies, Select(p) PROVE HealthInv'
  BY <1>1, SelectUsableInv, SelectAnyInv DEF Select
<1>2. ASSUME NEW a \in Adapters, NEW bFail \in BOOLEAN, Finish(a, bFail) PROVE HealthInv'
  <2> DEFINE r == [ad[a] EXCEPT !.inflight = @ - 1]
  <2>1. Good(r)
    BY DEF HealthInv, Good, Fields
  <2>2. Good(FinishInvoke(r, bFail))
    BY <2>1, FinishInvokeGood
  <2>3. Become(a, FinishInvoke(r, bFail))
    BY <1>2 DEF Finish
  <2> QED BY <2>2, <2>3, BecomeInv
<1>3. ASSUME NEW a \in Adapters, Connected(a) PROVE HealthInv'
  BY <1>3, ConnMadeGood, BecomeInv DEF Connected, HealthInv
<1>4. ASSUME NEW a \in Adapters, ConnectTimeout(a) PROVE HealthInv'
  <2>1. Good(Closed(ad[a]))
    BY ClosedGood DEF HealthInv
  <2>2. Good([Closed(ad[a]) EXCEPT !.connTimeout = TRUE])
    BY <2>1 DEF Good, Fields
  <2> QED BY <1>4, <2>2, BecomeInv DEF ConnectTimeout
<1>5. ASSUME NEW a \in Adapters, ConnError(a) PROVE HealthInv'
  BY <1>5, ConnFailedGood, BecomeInv DEF ConnError, HealthInv
<1>6. ASSUME NEW a \in Adapters, CloseEvent(a) PROVE HealthInv'
  BY <1>6, ClosedGood, BecomeInv DEF CloseEvent, HealthInv
<1>7. ASSUME NEW a \in Adapters, KeepAlive(a) PROVE HealthInv'
  <2>1. PICK bad \in Throws : ad' \in
          {[ad EXCEPT ![a] = Assigned(CheckActive(ad[a], FALSE, a \in bad))],
           [ad EXCEPT ![a] = CheckActive(ad[a], FALSE, a \in bad)]}
    BY <1>7 DEF KeepAlive
  <2>2. Good(CheckActive(ad[a], FALSE, a \in bad))
    BY CheckActiveGood DEF HealthInv
  <2>3. Good(Assigned(CheckActive(ad[a], FALSE, a \in bad)))
    BY <2>2, AssignedGood
  <2> QED BY <2>1, <2>2, <2>3 DEF HealthInv, Good
<1>8. ASSUME NEW a \in Adapters, DoReconnect(a) PROVE HealthInv'
  <2> DEFINE r == [ad[a] EXCEPT !.redial = FALSE]
  <2>1. Good(r)
    BY DEF HealthInv, Good, Fields
  <2>2. Good(Connect(r))
    BY <2>1, ConnectGood
  <2>3. Become(a, r) \/ Become(a, Connect(r))
    BY <1>8 DEF DoReconnect
  <2> QED BY <2>1, <2>2, <2>3, BecomeInv
<1>9. ASSUME TarsClose \/ TarsReconnect PROVE HealthInv'
  BY <1>9 DEF TarsClose, TarsReconnect, HealthInv, Good
<1>10. ASSUME Tick PROVE HealthInv'
  BY <1>10, OlderGood DEF Tick, HealthInv, Good
<1> QED BY <1>1, <1>2, <1>3, <1>4, <1>5, <1>6, <1>7, <1>8, <1>9, <1>10 DEF Next

\* The inductive invariant holds of every behaviour of TCP endpoints.
THEOREM HealthInvariant == ASSUME Udp = FALSE PROVE Spec => []HealthInv
<1>1. Init => HealthInv
  <2>1. DOMAIN Fresh = Fields /\ Fresh.active = TRUE /\ Fresh.connExc = FALSE
    BY DEF Fresh, Fields
  <2>2. Good(Fresh)
    BY <2>1 DEF Good
  <2> QED BY <2>2 DEF Init, HealthInv, Good
<1>2. ASSUME HealthInv, [Next]_vars PROVE HealthInv'
  <2>1. CASE Next
    BY <1>2, <2>1, StepInv
  <2>2. CASE UNCHANGED vars
    BY <1>2, <2>2 DEF vars, HealthInv, Good
  <2> QED BY <1>2, <2>1, <2>2
<1> QED BY <1>1, <1>2, PTL DEF Spec

\* A shielded TCP endpoint has no established connection (AdapterProxy::setInactive
\* against getNextValidProxy), for any number of endpoints and any settings.
THEOREM Shielding == ASSUME Udp = FALSE PROVE Spec => []ShieldedIsClosed
<1>1. HealthInv => ShieldedIsClosed
  BY DEF HealthInv, Good, ShieldedIsClosed
<1> QED BY <1>1, HealthInvariant, PTL

\* While a TCP endpoint's connection error is remembered (isConnExc), it is shielded.
THEOREM ErrorsShield == ASSUME Udp = FALSE PROVE Spec => []ErrorShields
<1>1. HealthInv => ErrorShields
  BY DEF HealthInv, Good, ErrorShields
<1> QED BY <1>1, HealthInvariant, PTL

-----------------------------------------------------------------------------
(* What a step may do to one adapter, whoever takes it. *)

Move(r, s) ==
    \/ s \in {r, OnSetInactive(r), Assigned(r), ConnFailed(r), Closed(r), Older(r)}
    \/ r.conn = "connecting" /\ s \in {ConnMade(r), [Closed(r) EXCEPT !.connTimeout = TRUE]}
    \/ \E bFail \in BOOLEAN :
          /\ r.inflight > 0 /\ r.total < MaxTotal
          /\ s = FinishInvoke([r EXCEPT !.inflight = @ - 1], bFail)
    \/ \E throws \in BOOLEAN :
          /\ throws => ConnectThrows
          /\ LET c == CheckActive(r, FALSE, throws)
             IN  s \in {c, Assigned(c), Assigned(CheckActive(c, TRUE, throws)),
                        Assigned(CheckActive([c EXCEPT !.retryIn = 0], TRUE, throws))}
    \/ r.redial /\ s \in {[r EXCEPT !.redial = FALSE], Connect([r EXCEPT !.redial = FALSE])}

\* f has a record for every adapter.
Total(f) == f = [a \in Adapters |-> f[a]]

LEMMA BecomeMoves ==
  ASSUME NEW a \in Adapters, NEW s, Become(a, s), Move(ad[a], s)
  PROVE  Total(ad') /\ \A b \in Adapters : Move(ad[b], ad'[b])
<1>1. Total(ad')
  BY DEF Become, Total
<1>2. ASSUME NEW b \in Adapters PROVE Move(ad[b], ad'[b])
  <2>1. (ad'[b] = s /\ b = a) \/ ad'[b] \in {ad[b], OnSetInactive(ad[b])}
    BY DEF Become
  <2> QED BY <2>1 DEF Move
<1> QED BY <1>1, <1>2

LEMMA SelectMoves ==
  ASSUME Total(ad), NEW p \in Proxies, Select(p)
  PROVE  Total(ad') /\ \A a \in Adapters : Move(ad[a], ad'[a])
<1>1. CASE SelectUsable(p)
  <2>1. PICK bad \in Throws :
          LET k == FirstUsable(p, bad)
              asked == {Visit(p, i) : i \in 1..k}
          IN  ad' = [a \in Adapters |->
                       LET r == IF a \in asked THEN CheckActive(ad[a], FALSE, a \in bad) ELSE ad[a]
                       IN  IF a = Visit(p, k) THEN Assigned(r) ELSE r]
    BY <1>1 DEF SelectUsable
  <2>2. ASSUME NEW a \in Adapters PROVE Move(ad[a], ad'[a])
    <3> DEFINE c == CheckActive(ad[a], FALSE, a \in bad)
    <3>1. ad'[a] \in {ad[a], c, Assigned(ad[a]), Assigned(c)}
      BY <2>1
    <3>2. (a \in bad) \in BOOLEAN /\ (a \in bad => ConnectThrows)
      BY DEF Throws
    <3> QED BY <3>1, <3>2 DEF Move
  <2>3. Total(ad')
    BY <2>1 DEF Total
  <2> QED BY <2>2, <2>3
<1>2. CASE SelectAny(p)
  <2>1. PICK bad \in Throws, pos \in Positions :
          LET asked == [a \in Adapters |->
                          IF a[1] = p THEN CheckActive(ad[a], FALSE, a \in bad) ELSE ad[a]]
              conn == {i \in Positions : ~asked[<<p, i>>].connTimeout /\ ~asked[<<p, i>>].connExc}
              again == IF conn # {} THEN asked[<<p, pos>>] ELSE [asked[<<p, pos>>] EXCEPT !.retryIn = 0]
          IN  ad' = [asked EXCEPT ![<<p, pos>>] = Assigned(CheckActive(again, TRUE, <<p, pos>> \in bad))]
    BY <1>2 DEF SelectAny
  <2> DEFINE asked == [a \in Adapters |->
                         IF a[1] = p THEN CheckActive(ad[a], FALSE, a \in bad) ELSE ad[a]]
             conn == {i \in Positions : ~asked[<<p, i>>].connTimeout /\ ~asked[<<p, i>>].connExc}
             q == <<p, pos>>
             again == IF conn # {} THEN asked[q] ELSE [asked[q] EXCEPT !.retryIn = 0]
             final == Assigned(CheckActive(again, TRUE, q \in bad))
  <2>2. ad' = [asked EXCEPT ![q] = final] /\ q \in Adapters /\ q[1] = p /\ DOMAIN asked = Adapters
    BY <2>1 DEF Adapters
  <2>3. \A a \in Adapters : (a \in bad) \in BOOLEAN /\ (a \in bad => ConnectThrows)
    BY DEF Throws
  <2>4. asked[q] = CheckActive(ad[q], FALSE, q \in bad)
    BY <2>2
  <2>5. \A a \in Adapters : asked[a] \in {ad[a], CheckActive(ad[a], FALSE, a \in bad)}
    OBVIOUS
  <2> HIDE DEF asked, conn, q
  <2>6. again \in {asked[q], [asked[q] EXCEPT !.retryIn = 0]}
    OBVIOUS
  <2> HIDE DEF again
  <2>7. Move(ad[q], final)
    BY <2>2, <2>3, <2>4, <2>6 DEF Move
  <2>8. \A a \in Adapters : Move(ad[a], asked[a])
    BY <2>3, <2>5 DEF Move
  <2>9. Total(asked)
    BY DEF asked, Total
  <2> HIDE DEF final
  <2>10. Total(ad')
    BY <2>2, <2>9 DEF Total
  <2> QED BY <2>2, <2>7, <2>8, <2>10
<1> QED BY <1>1, <1>2 DEF Select

LEMMA Moves ==
  ASSUME Total(ad), [Next]_vars
  PROVE  Total(ad') /\ \A a \in Adapters : Move(ad[a], ad'[a])
<1>1. ASSUME NEW p \in Proxies, Select(p) PROVE Total(ad') /\ \A a \in Adapters : Move(ad[a], ad'[a])
  BY <1>1, SelectMoves
<1>2. ASSUME NEW a \in Adapters,
             \/ \E bFail \in BOOLEAN : Finish(a, bFail)
             \/ Connected(a) \/ ConnectTimeout(a) \/ ConnError(a) \/ CloseEvent(a) \/ DoReconnect(a)
      PROVE  Total(ad') /\ \A b \in Adapters : Move(ad[b], ad'[b])
  <2>1. \E s : Become(a, s) /\ Move(ad[a], s)
    BY <1>2 DEF Finish, Connected, ConnectTimeout, ConnError, CloseEvent, DoReconnect, Move
  <2> QED BY <2>1, BecomeMoves
<1>3. ASSUME NEW a \in Adapters, KeepAlive(a) PROVE Total(ad') /\ \A b \in Adapters : Move(ad[b], ad'[b])
  <2>1. PICK bad \in Throws : ad' \in
          {[ad EXCEPT ![a] = Assigned(CheckActive(ad[a], FALSE, a \in bad))],
           [ad EXCEPT ![a] = CheckActive(ad[a], FALSE, a \in bad)]}
    BY <1>3 DEF KeepAlive
  <2>2. (a \in bad) \in BOOLEAN /\ (a \in bad => ConnectThrows)
    BY DEF Throws
  <2>3. \A b \in Adapters : b # a => ad'[b] = ad[b]
    BY <2>1 DEF Total
  <2>4. ad'[a] \in {Assigned(CheckActive(ad[a], FALSE, a \in bad)), CheckActive(ad[a], FALSE, a \in bad)}
    BY <2>1 DEF Total
  <2>5. Total(ad')
    BY <2>1 DEF Total
  <2> QED BY <2>2, <2>3, <2>4, <2>5 DEF Move
<1>4. ASSUME TarsClose \/ TarsReconnect \/ UNCHANGED vars PROVE Total(ad') /\ \A a \in Adapters : Move(ad[a], ad'[a])
  BY <1>4 DEF TarsClose, TarsReconnect, vars, Move, Total
<1>5. ASSUME Tick PROVE Total(ad') /\ \A a \in Adapters : Move(ad[a], ad'[a])
  BY <1>5 DEF Tick, Move, Total
<1> QED BY <1>1, <1>2, <1>3, <1>4, <1>5 DEF Next

-----------------------------------------------------------------------------
(* The round of getNextValidProxy. *)

\* Less than, as a relation.
Less == OpToRel(<, Nat)

LEMMA Smallest ==
  ASSUME NEW S, S \subseteq Nat, S # {}
  PROVE  \E m \in S : \A n \in S : m <= n
<1>1. IsWellFoundedOn(Less, Nat)
  BY NatLessThanWellFounded DEF Less
<1>2. PICK m \in S : \A n \in S : ~(<<n, m>> \in Less)
  BY <1>1, WFMin
<1>3. \A x, y \in Nat : <<x, y>> \in Less <=> x < y
  BY DEF Less, OpToRel
<1>4. ASSUME NEW n \in S PROVE m <= n
  <2>1. m \in Nat /\ n \in Nat
    OBVIOUS
  <2>2. ~(n < m)
    BY <2>1, <1>2, <1>3
  <2> QED BY <2>1, <2>2
<1> QED BY <1>4

\* The first usable adapter of the round is usable, and there is none only if none is.
LEMMA FirstUsableFacts ==
  ASSUME NEW p, NEW bad
  PROVE  LET k == FirstUsable(p, bad)
         IN  /\ k \in 0..Nodes
             /\ k = 0 => \A i \in 1..Nodes : ~Usable(ad[Visit(p, i)], Visit(p, i) \in bad)
             /\ k # 0 => Usable(ad[Visit(p, k)], Visit(p, k) \in bad)
<1> DEFINE ok == {i \in 1..Nodes : Usable(ad[Visit(p, i)], Visit(p, i) \in bad)}
<1>0. Nodes \in Nat
  BY HealthAssumption
<1>1. ok \subseteq Nat /\ ok \subseteq 1..Nodes
  BY <1>0
<1>2. FirstUsable(p, bad) = IF ok = {} THEN 0 ELSE CHOOSE i \in ok : \A j \in ok : i <= j
  BY DEF FirstUsable
<1>3. ok # {} => FirstUsable(p, bad) \in ok
  <2> HIDE DEF ok
  <2> QED BY <1>1, <1>2, Smallest
<1>4. ok = {} => FirstUsable(p, bad) = 0
  BY <1>2
<1> QED BY <1>0, <1>3, <1>4

\* The round comes to every adapter.
LEMMA RoundComplete ==
  ASSUME NEW p \in Proxies, last[p] \in Positions, NEW j \in Positions
  PROVE  \E i \in 1..Nodes : Visit(p, i) = <<p, j>>
<1> DEFINE N == Nodes
           l == last[p]
<1>0. N \in Nat \ {0} /\ j \in 0..(N - 1) /\ l \in 0..(N - 1)
  BY HealthAssumption DEF Positions
<1> HIDE DEF N, l
<1>1. j % N = j /\ (j + N) % N = j
  BY <1>0
<1>2. \E i \in 1..N : (l + i) % N = j
  <2>1. CASE j > l
    <3>1. j - l \in 1..N /\ l + (j - l) = j
      BY <2>1, <1>0
    <3> QED BY <3>1, <1>1
  <2>2. CASE j <= l
    <3>1. j - l + N \in 1..N /\ l + (j - l + N) = j + N
      BY <2>2, <1>0
    <3> QED BY <3>1, <1>1
  <2> QED BY <2>1, <2>2, <1>0
<1> QED BY <1>2 DEF Visit, N, l

-----------------------------------------------------------------------------
(* The counters and deadlines of an adapter stay in their bounds. *)

Sound(r) ==
    /\ r \in AdapterType
    /\ r.timeouts <= r.total /\ r.total <= MaxTotal
    /\ r.finishIn \in -1..checkTimeoutInterval
    /\ r.freqIn <= minFrequenceFailTime /\ r.retryIn <= tryTimeInterval

LEMMA Settings ==
  /\ tryTimeInterval \in Nat /\ checkTimeoutInterval \in Nat /\ minFrequenceFailTime \in Nat
  /\ frequenceFailInvoke \in Nat /\ maxConnectExc \in Nat /\ MaxTotal \in Nat /\ MaxInflight \in Nat
BY HealthAssumption

LEMMA CloseSound ==
  ASSUME NEW r, Sound(r), auto \in BOOLEAN
  PROVE  /\ Sound(Closed(r)) /\ Closed(r).inflight = r.inflight
         /\ Sound(OnSetInactive(r)) /\ OnSetInactive(r).inflight = r.inflight
<1>1. Sound(Closed(r)) /\ Closed(r).inflight = r.inflight
  BY HealthAssumption DEF Sound, AdapterType, Closed
<1>2. ASSUME NEW c, Sound(c)
      PROVE  LET d == [c EXCEPT !.active = FALSE, !.retryIn = tryTimeInterval, !.idle = 0]
             IN  Sound(d) /\ d.inflight = c.inflight
  <2> DEFINE d == [c EXCEPT !.active = FALSE, !.retryIn = tryTimeInterval, !.idle = 0]
  <2>1. d \in AdapterType
    BY <1>2, Settings DEF Sound, AdapterType
  <2>2. /\ d.timeouts = c.timeouts /\ d.total = c.total /\ d.finishIn = c.finishIn /\ d.freqIn = c.freqIn
        /\ d.retryIn = tryTimeInterval /\ d.inflight = c.inflight
    BY <1>2 DEF Sound, AdapterType
  <2> HIDE DEF d
  <2>3. Sound(d)
    BY <1>2, <2>1, <2>2, Settings DEF Sound
  <2> QED BY <2>2, <2>3 DEF d
<1> QED BY <1>1, <1>2 DEF OnSetInactive

LEMMA ConnectSound ==
  ASSUME NEW r, Sound(r), auto \in BOOLEAN
  PROVE  Sound(Connect(r)) /\ Connect(r).inflight = r.inflight
BY HealthAssumption DEF Sound, AdapterType, Connect

LEMMA CheckActiveSound ==
  ASSUME NEW r, Sound(r), auto \in BOOLEAN, NEW connecting \in BOOLEAN, NEW throws \in BOOLEAN
  PROVE  LET c == CheckActive(r, connecting, throws) IN Sound(c) /\ c.inflight = r.inflight
<1> DEFINE tried == IF r.active THEN r ELSE [r EXCEPT !.retryIn = tryTimeInterval, !.idle = 0]
           failed == [tried EXCEPT !.active = FALSE, !.connTimeout = @ /\ Udp, !.idle = 0,
                                   !.redial = @ \/ (auto /\ ~Udp)]
<1>1. Sound(tried) /\ tried.inflight = r.inflight
  <2>1. tried \in AdapterType
    BY Settings DEF Sound, AdapterType
  <2>2. /\ tried.timeouts = r.timeouts /\ tried.total = r.total /\ tried.finishIn = r.finishIn
        /\ tried.freqIn = r.freqIn /\ tried.retryIn \in {r.retryIn, tryTimeInterval} /\ tried.inflight = r.inflight
    BY DEF Sound, AdapterType
  <2> HIDE DEF tried
  <2> QED BY <2>1, <2>2, Settings DEF Sound
<1>2. CheckActive(r, connecting, throws) \in {r, failed, Connect(tried)}
  BY DEF CheckActive
<1> HIDE DEF tried
<1>3. Sound(failed) /\ failed.inflight = r.inflight
  BY <1>1, HealthAssumption DEF Sound, AdapterType
<1>4. Sound(Connect(tried)) /\ Connect(tried).inflight = r.inflight
  BY <1>1, ConnectSound
<1> HIDE DEF failed
<1> QED BY <1>2, <1>3, <1>4

LEMMA ConnSound ==
  ASSUME NEW r, Sound(r), auto \in BOOLEAN
  PROVE  /\ Sound(ConnFailed(r)) /\ ConnFailed(r).inflight = r.inflight
         /\ Sound(ConnMade(r)) /\ ConnMade(r).inflight = r.inflight
         /\ LET c == [Closed(r) EXCEPT !.connTimeout = TRUE] IN Sound(c) /\ c.inflight = r.inflight
         /\ Sound([r EXCEPT !.redial = FALSE]) /\ [r EXCEPT !.redial = FALSE].inflight = r.inflight
         /\ Sound([r EXCEPT !.retryIn = 0]) /\ [r EXCEPT !.retryIn = 0].inflight = r.inflight
<1> DEFINE n == Least(r.connExcCnt + 1, maxConnectExc)
<1>1. n \in Nat
  BY HealthAssumption DEF Least, Sound, AdapterType
<1>2. ASSUME NEW c, Sound(c)
      PROVE  /\ Sound([c EXCEPT !.connExcCnt = n]) /\ [c EXCEPT !.connExcCnt = n].inflight = c.inflight
             /\ Sound([c EXCEPT !.connExcCnt = n, !.connExc = TRUE]) /\ [c EXCEPT !.connExcCnt = n, !.connExc = TRUE].inflight = c.inflight
             /\ Sound([c EXCEPT !.connTimeout = TRUE]) /\ [c EXCEPT !.connTimeout = TRUE].inflight = c.inflight
  <2> HIDE DEF n
  <2> QED BY <1>1, <1>2 DEF Sound, AdapterType
<1>3. Sound(Closed(r)) /\ Closed(r).inflight = r.inflight
  BY CloseSound
<1>4. Sound(OnSetInactive(Closed(r))) /\ OnSetInactive(Closed(r)).inflight = r.inflight
  BY <1>3, CloseSound
<1>5. ConnFailed(r) \in {Closed(r), [Closed(r) EXCEPT !.connExcCnt = n],
                         [OnSetInactive(Closed(r)) EXCEPT !.connExcCnt = n, !.connExc = TRUE]}
  BY DEF ConnFailed
<1> HIDE DEF n
<1>6. Sound(ConnFailed(r)) /\ ConnFailed(r).inflight = r.inflight
  BY <1>2, <1>3, <1>4, <1>5
<1>7. Sound(ConnMade(r)) /\ ConnMade(r).inflight = r.inflight
  BY DEF Sound, AdapterType, ConnMade
<1>8. Sound([r EXCEPT !.redial = FALSE]) /\ [r EXCEPT !.redial = FALSE].inflight = r.inflight
  BY DEF Sound, AdapterType
<1>9. Sound([r EXCEPT !.retryIn = 0]) /\ [r EXCEPT !.retryIn = 0].inflight = r.inflight
  BY Settings DEF Sound, AdapterType
<1> QED BY <1>2, <1>3, <1>6, <1>7, <1>8, <1>9

LEMMA TimeSound ==
  ASSUME NEW r, Sound(r)
  PROVE  Sound(Older(r)) /\ Older(r).inflight = r.inflight /\ Sound(Assigned(r))
<1>1. Sound(Older(r)) /\ Older(r).inflight = r.inflight
  <2> DEFINE d == Older(r)
  <2>0. /\ r.finishIn \in Int /\ r.freqIn \in Nat /\ r.retryIn \in Nat /\ r.idle \in Nat
        /\ Most(r.finishIn - 1, -1) \in -1..checkTimeoutInterval
        /\ Most(r.freqIn - 1, 0) \in 0..minFrequenceFailTime /\ Most(r.retryIn - 1, 0) \in 0..tryTimeInterval
        /\ Least(r.idle + 1, tryTimeInterval) \in Nat
    BY Settings DEF Sound, AdapterType, Most, Least
  <2>a. /\ Most(r.finishIn - 1, -1) \in Int /\ Most(r.freqIn - 1, 0) \in Nat /\ Most(r.retryIn - 1, 0) \in Nat
    BY <2>0, Settings
  <2>1. d \in AdapterType
    BY <2>0, <2>a DEF Sound, AdapterType, Older
  <2>2. /\ d.timeouts = r.timeouts /\ d.total = r.total /\ d.finishIn = Most(r.finishIn - 1, -1)
        /\ d.freqIn = Most(r.freqIn - 1, 0) /\ d.retryIn = Most(r.retryIn - 1, 0) /\ d.inflight = r.inflight
    BY DEF Sound, AdapterType, Older
  <2> HIDE DEF d
  <2>3. Sound(d)
    BY <2>0, <2>1, <2>2, Settings DEF Sound
  <2> QED BY <2>2, <2>3 DEF d
<1>2. Sound(Assigned(r))
  BY HealthAssumption DEF Sound, AdapterType, Assigned, Least
<1> QED BY <1>1, <1>2

LEMMA FinishInvokeSound ==
  ASSUME NEW r, Sound(r), r.total < MaxTotal, auto \in BOOLEAN, NEW bFail \in BOOLEAN
  PROVE  Sound(FinishInvoke(r, bFail)) /\ FinishInvoke(r, bFail).inflight = r.inflight
<1> DEFINE c == Counted(r, bFail)
           w == [c EXCEPT !.finishIn = checkTimeoutInterval]
           up == [r EXCEPT !.active = TRUE, !.freq = 0, !.finishIn = checkTimeoutInterval,
                           !.total = 1, !.timeouts = 0, !.connTimeout = FALSE, !.connExc = FALSE]
           down == OnSetInactive(w)
           clear == [w EXCEPT !.total = 0, !.timeouts = 0]
<1>1. Sound(c) /\ c.inflight = r.inflight
  <2>0. /\ r.total + 1 \in Nat /\ r.timeouts + 1 \in Nat /\ Least(r.freq + 1, frequenceFailInvoke) \in Nat
        /\ r.total \in Nat /\ r.timeouts \in Nat
    BY Settings DEF Sound, AdapterType, Least
  <2>1. c \in AdapterType
    BY <2>0, Settings DEF Sound, AdapterType, Counted
  <2>2. /\ c.timeouts \in {r.timeouts, r.timeouts + 1} /\ c.total = r.total + 1 /\ c.finishIn = r.finishIn
        /\ c.freqIn \in {r.freqIn, minFrequenceFailTime} /\ c.retryIn = r.retryIn /\ c.inflight = r.inflight
    BY DEF Sound, AdapterType, Counted
  <2> HIDE DEF c
  <2> QED BY <2>0, <2>1, <2>2, Settings DEF Sound
<1>2. Sound(w) /\ w.inflight = r.inflight
  <2> HIDE DEF c
  <2> QED BY <1>1, Settings DEF Sound, AdapterType
<1>3. Sound(up) /\ up.inflight = r.inflight
  <2>0. checkTimeoutInterval \in Int
    BY Settings
  <2>1. up \in AdapterType
    BY <2>0 DEF Sound, AdapterType
  <2>2. /\ up.timeouts = 0 /\ up.total = 1 /\ up.finishIn = checkTimeoutInterval
        /\ up.freqIn = r.freqIn /\ up.retryIn = r.retryIn /\ up.inflight = r.inflight
    BY DEF Sound, AdapterType
  <2>3. r.total \in Nat
    BY DEF Sound, AdapterType
  <2> HIDE DEF up
  <2> QED BY <2>1, <2>2, <2>3, Settings DEF Sound
<1>4. Sound(OnSetInactive(c)) /\ OnSetInactive(c).inflight = r.inflight
  BY <1>1, CloseSound
<1>5. Sound(down) /\ down.inflight = r.inflight
  BY <1>2, CloseSound
<1>6. Sound(clear) /\ clear.inflight = r.inflight
  <2> HIDE DEF w
  <2>1. clear \in AdapterType
    BY <1>2 DEF Sound, AdapterType
  <2>2. /\ clear.timeouts = 0 /\ clear.total = 0 /\ clear.finishIn = w.finishIn
        /\ clear.freqIn = w.freqIn /\ clear.retryIn = w.retryIn /\ clear.inflight = w.inflight
    BY <1>2 DEF Sound, AdapterType
  <2> HIDE DEF clear
  <2> QED BY <2>1, <2>2, <1>2, Settings DEF Sound
<1>7. FinishInvoke(r, bFail) \in {r, up, OnSetInactive(c), c, down, clear}
  <2>1. r.active \in BOOLEAN
    BY DEF Sound, AdapterType
  <2> HIDE DEF c, w, up, down, clear
  <2> QED BY <2>1 DEF FinishInvoke, c, w, up, down, clear
<1> HIDE DEF c, w, up, down, clear
<1> QED BY <1>1, <1>3, <1>4, <1>5, <1>6, <1>7

LEMMA MoveSound ==
  ASSUME NEW r, Sound(r), auto \in BOOLEAN, NEW s, Move(r, s)
  PROVE  Sound(s)
<1>1. CASE s \in {r, OnSetInactive(r), Assigned(r), ConnFailed(r), Closed(r), Older(r)}
  BY <1>1, CloseSound, TimeSound, ConnSound
<1>2. CASE s \in {ConnMade(r), [Closed(r) EXCEPT !.connTimeout = TRUE]}
  BY <1>2, ConnSound
<1>3. ASSUME NEW bFail \in BOOLEAN, r.inflight > 0, r.total < MaxTotal,
             s = FinishInvoke([r EXCEPT !.inflight = @ - 1], bFail)
      PROVE  Sound(s)
  <2>1. Sound([r EXCEPT !.inflight = @ - 1]) /\ [r EXCEPT !.inflight = @ - 1].total < MaxTotal
    BY <1>3 DEF Sound, AdapterType
  <2> QED BY <2>1, <1>3, FinishInvokeSound
<1>4. ASSUME NEW throws \in BOOLEAN,
             LET c == CheckActive(r, FALSE, throws)
             IN  s \in {c, Assigned(c), Assigned(CheckActive(c, TRUE, throws)),
                        Assigned(CheckActive([c EXCEPT !.retryIn = 0], TRUE, throws))}
      PROVE  Sound(s)
  <2> DEFINE c == CheckActive(r, FALSE, throws)
  <2>1. Sound(c)
    BY CheckActiveSound
  <2> HIDE DEF c
  <2>2. Sound([c EXCEPT !.retryIn = 0])
    BY <2>1, ConnSound
  <2>3. Sound(CheckActive(c, TRUE, throws)) /\ Sound(CheckActive([c EXCEPT !.retryIn = 0], TRUE, throws))
    BY <2>1, <2>2, CheckActiveSound
  <2> QED BY <2>1, <2>3, <1>4, TimeSound DEF c
<1>5. CASE s \in {[r EXCEPT !.redial = FALSE], Connect([r EXCEPT !.redial = FALSE])}
  BY <1>5, ConnSound, ConnectSound
<1> QED BY <1>1, <1>2, <1>3, <1>4, <1>5 DEF Move

(* The failure counters never exceed the calls they count, and no deadline *)
(* lies further off than the interval it was set for, for any settings,    *)
(* TCP or UDP.                                                             *)
THEOREM HealthTyped == Spec => []TypeOK
<1> DEFINE Inv == /\ ad \in [Adapters -> AdapterType]
                  /\ \A a \in Adapters : Sound(ad[a])
                  /\ last \in [Proxies -> Positions] /\ auto \in BOOLEAN
<1>1. Init => Inv
  <2>1. Sound(Fresh)
    BY HealthAssumption DEF Sound, AdapterType, Fresh
  <2>2. 0 \in Positions
    BY HealthAssumption DEF Positions
  <2>3. Fresh \in AdapterType
    BY <2>1 DEF Sound
  <2>4. AutoReconnect \in BOOLEAN
    BY HealthAssumption
  <2> QED BY <2>1, <2>2, <2>3, <2>4 DEF Init
<1>2. ASSUME Inv, [Next]_vars PROVE Inv'
  <2>1. Total(ad') /\ \A a \in Adapters : Move(ad[a], ad'[a])
    BY <1>2, Moves DEF Total
  <2>2. \A a \in Adapters : Sound(ad'[a])
    BY <1>2, <2>1, MoveSound
  <2>3. ad' \in [Adapters -> AdapterType]
    <3>1. \A a \in Adapters : ad'[a] \in AdapterType
      BY <2>2 DEF Sound
    <3> QED BY <2>1, <3>1 DEF Total
  <2>4. last' \in [Proxies -> Positions] /\ auto' \in BOOLEAN
    <3>1. ASSUME NEW p \in Proxies, SelectUsable(p) PROVE last' \in [Proxies -> Positions] /\ auto' = auto
      <4>1. PICK k \in Nat : last' = [last EXCEPT ![p] = Visit(p, k)[2]] /\ auto' = auto
        <5>1. PICK bad \in Throws : FirstUsable(p, bad) > 0 /\ last' = [last EXCEPT ![p] = Visit(p, FirstUsable(p, bad))[2]] /\ auto' = auto
          BY <3>1 DEF SelectUsable
        <5>2. FirstUsable(p, bad) \in Nat
          BY FirstUsableFacts
        <5> QED BY <5>1, <5>2
      <4>2. Visit(p, k)[2] \in Positions
        BY <1>2, HealthAssumption DEF Visit, Positions
      <4> QED BY <4>1, <4>2, <1>2
    <3> QED BY <3>1, <1>2 DEF Next, vars, Select, SelectAny, Finish, Connected, ConnectTimeout, ConnError,
       CloseEvent, KeepAlive, DoReconnect, TarsClose, TarsReconnect, Tick
  <2> QED BY <2>1, <2>2, <2>3, <2>4 DEF Sound
<1>3. Inv => TypeOK
  BY DEF TypeOK, Shape, Bounds, Sound
<1> QED BY <1>1, <1>2, <1>3, PTL DEF Spec

-----------------------------------------------------------------------------
(* Which endpoint gets the call. *)

LEMMA TypedSound ==
  ASSUME TypeOK
  PROVE  /\ \A a \in Adapters : Sound(ad[a]) /\ ad[a].inflight \in Nat
         /\ Total(ad) /\ auto \in BOOLEAN /\ \A p \in Proxies : last[p] \in Positions
BY DEF TypeOK, Shape, Bounds, Sound, Total, AdapterType

\* The round finds no usable adapter only when none is connected.
LEMMA NoneConnected ==
  ASSUME Udp = FALSE, HealthInv, TypeOK, NEW p \in Proxies, NEW bad, FirstUsable(p, bad) = 0,
         NEW b \in Adapters, b[1] = p
  PROVE  ad[b].conn # "connected"
<1>1. PICK j \in Positions : b = <<p, j>>
  BY DEF Adapters
<1>2. PICK i \in 1..Nodes : Visit(p, i) = b
  BY <1>1, TypedSound, RoundComplete
<1>3. ~Usable(ad[b], b \in bad)
  BY <1>2, FirstUsableFacts
<1> QED BY <1>3 DEF Usable, Due, HealthInv, Good

\* What SelectAny does to each adapter.
LEMMA SelectAnyFacts ==
  ASSUME TypeOK, NEW p \in Proxies, SelectAny(p)
  PROVE  \E bad \in Throws :
            /\ FirstUsable(p, bad) = 0
            /\ \A a \in Adapters : a[1] # p => ad'[a] = ad[a]
<1>1. PICK bad \in Throws, pos \in Positions :
        LET asked == [a \in Adapters |->
                        IF a[1] = p THEN CheckActive(ad[a], FALSE, a \in bad) ELSE ad[a]]
            conn == {i \in Positions : ~asked[<<p, i>>].connTimeout /\ ~asked[<<p, i>>].connExc}
            again == IF conn # {} THEN asked[<<p, pos>>] ELSE [asked[<<p, pos>>] EXCEPT !.retryIn = 0]
        IN  /\ FirstUsable(p, bad) = 0
            /\ ad' = [asked EXCEPT ![<<p, pos>>] = Assigned(CheckActive(again, TRUE, <<p, pos>> \in bad))]
  BY DEF SelectAny
<1> DEFINE asked == [a \in Adapters |->
                       IF a[1] = p THEN CheckActive(ad[a], FALSE, a \in bad) ELSE ad[a]]
           q == <<p, pos>>
<1>2. PICK final : ad' = [asked EXCEPT ![q] = final]
  BY <1>1
<1>3. q[1] = p /\ \A a \in Adapters : a[1] # p => asked[a] = ad[a] /\ a # q
  OBVIOUS
<1>4. DOMAIN asked = Adapters
  OBVIOUS
<1> HIDE DEF asked, q
<1>5. \A a \in Adapters : a[1] # p => ad'[a] = ad[a]
  BY <1>2, <1>3, <1>4
<1> QED BY <1>1, <1>5

\* What SelectUsable does to each adapter: only one that is usable is given the call.
LEMMA SelectUsableFacts ==
  ASSUME TypeOK, NEW p \in Proxies, SelectUsable(p), NEW a \in Adapters
  PROVE  \E throws \in BOOLEAN :
            LET c == CheckActive(ad[a], FALSE, throws)
            IN  ad'[a] \in {ad[a], c} \/ (ad'[a] = Assigned(c) /\ Usable(ad[a], throws))
<1>1. PICK bad \in Throws :
        LET k == FirstUsable(p, bad)
            asked == {Visit(p, i) : i \in 1..k}
        IN  /\ k > 0
            /\ ad' = [b \in Adapters |->
                        LET r == IF b \in asked THEN CheckActive(ad[b], FALSE, b \in bad) ELSE ad[b]
                        IN  IF b = Visit(p, k) THEN Assigned(r) ELSE r]
  BY DEF SelectUsable
<1> DEFINE k == FirstUsable(p, bad)
           c == CheckActive(ad[a], FALSE, a \in bad)
<1>2. k \in 1..Nodes /\ Usable(ad[Visit(p, k)], Visit(p, k) \in bad)
  BY <1>1, FirstUsableFacts, HealthAssumption
<1>3. k \in 1..k
  BY <1>2, HealthAssumption
<1>4. a = Visit(p, k) => ad'[a] = Assigned(c)
  BY <1>1, <1>3
<1>5. a # Visit(p, k) => ad'[a] \in {ad[a], c}
  BY <1>1
<1> HIDE DEF k, c
<1>6. (a \in bad) \in BOOLEAN
  OBVIOUS
<1> QED BY <1>2, <1>4, <1>5, <1>6 DEF c

\* No call is given and no connection begun.
Quiet(r, s) == s.inflight <= r.inflight /\ (r.conn = "closed" => s.conn = "closed")

LEMMA BecomeQuiet ==
  ASSUME TypeOK, NEW a \in Adapters, NEW s, Quiet(ad[a], s), Become(a, s), NEW b \in Adapters
  PROVE  Quiet(ad[b], ad'[b])
<1>1. Sound(ad[b]) /\ ad[b].inflight \in Nat /\ auto \in BOOLEAN
  BY TypedSound
<1>2. (ad'[b] = s /\ b = a) \/ ad'[b] \in {ad[b], OnSetInactive(ad[b])}
  BY DEF Become
<1>3. OnSetInactive(ad[b]).inflight = ad[b].inflight /\ OnSetInactive(ad[b]).conn = "closed"
  <2>1. OnSetInactive(ad[b]).inflight = ad[b].inflight
    BY <1>1, CloseSound
  <2>2. Sound(Closed(ad[b])) /\ Closed(ad[b]).conn = "closed"
    BY <1>1, CloseSound DEF Closed, Sound, AdapterType
  <2>3. OnSetInactive(ad[b]).conn = "closed"
    BY <2>2 DEF OnSetInactive, Sound, AdapterType
  <2> QED BY <2>1, <2>3
<1> QED BY <1>1, <1>2, <1>3 DEF Quiet

LEMMA FinishQuiet ==
  ASSUME NEW r, Sound(r), r.inflight > 0, r.total < MaxTotal, auto \in BOOLEAN, NEW bFail \in BOOLEAN
  PROVE  Quiet(r, FinishInvoke([r EXCEPT !.inflight = @ - 1], bFail))
<1> DEFINE d == [r EXCEPT !.inflight = @ - 1]
           c == Counted(d, bFail)
           w == [c EXCEPT !.finishIn = checkTimeoutInterval]
           up == [d EXCEPT !.active = TRUE, !.freq = 0, !.finishIn = checkTimeoutInterval,
                           !.total = 1, !.timeouts = 0, !.connTimeout = FALSE, !.connExc = FALSE]
           clear == [w EXCEPT !.total = 0, !.timeouts = 0]
<1>1. /\ Sound(d) /\ d.total < MaxTotal /\ d.conn = r.conn /\ d.inflight = r.inflight - 1
      /\ r.inflight \in Nat /\ d \in AdapterType /\ d.active \in BOOLEAN
  BY DEF Sound, AdapterType
<1> HIDE DEF d
<1>2. FinishInvoke(d, bFail).inflight = d.inflight
  BY <1>1, FinishInvokeSound
<1>3. FinishInvoke(d, bFail) \in {d, up, OnSetInactive(c), c, OnSetInactive(w), clear}
  <2> HIDE DEF c, w, up, clear
  <2> QED BY <1>1 DEF FinishInvoke, c, w, up, clear
<1>4. c.conn = d.conn /\ up.conn = d.conn /\ DOMAIN c = DOMAIN d
  BY <1>1 DEF Counted, AdapterType
<1>5. w.conn = d.conn /\ DOMAIN w = DOMAIN d
  <2> HIDE DEF c
  <2> QED BY <1>1, <1>4 DEF AdapterType
<1>6. clear.conn = d.conn
  <2> HIDE DEF w
  <2> QED BY <1>1, <1>5 DEF AdapterType
<1>7. ASSUME NEW x, DOMAIN x = DOMAIN d, x.conn = "closed" PROVE OnSetInactive(x).conn = "closed"
  BY <1>1, <1>7 DEF OnSetInactive, Closed, AdapterType
<1> HIDE DEF c, w, up, clear
<1>8. d.conn = "closed" => FinishInvoke(d, bFail).conn = "closed"
  BY <1>3, <1>4, <1>5, <1>6, <1>7
<1> QED BY <1>1, <1>2, <1>8 DEF Quiet, d

\* What every other step does: a call is given only by a ping, over a usable connection.
LEMMA OtherFacts ==
  ASSUME TypeOK, Next, \A p \in Proxies : ~Select(p), NEW a \in Adapters
  PROVE  \/ Quiet(ad[a], ad'[a])
         \/ \E throws \in BOOLEAN :
               LET c == CheckActive(ad[a], FALSE, throws)
               IN  ad'[a] = c \/ (ad'[a] = Assigned(c) /\ Usable(ad[a], throws))
         \/ ad'[a].inflight <= ad[a].inflight /\ \E b \in Adapters : ad[b].redial
<1>a. \A b \in Adapters : Sound(ad[b]) /\ ad[b].inflight \in Nat
  BY TypedSound
<1>b. auto \in BOOLEAN /\ Total(ad)
  BY TypedSound
<1>1. ASSUME NEW b \in Adapters, NEW bFail \in BOOLEAN, Finish(b, bFail) PROVE Quiet(ad[a], ad'[a])
  BY <1>1, <1>a, <1>b, FinishQuiet, BecomeQuiet DEF Finish
<1>2. ASSUME NEW b \in Adapters, Connected(b) PROVE Quiet(ad[a], ad'[a])
  <2>1. Quiet(ad[b], ConnMade(ad[b]))
    <3>1. ConnMade(ad[b]).inflight = ad[b].inflight
      BY <1>a, <1>b, ConnSound
    <3>2. ad[b].conn = "connecting"
      BY <1>2 DEF Connected
    <3> QED BY <3>1, <3>2, <1>a DEF Quiet
  <2> QED BY <2>1, <1>2, BecomeQuiet DEF Connected
<1>3. ASSUME NEW b \in Adapters, ConnectTimeout(b) \/ ConnError(b) \/ CloseEvent(b) PROVE Quiet(ad[a], ad'[a])
  <2> DEFINE t == [Closed(ad[b]) EXCEPT !.connTimeout = TRUE]
  <2>1. ad[b].conn # "closed"
    BY <1>3 DEF ConnectTimeout, ConnError, CloseEvent
  <2>2. t.inflight = ad[b].inflight /\ ConnFailed(ad[b]).inflight = ad[b].inflight /\ Closed(ad[b]).inflight = ad[b].inflight
    BY <1>a, <1>b, ConnSound, CloseSound
  <2> HIDE DEF t
  <2>3. Quiet(ad[b], t) /\ Quiet(ad[b], ConnFailed(ad[b])) /\ Quiet(ad[b], Closed(ad[b]))
    BY <2>1, <2>2, <1>a DEF Quiet
  <2>4. \E s : Quiet(ad[b], s) /\ Become(b, s)
    BY <2>3, <1>3 DEF ConnectTimeout, ConnError, CloseEvent, t
  <2> QED BY <2>4, BecomeQuiet
<1>4. ASSUME NEW b \in Adapters, KeepAlive(b)
      PROVE  \/ Quiet(ad[a], ad'[a])
             \/ \E throws \in BOOLEAN :
                   LET c == CheckActive(ad[a], FALSE, throws)
                   IN  ad'[a] = c \/ (ad'[a] = Assigned(c) /\ Usable(ad[a], throws))
  <2>1. PICK bad \in Throws :
          LET r == CheckActive(ad[b], FALSE, b \in bad)
          IN  \/ Usable(ad[b], b \in bad) /\ ad' = [ad EXCEPT ![b] = Assigned(r)]
              \/ ad' = [ad EXCEPT ![b] = r]
    BY <1>4 DEF KeepAlive
  <2>2. a # b => ad'[a] = ad[a]
    BY <2>1, <1>b DEF Total
  <2>3. Quiet(ad[a], ad[a])
    BY <1>a DEF Quiet
  <2>4. a = b => LET c == CheckActive(ad[a], FALSE, a \in bad)
                 IN  ad'[a] = c \/ (ad'[a] = Assigned(c) /\ Usable(ad[a], a \in bad))
    BY <2>1, <1>b DEF Total
  <2>5. (a \in bad) \in BOOLEAN
    OBVIOUS
  <2> QED BY <2>2, <2>3, <2>4, <2>5
<1>5. ASSUME NEW b \in Adapters, DoReconnect(b)
      PROVE  ad'[a].inflight <= ad[a].inflight /\ \E e \in Adapters : ad[e].redial
  <2> DEFINE r == [ad[b] EXCEPT !.redial = FALSE]
  <2>1. Sound(r) /\ r.inflight = ad[b].inflight
    BY <1>a, <1>b, ConnSound
  <2> HIDE DEF r
  <2>2. Connect(r).inflight = ad[b].inflight
    BY <2>1, <1>b, ConnectSound
  <2>3. Become(b, r) \/ Become(b, Connect(r))
    BY <1>5 DEF DoReconnect, r
  <2>4. ad'[a].inflight = ad[a].inflight
    BY <2>1, <2>2, <2>3, <1>a, <1>b, CloseSound DEF Become
  <2> QED BY <2>4, <1>a, <1>5 DEF DoReconnect
<1>6. ASSUME TarsClose \/ TarsReconnect PROVE Quiet(ad[a], ad'[a])
  BY <1>6, <1>a DEF TarsClose, TarsReconnect, Quiet
<1>7. ASSUME Tick PROVE Quiet(ad[a], ad'[a])
  <2>1. ad'[a] = Older(ad[a])
    BY <1>7 DEF Tick
  <2>2. Older(ad[a]).inflight = ad[a].inflight
    BY <1>a, TimeSound
  <2>3. Older(ad[a]).conn = ad[a].conn
    BY <1>a DEF Older, Sound, AdapterType
  <2> QED BY <2>1, <2>2, <2>3, <1>a DEF Quiet
<1> QED BY <1>1, <1>2, <1>3, <1>4, <1>5, <1>6, <1>7 DEF Next

(* For TCP, a call or a ping is given to an endpoint that is not connected *)
(* only when no endpoint of its proxy is (getNextValidProxy, doKeepAlive). *)
THEOREM CallsPreferConnected ==
  ASSUME Udp = FALSE
  PROVE  Spec => PrefersConnected
<1>1. ASSUME HealthInv, TypeOK, [Next]_vars, NEW a \in Adapters, ad'[a].inflight > ad[a].inflight
      PROVE  ad[a].conn = "connected" \/ \A b \in Adapters : b[1] = a[1] => ad[b].conn # "connected"
  <2>a. Sound(ad[a]) /\ ad[a].inflight \in Nat /\ auto \in BOOLEAN
    BY <1>1, TypedSound
  <2>1. ASSUME NEW throws \in BOOLEAN
        PROVE  /\ CheckActive(ad[a], FALSE, throws).inflight = ad[a].inflight
               /\ Usable(ad[a], throws) => ad[a].conn = "connected"
    BY <2>a, CheckActiveSound DEF Usable
  <2>2. CASE UNCHANGED vars
    BY <2>2, <2>a, <1>1 DEF vars
  <2>3. ASSUME NEW p \in Proxies, SelectUsable(p) PROVE ad[a].conn = "connected"
    <3>1. PICK throws \in BOOLEAN :
            LET c == CheckActive(ad[a], FALSE, throws)
            IN  ad'[a] \in {ad[a], c} \/ (ad'[a] = Assigned(c) /\ Usable(ad[a], throws))
      BY <2>3, <1>1, SelectUsableFacts
    <3>2. ad'[a].inflight # ad[a].inflight
      BY <2>a, <1>1
    <3> QED BY <2>1, <3>1, <3>2
  <2>4. ASSUME NEW p \in Proxies, SelectAny(p) PROVE \A b \in Adapters : b[1] = a[1] => ad[b].conn # "connected"
    <3>1. PICK bad \in Throws : FirstUsable(p, bad) = 0 /\ \A b \in Adapters : b[1] # p => ad'[b] = ad[b]
      BY <1>1, <2>4, SelectAnyFacts
    <3>2. a[1] = p
      BY <3>1, <2>a, <1>1
    <3> QED BY <3>1, <3>2, <1>1, NoneConnected
  <2>5. CASE Next /\ \A p \in Proxies : ~Select(p)
    <3>1. \/ Quiet(ad[a], ad'[a])
          \/ \E throws \in BOOLEAN :
                LET c == CheckActive(ad[a], FALSE, throws)
                IN  ad'[a] = c \/ (ad'[a] = Assigned(c) /\ Usable(ad[a], throws))
          \/ ad'[a].inflight <= ad[a].inflight
      BY <2>5, <1>1, OtherFacts
    <3>2. ~(ad'[a].inflight <= ad[a].inflight) /\ ad'[a].inflight # ad[a].inflight
      <4>1. ad'[a].inflight \in Nat
        <5>1. Move(ad[a], ad'[a])
          BY <2>5, <1>1, TypedSound, Moves
        <5> QED BY <5>1, <2>a, MoveSound DEF Sound, AdapterType
      <4> QED BY <4>1, <2>a, <1>1
    <3> QED BY <2>1, <3>1, <3>2 DEF Quiet
  <2> QED BY <2>2, <2>3, <2>4, <2>5, <1>1 DEF Select
<1>2. HealthInv /\ TypeOK /\ [Next]_vars =>
        [\A a \in Adapters : ad'[a].inflight > ad[a].inflight =>
            \/ ad[a].conn = "connected"
            \/ \A b \in Adapters : b[1] = a[1] => ad[b].conn # "connected"]_vars
  BY <1>1
<1> QED BY <1>2, HealthInvariant, HealthTyped, PTL DEF Spec, PrefersConnected

-----------------------------------------------------------------------------
(* How often a shielded endpoint is tried. *)

\* The time since an endpoint was shielded or tried and the time until it may be tried
\* again make up tryTimeInterval; nothing else will dial it.
Rested(r) == r.redial = FALSE /\ (r.active = FALSE => r.idle + r.retryIn >= tryTimeInterval)

LEMMA CloseRested ==
  ASSUME NEW r, Sound(r), auto = FALSE, r.redial = FALSE
  PROVE  /\ Rested(r) => Rested(Closed(r))
         /\ Closed(r).redial = FALSE
         /\ Rested(OnSetInactive(r))
<1>1. Sound(Closed(r))
  BY CloseSound
<1>2. Closed(r).redial = FALSE /\ Closed(r).active = r.active /\ Closed(r).idle = r.idle /\ Closed(r).retryIn = r.retryIn
  BY DEF Closed, Sound, AdapterType
<1>3. /\ OnSetInactive(r).redial = FALSE /\ OnSetInactive(r).idle = 0 /\ OnSetInactive(r).retryIn = tryTimeInterval
  BY <1>1, <1>2 DEF OnSetInactive, Sound, AdapterType
<1> QED BY <1>2, <1>3, Settings DEF Rested

\* A try begins the interval anew; so does being forced, whatever was left of it.
LEMMA CheckActiveRested ==
  ASSUME NEW r, Sound(r), auto = FALSE, r.redial = FALSE, NEW connecting \in BOOLEAN, connecting \/ Rested(r)
  PROVE  Rested(CheckActive(r, connecting, FALSE))
<1> DEFINE tried == IF r.active THEN r ELSE [r EXCEPT !.retryIn = tryTimeInterval, !.idle = 0]
<1>1. CheckActive(r, connecting, FALSE) = IF ~Due(r, connecting) THEN r ELSE Connect(tried)
  BY DEF CheckActive
<1>2. r.active \in BOOLEAN
  BY DEF Sound, AdapterType
<1>3. /\ tried.redial = FALSE /\ tried.active = r.active /\ DOMAIN tried = DOMAIN r
      /\ r.active = FALSE => tried.idle = 0 /\ tried.retryIn = tryTimeInterval
  BY <1>2 DEF Sound, AdapterType
<1> HIDE DEF tried
<1>4. /\ Connect(tried).redial = FALSE /\ Connect(tried).active = r.active
      /\ r.active = FALSE => Connect(tried).idle = 0 /\ Connect(tried).retryIn = tryTimeInterval
  BY <1>2, <1>3 DEF Connect, Sound, AdapterType
<1>5. Rested(Connect(tried))
  BY <1>4, Settings DEF Rested
<1>6. ~Due(r, connecting) => Rested(r)
  BY DEF Due
<1> QED BY <1>1, <1>5, <1>6

LEMMA FieldsRested ==
  ASSUME NEW r, Sound(r), Rested(r), NEW s,
         s.redial = r.redial, s.active = r.active, s.idle = r.idle, s.retryIn = r.retryIn
  PROVE  Rested(s)
BY DEF Rested

LEMMA ConnRested ==
  ASSUME NEW r, Sound(r), Rested(r), auto = FALSE
  PROVE  Rested(ConnFailed(r)) /\ Rested(ConnMade(r)) /\ Rested([Closed(r) EXCEPT !.connTimeout = TRUE])
<1>0. r.redial = FALSE
  BY DEF Rested
<1> DEFINE n == Least(r.connExcCnt + 1, maxConnectExc)
<1>1. ASSUME NEW c, Sound(c), Rested(c)
      PROVE  /\ Rested([c EXCEPT !.connExcCnt = n]) /\ Rested([c EXCEPT !.connExcCnt = n, !.connExc = TRUE])
             /\ Rested([c EXCEPT !.connTimeout = TRUE])
  BY <1>1 DEF Rested, Sound, AdapterType
<1>2. Sound(Closed(r)) /\ Rested(Closed(r)) /\ Closed(r).redial = FALSE
  BY <1>0, CloseSound, CloseRested
<1>3. Sound(OnSetInactive(Closed(r))) /\ Rested(OnSetInactive(Closed(r)))
  BY <1>2, CloseSound, CloseRested
<1>4. ConnFailed(r) \in {Closed(r), [Closed(r) EXCEPT !.connExcCnt = n],
                         [OnSetInactive(Closed(r)) EXCEPT !.connExcCnt = n, !.connExc = TRUE]}
  BY DEF ConnFailed
<1> HIDE DEF n
<1>5. Rested(ConnMade(r))
  BY <1>0 DEF ConnMade, Rested, Sound, AdapterType
<1> QED BY <1>1, <1>2, <1>3, <1>4, <1>5

LEMMA FinishRested ==
  ASSUME NEW r, Sound(r), r.total < MaxTotal, Rested(r), auto = FALSE, NEW bFail \in BOOLEAN
  PROVE  Rested(FinishInvoke(r, bFail))
<1> DEFINE c == Counted(r, bFail)
           w == [c EXCEPT !.finishIn = checkTimeoutInterval]
           up == [r EXCEPT !.active = TRUE, !.freq = 0, !.finishIn = checkTimeoutInterval,
                           !.total = 1, !.timeouts = 0, !.connTimeout = FALSE, !.connExc = FALSE]
           clear == [w EXCEPT !.total = 0, !.timeouts = 0]
<1>0. r.redial = FALSE /\ r.active \in BOOLEAN
  BY DEF Rested, Sound, AdapterType
<1>1. c.redial = r.redial /\ c.active = r.active /\ c.idle = r.idle /\ c.retryIn = r.retryIn /\ DOMAIN c = DOMAIN r
  BY DEF Counted, Sound, AdapterType
<1>2. Rested(c)
  BY <1>1, FieldsRested
<1>3. /\ w.redial = r.redial /\ w.active = r.active /\ w.idle = r.idle /\ w.retryIn = r.retryIn /\ DOMAIN w = DOMAIN r
  <2> HIDE DEF c
  <2> QED BY <1>1 DEF Sound, AdapterType
<1>4. clear.redial = r.redial /\ clear.active = r.active /\ clear.idle = r.idle /\ clear.retryIn = r.retryIn
  <2> HIDE DEF w
  <2> QED BY <1>3 DEF Sound, AdapterType
<1>5. Rested(clear)
  BY <1>4, FieldsRested
<1>6. Rested(up)
  BY <1>0 DEF Rested, Sound, AdapterType
<1>7. ASSUME NEW x, DOMAIN x = DOMAIN r, x.redial = FALSE PROVE Rested(OnSetInactive(x))
  <2>1. DOMAIN Closed(x) = DOMAIN r /\ Closed(x).redial = FALSE
    BY <1>7 DEF Closed, Sound, AdapterType
  <2>2. OnSetInactive(x).redial = FALSE /\ OnSetInactive(x).idle = 0 /\ OnSetInactive(x).retryIn = tryTimeInterval
    BY <2>1 DEF OnSetInactive, Sound, AdapterType
  <2> QED BY <2>2, Settings DEF Rested
<1>8. FinishInvoke(r, bFail) \in {r, up, OnSetInactive(c), c, OnSetInactive(w), clear}
  <2> HIDE DEF c, w, up, clear
  <2> QED BY <1>0 DEF FinishInvoke, c, w, up, clear
<1> HIDE DEF c, w, up, clear
<1> QED BY <1>0, <1>1, <1>2, <1>3, <1>5, <1>6, <1>7, <1>8

LEMMA MoveRested ==
  ASSUME ConnectThrows = FALSE, auto = FALSE, NEW r, Sound(r), Rested(r), NEW s, Move(r, s)
  PROVE  Rested(s)
<1>0. r.redial = FALSE /\ auto \in BOOLEAN
  BY DEF Rested
<1>1. CASE s \in {r, OnSetInactive(r), ConnFailed(r), Closed(r), ConnMade(r), [Closed(r) EXCEPT !.connTimeout = TRUE]}
  BY <1>0, <1>1, CloseRested, ConnRested
<1>2. ASSUME NEW c, Sound(c), Rested(c) PROVE Rested(Assigned(c))
  BY <1>2 DEF Assigned, Rested, Sound, AdapterType
<1>3. CASE s = Older(r)
  <2>1. /\ Older(r).redial = FALSE /\ Older(r).active = r.active
        /\ Older(r).idle = Least(r.idle + 1, tryTimeInterval) /\ Older(r).retryIn = Most(r.retryIn - 1, 0)
        /\ r.idle \in Nat /\ r.retryIn \in Nat
    BY <1>0 DEF Older, Sound, AdapterType
  <2>2. r.idle + r.retryIn >= tryTimeInterval =>
           Least(r.idle + 1, tryTimeInterval) + Most(r.retryIn - 1, 0) >= tryTimeInterval
    BY <2>1, Settings DEF Least, Most
  <2> QED BY <2>1, <2>2, <1>3 DEF Rested
<1>4. ASSUME NEW bFail \in BOOLEAN, r.inflight > 0, r.total < MaxTotal,
             s = FinishInvoke([r EXCEPT !.inflight = @ - 1], bFail)
      PROVE  Rested(s)
  <2> DEFINE d == [r EXCEPT !.inflight = @ - 1]
  <2>1. Sound(d) /\ d.total < MaxTotal
    BY <1>4 DEF Sound, AdapterType
  <2>2. d.redial = r.redial /\ d.active = r.active /\ d.idle = r.idle /\ d.retryIn = r.retryIn
    BY DEF Sound, AdapterType
  <2> HIDE DEF d
  <2>3. Rested(d)
    BY <2>2, FieldsRested
  <2> QED BY <2>1, <2>3, <1>4, FinishRested DEF d
<1>5. ASSUME NEW throws \in BOOLEAN, throws => ConnectThrows,
             LET c == CheckActive(r, FALSE, throws)
             IN  s \in {c, Assigned(c), Assigned(CheckActive(c, TRUE, throws)),
                        Assigned(CheckActive([c EXCEPT !.retryIn = 0], TRUE, throws))}
      PROVE  Rested(s)
  <2> DEFINE c == CheckActive(r, FALSE, FALSE)
             z == [c EXCEPT !.retryIn = 0]
  <2>0. s \in {c, Assigned(c), Assigned(CheckActive(c, TRUE, FALSE)), Assigned(CheckActive(z, TRUE, FALSE))}
    <3>1. throws = FALSE
      BY <1>5
    <3> QED BY <1>5, <3>1
  <2>1. Sound(c) /\ Rested(c)
    BY <1>0, CheckActiveSound, CheckActiveRested
  <2> HIDE DEF c
  <2>2. Sound(z) /\ z.redial = FALSE /\ c.redial = FALSE
    <3>1. Sound(z)
      BY <2>1, <1>0, ConnSound
    <3> QED BY <3>1, <2>1 DEF Rested, Sound, AdapterType
  <2> HIDE DEF z
  <2>3. Sound(CheckActive(c, TRUE, FALSE)) /\ Sound(CheckActive(z, TRUE, FALSE))
    BY <2>1, <2>2, <1>0, CheckActiveSound
  <2>4. Rested(CheckActive(c, TRUE, FALSE)) /\ Rested(CheckActive(z, TRUE, FALSE))
    BY <2>1, <2>2, CheckActiveRested
  <2> QED BY <2>0, <2>1, <2>3, <2>4, <1>2
<1> QED BY <1>0, <1>1, <1>2, <1>3, <1>4, <1>5 DEF Move

AllRested == auto = FALSE /\ \A a \in Adapters : Rested(ad[a])

LEMMA RestedKept ==
  ASSUME ConnectThrows = FALSE, AutoReconnect = FALSE
  PROVE  Spec => []AllRested
<1>1. Init => AllRested
  <2>1. Rested(Fresh)
    BY Settings DEF Rested, Fresh
  <2> QED BY <2>1 DEF Init, AllRested, Rested
<1>2. ASSUME TypeOK, AllRested, [Next]_vars PROVE AllRested'
  <2>1. \A a \in Adapters : Sound(ad[a]) /\ Move(ad[a], ad'[a])
    BY <1>2, TypedSound, Moves
  <2>2. \A a \in Adapters : Rested(ad'[a])
    BY <2>1, <1>2, MoveRested DEF AllRested
  <2>3. auto' = FALSE
    BY <1>2 DEF AllRested, Next, vars, Select, SelectUsable, SelectAny, Finish, Connected, ConnectTimeout,
       ConnError, CloseEvent, KeepAlive, DoReconnect, TarsClose, TarsReconnect, Tick
  <2> QED BY <2>2, <2>3 DEF AllRested, Rested
<1> QED BY <1>1, <1>2, HealthTyped, PTL DEF Spec

(* For TCP without automatic reconnects and connects that throw: while     *)
(* another endpoint of its proxy is connected, a shielded endpoint is      *)
(* dialled no more often than every tryTimeInterval (checkActive).         *)
THEOREM RetriesSpaced ==
  ASSUME Udp = FALSE, ConnectThrows = FALSE, AutoReconnect = FALSE
  PROVE  Spec => RetrySpaced
<1>1. ASSUME HealthInv, TypeOK, AllRested, [Next]_vars, NEW a \in Adapters,
             ~ad[a].active, ad[a].conn = "closed", ad'[a].conn = "connecting"
      PROVE  ad[a].idle >= tryTimeInterval \/ \A b \in Adapters : b[1] = a[1] => ad[b].conn # "connected"
  <2>a. Sound(ad[a]) /\ Rested(ad[a]) /\ auto = FALSE /\ \A b \in Adapters : ad[b].redial = FALSE
    BY <1>1, TypedSound DEF AllRested, Rested
  <2>b. ad[a].active = FALSE /\ ad[a].idle \in Nat /\ ad[a].retryIn \in Nat
    BY <2>a, <1>1 DEF Sound, AdapterType
  <2>1. ASSUME NEW throws \in BOOLEAN,
               \/ CheckActive(ad[a], FALSE, throws).conn = "connecting"
               \/ Assigned(CheckActive(ad[a], FALSE, throws)).conn = "connecting"
        PROVE  ad[a].idle >= tryTimeInterval
    <3> DEFINE c == CheckActive(ad[a], FALSE, throws)
    <3>1. Sound(c)
      BY <2>a, CheckActiveSound
    <3> HIDE DEF c
    <3>2. Assigned(c).conn = c.conn
      BY <3>1 DEF Assigned, Sound, AdapterType
    <3>3. c.conn = "connecting"
      BY <3>2, <2>1 DEF c
    <3>4. Due(ad[a], FALSE)
      BY <3>3, <1>1 DEF CheckActive, c
    <3>5. ad[a].retryIn = 0
      BY <3>4, <2>b DEF Due
    <3> QED BY <3>5, <2>a, <2>b, Settings DEF Rested
  <2>2. CASE UNCHANGED vars
    BY <2>2, <1>1 DEF vars
  <2>3. ASSUME NEW p \in Proxies, SelectUsable(p) PROVE ad[a].idle >= tryTimeInterval
    BY <2>1, <2>3, <1>1, SelectUsableFacts
  <2>4. ASSUME NEW p \in Proxies, SelectAny(p) PROVE \A b \in Adapters : b[1] = a[1] => ad[b].conn # "connected"
    <3>1. PICK bad \in Throws : FirstUsable(p, bad) = 0 /\ \A b \in Adapters : b[1] # p => ad'[b] = ad[b]
      BY <1>1, <2>4, SelectAnyFacts
    <3>2. a[1] = p
      BY <3>1, <1>1
    <3> QED BY <3>1, <3>2, <1>1, NoneConnected
  <2>5. CASE Next /\ \A p \in Proxies : ~Select(p)
    <3>1. \/ Quiet(ad[a], ad'[a])
          \/ \E throws \in BOOLEAN :
                LET c == CheckActive(ad[a], FALSE, throws)
                IN  ad'[a] = c \/ (ad'[a] = Assigned(c) /\ Usable(ad[a], throws))
      BY <2>5, <2>a, <1>1, OtherFacts
    <3> QED BY <2>1, <3>1, <1>1 DEF Quiet
  <2> QED BY <2>2, <2>3, <2>4, <2>5, <1>1 DEF Select
<1>2. HealthInv /\ TypeOK /\ AllRested /\ [Next]_vars =>
        [\A a \in Adapters :
            ~ad[a].active /\ ad[a].conn = "closed" /\ ad'[a].conn = "connecting" =>
               \/ ad[a].idle >= tryTimeInterval
               \/ \A b \in Adapters : b[1] = a[1] => ad[b].conn # "connected"]_vars
  BY <1>1
<1> QED BY <1>2, HealthInvariant, HealthTyped, RestedKept, PTL DEF Spec, RetrySpaced
=============================================================================
