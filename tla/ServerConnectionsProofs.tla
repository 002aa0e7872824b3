----------------------- MODULE ServerConnectionsProofs -----------------------
(* The connection list of the server, for every number of places, clients, *)
(* handle threads and requests, although a place is given again while      *)
(* something queued still names it.                                        *)
EXTENDS ServerConnections, FiniteSetTheorems, TLAPS

-----------------------------------------------------------------------------
(* The inductive invariant. *)

Out == [cmd : {"s", "c"}, conn : Conns, uid : Places]

\* What TypeOK leaves out.
Types ==
    /\ cur \in Int /\ free \in Seq(Places) /\ vConn \in [Places -> Conns \cup {None}]
    /\ uid \in [Conns -> 0..MaxConns]
    /\ state \in [Conns -> {"asks", "refused", "made", "open", "broken", "closed"}]
    /\ closing \subseteq unsent /\ unsent \subseteq Conns
    /\ acc \in [pc : {"idle", "getUniqId", "add", "increase", "register"}, c : Conns \cup {None}]
    /\ net \in [pc : {"idle", "del", "decrease", "scan", "scanned"}, c : Conns \cup {None}, due : SUBSET Conns]
    /\ rbuffer \in Seq(Item) /\ job \in [Handles -> Item \cup {None}] /\ sbuffer \in Seq(Out)
    /\ notices \in [Conns -> Nat]

\* Something queued is of connection c and names place p.
Tie(c, p) ==
    \/ \E i \in DOMAIN rbuffer : rbuffer[i].conn = c /\ rbuffer[i].uid = p
    \/ \E h \in Handles : job[h] # None /\ job[h].conn = c /\ job[h].uid = p
    \/ \E i \in DOMAIN sbuffer : sbuffer[i].conn = c /\ sbuffer[i].uid = p

\* What is queued names the place its connection was given; the connection may have
\* been closed since and another may have the place.
Tied ==
    \A c \in Conns, p \in Places : Tie(c, p) => uid[c] = p /\ state[c] \in {"open", "broken", "closed"}

\* The connection the accept thread is entering; it is closed under the accept thread
\* only by what was queued for an earlier holder of its place.
Entering ==
    /\ acc.pc # "idle" => acc.c \in Conns /\ state[acc.c] \in {"made", "closed"}
    /\ acc.pc \in {"getUniqId", "add"} => state[acc.c] = "made"
    /\ \A c \in Conns : state[c] = "made" => acc.pc # "idle" /\ acc.c = c
    /\ acc.pc = "getUniqId" => cur < MaxConns
    /\ acc.pc \in {"add", "increase", "register"} => uid[acc.c] \in Places
    /\ acc.pc = "add" => vConn[uid[acc.c]] = None
    /\ acc.pc \in {"increase", "register"} =>
          \/ state[acc.c] = "made" /\ vConn[uid[acc.c]] = acc.c
          \/ state[acc.c] = "closed" /\ \E d \in Conns \ {acc.c} : uid[d] = uid[acc.c] /\ state[d] = "closed"

\* The connection the network thread is deleting, and those it will.
Leaving ==
    /\ net.pc \in {"del", "scanned"} =>
          /\ net.c \in Conns /\ state[net.c] = "closed"
          /\ uid[net.c] \in Places /\ vConn[uid[net.c]] = net.c
    /\ net.pc \in {"scan", "scanned"} => \A c \in net.due : state[c] \in {"open", "broken"}

\* A connection is in the list from add to del, at its place.
Listed ==
    /\ \A c \in Conns : state[c] \in {"open", "broken"} => uid[c] \in Places /\ vConn[uid[c]] = c
    /\ \A p \in Places : vConn[p] # None =>
          /\ uid[vConn[p]] = p
          /\ \/ state[vConn[p]] \in {"open", "broken"}
             \/ acc.pc \in {"increase", "register"} /\ acc.c = vConn[p] /\ state[acc.c] = "made"
             \/ net.pc \in {"del", "scanned"} /\ net.c = vConn[p]

Taken == {p \in Places : vConn[p] # None}

\* The free places are those that are neither taken nor about to be.
FreeKept ==
    /\ \A i, j \in DOMAIN free : free[i] = free[j] => i = j
    /\ \A p \in Places :
          p \in {free[i] : i \in DOMAIN free} <=> vConn[p] = None /\ ~(acc.pc = "add" /\ uid[acc.c] = p)

One(b) == IF b THEN 1 ELSE 0

\* The counter of the adapter.
Counts ==
    cur = Cardinality(Taken) + One(net.pc = "decrease") - One(acc.pc = "increase") - One(net.pc = "scanned")

Noticed == \A c \in Conns : notices[c] = IF state[c] = "closed" THEN 1 ELSE 0

ListInv == Types /\ Tied /\ Entering /\ Leaving /\ Listed /\ FreeKept /\ Counts /\ Noticed

\* The elements of s that are in S, by their positions.
Matching(s, S) == {i \in 1..Len(s) : s[i] \in S}
Tally(s, S) == Cardinality(Matching(s, S))

Asks(c) == {x \in Item : x.kind = "request" /\ x.conn = c}
Answers(c) == {x \in Out : x.cmd = "s" /\ x.conn = c}
Busy(c) == {h \in Handles : job[h] \in Asks(c)}

\* Every request on its way and every answer that was queued is owed.
Debts ==
    /\ owed \in [Conns -> Int]
    /\ \A c \in Conns : /\ IsFiniteSet(Busy(c))
                        /\ Tally(rbuffer, Asks(c)) + Cardinality(Busy(c)) + Tally(sbuffer, Answers(c)) <= owed[c]

-----------------------------------------------------------------------------
(* Queues and the places they name. *)

\* An element at the end of a queue.
LEMMA AppendFacts ==
  ASSUME NEW S, NEW s \in Seq(S), NEW e \in S
  PROVE  /\ Append(s, e) \in Seq(S) /\ DOMAIN Append(s, e) = DOMAIN s \cup {Len(s) + 1}
         /\ Append(s, e)[Len(s) + 1] = e /\ \A i \in DOMAIN s : Append(s, e)[i] = s[i]
         /\ DOMAIN s = 1..Len(s) /\ Len(s) \in Nat
OBVIOUS

\* A queue without its first element.
LEMMA TailFacts ==
  ASSUME NEW S, NEW s \in Seq(S), s # <<>>
  PROVE  /\ Tail(s) \in Seq(S) /\ Head(s) \in S /\ Head(s) = s[1] /\ 1 \in DOMAIN s
         /\ DOMAIN Tail(s) = 1..(Len(s) - 1) /\ DOMAIN s = 1..Len(s) /\ Len(s) \in Nat \ {0}
         /\ \A i \in DOMAIN Tail(s) : Tail(s)[i] = s[i + 1] /\ i + 1 \in DOMAIN s
OBVIOUS

\* Two queues, one behind the other.
LEMMA ConcatFacts ==
  ASSUME NEW S, NEW s \in Seq(S), NEW t \in Seq(S)
  PROVE  /\ s \o t \in Seq(S) /\ Len(s) \in Nat /\ Len(t) \in Nat
         /\ DOMAIN s = 1..Len(s) /\ DOMAIN t = 1..Len(t) /\ DOMAIN (s \o t) = 1..(Len(s) + Len(t))
         /\ \A i \in DOMAIN s : (s \o t)[i] = s[i]
         /\ \A i \in DOMAIN (s \o t) : i \notin DOMAIN s => i - Len(s) \in DOMAIN t /\ (s \o t)[i] = t[i - Len(s)]
OBVIOUS

\* A function from 1 to n is a queue.
LEMMA IsQueue ==
  ASSUME NEW S, NEW n \in Nat, NEW f \in [1..n -> S]
  PROVE  f \in Seq(S) /\ Len(f) = n
<1>1. f \in Seq(S)
  OBVIOUS
<1>2. DOMAIN f = 1..n /\ DOMAIN f = 1..Len(f) /\ Len(f) \in Nat
  BY <1>1
<1> QED BY <1>1, <1>2

\* Nothing new is named but u, for c.
Names(c, u) == \A d \in Conns, q \in Places : Tie(d, q)' => Tie(d, q) \/ (d = c /\ q = u)

\* The first answer is taken off the send queue.
LEMMA ShorterQueue ==
  ASSUME NEW S, NEW s \in Seq(S), NEW t, t = s \/ (s # <<>> /\ t = Tail(s))
  PROVE  \A i \in DOMAIN t : \E j \in DOMAIN s : t[i] = s[j]
<1>1. CASE t = s
  BY <1>1
<1>2. CASE s # <<>> /\ t = Tail(s)
  <2>1. \A i \in DOMAIN t : t[i] = s[i + 1] /\ i + 1 \in DOMAIN s
    BY <1>2, TailFacts
  <2> QED BY <2>1
<1> QED BY <1>1, <1>2

LEMMA TiesBehind ==
  ASSUME Types, NEW e \in Item,
         rbuffer' = Append(rbuffer, e), UNCHANGED job,
         sbuffer' = sbuffer \/ (sbuffer # <<>> /\ sbuffer' = Tail(sbuffer))
  PROVE  Names(e.conn, e.uid)
<1>1. \A i \in DOMAIN rbuffer' : (i \in DOMAIN rbuffer /\ rbuffer'[i] = rbuffer[i]) \/ rbuffer'[i] = e
  BY AppendFacts DEF Types
<1>2. \A i \in DOMAIN sbuffer' : \E j \in DOMAIN sbuffer : sbuffer'[i] = sbuffer[j]
  BY ShorterQueue DEF Types
<1> QED BY <1>1, <1>2 DEF Tie, Names

\* New names are of a connection at its place, which is open or is closed in the step.
LEMMA TiedKept ==
  ASSUME ListInv, NEW c \in Conns, Names(c, uid[c]), UNCHANGED uid,
         (state' = state /\ state[c] = "open") \/ state' = [state EXCEPT ![c] = "closed"]
  PROVE  Tied'
<1>1. state'[c] \in {"open", "closed"}
  BY DEF ListInv, Types
<1>2. \A d \in Conns : state[d] \in {"open", "broken", "closed"} => state'[d] \in {"open", "broken", "closed"}
  BY DEF ListInv, Types
<1> QED BY <1>1, <1>2 DEF ListInv, Tied, Names

-----------------------------------------------------------------------------
(* The accept thread. *)

LEMMA AcceptInv ==
  ASSUME ListInv, NEW c \in Conns, Accept(c)
  PROVE  ListInv'
<1>0. /\ acc.pc = "idle" /\ state[c] = "asks"
      /\ UNCHANGED <<cur, free, vConn, uid, closing, unsent, net, rbuffer, job, sbuffer, notices>>
      /\ \/ state' = [state EXCEPT ![c] = "refused"] /\ UNCHANGED acc
         \/ /\ state' = [state EXCEPT ![c] = "made"] /\ acc' = [pc |-> "getUniqId", c |-> c]
            /\ ~(cur + 1 > MaxConns)
  BY DEF Accept
<1>a. Types /\ Tied /\ Entering /\ Leaving /\ Listed /\ FreeKept /\ Counts /\ Noticed /\ MaxConns \in Nat
  BY ServerAssumption DEF ListInv
<1>1. Types'
  <2>1. acc' \in [pc : {"idle", "getUniqId", "add", "increase", "register"}, c : Conns \cup {None}]
    BY <1>0, <1>a DEF Types
  <2>2. state' \in [Conns -> {"asks", "refused", "made", "open", "broken", "closed"}]
    BY <1>0, <1>a DEF Types
  <2> QED BY <2>1, <2>2, <1>0, <1>a DEF Types
<1>2. acc'.pc \in {"idle", "getUniqId"} /\ \A d \in Conns : d # c => state'[d] = state[d]
  BY <1>0, <1>a DEF Types
<1>3. \A d, q : Tie(d, q)' <=> Tie(d, q)
  BY <1>0 DEF Tie
<1>4. \A q \in Places : ~Tie(c, q)
  BY <1>0, <1>a DEF Tied
<1>5. Tied'
  BY <1>0, <1>2, <1>3, <1>4, <1>a DEF Tied
<1>6. Entering'
  BY <1>0, <1>2, <1>a DEF Entering, Types
<1>7. Leaving' /\ Listed'
  <2>2. \A d \in Conns : state[d] \in {"open", "broken"} <=> state'[d] \in {"open", "broken"}
    BY <1>0, <1>2, <1>a DEF Types
  <2>3. Leaving'
    BY <1>0, <1>2, <1>a DEF Leaving, Types
  <2>4. Listed'
    BY <1>0, <1>2, <2>2, <1>a DEF Listed, Types
  <2> QED BY <2>3, <2>4
<1>8. FreeKept' /\ Counts'
  BY <1>0, <1>2, <1>a DEF FreeKept, Counts, Taken, One
<1>9. Noticed'
  BY <1>0, <1>2, <1>a DEF Noticed, Types
<1> QED BY <1>1, <1>5, <1>6, <1>7, <1>8, <1>9 DEF ListInv

LEMMA GetUniqIdInv ==
  ASSUME ListInv, GetUniqId
  PROVE  ListInv'
<1> DEFINE c == acc.c
           p == Head(free)
<1>0. /\ acc.pc = "getUniqId" /\ free # <<>> /\ uid' = [uid EXCEPT ![c] = p]
      /\ free' = Tail(free) /\ acc' = [acc EXCEPT !.pc = "add"]
      /\ UNCHANGED <<cur, vConn, state, closing, unsent, net, rbuffer, job, sbuffer, notices>>
  BY DEF GetUniqId
<1>a. Types /\ Tied /\ Entering /\ Leaving /\ Listed /\ FreeKept /\ Counts /\ Noticed /\ MaxConns \in Nat
  BY ServerAssumption DEF ListInv
<1>1. c \in Conns /\ state[c] = "made" /\ acc'.pc = "add" /\ acc'.c = c /\ acc' \in [pc : {"idle", "getUniqId", "add", "increase", "register"}, c : Conns \cup {None}]
  BY <1>0, <1>a DEF Entering, Types
<1>2. /\ p \in Places /\ p = free[1] /\ Tail(free) \in Seq(Places) /\ 1 \in DOMAIN free
      /\ DOMAIN Tail(free) = 1..(Len(free) - 1) /\ DOMAIN free = 1..Len(free) /\ Len(free) \in Nat \ {0}
      /\ \A i \in DOMAIN Tail(free) : Tail(free)[i] = free[i + 1] /\ i + 1 \in DOMAIN free
  BY <1>0, <1>a, TailFacts DEF Types
<1> HIDE DEF p, c
<1>3. p \in 0..MaxConns
  BY <1>2, <1>a DEF Places
<1>4. uid'[c] = p /\ \A d \in Conns : d # c => uid'[d] = uid[d]
  BY <1>0, <1>1, <1>a DEF Types
<1>5. Types'
  BY <1>0, <1>1, <1>2, <1>3, <1>a DEF Types
<1>6. vConn[p] = None
  BY <1>2, <1>0, <1>a DEF FreeKept
<1>7. Tied'
  <2>1. \A d, q : Tie(d, q)' <=> Tie(d, q)
    BY <1>0 DEF Tie
  <2>2. \A q \in Places : ~Tie(c, q)
    BY <1>1, <1>a DEF Tied
  <2> QED BY <2>1, <2>2, <1>0, <1>1, <1>4, <1>a DEF Tied
<1>8. Entering'
  BY <1>0, <1>1, <1>2, <1>4, <1>6, <1>a DEF Entering
<1>9. \A q \in Places : vConn[q] # c
  BY <1>0, <1>1, <1>a, ServerAssumption DEF Listed, Leaving, c
<1>10. Leaving' /\ Listed'
  <2>1. Leaving'
    BY <1>0, <1>1, <1>4, <1>a DEF Leaving, Types
  <2>2. \A q \in Places : vConn[q] # None => vConn[q] \in Conns /\ uid'[vConn[q]] = uid[vConn[q]]
    BY <1>4, <1>9, <1>a DEF Types
  <2>3. Listed'
    BY <1>0, <1>1, <1>4, <2>2, <1>a DEF Listed
  <2> QED BY <2>1, <2>3
<1>11. FreeKept'
  <2>1. \A i, j \in DOMAIN free' : free'[i] = free'[j] => i = j
    BY <1>0, <1>2, <1>a DEF FreeKept
  <2>2. {free'[i] : i \in DOMAIN free'} = {free[i] : i \in DOMAIN free} \ {p}
    <3>1. \A i \in DOMAIN free' : free'[i] \in {free[j] : j \in DOMAIN free} /\ free'[i] # p
      BY <1>0, <1>2, <1>a DEF FreeKept
    <3>2. ASSUME NEW i \in DOMAIN free, free[i] # p PROVE free[i] \in {free'[j] : j \in DOMAIN free'}
      <4>1. i - 1 \in DOMAIN free' /\ free'[i - 1] = free[i]
        BY <3>2, <1>0, <1>2
      <4> QED BY <4>1
    <3> QED BY <3>1, <3>2
  <2> QED BY <2>1, <2>2, <1>0, <1>1, <1>4, <1>6, <1>a DEF FreeKept
<1>12. Counts' /\ Noticed'
  BY <1>0, <1>1, <1>a DEF Counts, Noticed, Taken, One
<1> QED BY <1>5, <1>7, <1>8, <1>10, <1>11, <1>12 DEF ListInv

\* The places taken are finitely many; one more or one less.
LEMMA TakenFacts ==
  ASSUME Types
  PROVE  /\ IsFiniteSet(Taken) /\ Cardinality(Taken) \in Nat
         /\ \A p \in Places : p \notin Taken => Cardinality(Taken \cup {p}) = Cardinality(Taken) + 1
         /\ \A p \in Taken : Cardinality(Taken \ {p}) = Cardinality(Taken) - 1
<1>1. IsFiniteSet(Places)
  BY FS_Interval, ServerAssumption DEF Places
<1>2. IsFiniteSet(Taken)
  BY <1>1, FS_Subset DEF Taken
<1>3. Cardinality(Taken) \in Nat
  BY <1>2, FS_CardinalityType
<1>4. \A p \in Places : p \notin Taken => Cardinality(Taken \cup {p}) = Cardinality(Taken) + 1
  BY <1>2, FS_AddElement
<1>5. \A p \in Taken : Cardinality(Taken \ {p}) = Cardinality(Taken) - 1
  BY <1>2, FS_RemoveElement
<1> QED BY <1>2, <1>3, <1>4, <1>5

LEMMA AddInv ==
  ASSUME ListInv, Add
  PROVE  ListInv'
<1> DEFINE c == acc.c
           p == uid[c]
<1>0. /\ acc.pc = "add" /\ vConn' = [vConn EXCEPT ![p] = c] /\ acc' = [acc EXCEPT !.pc = "increase"]
      /\ UNCHANGED <<cur, free, uid, state, closing, unsent, net, rbuffer, job, sbuffer, notices>>
  BY DEF Add
<1>a. Types /\ Tied /\ Entering /\ Leaving /\ Listed /\ FreeKept /\ Counts /\ Noticed /\ None \notin Conns
  BY ServerAssumption DEF ListInv
<1>1. /\ c \in Conns /\ state[c] = "made" /\ p \in Places /\ vConn[p] = None
      /\ acc'.pc = "increase" /\ acc'.c = c
      /\ acc' \in [pc : {"idle", "getUniqId", "add", "increase", "register"}, c : Conns \cup {None}]
  BY <1>0, <1>a DEF Entering, Types
<1>2. uid'[acc'.c] = p /\ uid[acc.c] = p
  BY <1>0, <1>1
<1> HIDE DEF p
<1>4. vConn'[p] = c /\ \A q \in Places : q # p => vConn'[q] = vConn[q]
  BY <1>0, <1>1, <1>a DEF Types
<1>5. Types'
  BY <1>0, <1>1, <1>a DEF Types
<1>6. Tied'
  <2>1. \A d, q : Tie(d, q)' <=> Tie(d, q)
    BY <1>0 DEF Tie
  <2> QED BY <2>1, <1>0, <1>a DEF Tied
<1>7. Entering'
  <2>1. uid'[acc'.c] \in Places /\ vConn'[uid'[acc'.c]] = acc'.c
    BY <1>1, <1>2, <1>4
  <2> QED BY <2>1, <1>0, <1>1, <1>a DEF Entering
<1>8. \A d \in Conns : uid[d] \in Places /\ vConn[uid[d]] = d => uid[d] # p
  BY <1>1, <1>a
<1>9. Leaving' /\ Listed'
  <2>1. Leaving'
    BY <1>0, <1>4, <1>8, <1>a DEF Leaving
  <2>2. \A q \in Places : q # p /\ vConn[q] # None => ~(acc.pc \in {"increase", "register"})
    BY <1>0
  <2>3. Listed'
    BY <1>0, <1>1, <1>2, <1>4, <1>8, <1>a DEF Listed
  <2> QED BY <2>1, <2>3
<1>10. FreeKept'
  BY <1>0, <1>1, <1>2, <1>4, <1>a DEF FreeKept
<1>11. Counts'
  <2>1. Taken' = Taken \cup {p} /\ p \notin Taken
    BY <1>1, <1>4, <1>a DEF Taken
  <2>2. Cardinality(Taken') = Cardinality(Taken) + 1 /\ Cardinality(Taken) \in Nat
    BY <2>1, <1>1, <1>a, TakenFacts
  <2> QED BY <2>2, <1>0, <1>1, <1>a DEF Counts, One
<1>12. Noticed'
  BY <1>0, <1>a DEF Noticed
<1> QED BY <1>5, <1>6, <1>7, <1>9, <1>10, <1>11, <1>12 DEF ListInv

LEMMA IncreaseInv ==
  ASSUME ListInv, IncreaseNowConnection
  PROVE  ListInv'
<1>0. /\ acc.pc = "increase" /\ cur' = cur + 1 /\ acc' = [acc EXCEPT !.pc = "register"]
      /\ UNCHANGED <<free, vConn, uid, state, closing, unsent, net, rbuffer, job, sbuffer, notices>>
  BY DEF IncreaseNowConnection
<1>a. Types /\ Tied /\ Entering /\ Leaving /\ Listed /\ FreeKept /\ Counts /\ Noticed
  BY DEF ListInv
<1>1. /\ acc'.pc = "register" /\ acc'.c = acc.c
      /\ acc' \in [pc : {"idle", "getUniqId", "add", "increase", "register"}, c : Conns \cup {None}]
  BY <1>0, <1>a DEF Types
<1>2. Types' /\ \A d, q : Tie(d, q)' <=> Tie(d, q)
  BY <1>0, <1>1, <1>a DEF Types, Tie
<1>3. Tied' /\ Entering'
  BY <1>0, <1>1, <1>2, <1>a DEF Tied, Entering
<1>4. Leaving' /\ Listed' /\ FreeKept' /\ Noticed'
  BY <1>0, <1>1, <1>a DEF Leaving, Listed, FreeKept, Noticed
<1>5. Counts'
  <2>1. Cardinality(Taken) \in Nat /\ Taken' = Taken
    BY <1>0, <1>a, TakenFacts DEF Taken
  <2> QED BY <2>1, <1>0, <1>1, <1>a DEF Counts, One
<1> QED BY <1>2, <1>3, <1>4, <1>5 DEF ListInv

LEMMA RegisterInv ==
  ASSUME ListInv, RegisterEvent
  PROVE  ListInv'
<1>0. /\ acc.pc = "register" /\ state' = [state EXCEPT ![acc.c] = IF @ = "made" THEN "open" ELSE @]
      /\ acc' = [pc |-> "idle", c |-> None]
      /\ UNCHANGED <<cur, free, vConn, uid, closing, unsent, net, rbuffer, job, sbuffer, notices>>
  BY DEF RegisterEvent
<1>a. Types /\ Tied /\ Entering /\ Leaving /\ Listed /\ FreeKept /\ Counts /\ Noticed
  BY DEF ListInv
<1>1. /\ acc.c \in Conns /\ uid[acc.c] \in Places
      /\ state[acc.c] = "made" => vConn[uid[acc.c]] = acc.c
      /\ state[acc.c] \in {"made", "closed"}
  BY <1>0, <1>a DEF Entering
<1>2. /\ state'[acc.c] = IF state[acc.c] = "made" THEN "open" ELSE "closed"
      /\ \A d \in Conns : d # acc.c => state'[d] = state[d]
  BY <1>0, <1>1, <1>a DEF Types
<1>3. Types' /\ \A d, q : Tie(d, q)' <=> Tie(d, q)
  BY <1>0, <1>1, <1>a DEF Types, Tie
<1>4. Tied' /\ Entering'
  BY <1>0, <1>1, <1>2, <1>3, <1>a DEF Tied, Entering
<1>5. Leaving'
  BY <1>0, <1>1, <1>2, <1>a DEF Leaving, Types
<1>6. Listed'
  BY <1>0, <1>1, <1>2, <1>a DEF Listed, Types
<1>7. FreeKept' /\ Counts' /\ Noticed'
  BY <1>0, <1>1, <1>2, <1>a DEF FreeKept, Counts, Noticed, Taken, One
<1> QED BY <1>3, <1>4, <1>5, <1>6, <1>7 DEF ListInv

-----------------------------------------------------------------------------
(* The network thread. *)

NetType == [pc : {"idle", "del", "decrease", "scan", "scanned"}, c : Conns \cup {None}, due : SUBSET Conns]

\* A connection of the list that may be deleted: one that is not being deleted, and
\* one that is still being entered only for an earlier holder of its place.
Deletable(c) ==
    /\ state[c] \in {"made", "open", "broken"} /\ uid[c] \in Places /\ vConn[uid[c]] = c
    /\ state[c] = "made" => /\ acc.pc \in {"increase", "register"}
                            /\ \E d \in Conns \ {c} : uid[d] = uid[c] /\ state[d] = "closed"

\* It is reported and closed, and will leave the list next.
LEMMA CloseInv ==
  ASSUME ListInv, NEW c \in Conns, Deletable(c), NoticeAndClose(c),
         UNCHANGED <<free, vConn, uid, acc, job>>,
         sbuffer' = sbuffer \/ (sbuffer # <<>> /\ sbuffer' = Tail(sbuffer)),
         net' \in NetType, net'.c = c, net'.due \subseteq net.due \ {c} \/ net'.pc = "del",
         \/ net.pc = "idle" /\ net'.pc = "del" /\ cur' = cur
         \/ net.pc = "scan" /\ net'.pc = "scanned" /\ cur' = cur - 1
  PROVE  ListInv'
<1>a. Types /\ Tied /\ Entering /\ Leaving /\ Listed /\ FreeKept /\ Counts /\ Noticed /\ None \notin Conns
  BY ServerAssumption DEF ListInv
<1> DEFINE e == [kind |-> "close", conn |-> c, uid |-> uid[c]]
<1>0. /\ rbuffer' = Append(rbuffer, e) /\ notices' = [notices EXCEPT ![c] = @ + 1]
      /\ state' = [state EXCEPT ![c] = "closed"]
      /\ closing' = closing \ {c} /\ unsent' = unsent \ {c}
  BY DEF NoticeAndClose
<1>1. uid[c] \in Places /\ vConn[uid[c]] = c
  BY DEF Deletable
<1>2. e \in Item /\ e.conn = c /\ e.uid = uid[c]
  BY <1>1 DEF Item
<1> HIDE DEF e
<1>3. state'[c] = "closed" /\ \A d \in Conns : d # c => state'[d] = state[d]
  BY <1>0, <1>a DEF Types
<1>4. Tied'
  <2>1. Names(c, uid[c])
    BY <1>0, <1>2, <1>a, TiesBehind
  <2> QED BY <2>1, <1>0, TiedKept
<1>5. Types'
  <2>1. rbuffer' \in Seq(Item)
    BY <1>0, <1>2, <1>a, AppendFacts DEF Types
  <2>2. sbuffer' \in Seq(Out)
    <3>1. sbuffer \in Seq(Out)
      BY <1>a DEF Types
    <3> QED BY <3>1, TailFacts
  <2>3. cur' \in Int
    BY <1>a DEF Types
  <2>4. state' \in [Conns -> {"asks", "refused", "made", "open", "broken", "closed"}] /\ notices' \in [Conns -> Nat]
    BY <1>0, <1>a DEF Types
  <2> QED BY <2>1, <2>2, <2>3, <2>4, <1>0, <1>a DEF Types, NetType
<1>6. Entering'
  <2>1. acc.pc = "getUniqId" => cur' < MaxConns
    BY <1>a, ServerAssumption DEF Entering, Types
  <2>2. state[c] = "made" => acc.c = c
    BY <1>a DEF Entering
  <2>3. CASE state[c] = "made"
    BY <2>1, <2>2, <2>3, <1>3, <1>a DEF Entering, Deletable
  <2>4. CASE state[c] # "made"
    <3>1. acc.pc # "idle" => acc.c # c
      BY <2>4, <1>a DEF Entering, Deletable
    <3> QED BY <2>1, <2>4, <3>1, <1>3, <1>a DEF Entering
  <2> QED BY <2>3, <2>4
<1>7. Leaving'
  BY <1>1, <1>3, <1>a DEF Leaving, NetType
<1>8. Listed'
  <2>1. \A d \in Conns : state'[d] \in {"open", "broken"} => state[d] \in {"open", "broken"}
    BY <1>3
  <2>2. net.pc \notin {"del", "scanned"} /\ net'.pc \in {"del", "scanned"}
    OBVIOUS
  <2> QED BY <2>1, <2>2, <1>1, <1>3, <1>a DEF Listed, Types
<1>9. FreeKept'
  BY <1>a DEF FreeKept
<1>10. Counts'
  <2>1. Cardinality(Taken) \in Nat /\ Taken' = Taken
    BY <1>a, TakenFacts DEF Taken
  <2>2. CASE net.pc = "idle"
    BY <2>1, <2>2, <1>a DEF Counts, One
  <2>3. CASE net.pc = "scan"
    BY <2>1, <2>3, <1>a DEF Counts, One
  <2> QED BY <2>2, <2>3
<1>11. Noticed'
  BY <1>0, <1>3, <1>a DEF Noticed, Types, Deletable
<1> QED BY <1>4, <1>5, <1>6, <1>7, <1>8, <1>9, <1>10, <1>11 DEF ListInv

\* A registered connection may be deleted.
LEMMA LiveDeletable ==
  ASSUME ListInv, NEW c \in Conns, state[c] \in {"open", "broken"}
  PROVE  Deletable(c)
BY DEF ListInv, Listed, Deletable

\* What Delete does to the network thread.
LEMMA DeleteInv ==
  ASSUME ListInv, NEW c \in Conns, Deletable(c), net.pc = "idle", Delete(c),
         UNCHANGED <<cur, free, vConn, uid, acc, job>>,
         sbuffer' = sbuffer \/ (sbuffer # <<>> /\ sbuffer' = Tail(sbuffer))
  PROVE  ListInv'
<1>1. net' \in NetType /\ net'.c = c /\ net'.pc = "del"
  BY DEF Delete, ListInv, Types, NetType
<1> QED BY <1>1, CloseInv DEF Delete

\* The deleted connection leaves the list.
LEMMA ReleaseInv ==
  ASSUME ListInv, Release(net.c),
         UNCHANGED <<cur, uid, state, closing, unsent, acc, rbuffer, job, sbuffer, notices>>,
         net' \in NetType, net'.due = net.due,
         \/ net.pc = "del" /\ net'.pc = "decrease"
         \/ net.pc = "scanned" /\ net'.pc \in {"idle", "scan"}
  PROVE  ListInv'
<1>a. Types /\ Tied /\ Entering /\ Leaving /\ Listed /\ FreeKept /\ Counts /\ Noticed /\ None \notin Conns
  BY ServerAssumption DEF ListInv
<1> DEFINE c == net.c
           p == uid[c]
<1>0. vConn' = [vConn EXCEPT ![p] = None] /\ free' = Append(free, p)
  BY DEF Release
<1>1. c \in Conns /\ state[c] = "closed" /\ p \in Places /\ vConn[p] = c /\ uid[c] = p
  BY <1>a DEF Leaving
<1> HIDE DEF c, p
<1>2. vConn'[p] = None /\ \A q \in Places : q # p => vConn'[q] = vConn[q]
  BY <1>0, <1>1, <1>a DEF Types
<1>3. /\ acc.pc = "add" => uid[acc.c] # p
      /\ acc.pc \in {"increase", "register"} /\ state[acc.c] = "made" => uid[acc.c] # p
  BY <1>1, <1>a DEF Entering
<1>b. /\ Append(free, p) \in Seq(Places) /\ DOMAIN Append(free, p) = DOMAIN free \cup {Len(free) + 1}
      /\ Append(free, p)[Len(free) + 1] = p /\ \A i \in DOMAIN free : Append(free, p)[i] = free[i]
      /\ DOMAIN free = 1..Len(free) /\ Len(free) \in Nat
  BY <1>1, <1>a, AppendFacts DEF Types
<1>4. Types'
  <2>1. vConn' \in [Places -> Conns \cup {None}]
    BY <1>0, <1>a DEF Types
  <2> QED BY <2>1, <1>0, <1>b, <1>a DEF Types, NetType
<1>5. Tied'
  <2>1. \A d, q : Tie(d, q)' <=> Tie(d, q)
    BY DEF Tie
  <2> QED BY <2>1, <1>2, <1>a DEF Tied
<1>6. Entering'
  BY <1>2, <1>3, <1>a DEF Entering
<1>7. Leaving'
  BY <1>a DEF Leaving
<1>8. Listed'
  <2>1. \A d \in Conns : state[d] \in {"open", "broken"} => uid[d] # p
    BY <1>1, <1>a DEF Listed
  <2>2. \A q \in Places : vConn'[q] # None => vConn'[q] = vConn[q] /\ vConn[q] # c
    BY <1>1, <1>2, <1>a DEF Listed
  <2> QED BY <2>1, <2>2, <1>2, <1>a DEF Listed, c
<1>9. FreeKept'
  <2>1. p \notin {free[i] : i \in DOMAIN free}
    BY <1>1, <1>a DEF FreeKept
  <2>2. \A i, j \in DOMAIN free' : free'[i] = free'[j] => i = j
    BY <2>1, <1>0, <1>b, <1>a DEF FreeKept
  <2>3. {free'[i] : i \in DOMAIN free'} = {free[i] : i \in DOMAIN free} \cup {p}
    BY <1>0, <1>b
  <2> QED BY <2>2, <2>3, <1>2, <1>3, <1>a DEF FreeKept
<1>10. Counts'
  <2>1. Taken' = Taken \ {p} /\ p \in Taken
    BY <1>1, <1>2, <1>a DEF Taken
  <2>2. Cardinality(Taken') = Cardinality(Taken) - 1 /\ Cardinality(Taken) \in Nat
    BY <2>1, <1>a, TakenFacts
  <2> QED BY <2>2, <1>a DEF Counts, One
<1>11. Noticed'
  BY <1>a DEF Noticed
<1> QED BY <1>4, <1>5, <1>6, <1>7, <1>8, <1>9, <1>10, <1>11 DEF ListInv

\* The network thread goes on and touches neither the list nor a queue.
LEMMA DecreaseInv ==
  ASSUME ListInv, DecreaseNowConnection \/ \E expired \in SUBSET Conns : CheckTimeout(expired)
  PROVE  ListInv'
<1>a. Types /\ Tied /\ Entering /\ Leaving /\ Listed /\ FreeKept /\ Counts /\ Noticed /\ None \notin Conns
  BY ServerAssumption DEF ListInv
<1>0. /\ UNCHANGED <<free, vConn, uid, state, closing, unsent, acc, rbuffer, job, sbuffer, notices>>
      /\ net' \in NetType
      /\ \/ net.pc = "decrease" /\ cur' = cur - 1 /\ net'.pc = "idle"
         \/ net.pc = "idle" /\ cur' = cur /\ net'.pc = "scan" /\ \A c \in net'.due : state[c] \in {"open", "broken"}
  BY <1>a DEF DecreaseNowConnection, CheckTimeout, Types, NetType
<1>1. Types' /\ Tied'
  <2>1. \A d, q : Tie(d, q)' <=> Tie(d, q)
    BY <1>0 DEF Tie
  <2>2. cur' \in Int
    BY <1>0, <1>a DEF Types
  <2> QED BY <2>1, <2>2, <1>0, <1>a DEF Types, NetType, Tied
<1>2. Entering'
  <2>1. acc.pc = "getUniqId" => cur' < MaxConns
    BY <1>0, <1>a, ServerAssumption DEF Entering, Types
  <2> QED BY <2>1, <1>0, <1>a DEF Entering
<1>3. Leaving' /\ Listed' /\ FreeKept' /\ Noticed'
  BY <1>0, <1>a DEF Leaving, Listed, FreeKept, Noticed
<1>4. Counts'
  <2>1. Cardinality(Taken) \in Nat /\ Taken' = Taken
    BY <1>0, <1>a, TakenFacts DEF Taken
  <2>2. CASE net.pc = "idle"
    BY <2>1, <2>2, <1>0, <1>a DEF Counts, One
  <2>3. CASE net.pc = "decrease"
    BY <2>1, <2>3, <1>0, <1>a DEF Counts, One
  <2> QED BY <2>2, <2>3, <1>0
<1> QED BY <1>1, <1>2, <1>3, <1>4 DEF ListInv

\* Only the queues and what is unsent change.
LEMMA QueuesInv ==
  ASSUME ListInv, Tied',
         rbuffer' \in Seq(Item), job' \in [Handles -> Item \cup {None}], sbuffer' \in Seq(Out),
         closing' \subseteq unsent' /\ unsent' \subseteq Conns,
         UNCHANGED <<cur, free, vConn, uid, state, acc, net, notices>>
  PROVE  ListInv'
<1>2. Types' /\ Entering' /\ Leaving' /\ Listed' /\ FreeKept' /\ Noticed'
  BY DEF ListInv, Types, Entering, Leaving, Listed, FreeKept, Noticed
<1>3. Counts'
  BY DEF ListInv, Counts, Taken, One
<1> QED BY <1>2, <1>3 DEF ListInv

LEMMA InputInv ==
  ASSUME ListInv, NEW c \in Conns, NEW n \in 1..MaxRequests, NEW kind \in {"request", "oneway"}, Input(c, n, kind)
  PROVE  ListInv'
<1>a. Types /\ Listed
  BY DEF ListInv
<1>0. /\ state[c] = "open"
      /\ UNCHANGED <<cur, free, vConn, uid, state, closing, unsent, acc, net, job, sbuffer, notices>>
  BY DEF Input
<1> DEFINE e == [kind |-> kind, conn |-> c, uid |-> uid[c]]
           t == [i \in 1..n |-> e]
<1>1. uid[c] \in Places
  BY <1>0, <1>a DEF Listed
<1>2. e \in Item /\ e.conn = c /\ e.uid = uid[c]
  BY <1>1 DEF Item
<1> HIDE DEF e
<1>3. n \in Nat /\ t \in [1..n -> Item]
  BY <1>2, ServerAssumption
<1>4. t \in Seq(Item) /\ \A i \in DOMAIN t : t[i] = e
  BY <1>3, IsQueue
<1>5. rbuffer' = rbuffer \/ rbuffer' = rbuffer \o t
  BY DEF Input, e
<1> HIDE DEF t
<1>6. rbuffer' \in Seq(Item) /\ \A i \in DOMAIN rbuffer' : (i \in DOMAIN rbuffer /\ rbuffer'[i] = rbuffer[i]) \/ rbuffer'[i] = e
  <2>1. rbuffer \in Seq(Item)
    BY <1>a DEF Types
  <2>2. CASE rbuffer' = rbuffer
    BY <2>1, <2>2
  <2>3. CASE rbuffer' = rbuffer \o t
    BY <2>1, <2>3, <1>4, ConcatFacts
  <2> QED BY <2>2, <2>3, <1>5
<1>7. Names(c, uid[c])
  BY <1>0, <1>2, <1>6 DEF Names, Tie
<1>8. Tied'
  BY <1>0, <1>7, TiedKept
<1> QED BY <1>0, <1>6, <1>8, <1>a, QueuesInv DEF Types

\* What the first element of the send queue finds: the connection it was queued for, or
\* one that has the place of that connection, which is closed.
LEMMA PipeFacts ==
  ASSUME ListInv, net.pc = "idle", sbuffer # <<>>, NEW sc, sc = Head(sbuffer),
         NEW c, c = vConn[sc.uid], c # None
  PROVE  /\ sc \in Out /\ c \in Conns /\ sc.conn \in Conns /\ Deletable(c)
         /\ uid[c] = uid[sc.conn] /\ (c # sc.conn => state[sc.conn] = "closed")
<1>a. Types /\ Tied /\ Entering /\ Leaving /\ Listed
  BY DEF ListInv
<1>1. sbuffer \in Seq(Out)
  BY <1>a DEF Types
<1>2. sc \in Out /\ sc = sbuffer[1] /\ 1 \in DOMAIN sbuffer
  BY <1>1, TailFacts
<1>3. sc.conn \in Conns /\ sc.uid \in Places /\ Tie(sc.conn, sc.uid)
  BY <1>2 DEF Out, Tie
<1>4. uid[sc.conn] = sc.uid /\ state[sc.conn] \in {"open", "broken", "closed"}
  BY <1>3, <1>a DEF Tied
<1>5. /\ c \in Conns /\ uid[c] = sc.uid
      /\ \/ state[c] \in {"open", "broken"}
         \/ acc.pc \in {"increase", "register"} /\ acc.c = c /\ state[c] = "made"
  BY <1>3, <1>a DEF Listed, Types
<1>6. c # sc.conn => state[sc.conn] = "closed"
  BY <1>3, <1>4, <1>5, <1>a DEF Listed
<1>7. state[c] = "made" => c # sc.conn
  BY <1>4
<1>8. Deletable(c)
  BY <1>3, <1>4, <1>5, <1>6, <1>7 DEF Deletable
<1> QED BY <1>2, <1>3, <1>4, <1>5, <1>6, <1>8

\* A send that throws closes the socket and leaves the connection in the list.
LEMMA BreakInv ==
  ASSUME ListInv, NEW c \in Conns, state[c] = "open", state' = [state EXCEPT ![c] = "broken"],
         sbuffer # <<>>, sbuffer' = Tail(sbuffer),
         UNCHANGED <<cur, free, vConn, uid, acc, job, closing, unsent, net, rbuffer, notices>>
  PROVE  ListInv'
<1>a. Types /\ Tied /\ Entering /\ Leaving /\ Listed /\ FreeKept /\ Counts /\ Noticed /\ sbuffer \in Seq(Out)
  BY DEF ListInv, Types
<1>1. state'[c] = "broken" /\ \A d \in Conns : d # c => state'[d] = state[d]
  BY <1>a DEF Types
<1>2. Types'
  <2>1. sbuffer' \in Seq(Out) /\ state' \in [Conns -> {"asks", "refused", "made", "open", "broken", "closed"}]
    BY <1>a, TailFacts DEF Types
  <2> QED BY <2>1, <1>a DEF Types
<1>3. Tied'
  <2>1. \A i \in DOMAIN sbuffer' : \E j \in DOMAIN sbuffer : sbuffer'[i] = sbuffer[j]
    BY <1>a, TailFacts
  <2>2. \A e \in Conns, q \in Places : Tie(e, q)' => Tie(e, q)
    BY <2>1 DEF Tie
  <2> QED BY <2>2, <1>1, <1>a DEF Tied
<1>4. Entering'
  BY <1>1, <1>a DEF Entering
<1>5. Leaving'
  BY <1>1, <1>a DEF Leaving, Types
<1>6. Listed'
  BY <1>1, <1>a DEF Listed, Types
<1>7. FreeKept' /\ Counts' /\ Noticed'
  BY <1>1, <1>a DEF FreeKept, Counts, Noticed, Taken, One
<1> QED BY <1>2, <1>3, <1>4, <1>5, <1>6, <1>7 DEF ListInv

LEMMA PipeInv ==
  ASSUME ListInv, ProcessPipe
  PROVE  ListInv'
<1> DEFINE sc == Head(sbuffer)
           c == vConn[sc.uid]
<1>a. Types /\ sbuffer \in Seq(Out)
  BY DEF ListInv, Types
<1>0. /\ net.pc = "idle" /\ sbuffer # <<>> /\ sbuffer' = Tail(sbuffer)
      /\ UNCHANGED <<cur, free, vConn, uid, acc, job>>
      /\ \/ UNCHANGED <<state, closing, unsent, net, rbuffer, notices>>
         \/ c # None /\ UNCHANGED <<state, unsent, net, rbuffer, notices>> /\ closing' = closing \cup {c} /\ c \in unsent
         \/ c # None /\ UNCHANGED <<state, closing, net, rbuffer, notices>> /\ unsent' = unsent \cup {c}
         \/ /\ c # None /\ state[c] = "open" /\ state' = [state EXCEPT ![c] = "broken"]
            /\ UNCHANGED <<closing, unsent, net, rbuffer, notices>>
         \/ c # None /\ Delete(c)
  BY DEF ProcessPipe
<1>1. c # None => c \in Conns /\ Deletable(c)
  BY <1>0, PipeFacts
<1> HIDE DEF c, sc
<1>2. CASE c # None /\ Delete(c)
  BY <1>0, <1>1, <1>2, DeleteInv
<1>3. CASE /\ c # None /\ state[c] = "open" /\ state' = [state EXCEPT ![c] = "broken"]
           /\ UNCHANGED <<closing, unsent, net, rbuffer, notices>>
  BY <1>0, <1>1, <1>3, BreakInv
<1>4. CASE /\ UNCHANGED <<state, net, rbuffer, notices>>
           /\ \/ UNCHANGED <<closing, unsent>>
              \/ c # None /\ UNCHANGED unsent /\ closing' = closing \cup {c} /\ c \in unsent
              \/ c # None /\ UNCHANGED closing /\ unsent' = unsent \cup {c}
  <2>1. closing' \subseteq unsent' /\ unsent' \subseteq Conns
    BY <1>1, <1>4, <1>a DEF Types
  <2>2. sbuffer' \in Seq(Out)
    BY <1>0, <1>a, TailFacts
  <2>3. \A i \in DOMAIN sbuffer' : \E j \in DOMAIN sbuffer : sbuffer'[i] = sbuffer[j]
    BY <1>0, <1>a, TailFacts
  <2>4. \A e \in Conns, q \in Places : Tie(e, q)' => Tie(e, q)
    BY <2>3, <1>0, <1>4 DEF Tie
  <2>5. Tied'
    BY <2>4, <1>0, <1>4 DEF ListInv, Tied
  <2> QED BY <2>1, <2>2, <2>5, <1>0, <1>4, <1>a, QueuesInv DEF Types
<1> QED BY <1>0, <1>2, <1>3, <1>4

LEMMA OutputInv ==
  ASSUME ListInv, NEW c \in Conns, Output(c) \/ HangUp(c)
  PROVE  ListInv'
<1>a. Types
  BY DEF ListInv
<1>0. /\ net.pc = "idle" /\ state[c] = "open" /\ UNCHANGED <<cur, free, vConn, uid, acc, job, sbuffer>>
      /\ \/ Delete(c)
         \/ c \notin closing /\ unsent' = unsent \ {c} /\ UNCHANGED <<state, closing, net, rbuffer, notices>>
  BY DEF Output, HangUp
<1>1. CASE Delete(c)
  BY <1>0, <1>1, LiveDeletable, DeleteInv
<1>2. CASE ~Delete(c)
  <2>1. Names(c, uid[c])
    BY <1>0, <1>2 DEF Names, Tie
  <2>2. Tied'
    BY <2>1, <1>0, <1>2, TiedKept
  <2> QED BY <2>2, <1>0, <1>2, <1>a, QueuesInv DEF Types
<1> QED BY <1>1, <1>2

LEMMA ScanInv ==
  ASSUME ListInv, Del \/ ScanClose \/ ScanDel
  PROVE  ListInv'
<1>a. Types /\ Leaving
  BY DEF ListInv
<1>1. CASE Del
  <2>1. net' \in NetType /\ net'.due = net.due /\ net'.pc = "decrease"
    BY <1>1, <1>a DEF Del, Types, NetType
  <2> QED BY <2>1, <1>1, ReleaseInv DEF Del
<1>2. CASE ScanDel
  <2>1. net' \in NetType /\ net'.due = net.due /\ net'.pc \in {"idle", "scan"}
    BY <1>2, <1>a DEF ScanDel, Types, NetType
  <2> QED BY <2>1, <1>2, ReleaseInv DEF ScanDel
<1>3. CASE ScanClose
  <2>1. PICK c \in net.due : NoticeAndClose(c) /\ net' = [net EXCEPT !.pc = "scanned", !.c = c, !.due = @ \ {c}]
    BY <1>3 DEF ScanClose
  <2>2. c \in Conns /\ Deletable(c)
    BY <1>3, <1>a, LiveDeletable DEF ScanClose, Types, Leaving
  <2>3. net' \in NetType /\ net'.c = c /\ net'.due = net.due \ {c} /\ net'.pc = "scanned"
    BY <2>1, <2>2, <1>a DEF Types, NetType
  <2> QED BY <2>1, <2>2, <2>3, <1>3, CloseInv DEF ScanClose
<1> QED BY <1>1, <1>2, <1>3

-----------------------------------------------------------------------------
(* The handle threads. *)

\* What Sends can hold.
LEMMA SendsFacts ==
  ASSUME NEW kind \in {"request", "oneway", "close"}, NEW cmds \in Sends(kind)
  PROVE  /\ Len(cmds) \in 0..2 /\ DOMAIN cmds = 1..Len(cmds)
         /\ \A i \in DOMAIN cmds : cmds[i] \in {"s", "c"}
         /\ \A i \in DOMAIN cmds : cmds[i] = "s" => i = 1 /\ kind = "request"
<1>1. cmds \in {<<>>, <<"s">>, <<"c">>, <<"s", "c">>}
  BY DEF Sends
<1>2. cmds \in {<<"s">>, <<"s", "c">>} => kind = "request"
  BY DEF Sends
<1>3. CASE cmds = <<>>
  BY <1>3
<1>4. CASE cmds = <<"s">>
  BY <1>2, <1>4
<1>5. CASE cmds = <<"c">>
  BY <1>5
<1>6. CASE cmds = <<"s", "c">>
  BY <1>2, <1>6
<1> QED BY <1>1, <1>3, <1>4, <1>5, <1>6

LEMMA PopInv ==
  ASSUME ListInv, NEW h \in Handles, Pop(h)
  PROVE  ListInv'
<1>a. Types /\ rbuffer \in Seq(Item)
  BY DEF ListInv, Types
<1>0. /\ job[h] = None /\ rbuffer # <<>> /\ job' = [job EXCEPT ![h] = Head(rbuffer)] /\ rbuffer' = Tail(rbuffer)
      /\ UNCHANGED <<cur, free, vConn, uid, state, closing, unsent, acc, net, sbuffer, notices>>
  BY DEF Pop
<1>1. Head(rbuffer) \in Item /\ Head(rbuffer) = rbuffer[1] /\ 1 \in DOMAIN rbuffer /\ rbuffer' \in Seq(Item)
  BY <1>0, <1>a, TailFacts
<1>2. \A i \in DOMAIN rbuffer' : \E j \in DOMAIN rbuffer : rbuffer'[i] = rbuffer[j]
  BY <1>0, <1>a, TailFacts
<1>3. job' \in [Handles -> Item \cup {None}] /\ \A k \in Handles : job'[k] = job[k] \/ job'[k] = rbuffer[1]
  BY <1>0, <1>1, <1>a DEF Types
<1>4. \A e \in Conns, q \in Places : Tie(e, q)' => Tie(e, q)
  BY <1>0, <1>1, <1>2, <1>3 DEF Tie
<1>5. Tied'
  BY <1>0, <1>4 DEF ListInv, Tied
<1> QED BY <1>0, <1>1, <1>3, <1>5, <1>a, QueuesInv DEF Types

\* What a handle thread puts in the send queue.
LEMMA HandleFacts ==
  ASSUME Types, NEW h \in Handles, Handle(h)
  PROVE  \E t \in Seq(Out) :
            /\ sbuffer' = sbuffer \o t
            /\ \A i \in DOMAIN t : /\ t[i].conn = job[h].conn /\ t[i].uid = job[h].uid
                                   /\ t[i].cmd = "s" => i = 1 /\ job[h].kind = "request"
<1>0. job[h] \in Item
  BY DEF Handle, Types
<1>1. PICK cmds \in Sends(job[h].kind) : sbuffer' = sbuffer \o [i \in DOMAIN cmds |->
                      [cmd |-> cmds[i], conn |-> job[h].conn, uid |-> job[h].uid]]
  BY DEF Handle
<1>2. job[h].kind \in {"request", "oneway", "close"} /\ job[h].conn \in Conns /\ job[h].uid \in Places
  BY <1>0 DEF Item
<1>3. PICK n \in Nat : /\ DOMAIN cmds = 1..n
                       /\ \A i \in 1..n : cmds[i] \in {"s", "c"} /\ (cmds[i] = "s" => i = 1 /\ job[h].kind = "request")
  <2>1. Len(cmds) \in 0..2
    BY <1>2, SendsFacts
  <2> QED BY <2>1, <1>2, SendsFacts
<1> DEFINE r(i) == [cmd |-> cmds[i], conn |-> job[h].conn, uid |-> job[h].uid]
           t == [i \in 1..n |-> r(i)]
<1>4. sbuffer' = sbuffer \o t
  BY <1>1, <1>3
<1>5. \A i \in 1..n : /\ r(i) \in Out /\ r(i).conn = job[h].conn /\ r(i).uid = job[h].uid
                      /\ r(i).cmd = "s" => i = 1 /\ job[h].kind = "request"
  BY <1>2, <1>3 DEF Out
<1> HIDE DEF r
<1>6. t \in [1..n -> Out]
  BY <1>5
<1>7. \A i \in DOMAIN t : i \in 1..n /\ t[i] = r(i)
  OBVIOUS
<1> HIDE DEF t
<1>8. t \in Seq(Out)
  BY <1>6, IsQueue
<1> QED BY <1>4, <1>5, <1>7, <1>8

LEMMA HandleInv ==
  ASSUME ListInv, NEW h \in Handles, Handle(h)
  PROVE  ListInv'
<1>a. Types /\ sbuffer \in Seq(Out)
  BY DEF ListInv, Types
<1>0. /\ job[h] # None /\ job' = [job EXCEPT ![h] = None]
      /\ UNCHANGED <<cur, free, vConn, uid, state, closing, unsent, acc, net, rbuffer, notices>>
  BY DEF Handle
<1>1. PICK t \in Seq(Out) : /\ sbuffer' = sbuffer \o t
                            /\ \A i \in DOMAIN t : t[i].conn = job[h].conn /\ t[i].uid = job[h].uid
  BY <1>a, HandleFacts
<1>2. /\ sbuffer' \in Seq(Out)
      /\ \A i \in DOMAIN sbuffer' : \/ i \in DOMAIN sbuffer /\ sbuffer'[i] = sbuffer[i]
                                    \/ sbuffer'[i].conn = job[h].conn /\ sbuffer'[i].uid = job[h].uid
  BY <1>1, <1>a, ConcatFacts
<1>3. job' \in [Handles -> Item \cup {None}] /\ \A k \in Handles : job'[k] = job[k] \/ job'[k] = None
  BY <1>0, <1>a DEF Types
<1>4. \A e \in Conns, q \in Places : Tie(e, q)' => Tie(e, q)
  BY <1>0, <1>2, <1>3 DEF Tie
<1>5. Tied'
  BY <1>0, <1>4 DEF ListInv, Tied
<1> QED BY <1>0, <1>2, <1>3, <1>5, <1>a, QueuesInv DEF Types

-----------------------------------------------------------------------------
(* The invariance of ListInv and what follows from it. *)

\* Nobody is connected, every place is free and nothing is queued.
LEMMA InitInv ==
  ASSUME Init
  PROVE  ListInv
<1>1. free \in Seq(Places) /\ DOMAIN free = Places /\ \A i \in Places : free[i] = i
  BY IsQueue, ServerAssumption DEF Init, Places
<1>2. Taken = {} /\ Cardinality(Taken) = 0
  BY FS_EmptySet DEF Init, Taken
<1>3. Types
  <2>1. rbuffer \in Seq(Item) /\ sbuffer \in Seq(Out)
    BY DEF Init
  <2>2. 0 \in 0..MaxConns
    BY ServerAssumption
  <2> QED BY <2>1, <2>2, <1>1 DEF Init, Types
<1>4. Tied
  <2>1. DOMAIN rbuffer = {} /\ DOMAIN sbuffer = {}
    BY DEF Init
  <2> QED BY <2>1 DEF Init, Tied, Tie
<1>5. Entering /\ Leaving /\ Listed /\ Noticed
  BY DEF Init, Entering, Leaving, Listed, Noticed
<1>6. FreeKept
  BY <1>1 DEF Init, FreeKept
<1>7. Counts
  BY <1>2 DEF Init, Counts, One
<1> QED BY <1>3, <1>4, <1>5, <1>6, <1>7 DEF ListInv

LEMMA StepInv ==
  ASSUME ListInv, [Next]_vars
  PROVE  ListInv'
<1>1. CASE UNCHANGED vars
  <2>1. UNCHANGED <<cur, free, vConn, uid, state, closing, unsent, acc, net, rbuffer, job, sbuffer, notices>>
    BY <1>1 DEF vars
  <2>2. \A d, q : Tie(d, q)' <=> Tie(d, q)
    BY <2>1 DEF Tie
  <2>3. Tied' /\ Types' /\ Entering' /\ Leaving' /\ Listed'
    BY <2>1, <2>2 DEF ListInv, Tied, Types, Entering, Leaving, Listed
  <2>4. FreeKept' /\ Counts' /\ Noticed'
    BY <2>1 DEF ListInv, FreeKept, Counts, Noticed, Taken, One
  <2> QED BY <2>3, <2>4 DEF ListInv
<1>2. CASE \E c \in Conns : Accept(c) \/ HangUp(c) \/ Output(c)
  BY <1>2, AcceptInv, OutputInv
<1>3. CASE \E c \in Conns, n \in 1..MaxRequests, kind \in {"request", "oneway"} : Input(c, n, kind)
  BY <1>3, InputInv
<1>4. CASE \E expired \in SUBSET Conns : CheckTimeout(expired)
  BY <1>4, DecreaseInv
<1>5. CASE AcceptStep
  BY <1>5, GetUniqIdInv, AddInv, IncreaseInv, RegisterInv DEF AcceptStep
<1>6. CASE NetStep
  BY <1>6, ScanInv, DecreaseInv, PipeInv DEF NetStep
<1>7. CASE \E h \in Handles : Pop(h) \/ Handle(h)
  BY <1>7, PopInv, HandleInv
<1> QED BY <1>1, <1>2, <1>3, <1>4, <1>5, <1>6, <1>7 DEF Next

LEMMA ListKept == Spec => []ListInv
<1>1. Init => ListInv
  BY InitInv
<1>2. ListInv /\ [Next]_vars => ListInv'
  BY StepInv
<1> QED BY <1>1, <1>2, PTL DEF Spec

(* The accept thread, having passed the unlocked test of the limit, always *)
(* finds a free place, so that the assertion of getUniqId cannot fail, and *)
(* the place stays its own until the connection is registered, unless      *)
(* something queued for its earlier holder deletes the connection.         *)
THEOREM AcceptNeverFails == Spec => []AcceptSafe
<1>1. ASSUME ListInv PROVE AcceptSafe
  <2>a. Types /\ Entering /\ FreeKept /\ Counts
    BY <1>1 DEF ListInv
  <2>1. ASSUME acc.pc = "getUniqId", ~Locked, free = <<>> PROVE FALSE
    <3>1. DOMAIN free = {}
      BY <2>1
    <3>2. Taken = Places
      BY <3>1, <2>1, <2>a DEF FreeKept, Taken
    <3>3. Cardinality(Taken) = MaxConns
      BY <3>2, FS_Interval, ServerAssumption DEF Places
    <3>4. MaxConns <= cur /\ cur < MaxConns
      BY <3>3, <2>1, <2>a, ServerAssumption DEF Counts, One, Locked, Entering
    <3> QED BY <3>4, <2>a, ServerAssumption DEF Types
  <2> QED BY <2>1, <2>a DEF AcceptSafe, Entering
<1> QED BY <1>1, ListKept, PTL

\* Whoever gets a stray answer has been registered.
StrayInv ==
    \A r \in strays :
        /\ r \in Conns \X Conns /\ uid[r[1]] = uid[r[2]]
        /\ state[r[1]] = "closed" /\ state[r[2]] \in {"open", "broken", "closed"}

\* A closed connection stays closed, and keeps its number; so does a registered one.
LEMMA RegisteredStays ==
  ASSUME ListInv, [Next]_vars, NEW c \in Conns, state[c] \in {"open", "broken", "closed"}
  PROVE  /\ uid'[c] = uid[c] /\ state'[c] \in {"open", "broken", "closed"}
         /\ state[c] = "closed" => state'[c] = "closed"
<1>a. Types /\ Entering
  BY DEF ListInv
<1>1. uid'[c] = uid[c]
  <2>1. CASE GetUniqId
    <3>1. uid' = [uid EXCEPT ![acc.c] = Head(free)] /\ state[acc.c] = "made"
      BY <2>1, <1>a DEF GetUniqId, Entering
    <3> QED BY <3>1, <1>a DEF Types
  <2>2. CASE ~GetUniqId
    BY <2>2 DEF Next, vars, AcceptStep, NetStep, Accept, HangUp, Output, Input, CheckTimeout,
       Add, IncreaseNowConnection, RegisterEvent, Del, DecreaseNowConnection, ScanClose, ScanDel, ProcessPipe, Pop, Handle
  <2> QED BY <2>1, <2>2
<1>2. \/ UNCHANGED state
      \/ \E d \in Conns : state[d] = "asks" /\ \E v \in {"refused", "made"} : state' = [state EXCEPT ![d] = v]
      \/ \E d : state' = [state EXCEPT ![d] = "closed"]
      \/ \E d : state' = [state EXCEPT ![d] = IF @ = "made" THEN "open" ELSE @]
      \/ \E d : state[d] = "open" /\ state' = [state EXCEPT ![d] = "broken"]
  <2>1. CASE \E d \in Conns : Accept(d)
    BY <2>1 DEF Accept
  <2>2. CASE RegisterEvent
    BY <2>2 DEF RegisterEvent
  <2>3. CASE \/ \E d \in Conns : HangUp(d) \/ Output(d)
             \/ ScanClose
    BY <2>3 DEF HangUp, Output, ScanClose, Delete, NoticeAndClose
  <2>4. CASE ProcessPipe
    BY <2>4 DEF ProcessPipe, Delete, NoticeAndClose
  <2>5. CASE \/ UNCHANGED vars \/ GetUniqId \/ Add \/ IncreaseNowConnection \/ Del \/ DecreaseNowConnection \/ ScanDel
             \/ (\E d \in Conns, n \in 1..MaxRequests, kind \in {"request", "oneway"} : Input(d, n, kind))
             \/ (\E expired \in SUBSET Conns : CheckTimeout(expired)) \/ (\E h \in Handles : Pop(h) \/ Handle(h))
    BY <2>5 DEF vars, GetUniqId, Add, IncreaseNowConnection, Del, DecreaseNowConnection, ScanDel, Input, CheckTimeout, Pop, Handle
  <2> QED BY <2>1, <2>2, <2>3, <2>4, <2>5 DEF Next, AcceptStep, NetStep
<1>3. state'[c] \in {"open", "broken", "closed"} /\ (state[c] = "closed" => state'[c] = "closed")
  BY <1>2, <1>a DEF Types
<1> QED BY <1>1, <1>3

(* Numbers are places, and places are given again, so answers can go       *)
(* astray; but an answer that does was queued for a connection that has    *)
(* been closed, and goes to a connection that was given its place.         *)
THEOREM StraysShareAPlace == Spec => []StraysExplained
<1>1. Init => StrayInv
  BY DEF Init, StrayInv
<1>2. ASSUME ListInv, StrayInv, [Next]_vars PROVE StrayInv'
  <2>1. \A r \in strays : /\ r \in Conns \X Conns /\ uid'[r[1]] = uid'[r[2]]
                          /\ state'[r[1]] = "closed" /\ state'[r[2]] \in {"open", "broken", "closed"}
    <3> SUFFICES ASSUME NEW r \in strays
                 PROVE  /\ r \in Conns \X Conns /\ uid'[r[1]] = uid'[r[2]]
                        /\ state'[r[1]] = "closed" /\ state'[r[2]] \in {"open", "broken", "closed"}
      OBVIOUS
    <3>1. /\ r \in Conns \X Conns /\ r[1] \in Conns /\ r[2] \in Conns /\ uid[r[1]] = uid[r[2]]
          /\ state[r[1]] = "closed" /\ state[r[2]] \in {"open", "broken", "closed"}
      BY <1>2 DEF StrayInv
    <3> QED BY <3>1, <1>2, RegisteredStays
  <2>2. CASE ProcessPipe
    <3> DEFINE sc == Head(sbuffer)
               c == vConn[sc.uid]
    <3>1. \/ UNCHANGED strays
          \/ /\ c # None /\ net.pc = "idle" /\ sbuffer # <<>> /\ UNCHANGED <<state, uid>> /\ state[c] = "open"
             /\ c # sc.conn /\ strays' = strays \cup {<<sc.conn, c>>}
      BY <2>2 DEF ProcessPipe
    <3>2. CASE UNCHANGED strays
      BY <2>1, <3>2 DEF StrayInv
    <3>3. CASE ~UNCHANGED strays
      <4>0. net.pc = "idle" /\ sbuffer # <<>> /\ c # None /\ c # sc.conn
        BY <3>1, <3>3
      <4>1. c \in Conns /\ sc.conn \in Conns /\ uid[c] = uid[sc.conn] /\ state[sc.conn] = "closed"
        BY <4>0, <1>2, PipeFacts
      <4> HIDE DEF c, sc
      <4>2. UNCHANGED <<state, uid>> /\ state[c] = "open" /\ strays' = strays \cup {<<sc.conn, c>>}
        BY <3>1, <3>3
      <4> QED BY <2>1, <4>1, <4>2 DEF StrayInv
    <3> QED BY <3>2, <3>3
  <2>3. CASE ~ProcessPipe
    <3>1. UNCHANGED strays
      BY <1>2, <2>3 DEF Next, vars, AcceptStep, NetStep, Accept, HangUp, Output, Input, CheckTimeout, GetUniqId,
         Add, IncreaseNowConnection, RegisterEvent, Del, DecreaseNowConnection, ScanClose, ScanDel, Pop, Handle
    <3> QED BY <2>1, <3>1 DEF StrayInv
  <2> QED BY <2>2, <2>3
<1>3. StrayInv => StraysExplained
  BY DEF StrayInv, StraysExplained
<1> QED BY <1>1, <1>2, <1>3, ListKept, PTL DEF Spec

-----------------------------------------------------------------------------
(* What is owed: requests and answers in the queues, counted. *)

\* A queue holds finitely many elements of a kind.
LEMMA TallyType ==
  ASSUME NEW T, NEW s \in Seq(T), NEW S
  PROVE  IsFiniteSet(Matching(s, S)) /\ Tally(s, S) \in Nat
<1>1. IsFiniteSet(1..Len(s))
  BY FS_Interval
<1>2. IsFiniteSet(Matching(s, S))
  BY <1>1, FS_Subset DEF Matching
<1> QED BY <1>2, FS_CardinalityType DEF Tally

\* Without its first element a queue has one less of the kind of that element.
LEMMA TallyTail ==
  ASSUME NEW T, NEW s \in Seq(T), s # <<>>, NEW S
  PROVE  Tally(Tail(s), S) <= Tally(s, S) - One(Head(s) \in S)
<1> DEFINE A == Matching(Tail(s), S)
           B == Matching(s, S) \ {1}
           f == [i \in A |-> i + 1]
<1>1. IsFiniteSet(Matching(s, S)) /\ Tally(s, S) \in Nat
  BY TallyType
<1>2. /\ Len(Tail(s)) = Len(s) - 1 /\ Len(s) \in Nat \ {0} /\ Head(s) = s[1] /\ 1 \in 1..Len(s)
      /\ \A i \in 1..Len(Tail(s)) : Tail(s)[i] = s[i + 1] /\ i + 1 \in 1..Len(s)
  BY TailFacts
<1>3. \A i \in A : i \in Nat \ {0} /\ i + 1 \in B
  BY <1>2 DEF Matching
<1>4. IsFiniteSet(B) /\ Cardinality(B) = Cardinality(Matching(s, S)) - One(1 \in Matching(s, S))
  BY <1>1, FS_RemoveElement DEF One, Tally
<1>5. 1 \in Matching(s, S) <=> Head(s) \in S
  BY <1>2 DEF Matching
<1> HIDE DEF A, B
<1>6. f \in [A -> B] /\ \A a, b \in A : f[a] = f[b] => a = b
  BY <1>3
<1>7. f \in Injection(A, B)
  BY <1>6 DEF Injection, IsInjective
<1>8. Cardinality(A) <= Cardinality(B)
  BY <1>4, <1>7, FS_Injection
<1> QED BY <1>4, <1>5, <1>8 DEF Tally, A, One

\* Behind a queue come elements of which only the first k are of the kind.
LEMMA TallyBehind ==
  ASSUME NEW T, NEW s \in Seq(T), NEW t \in Seq(T), NEW S, NEW k \in Nat,
         \A i \in DOMAIN t : t[i] \in S => i <= k
  PROVE  Tally(s \o t, S) <= Tally(s, S) + k
<1> DEFINE n == Len(s)
           B == (n + 1)..(n + k)
           A == Matching(s, S)
           C == Matching(s \o t, S)
<1>1. IsFiniteSet(A) /\ Cardinality(A) \in Nat
  BY TallyType DEF Tally
<1>2. /\ n \in Nat /\ Len(t) \in Nat /\ s \o t \in Seq(T) /\ Len(s \o t) = n + Len(t)
      /\ DOMAIN s = 1..n /\ DOMAIN t = 1..Len(t)
      /\ \A i \in 1..n : (s \o t)[i] = s[i]
      /\ \A i \in 1..(n + Len(t)) : i \notin 1..n => i - n \in DOMAIN t /\ (s \o t)[i] = t[i - n]
  BY ConcatFacts
<1>3. C \subseteq A \cup B
  <2> SUFFICES ASSUME NEW i \in C, i \notin A PROVE i \in B
    OBVIOUS
  <2>1. i \in 1..(n + Len(t)) /\ i \notin 1..n /\ t[i - n] \in S /\ i - n \in DOMAIN t
    BY <1>2 DEF Matching
  <2>2. i - n <= k
    BY <2>1
  <2> QED BY <2>1, <2>2, <1>2
<1>4. IsFiniteSet(B) /\ Cardinality(B) = k
  <2>1. n + 1 \in Int /\ n + k \in Int
    BY <1>2
  <2> HIDE DEF n
  <2>2. IsFiniteSet(B) /\ Cardinality(B) = IF n + 1 > n + k THEN 0 ELSE (n + k) - (n + 1) + 1
    BY <2>1, FS_Interval
  <2> QED BY <2>2, <1>2
<1> HIDE DEF A, B, C
<1>5. IsFiniteSet(A \cup B) /\ Cardinality(A \cup B) <= Cardinality(A) + k
  <2>1. IsFiniteSet(A \cap B)
    BY <1>1, FS_Subset
  <2>2. Cardinality(A \cap B) \in Nat
    BY <2>1, FS_CardinalityType
  <2>3. IsFiniteSet(A \cup B) /\ Cardinality(A \cup B) = Cardinality(A) + Cardinality(B) - Cardinality(A \cap B)
    BY <1>1, <1>4, FS_Union
  <2> QED BY <2>2, <2>3, <1>1, <1>4
<1>6. Cardinality(C) <= Cardinality(A \cup B)
  BY <1>3, <1>5, FS_Subset
<1>7. Cardinality(C) \in Nat /\ Cardinality(A \cup B) \in Nat
  BY <1>3, <1>5, FS_Subset, FS_CardinalityType
<1> QED BY <1>1, <1>5, <1>6, <1>7 DEF Tally, A, C

\* An element of another kind at the end.
LEMMA TallyAppend ==
  ASSUME NEW T, NEW s \in Seq(T), NEW e \in T, NEW S, e \notin S
  PROVE  Tally(Append(s, e), S) = Tally(s, S)
<1>1. /\ Len(Append(s, e)) = Len(s) + 1 /\ Len(s) \in Nat
      /\ Append(s, e)[Len(s) + 1] = e /\ \A i \in 1..Len(s) : Append(s, e)[i] = s[i]
  OBVIOUS
<1>2. Matching(Append(s, e), S) = Matching(s, S)
  BY <1>1 DEF Matching
<1> QED BY <1>2 DEF Tally

\* Numbers that are only compared.
LEMMA LoadType ==
  ASSUME Types, Debts, NEW c \in Conns
  PROVE  /\ Tally(rbuffer, Asks(c)) \in Nat /\ Cardinality(Busy(c)) \in Nat /\ Tally(sbuffer, Answers(c)) \in Nat
         /\ owed[c] \in Nat
<1>1. Tally(rbuffer, Asks(c)) \in Nat /\ Tally(sbuffer, Answers(c)) \in Nat
  BY TallyType DEF Types
<1>2. Cardinality(Busy(c)) \in Nat
  BY FS_CardinalityType DEF Debts
<1>3. owed[c] \in Int /\ Tally(rbuffer, Asks(c)) + Cardinality(Busy(c)) + Tally(sbuffer, Answers(c)) <= owed[c]
  BY DEF Debts
<1> QED BY <1>1, <1>2, <1>3

\* The network thread queues a close notice or not, and takes an answer off the send queue or not.
LEMMA CloseDebts ==
  ASSUME Types, Debts, Types', UNCHANGED <<job, owed>>,
         \/ UNCHANGED rbuffer
         \/ \E e \in Item : e.kind = "close" /\ rbuffer' = Append(rbuffer, e),
         sbuffer' = sbuffer \/ (sbuffer # <<>> /\ sbuffer' = Tail(sbuffer))
  PROVE  Debts'
<1>1. ASSUME NEW c \in Conns
      PROVE  /\ Tally(rbuffer', Asks(c)) = Tally(rbuffer, Asks(c))
             /\ Tally(sbuffer', Answers(c)) <= Tally(sbuffer, Answers(c))
  <2>a. rbuffer \in Seq(Item) /\ sbuffer \in Seq(Out) /\ Tally(sbuffer, Answers(c)) \in Nat
    BY LoadType DEF Types
  <2>1. UNCHANGED rbuffer => Tally(rbuffer', Asks(c)) = Tally(rbuffer, Asks(c))
    OBVIOUS
  <2>2. ASSUME NEW e \in Item, e.kind = "close", rbuffer' = Append(rbuffer, e)
        PROVE  Tally(rbuffer', Asks(c)) = Tally(rbuffer, Asks(c))
    <3>1. e \notin Asks(c)
      BY <2>2 DEF Asks
    <3> QED BY <3>1, <2>2, <2>a, TallyAppend
  <2>3. ASSUME sbuffer # <<>>, sbuffer' = Tail(sbuffer)
        PROVE  Tally(sbuffer', Answers(c)) <= Tally(sbuffer, Answers(c))
    <3>1. Tally(sbuffer', Answers(c)) <= Tally(sbuffer, Answers(c)) - One(Head(sbuffer) \in Answers(c))
      BY <2>3, <2>a, TallyTail
    <3>2. Tally(sbuffer', Answers(c)) \in Nat
      BY TallyType DEF Types
    <3> QED BY <3>1, <3>2, <2>a DEF One
  <2>4. Tally(sbuffer', Answers(c)) <= Tally(sbuffer, Answers(c))
    BY <2>3, <2>a
  <2> QED BY <2>1, <2>2, <2>4
<1>2. \A c \in Conns : Busy(c)' = Busy(c)
  BY DEF Busy
<1>3. \A c \in Conns : Tally(sbuffer', Answers(c)) \in Nat
  BY TallyType DEF Types
<1>4. ASSUME NEW c \in Conns
      PROVE  Tally(rbuffer', Asks(c)) + Cardinality(Busy(c)) + Tally(sbuffer', Answers(c)) <= owed[c]
  BY <1>1, <1>3, LoadType DEF Debts
<1> QED BY <1>2, <1>4 DEF Debts, Asks, Answers

LEMMA InputDebts ==
  ASSUME Types, Listed, Debts, Types',
         NEW c \in Conns, NEW n \in 1..MaxRequests, NEW kind \in {"request", "oneway"}, Input(c, n, kind)
  PROVE  Debts'
<1>0. UNCHANGED <<job, sbuffer>> /\ state[c] = "open" /\ n \in Nat
  BY ServerAssumption DEF Input
<1>1. CASE UNCHANGED <<rbuffer, owed>>
  BY <1>0, <1>1 DEF Debts, Busy, Asks, Answers
<1>2. CASE ~UNCHANGED <<rbuffer, owed>>
  <2> DEFINE e == [kind |-> kind, conn |-> c, uid |-> uid[c]]
             t == [i \in 1..n |-> e]
  <2>1. rbuffer' = rbuffer \o t /\ owed' = [owed EXCEPT ![c] = IF kind = "request" THEN @ + n ELSE @]
    BY <1>2 DEF Input
  <2>2. e \in Item /\ e.conn = c /\ e.kind = kind
    BY <1>0 DEF Listed, Item
  <2> HIDE DEF e
  <2>3. t \in [1..n -> Item] /\ DOMAIN t = 1..n /\ \A i \in DOMAIN t : t[i] = e
    BY <2>2
  <2> HIDE DEF t
  <2>4. t \in Seq(Item)
    BY <2>3, <1>0, IsQueue
  <2>5. ASSUME NEW d \in Conns
        PROVE  Tally(rbuffer', Asks(d)) + Cardinality(Busy(d)) + Tally(sbuffer, Answers(d)) <= owed'[d]
    <3> DEFINE k == IF d = c /\ kind = "request" THEN n ELSE 0
    <3>a. rbuffer \in Seq(Item) /\ rbuffer' \in Seq(Item)
      BY DEF Types
    <3>1. k \in Nat /\ \A i \in DOMAIN t : t[i] \in Asks(d) => i <= k
      BY <2>2, <2>3, <1>0 DEF Asks
    <3>2. owed'[d] = owed[d] + k
      BY <2>1, LoadType DEF Debts
    <3> HIDE DEF k
    <3>3. Tally(rbuffer', Asks(d)) <= Tally(rbuffer, Asks(d)) + k
      BY <3>1, <2>1, <2>4, <3>a, TallyBehind
    <3>4. Tally(rbuffer', Asks(d)) \in Nat
      BY <3>a, TallyType
    <3> QED BY <3>1, <3>2, <3>3, <3>4, LoadType DEF Debts
  <2>6. owed' \in [Conns -> Int]
    BY <2>1, <1>0 DEF Debts
  <2>7. \A d \in Conns : Busy(d)' = Busy(d)
    BY <1>0 DEF Busy
  <2> QED BY <2>5, <2>6, <2>7, <1>0 DEF Debts, Asks, Answers
<1> QED BY <1>1, <1>2
LEMMA PipeDebts ==
  ASSUME ListInv, Types', Debts, ProcessPipe
  PROVE  Debts'
<1> DEFINE sc == Head(sbuffer)
           c == vConn[sc.uid]
<1>0. /\ net.pc = "idle" /\ sbuffer # <<>> /\ sbuffer' = Tail(sbuffer) /\ UNCHANGED <<job, uid>>
      /\ \/ UNCHANGED <<rbuffer, owed>>
         \/ c # None /\ Delete(c) /\ UNCHANGED owed
         \/ c # None /\ sc.cmd = "s" /\ UNCHANGED rbuffer /\ owed' = [owed EXCEPT ![sc.conn] = @ - 1]
  BY DEF ProcessPipe
<1>a. Types /\ Listed /\ sbuffer \in Seq(Out) /\ sbuffer' \in Seq(Out)
  BY DEF ListInv, Types
<1>1. c # None => sc \in Out /\ c \in Conns /\ uid[c] \in Places /\ sc.conn \in Conns
  BY <1>0, PipeFacts DEF Deletable
<1> HIDE DEF c, sc
<1>2. CASE UNCHANGED <<rbuffer, owed>>
  BY <1>0, <1>2, <1>a, CloseDebts
<1>3. CASE c # None /\ Delete(c) /\ UNCHANGED owed
  <2>1. [kind |-> "close", conn |-> c, uid |-> uid[c]] \in Item
    BY <1>1, <1>3 DEF Item
  <2>2. \E e \in Item : e.kind = "close" /\ rbuffer' = Append(rbuffer, e)
    BY <2>1, <1>3 DEF Delete, NoticeAndClose
  <2> QED BY <2>2, <1>0, <1>3, <1>a, CloseDebts
<1>4. CASE c # None /\ sc.cmd = "s" /\ UNCHANGED rbuffer /\ owed' = [owed EXCEPT ![sc.conn] = @ - 1]
  <2>1. owed' \in [Conns -> Int]
    BY <1>1, <1>4 DEF Debts
  <2>2. ASSUME NEW d \in Conns
        PROVE  Tally(rbuffer, Asks(d)) + Cardinality(Busy(d)) + Tally(sbuffer', Answers(d)) <= owed'[d]
    <3>1. Tally(sbuffer', Answers(d)) <= Tally(sbuffer, Answers(d)) - One(sc \in Answers(d))
      BY <1>0, <1>a, TallyTail DEF sc
    <3>2. Tally(sbuffer', Answers(d)) \in Nat
      BY <1>a, TallyType
    <3>3. owed'[d] = owed[d] - One(d = sc.conn)
      BY <1>4, LoadType, <1>a DEF One, Debts
    <3>4. d = sc.conn => sc \in Answers(d)
      BY <1>1, <1>4 DEF Answers
    <3>5. Tally(sbuffer', Answers(d)) <= Tally(sbuffer, Answers(d)) - One(d = sc.conn)
      BY <3>1, <3>2, <3>4, <1>a, LoadType DEF One
    <3>6. One(d = sc.conn) \in 0..1
      BY DEF One
    <3> QED BY <3>2, <3>3, <3>5, <3>6, <1>a, LoadType DEF Debts
  <2>3. \A d \in Conns : Busy(d)' = Busy(d)
    BY <1>0 DEF Busy
  <2> QED BY <2>1, <2>2, <2>3, <1>4 DEF Debts, Asks, Answers
<1> QED BY <1>0, <1>2, <1>3, <1>4

LEMMA PopDebts ==
  ASSUME Types, Types', Debts, NEW h \in Handles, Pop(h)
  PROVE  Debts'
<1>0. /\ job[h] = None /\ rbuffer # <<>> /\ job' = [job EXCEPT ![h] = Head(rbuffer)] /\ rbuffer' = Tail(rbuffer)
      /\ UNCHANGED <<sbuffer, owed>>
  BY DEF Pop
<1>a. rbuffer \in Seq(Item) /\ rbuffer' \in Seq(Item)
  BY DEF Types
<1>1. ASSUME NEW d \in Conns
      PROVE  /\ IsFiniteSet(Busy(d)')
             /\ Tally(rbuffer', Asks(d)) + Cardinality(Busy(d)') + Tally(sbuffer, Answers(d)) <= owed[d]
  <2>1. h \notin Busy(d)
    BY <1>0, NoItem DEF Busy, Asks
  <2>2. Busy(d)' = IF Head(rbuffer) \in Asks(d) THEN Busy(d) \cup {h} ELSE Busy(d)
    <3>1. Busy(d)' = {k \in Handles : job'[k] \in Asks(d)}
      BY DEF Busy, Asks
    <3>2. \A k \in Handles : job'[k] = IF k = h THEN Head(rbuffer) ELSE job[k]
      BY <1>0 DEF Types
    <3> QED BY <2>1, <3>1, <3>2 DEF Busy
  <2>3. IsFiniteSet(Busy(d))
    BY DEF Debts
  <2>4. IsFiniteSet(Busy(d) \cup {h}) /\ Cardinality(Busy(d) \cup {h}) = Cardinality(Busy(d)) + 1
    BY <2>1, <2>3, FS_AddElement
  <2>5. Tally(rbuffer', Asks(d)) <= Tally(rbuffer, Asks(d)) - One(Head(rbuffer) \in Asks(d))
    BY <1>0, <1>a, TallyTail
  <2>6. Tally(rbuffer', Asks(d)) \in Nat
    BY <1>a, TallyType
  <2>7. CASE Head(rbuffer) \in Asks(d)
    BY <2>2, <2>4, <2>5, <2>6, <2>7, LoadType DEF One, Debts
  <2>8. CASE Head(rbuffer) \notin Asks(d)
    BY <2>2, <2>3, <2>5, <2>6, <2>8, LoadType DEF One, Debts
  <2> QED BY <2>7, <2>8
<1> QED BY <1>0, <1>1 DEF Debts, Asks, Answers

LEMMA HandleDebts ==
  ASSUME Types, Types', Debts, NEW h \in Handles, Handle(h)
  PROVE  Debts'
<1>0. job[h] \in Item /\ job' = [job EXCEPT ![h] = None] /\ UNCHANGED <<rbuffer, owed>>
  BY DEF Handle, Types
<1>a. sbuffer \in Seq(Out) /\ sbuffer' \in Seq(Out)
  BY DEF Types
<1>1. PICK t \in Seq(Out) :
         /\ sbuffer' = sbuffer \o t
         /\ \A i \in DOMAIN t : t[i].conn = job[h].conn /\ (t[i].cmd = "s" => i = 1 /\ job[h].kind = "request")
  BY HandleFacts
<1>2. ASSUME NEW d \in Conns
      PROVE  /\ IsFiniteSet(Busy(d)')
             /\ Tally(rbuffer, Asks(d)) + Cardinality(Busy(d)') + Tally(sbuffer', Answers(d)) <= owed[d]
  <2> DEFINE k == IF h \in Busy(d) THEN 1 ELSE 0
  <2>1. k \in Nat /\ \A i \in DOMAIN t : t[i] \in Answers(d) => i <= k
    BY <1>0, <1>1 DEF Answers, Busy, Asks
  <2>2. Tally(sbuffer', Answers(d)) <= Tally(sbuffer, Answers(d)) + k
    BY <2>1, <1>1, <1>a, TallyBehind
  <2>3. Tally(sbuffer', Answers(d)) \in Nat
    BY <1>a, TallyType
  <2>4. Busy(d)' = Busy(d) \ {h}
    BY <1>0, NoItem DEF Busy, Asks, Types
  <2>5. IsFiniteSet(Busy(d))
    BY DEF Debts
  <2>6. IsFiniteSet(Busy(d) \ {h}) /\ Cardinality(Busy(d) \ {h}) = Cardinality(Busy(d)) - k
    <3>1. IsFiniteSet(Busy(d) \ {h}) /\ Cardinality(Busy(d) \ {h}) = IF h \in Busy(d) THEN Cardinality(Busy(d)) - 1 ELSE Cardinality(Busy(d))
      BY <2>5, FS_RemoveElement
    <3> QED BY <3>1, LoadType
  <2> HIDE DEF k
  <2>7. Cardinality(Busy(d)) - k + Tally(sbuffer', Answers(d)) <= Cardinality(Busy(d)) + Tally(sbuffer, Answers(d))
    BY <2>1, <2>2, <2>3, LoadType
  <2> QED BY <2>1, <2>3, <2>4, <2>6, <2>7, LoadType DEF Debts
<1> QED BY <1>0, <1>2 DEF Debts, Asks, Answers

LEMMA StepDebts ==
  ASSUME ListInv, Debts, [Next]_vars
  PROVE  Debts'
<1>a. Types /\ Types' /\ Listed /\ Leaving
  BY StepInv DEF ListInv
<1>1. CASE UNCHANGED <<rbuffer, job, sbuffer, owed>>
  BY <1>1, <1>a, CloseDebts
<1>2. ASSUME NEW c \in Conns, state[c] \in {"open", "broken"}, NoticeAndClose(c), UNCHANGED <<job, sbuffer, owed>>
      PROVE  Debts'
  <2>1. [kind |-> "close", conn |-> c, uid |-> uid[c]] \in Item
    BY <1>2, <1>a DEF Listed, Item
  <2>2. \E e \in Item : e.kind = "close" /\ rbuffer' = Append(rbuffer, e)
    BY <2>1, <1>2 DEF NoticeAndClose
  <2> QED BY <2>2, <1>2, <1>a, CloseDebts
<1>3. CASE \E c \in Conns : HangUp(c) \/ Output(c)
  BY <1>1, <1>2, <1>3 DEF HangUp, Output, Delete
<1>4. CASE \E c \in Conns, n \in 1..MaxRequests, kind \in {"request", "oneway"} : Input(c, n, kind)
  BY <1>4, <1>a, InputDebts
<1>5. CASE ScanClose
  BY <1>2, <1>5, <1>a DEF ScanClose, Leaving, Types
<1>6. CASE ProcessPipe
  BY <1>6, <1>a, PipeDebts
<1>7. CASE \E h \in Handles : Pop(h) \/ Handle(h)
  BY <1>7, <1>a, PopDebts, HandleDebts
<1>8. CASE \/ UNCHANGED vars \/ AcceptStep \/ Del \/ DecreaseNowConnection \/ ScanDel
           \/ (\E c \in Conns : Accept(c)) \/ (\E expired \in SUBSET Conns : CheckTimeout(expired))
  BY <1>1, <1>8 DEF vars, AcceptStep, Del, DecreaseNowConnection, ScanDel, Accept, CheckTimeout, GetUniqId,
     Add, IncreaseNowConnection, RegisterEvent
<1> QED BY <1>3, <1>4, <1>5, <1>6, <1>7, <1>8 DEF Next, NetStep
LEMMA DebtsKept == Spec => []Debts
<1>1. ASSUME Init PROVE Debts
  <2>1. ASSUME NEW c \in Conns
        PROVE  /\ IsFiniteSet(Busy(c))
               /\ Tally(rbuffer, Asks(c)) + Cardinality(Busy(c)) + Tally(sbuffer, Answers(c)) <= owed[c]
    <3>1. Busy(c) = {}
      BY <1>1, NoItem DEF Init, Busy, Asks
    <3>2. Len(<<>>) = 0 /\ Matching(<<>>, Asks(c)) = {} /\ Matching(<<>>, Answers(c)) = {}
      BY DEF Matching
    <3>3. IsFiniteSet({}) /\ Cardinality({}) = 0
      BY FS_EmptySet
    <3>4. Tally(rbuffer, Asks(c)) = 0 /\ Tally(sbuffer, Answers(c)) = 0 /\ owed[c] = 0
      BY <3>2, <3>3, <1>1 DEF Init, Tally
    <3> QED BY <3>1, <3>3, <3>4
  <2> QED BY <2>1, <1>1 DEF Init, Debts
<1>2. ListInv /\ Debts /\ [Next]_vars => Debts'
  BY StepDebts
<1> QED BY <1>1, <1>2, ListKept, PTL DEF Spec

\* The free places, the places taken and the one being given are all the places there are.
LEMMA PlacesAddUp ==
  ASSUME ListInv
  PROVE  /\ Len(free) = Cardinality({free[i] : i \in DOMAIN free})
         /\ {free[i] : i \in DOMAIN free} \cap Taken = {}
         /\ Len(free) + Cardinality(Taken) + One(acc.pc = "add") = MaxConns
<1> DEFINE F == {free[i] : i \in DOMAIN free}
           G == IF acc.pc = "add" THEN {uid[acc.c]} ELSE {}
<1>a. Types /\ Entering /\ FreeKept /\ MaxConns \in Nat
  BY ServerAssumption DEF ListInv
<1>1. Len(free) \in Nat /\ DOMAIN free = 1..Len(free)
  BY <1>a DEF Types
<1>2. IsFiniteSet(DOMAIN free) /\ Cardinality(DOMAIN free) = Len(free)
  <2>1. \A n \in Nat : Cardinality(1..n) = n /\ IsFiniteSet(1..n)
    BY FS_Interval
  <2> QED BY <2>1, <1>1
<1>3. free \in [DOMAIN free -> F] /\ (\A a, b \in DOMAIN free : free[a] = free[b] => a = b) /\ \A q \in F : \E a \in DOMAIN free : free[a] = q
  BY <1>a DEF FreeKept, Types
<1>4. ExistsBijection(DOMAIN free, F)
  <2> HIDE DEF F
  <2>1. free \in Injection(DOMAIN free, F)
    BY <1>3 DEF Injection, IsInjective
  <2>2. free \in Surjection(DOMAIN free, F)
    BY <1>3 DEF Surjection
  <2> QED BY <2>1, <2>2 DEF ExistsBijection, Bijection
<1>5. IsFiniteSet(F) /\ Cardinality(F) = Len(free)
  BY <1>2, <1>4, FS_Bijection
<1>6. F \subseteq Places
  BY <1>1, <1>a DEF Types
<1>7. F \cap Taken = {} /\ G \cap (F \cup Taken) = {} /\ Places = (F \cup Taken) \cup G
  BY <1>6, <1>a DEF FreeKept, Taken, Entering
<1>8. IsFiniteSet(Taken) /\ Cardinality(Taken) \in Nat
  BY <1>a, TakenFacts
<1>9. IsFiniteSet(G) /\ Cardinality(G) = One(acc.pc = "add")
  BY FS_Singleton, FS_EmptySet DEF One
<1>10. Cardinality(Places) = MaxConns
  BY <1>a, FS_Interval DEF Places
<1>e. Cardinality({}) = 0
  BY FS_EmptySet
<1> HIDE DEF F, G
<1>11. IsFiniteSet(F \cup Taken) /\ Cardinality(F \cup Taken) = Len(free) + Cardinality(Taken)
  <2>1. IsFiniteSet(F \cup Taken) /\ Cardinality(F \cup Taken) = Cardinality(F) + Cardinality(Taken) - Cardinality(F \cap Taken)
    BY <1>5, <1>8, FS_Union
  <2>2. Cardinality(F \cap Taken) = 0
    BY <1>7, <1>e
  <2> QED BY <2>1, <2>2, <1>1, <1>5, <1>8
<1>12. Cardinality((F \cup Taken) \cup G) = Len(free) + Cardinality(Taken) + One(acc.pc = "add")
  <2>1. Cardinality((F \cup Taken) \cup G) = Cardinality(F \cup Taken) + Cardinality(G) - Cardinality((F \cup Taken) \cap G)
    BY <1>9, <1>11, FS_Union
  <2>2. Cardinality((F \cup Taken) \cap G) = 0
    <3>1. (F \cup Taken) \cap G = {}
      BY <1>7
    <3> QED BY <3>1, <1>e
  <2>3. One(acc.pc = "add") \in 0..1
    BY DEF One
  <2> QED BY <2>1, <2>2, <2>3, <1>1, <1>8, <1>9, <1>11
<1>13. Len(free) + Cardinality(Taken) + One(acc.pc = "add") = MaxConns
  BY <1>7, <1>10, <1>12
<1> QED BY <1>5, <1>7, <1>13 DEF F

(* The list, its free places and the counter of connections agree in every *)
(* state between the steps of accept, close and checkTimeout; each closed  *)
(* connection was reported once; and no more requests are answered than    *)
(* were queued.                                                            *)
THEOREM ListStaysConsistent == Spec => []ListAgrees
<1>1. ASSUME ListInv, Debts PROVE ListAgrees
  <2>a. Types /\ Counts /\ Noticed
    BY <1>1 DEF ListInv
  <2>1. \A c \in Conns : owed[c] \in Nat
    BY <1>1, <2>a, LoadType
  <2>2. owed \in [Conns -> Nat]
    BY <1>1, <2>1 DEF Debts
  <2>3. TypeOK
    BY <2>2, <2>a DEF Types, TypeOK
  <2>4. /\ Len(free) = Cardinality({free[i] : i \in DOMAIN free})
        /\ {free[i] : i \in DOMAIN free} \cap Taken = {}
        /\ Len(free) + Cardinality(Taken) + One(acc.pc = "add") = MaxConns
    BY <1>1, PlacesAddUp
  <2> QED BY <2>3, <2>4, <2>a DEF ListAgrees, Counts, Noticed, Taken, One
<1> QED BY <1>1, ListKept, DebtsKept, PTL
=============================================================================
