----------------------------- MODULE DVNet_proofs -----------------------------
(***************************************************************************)
(* That routes to a destination form no circle, in a network of any size   *)
(* and shape, whichever packets are lost or overtake each other and        *)
(* whichever links break, and that each of its devices is a DVPeer.        *)
(*                                                                         *)
(* All depends on the order of two routes: as long as the ages that        *)
(* devices tell are right, it is the lexicographic one of sequence number  *)
(* and metric, on whatever devices the routes are held.  A device tells    *)
(* what its best route is, the others only add to it, and the best route   *)
(* of a device never gets worse while somebody may have believed it.       *)
(***************************************************************************)
EXTENDS DVNetNode, DVRoutes_proofs, FiniteSetTheorems

\* What decides between two routes to Dst, wherever they are held.
Keys == [seq : 0 .. MaxSends, metric : Metric]

keyOf(rt, link) == [seq |-> rt.seq, metric |-> metricOf(rt, link)]

\* As new and as near; newer or nearer than.
ahead(j, k) == j.seq > k.seq \/ (j.seq = k.seq /\ isBetterThan(j.metric, k.metric))
beyond(j, k) == j.seq > k.seq \/ (j.seq = k.seq /\ ~isBetterThan(k.metric, j.metric))

\* The time since Dst used each of its sequence numbers: newer ones are no older.
IsClock(A) ==
    /\ A \in [0 .. MaxSends -> Nat]
    /\ \A s, t \in 0 .. MaxSends : s <= t => A[t] <= A[s]

\* The route has the age of its number, and Dst has used that.
OnTime(rt, A, last) == rt.seq \in 0 .. last /\ currentAge(rt) = A[rt.seq]

\* A route that is UP was not old when it was told, and is refreshed or goes DOWN.
Young(rt) == rt.up => rt.age <= MaxAcceptedAge /\ rt.idle <= DownTicks + 1

Top(p, link) ==
    \A h \in DOMAIN p.routes :
        /\ p.best \in DOMAIN p.routes
        /\ ahead(keyOf(p.routes[p.best], link), keyOf(p.routes[h], link))

AllOnTime(routes, A, last) ==
    \A h \in DOMAIN routes : OnTime(routes[h], A, last) /\ Young(routes[h])

\* What holds of a DVPeer by itself, whose node has the neighbours N: a new one, and
\* one that has had its first route.
Held(p, N, link, A, last) ==
    /\ p \in Records /\ UpVia(p, N)
    /\ p.best \in DOMAIN p.routes \cup {None}
    /\ Top(p, link)
    /\ AllOnTime(p.routes, A, last)

Sound(p, N, link, A, last) == Held(p, N, link, A, last) /\ BestFits(p)

hasBest(p) == p # NoPeer /\ p.best # None

bestKey(p, link) == keyOf(p.routes[p.best], link)

\* Unless p's best route is too old for anyone to go by it, that of q is as good.
Keeps(p, q, link, A) ==
    hasBest(p) /\ A[p.routes[p.best].seq] <= RemovalTicks =>
        hasBest(q) /\ ahead(bestKey(q, link), bestKey(p, link))

-----------------------------------------------------------------------------
\* The order of routes.

LEMMA NetBounds ==
    /\ Dst \notin Nodes /\ Nbrs = Nodes \cup {Dst} /\ Nodes = LastHops
    /\ \A n \in Nodes : NbrsOf(n) \subseteq Nbrs /\ n \notin NbrsOf(n)
    /\ LinkMetrics \subseteq Nat /\ HopMetrics \subseteq Nat \ {0} /\ Metrics \subseteq Nat
    /\ MaxAcceptedAge \in Nat /\ MaxAcceptedAge + DownTicks + 1 <= RemovalTicks
    /\ MaxSends \in Nat /\ 0 .. MaxSends \subseteq SeqNos /\ MaxSends <= SeqWindow
    /\ MaxOnAir \in Nat
<1>1. MaxSends \in Nat /\ MaxSends <= SeqWindow
  BY DVNetAssumption DEF DVNetAssumption
<1>2. SeqNoMod \in Nat \ {0}
  BY SeqNoAssumption DEF SeqNoAssumption
<1>3. SeqWindow <= SeqNoMod - 1
  BY <1>2 DEF SeqWindow
<1>4. SeqWindow \in Int
  BY <1>2 DEF SeqWindow
<1>5. 0 .. MaxSends \subseteq SeqNos
  BY <1>1, <1>2, <1>3, <1>4 DEF SeqNos
<1>6. \A n \in Nodes : NbrsOf(n) \subseteq Nbrs /\ n \notin NbrsOf(n)
  BY DVNetAssumption DEF DVNetAssumption, NbrsOf
<1>7. /\ Dst \notin Nodes /\ Nbrs = Nodes \cup {Dst}
      /\ LinkMetrics \subseteq Nat /\ HopMetrics \subseteq Nat \ {0} /\ Metrics \subseteq Nat
      /\ MaxAcceptedAge \in Nat /\ MaxOnAir \in Nat
  BY DVNetAssumption DEF DVNetAssumption
<1>8. MaxAcceptedAge + DownTicks + 1 <= RemovalTicks
  BY RoutesBounds, DVNetAssumption DEF DVNetAssumption
<1> QED BY <1>1, <1>5, <1>6, <1>7, <1>8 DEF Nodes

\* Metrics are ordered, Infinite last.
LEMMA MetricOrder ==
    \A a, b, c \in Metric :
        /\ isBetterThan(a, a)
        /\ isBetterThan(a, b) \/ isBetterThan(b, a)
        /\ isBetterThan(a, b) /\ isBetterThan(b, c) => isBetterThan(a, c)
<1> SUFFICES ASSUME NEW a \in Metric, NEW b \in Metric, NEW c \in Metric
             PROVE  /\ isBetterThan(a, a)
                    /\ isBetterThan(a, b) \/ isBetterThan(b, a)
                    /\ isBetterThan(a, b) /\ isBetterThan(b, c) => isBetterThan(a, c)
  OBVIOUS
<1>1. /\ a # Infinite => a \in Nat
      /\ b # Infinite => b \in Nat
      /\ c # Infinite => c \in Nat
  BY DEF Metric
<1> QED BY <1>1 DEF isBetterThan

\* So are keys.
LEMMA KeyOrder ==
    ASSUME NEW j \in Keys, NEW k \in Keys, NEW l \in Keys
    PROVE  /\ ahead(j, j) /\ ~beyond(j, j)
           /\ ahead(j, k) \/ ahead(k, j)
           /\ ahead(j, k) /\ ahead(k, l) => ahead(j, l)
           /\ beyond(j, k) => ahead(j, k)
           /\ ahead(j, k) /\ beyond(k, l) => beyond(j, l)
           /\ beyond(j, k) /\ ahead(k, l) => beyond(j, l)
<1>1. /\ j.seq \in Int /\ k.seq \in Int /\ l.seq \in Int
      /\ j.metric \in Metric /\ k.metric \in Metric /\ l.metric \in Metric
  BY DEF Keys
<1> DEFINE B(a, b) == isBetterThan(a, b)
<1>2. /\ B(j.metric, j.metric)
      /\ B(j.metric, k.metric) \/ B(k.metric, j.metric)
      /\ B(j.metric, k.metric) /\ B(k.metric, l.metric) => B(j.metric, l.metric)
      /\ B(l.metric, j.metric) /\ B(j.metric, k.metric) => B(l.metric, k.metric)
      /\ B(k.metric, l.metric) /\ B(l.metric, j.metric) => B(k.metric, j.metric)
  BY <1>1, MetricOrder
<1> QED BY <1>1, <1>2 DEF ahead, beyond

LEMMA KeyType ==
    ASSUME NEW rt \in Route, NEW link \in Nat, rt.seq \in 0 .. MaxSends
    PROVE  keyOf(rt, link) \in Keys
<1>1. metricOf(rt, link) \in Metric
  BY DEF metricOf, Route, Metric
<1> QED BY <1>1 DEF keyOf, Keys

\* Ages that are right decide nothing that numbers do not.
LEMMA SupersedesIsAhead ==
    ASSUME NEW A, IsClock(A), NEW last \in 0 .. MaxSends, NEW link \in Nat,
           NEW rt \in Route, NEW sel \in Route, OnTime(rt, A, last), OnTime(sel, A, last)
    PROVE  supersedes(rt, sel, link) <=> ahead(keyOf(rt, link), keyOf(sel, link))
<1>1. /\ rt.seq \in 0 .. MaxSends /\ sel.seq \in 0 .. MaxSends
      /\ currentAge(rt) = A[rt.seq] /\ currentAge(sel) = A[sel.seq]
  BY NetBounds DEF OnTime
<1>2. /\ rt.seq <= sel.seq => A[sel.seq] <= A[rt.seq]
      /\ sel.seq <= rt.seq => A[rt.seq] <= A[sel.seq]
      /\ A[rt.seq] \in Nat /\ A[sel.seq] \in Nat
  BY <1>1 DEF IsClock
<1>3. seqNoGreater(rt.seq, sel.seq, A[rt.seq], A[sel.seq]) <=> rt.seq > sel.seq
  <2>1. SeqWindow \in Int /\ AgeTolerance \in Nat
    BY SeqNoAssumption DEF SeqNoAssumption, SeqWindow
  <2>2. \A r, s \in 0 .. MaxSends : r - s <= SeqWindow
    BY <2>1, NetBounds
  <2>3. \A r, s \in 0 .. MaxSends, a, b \in Nat :
            (r <= s => b <= a) /\ (s <= r => a <= b) =>
                (seqNoGreater(r, s, a, b) <=> r > s)
    BY <2>1, <2>2 DEF seqNoGreater
  <2> QED BY <1>1, <1>2, <2>3
<1>4. /\ keyOf(rt, link).seq = rt.seq /\ keyOf(rt, link).metric = metricOf(rt, link)
      /\ keyOf(sel, link).seq = sel.seq /\ keyOf(sel, link).metric = metricOf(sel, link)
  BY DEF keyOf
<1> QED BY <1>1, <1>3, <1>4 DEF supersedes, ahead

\* The scan ends with a route that is ahead of all.
LEMMA ScanIsAhead ==
    ASSUME NEW A, IsClock(A), NEW last \in 0 .. MaxSends, NEW link \in Nat,
           NEW routes \in RouteMaps, AllOnTime(routes, A, last)
    PROVE  LET best == scan(routes, link)
           IN  /\ best \in DOMAIN routes \cup {None}
               /\ \A h \in DOMAIN routes :
                    /\ best \in DOMAIN routes
                    /\ ahead(keyOf(routes[best], link), keyOf(routes[h], link))
<1>1. /\ DOMAIN routes \subseteq LastHops
      /\ \A h \in DOMAIN routes : routes[h] \in Route /\ OnTime(routes[h], A, last)
  BY RouteMapElim DEF AllOnTime
<1>2. \A f, g \in DOMAIN routes :
        supersedes(routes[f], routes[g], link)
            <=> ahead(keyOf(routes[f], link), keyOf(routes[g], link))
  BY <1>1, SupersedesIsAhead
<1>3. \A f \in DOMAIN routes : keyOf(routes[f], link) \in Keys
  BY <1>1, KeyType, NetBounds DEF OnTime
<1>4. Ordered(routes, link)
  BY <1>2, <1>3, KeyOrder DEF Ordered
<1>5. BestIsTop(routes, scan(routes, link), link)
  BY <1>1, <1>4, ScanIsTop
<1> QED BY <1>2, <1>5, ScanIsRoute DEF BestIsTop

-----------------------------------------------------------------------------
\* What the methods of DVPeer keep, one by one.

\* The parts of Held, with what is needed of each route.
LEMMA HeldRoutes ==
    ASSUME NEW p, NEW N, NEW link \in Nat, NEW A, NEW last \in 0 .. MaxSends,
           Held(p, N, link, A, last)
    PROVE  /\ p \in Records /\ UpVia(p, N) /\ p # NoPeer
           /\ p.routes \in RouteMaps
           /\ DOMAIN p.routes \subseteq LastHops /\ None \notin DOMAIN p.routes
           /\ \A h \in DOMAIN p.routes :
                /\ p.routes[h] \in Route /\ OnTime(p.routes[h], A, last) /\ Young(p.routes[h])
                /\ keyOf(p.routes[h], link) \in Keys
<1>1. p \in Records /\ UpVia(p, N) /\ p # NoPeer
  BY RecordIsPeer DEF Held
<1>2. p.routes \in RouteMaps
  BY <1>1 DEF Records
<1>3. /\ DOMAIN p.routes \subseteq LastHops
      /\ \A h \in DOMAIN p.routes : p.routes[h] \in Route
  BY <1>2, RouteMapElim
<1>4. \A h \in DOMAIN p.routes : OnTime(p.routes[h], A, last) /\ Young(p.routes[h])
  BY DEF Held, AllOnTime
<1>5. \A h \in DOMAIN p.routes : p.routes[h].seq \in 0 .. MaxSends
  BY <1>4, NetBounds DEF OnTime
<1> QED BY <1>1, <1>2, <1>3, <1>4, <1>5, KeyType, RoutesBounds

\* A peer is sound when its best route is the one scanned.
LEMMA ScannedIsTop ==
    ASSUME NEW A, IsClock(A), NEW last \in 0 .. MaxSends, NEW link \in Nat,
           NEW q \in Records, AllOnTime(q.routes, A, last), q.best = scan(q.routes, link)
    PROVE  Top(q, link)
<1>1. q.routes \in RouteMaps
  BY DEF Records
<1> QED BY <1>1, ScanIsAhead DEF Top

\* The best route of q is as good as what has become of the best route of p.
LEMMA TopKeeps ==
    ASSUME NEW A, NEW last \in 0 .. MaxSends, NEW link \in Nat, NEW M, NEW N, NEW p, NEW q,
           Held(p, M, link, A, last), Held(q, N, link, A, last),
           hasBest(p) /\ A[p.routes[p.best].seq] <= RemovalTicks =>
                /\ p.best \in DOMAIN q.routes
                /\ ahead(keyOf(q.routes[p.best], link), keyOf(p.routes[p.best], link))
    PROVE  Keeps(p, q, link, A)
<1> SUFFICES ASSUME hasBest(p), A[p.routes[p.best].seq] <= RemovalTicks
             PROVE  hasBest(q) /\ ahead(bestKey(q, link), bestKey(p, link))
  BY DEF Keeps
<1>1. p.best \in DOMAIN p.routes
  BY DEF hasBest, Held
<1>2. /\ p.best \in DOMAIN q.routes
      /\ ahead(keyOf(q.routes[p.best], link), keyOf(p.routes[p.best], link))
  OBVIOUS
<1>3. /\ q.best \in DOMAIN q.routes
      /\ ahead(keyOf(q.routes[q.best], link), keyOf(q.routes[p.best], link))
  BY <1>2 DEF Held, Top
<1>4. hasBest(q)
  BY <1>3, HeldRoutes DEF hasBest
<1>5. /\ keyOf(q.routes[q.best], link) \in Keys
      /\ keyOf(q.routes[p.best], link) \in Keys
      /\ keyOf(p.routes[p.best], link) \in Keys
  BY <1>1, <1>2, <1>3, HeldRoutes
<1>6. ahead(keyOf(q.routes[q.best], link), keyOf(p.routes[p.best], link))
  BY <1>2, <1>3, <1>5, KeyOrder
<1> QED BY <1>4, <1>6 DEF bestKey

\* stateDOWN changes neither key nor age.
LEMMA DownIsSame ==
    ASSUME NEW rt \in Route, NEW link, NEW A, NEW last
    PROVE  /\ keyOf(stateDOWN(rt), link) = keyOf(rt, link)
           /\ OnTime(rt, A, last) => OnTime(stateDOWN(rt), A, last)
           /\ Young(stateDOWN(rt))
<1>1. /\ stateDOWN(rt).seq = rt.seq /\ stateDOWN(rt).metric = rt.metric
      /\ stateDOWN(rt).age = rt.age /\ stateDOWN(rt).idle = rt.idle
      /\ stateDOWN(rt).next = rt.next /\ stateDOWN(rt).up = FALSE
  BY DEF stateDOWN, Route
<1> QED BY <1>1 DEF keyOf, metricOf, OnTime, currentAge, Young

\* A new peer holds nothing.
LEMMA NewIsSound ==
    ASSUME NEW N, NEW link, NEW A, NEW last
    PROVE  Held(newDVPeer, N, link, A, last) /\ ~hasBest(newDVPeer)
<1>1. /\ newDVPeer \in Records
      /\ newDVPeer.routes = [h \in {} |-> None] /\ newDVPeer.state = "UP"
      /\ newDVPeer.best = None
  BY NewDVPeerType
<1>2. UpVia(newDVPeer, N)
  BY <1>1 DEF UpVia
<1> QED BY <1>1, <1>2 DEF Held, Top, AllOnTime, hasBest

\* What an update that is accepted leaves in the place of a route: a route with the
\* number and metric it tells, or the old route DOWN, but nothing behind the old route.
LEMMA AcceptedRoute ==
    ASSUME NEW A, IsClock(A), NEW last \in 0 .. MaxSends, NEW link \in Nat,
           NEW N \in SUBSET Nbrs, NEW p, Held(p, N, link, A, last),
           NEW n \in N, NEW metric \in Metric, NEW seq \in 0 .. last, NEW h \in LastHops,
           NEW age \in Nat, age = A[seq], age <= MaxAcceptedAge, n = Dst => metric = link,
           accepts(p.routes, n, metric, seq, h, age, link)
    PROVE  LET rt == updated(p, n, metric, seq, h, age)
           IN  /\ OnTime(rt, A, last) /\ Young(rt)
               /\ h \in DOMAIN p.routes =>
                    ahead(keyOf(rt, link), keyOf(p.routes[h], link))
               /\ rt.up => /\ rt.next = n /\ metric # Infinite
                           /\ keyOf(rt, link) = [seq |-> seq, metric |-> metric]
<1> DEFINE rt  == updated(p, n, metric, seq, h, age)
           old == p.routes[h]
<1>1. h \in DOMAIN p.routes =>
        old \in Route /\ OnTime(old, A, last) /\ keyOf(old, link) \in Keys
  BY HeldRoutes
<1>2. CASE h \in DOMAIN p.routes /\ old.next = n /\ metric = Infinite
  <2>1. rt = stateDOWN(old)
    BY <1>2 DEF updated, update
  <2> HIDE DEF rt, old
  <2>2. OnTime(rt, A, last) /\ Young(rt) /\ keyOf(rt, link) = keyOf(old, link) /\ ~rt.up
    BY <1>1, <1>2, <2>1, DownIsSame, RouteType
  <2>3. ahead(keyOf(rt, link), keyOf(old, link))
    BY <1>1, <1>2, <2>2, KeyOrder
  <2> QED BY <2>2, <2>3 DEF rt, old
<1>3. CASE ~(h \in DOMAIN p.routes /\ old.next = n /\ metric = Infinite)
  <2>1. rt = newRoute(n, metric, seq, age)
    BY <1>3 DEF updated, update
  <2>2. seq \in SeqNos /\ n \in Nbrs /\ seq \in 0 .. MaxSends
    BY NetBounds
  <2> HIDE DEF rt, old
  <2>3. rt \in Route /\ rt.next = n /\ (rt.up <=> metric # Infinite)
    BY <2>1, <2>2, RouteType
  <2>4. rt.seq = seq /\ rt.age = age /\ rt.idle = 0 /\ metricOf(rt, link) = metric
    BY <2>1 DEF newRoute, metricOf
  <2>5. currentAge(rt) = age
    BY <2>4 DEF currentAge
  <2>6. OnTime(rt, A, last)
    BY <2>4, <2>5 DEF OnTime
  <2>7. Young(rt)
    BY <2>4, RoutesBounds DEF Young
  <2>8. keyOf(rt, link) = [seq |-> seq, metric |-> metric]
    BY <2>4 DEF keyOf
  <2>9. ASSUME h \in DOMAIN p.routes PROVE ahead(keyOf(rt, link), keyOf(old, link))
    <3>1. \/ seqNoGreater(seq, old.seq, age, currentAge(old))
          \/ seq = old.seq /\ isBetterThan(metric, metricOf(old, link))
      BY <1>3, <2>9 DEF accepts, old
    <3>2. supersedes(rt, old, link)
      BY <2>4, <2>5, <3>1 DEF supersedes
    <3> QED BY <1>1, <2>3, <2>6, <2>9, <3>2, SupersedesIsAhead
  <2> QED BY <2>3, <2>6, <2>7, <2>8, <2>9 DEF rt, old
<1> QED BY <1>2, <1>3

\* The UP routes of q are some of p, and perhaps one through n that has the key k.
AddsOnly(p, q, link, n, k) ==
    \A g \in DOMAIN q.routes : q.routes[g].up =>
        \/ g \in DOMAIN p.routes /\ q.routes[g] = p.routes[g]
        \/ q.routes[g].next = n /\ k.metric # Infinite /\ keyOf(q.routes[g], link) = k

LEMMA Updated ==
    ASSUME NEW A, IsClock(A), NEW last \in 0 .. MaxSends, NEW link \in Nat,
           NEW N \in SUBSET Nbrs, NEW p, Held(p, N, link, A, last),
           NEW n \in N, NEW metric \in Metric, NEW seq \in 0 .. last, NEW h \in LastHops,
           NEW age \in Nat, age = A[seq], age <= MaxAcceptedAge, n = Dst => metric = link,
           accepts(p.routes, n, metric, seq, h, age, link),
           NEW flow \in BOOLEAN, NEW kept \in 0 .. MaxQueue
    PROVE  LET q == updateRoute(p, n, metric, seq, h, age, link, flow, kept)
           IN  /\ Sound(q, N, link, A, last) /\ Keeps(p, q, link, A)
               /\ AddsOnly(p, q, link, n, [seq |-> seq, metric |-> metric])
<1> DEFINE rt == updated(p, n, metric, seq, h, age)
           q  == updateRoute(p, n, metric, seq, h, age, link, flow, kept)
<1>1. /\ OnTime(rt, A, last) /\ Young(rt)
      /\ h \in DOMAIN p.routes => ahead(keyOf(rt, link), keyOf(p.routes[h], link))
      /\ rt.up => /\ rt.next = n /\ metric # Infinite
                  /\ keyOf(rt, link) = [seq |-> seq, metric |-> metric]
  BY AcceptedRoute
<1>2. /\ p \in Records /\ UpVia(p, N)
      /\ \A g \in DOMAIN p.routes :
            /\ OnTime(p.routes[g], A, last) /\ Young(p.routes[g])
            /\ keyOf(p.routes[g], link) \in Keys
  BY HeldRoutes
<1>3. seq \in SeqNos /\ n \in Nbrs
  BY NetBounds
<1>4. /\ q \in Records /\ BestFits(q) /\ UpVia(q, N)
      /\ q.routes = [g \in DOMAIN p.routes \cup {h} |-> IF g = h THEN rt ELSE p.routes[g]]
      /\ q.best = scan(q.routes, link)
  BY <1>2, <1>3, UpdateRoute
<1> HIDE DEF q, rt
<1>5. AllOnTime(q.routes, A, last)
  BY <1>1, <1>2, <1>4 DEF AllOnTime
<1>6. Sound(q, N, link, A, last)
  BY <1>4, <1>5, ScannedIsTop DEF Sound, Held, BestFits
<1>7. Keeps(p, q, link, A)
  <2>1. ASSUME hasBest(p)
        PROVE  /\ p.best \in DOMAIN q.routes
               /\ ahead(keyOf(q.routes[p.best], link), keyOf(p.routes[p.best], link))
    <3>1. p.best \in DOMAIN p.routes
      BY <2>1 DEF Held, hasBest
    <3>2. q.routes[p.best] = IF p.best = h THEN rt ELSE p.routes[p.best]
      BY <1>4, <3>1
    <3>3. keyOf(p.routes[p.best], link) \in Keys
      BY <1>2, <3>1
    <3> QED BY <1>1, <1>4, <3>1, <3>2, <3>3, KeyOrder
  <2> QED BY <1>6, <2>1, TopKeeps DEF Sound
<1>8. AddsOnly(p, q, link, n, [seq |-> seq, metric |-> metric])
  BY <1>1, <1>4 DEF AddsOnly
<1> QED BY <1>6, <1>7, <1>8 DEF q

\* The UP routes of q are some of p.
AddsNone(p, q) ==
    \A g \in DOMAIN q.routes : q.routes[g].up =>
        g \in DOMAIN p.routes /\ q.routes[g] = p.routes[g]

\* A break takes no route away.
LEMMA Broken ==
    ASSUME NEW A, IsClock(A), NEW last \in 0 .. MaxSends, NEW link \in Nat,
           NEW N \in SUBSET Nbrs, NEW p, Sound(p, N, link, A, last), NEW n \in Nbrs,
           NEW flow \in BOOLEAN, NEW kept \in 0 .. MaxQueue
    PROVE  LET q == nbrRoutesDown(p, n, link, flow, kept)
           IN  /\ Sound(q, N \ {n}, link, A, last) /\ Keeps(p, q, link, A)
               /\ AddsNone(p, q)
<1> DEFINE q == nbrRoutesDown(p, n, link, flow, kept)
<1>1. Held(p, N, link, A, last) /\ BestFits(p)
  BY DEF Sound
<1>2. /\ p \in Records /\ UpVia(p, N)
      /\ \A g \in DOMAIN p.routes :
            /\ p.routes[g] \in Route /\ OnTime(p.routes[g], A, last) /\ Young(p.routes[g])
            /\ keyOf(p.routes[g], link) \in Keys
  BY <1>1, HeldRoutes
<1>3. /\ q \in Records /\ BestFits(q) /\ UpVia(q, N \ {n})
      /\ q.routes = broken(p.routes, n)
      /\ q.best = p.best \/ q.best = scan(q.routes, link)
  <2>1. BestFits(p) /\ p \in Records /\ UpVia(p, N)
    BY <1>1, <1>2
  <2>2. /\ q \in Records /\ BestFits(q) /\ Revives(p, q) /\ UpVia(q, N \ {n})
        /\ q.routes = broken(p.routes, n)
        /\ q.best = p.best \/ q.best = scan(q.routes, link)
    BY <2>1, NbrRoutesDown, Zenon
  <2> QED BY <2>2
<1> HIDE DEF q
<1>4. DOMAIN q.routes = DOMAIN p.routes
  BY <1>3 DEF broken
<1>5. ASSUME NEW g \in DOMAIN p.routes
      PROVE  /\ keyOf(q.routes[g], link) = keyOf(p.routes[g], link)
             /\ OnTime(q.routes[g], A, last) /\ Young(q.routes[g])
             /\ q.routes[g].up => q.routes[g] = p.routes[g]
  <2>1. q.routes[g] = stateDOWN(p.routes[g]) \/ q.routes[g] = p.routes[g]
    BY <1>3 DEF broken
  <2> QED BY <1>2, <2>1, DownIsSame, RouteType
<1>6. AllOnTime(q.routes, A, last)
  BY <1>4, <1>5 DEF AllOnTime
<1>7. Top(q, link)
  <2>1. CASE q.best = p.best
    BY <1>1, <1>4, <1>5, <2>1 DEF Held, Top
  <2>2. CASE q.best = scan(q.routes, link)
    BY <1>3, <1>6, <2>2, ScannedIsTop
  <2> QED BY <1>3, <2>1, <2>2
<1>8. Sound(q, N \ {n}, link, A, last)
  BY <1>3, <1>6, <1>7 DEF Sound, Held, BestFits
<1>9. Keeps(p, q, link, A)
  <2>1. ASSUME hasBest(p)
        PROVE  /\ p.best \in DOMAIN q.routes
               /\ ahead(keyOf(q.routes[p.best], link), keyOf(p.routes[p.best], link))
    <3>1. p.best \in DOMAIN p.routes
      BY <1>1, <2>1 DEF Held, hasBest
    <3> QED BY <1>2, <1>4, <1>5, <3>1, KeyOrder
  <2> QED BY <1>1, <1>8, <2>1, TopKeeps DEF Sound
<1> QED BY <1>4, <1>5, <1>8, <1>9 DEF q, AddsNone

\* What the timers take away is too old for anyone to go by it.
LEMMA RoutesExpired ==
    ASSUME NEW A, IsClock(A), NEW last \in 0 .. MaxSends, NEW link \in Nat,
           NEW N \in SUBSET Nbrs, NEW p, Sound(p, N, link, A, last),
           NEW flow \in BOOLEAN, NEW kept \in 0 .. MaxQueue
    PROVE  LET q == expireRoutes(p, link, flow, kept)
           IN  /\ Sound(q, N, link, A, last) /\ Keeps(p, q, link, A)
               /\ \A g \in DOMAIN q.routes : q.routes[g].up =>
                    /\ g \in DOMAIN p.routes /\ q.routes[g] = p.routes[g]
                    /\ q.routes[g].idle <= DownTicks
               /\ \A g \in DOMAIN q.routes : q.routes[g].idle <= RemovalTicks
<1> DEFINE q == expireRoutes(p, link, flow, kept)
           fresh == {g \in DOMAIN p.routes : p.routes[g].idle <= RemovalTicks}
<1>1. Held(p, N, link, A, last) /\ BestFits(p)
  BY DEF Sound
<1>2. /\ p \in Records /\ UpVia(p, N)
      /\ \A g \in DOMAIN p.routes :
            /\ p.routes[g] \in Route /\ OnTime(p.routes[g], A, last) /\ Young(p.routes[g])
            /\ keyOf(p.routes[g], link) \in Keys
  BY <1>1, HeldRoutes
<1>3. /\ q \in Records /\ BestFits(q) /\ UpVia(q, N)
      /\ q.routes = [h \in fresh |->
            IF p.routes[h].idle > DownTicks THEN stateDOWN(p.routes[h]) ELSE p.routes[h]]
      /\ q.best = p.best \/ q.best = scan(q.routes, link)
      /\ \A h \in DOMAIN q.routes : q.routes[h].up => q.routes[h].idle <= DownTicks
  BY <1>1, <1>2, ExpireRoutes
<1> HIDE DEF q
<1>4. DOMAIN q.routes = fresh /\ fresh \subseteq DOMAIN p.routes
  BY <1>3
<1>5. ASSUME NEW g \in fresh
      PROVE  /\ keyOf(q.routes[g], link) = keyOf(p.routes[g], link)
             /\ OnTime(q.routes[g], A, last) /\ Young(q.routes[g])
             /\ q.routes[g].up => q.routes[g] = p.routes[g]
             /\ q.routes[g].idle <= RemovalTicks
  <2>1. q.routes[g] = stateDOWN(p.routes[g]) \/ q.routes[g] = p.routes[g]
    BY <1>3
  <2> QED BY <1>2, <2>1, DownIsSame, RouteType
<1>6. p.best \in fresh => p.best \in DOMAIN p.routes
  OBVIOUS
<1> HIDE DEF fresh
<1>7. AllOnTime(q.routes, A, last)
  BY <1>4, <1>5 DEF AllOnTime
<1>8. Top(q, link)
  <2>1. CASE q.best = p.best
    <3>1. \A h \in fresh : p.best \in DOMAIN q.routes
      <4>1. \A h \in fresh : p.best \in DOMAIN p.routes
        BY <1>1, <1>4 DEF Held, Top
      <4> QED BY <1>3, <2>1, <4>1, <1>1, RoutesBounds, HeldRoutes DEF BestFits
    <3> QED BY <1>1, <1>4, <1>5, <2>1, <3>1 DEF Held, Top
  <2>2. CASE q.best = scan(q.routes, link)
    BY <1>3, <1>7, <2>2, ScannedIsTop
  <2> QED BY <1>3, <2>1, <2>2
<1>9. Sound(q, N, link, A, last)
  BY <1>3, <1>7, <1>8 DEF Sound, Held, BestFits
<1>10. Keeps(p, q, link, A)
  <2>1. ASSUME hasBest(p), A[p.routes[p.best].seq] <= RemovalTicks
        PROVE  /\ p.best \in DOMAIN q.routes
               /\ ahead(keyOf(q.routes[p.best], link), keyOf(p.routes[p.best], link))
    <3>1. p.best \in DOMAIN p.routes
      BY <1>1, <2>1 DEF Held, hasBest
    <3>2. p.routes[p.best].idle <= RemovalTicks
      <4>1. /\ p.routes[p.best].age \in Nat /\ p.routes[p.best].idle \in 0 .. RemovalTicks + 1
            /\ p.routes[p.best].age + p.routes[p.best].idle <= RemovalTicks
        BY <1>2, <2>1, <3>1 DEF Route, OnTime, currentAge
      <4> QED BY <4>1, RoutesBounds
    <3>3. p.best \in fresh
      BY <3>1, <3>2 DEF fresh
    <3> QED BY <1>2, <1>4, <1>5, <3>1, <3>3, KeyOrder
  <2> QED BY <1>1, <1>9, <2>1, TopKeeps DEF Sound
<1> QED BY <1>3, <1>4, <1>5, <1>9, <1>10 DEF q

\* Nor what becomes of the peer after that: a timeout leaves the routes as they are, and
\* a peer is dropped when it has none.
LEMMA Expired ==
    ASSUME NEW A, IsClock(A), NEW last \in 0 .. MaxSends, NEW n \in Nodes,
           linkMetric[n] \in Nat, NEW N \in SUBSET Nbrs,
           Sound(dps[n], N, linkMetric[n], A, last)
    PROVE  LET q == expired(n)
           IN  /\ q = NoPeer \/ Sound(q, N, linkMetric[n], A, last)
               /\ Keeps(dps[n], q, linkMetric[n], A)
               /\ q # NoPeer =>
                    /\ \A g \in DOMAIN q.routes : q.routes[g].up =>
                        /\ g \in DOMAIN dps[n].routes /\ q.routes[g] = dps[n].routes[g]
                        /\ q.routes[g].idle <= DownTicks
                    /\ \A g \in DOMAIN q.routes : q.routes[g].idle <= RemovalTicks
<1> DEFINE link == linkMetric[n]
           p  == expireRoutes(dps[n], link, FALSE, 0)
           p1 == expireProbation(p, FALSE)
           q  == expirePeer(p1)
<1>0. 0 \in 0 .. MaxQueue /\ FALSE \in BOOLEAN /\ link \in Nat
  BY RoutesBounds
<1> HIDE DEF link
<1>1. /\ Sound(p, N, link, A, last) /\ Keeps(dps[n], p, link, A)
      /\ \A g \in DOMAIN p.routes : p.routes[g].up =>
            /\ g \in DOMAIN dps[n].routes /\ p.routes[g] = dps[n].routes[g]
            /\ p.routes[g].idle <= DownTicks
      /\ \A g \in DOMAIN p.routes : p.routes[g].idle <= RemovalTicks
  BY <1>0, RoutesExpired DEF link
<1> HIDE DEF p
<1>2. /\ Held(p, N, link, A, last) /\ p \in Records /\ BestFits(p) /\ UpVia(p, N)
  BY <1>1 DEF Sound, Held
<1>3. /\ p1 \in Records /\ BestFits(p1) /\ p1.routes = p.routes /\ p1.heard = p.heard
      /\ p1.best = p.best
  BY <1>0, <1>2, ExpireProbation
<1> HIDE DEF p1
<1>4. UpVia(p1, N) /\ \A h \in DOMAIN p1.routes : p1.routes[h].up => p1.routes[h].idle <= DownTicks
  BY <1>1, <1>2, <1>3 DEF UpVia
<1>5. /\ q \in Records /\ BestFits(q) /\ UpVia(q, N)
      /\ q.routes = p.routes /\ q.best = p.best
  BY <1>3, <1>4, ExpirePeer
<1> HIDE DEF q
<1>6. Sound(q, N, link, A, last)
  BY <1>2, <1>5 DEF Sound, Held, Top
<1>7. q # NoPeer
  BY <1>5, RecordIsPeer
<1>8. Keeps(dps[n], q, link, A)
  BY <1>1, <1>5, <1>7 DEF Keeps, hasBest, bestKey
<1>9. expired(n) = IF q.state = "TIMED_OUT" /\ DOMAIN q.routes = {} THEN NoPeer ELSE q
  BY DEF expired, q, p1, p, link
<1>10. CASE expired(n) = q
  BY <1>1, <1>5, <1>6, <1>8, <1>10 DEF link
<1>11. CASE expired(n) = NoPeer /\ DOMAIN q.routes = {}
  <2>1. ~hasBest(q)
    BY <1>5, <1>6, <1>11 DEF hasBest, BestFits
  <2>2. Keeps(dps[n], NoPeer, link, A)
    BY <1>8, <2>1 DEF Keeps
  <2> QED BY <1>11, <2>2 DEF link
<1> QED BY <1>9, <1>10, <1>11

-----------------------------------------------------------------------------
\* The inductive invariant.

HasBeyond(m, k) == hasBest(dps[m]) /\ beyond(bestKey(dps[m], linkMetric[m]), k)
HasAhead(m, k) == hasBest(dps[m]) /\ ahead(bestKey(dps[m], linkMetric[m]), k)

\* The next hop of a route that is UP has a better one.
Told(n) ==
    dps[n] # NoPeer => \A h \in DOMAIN dps[n].routes :
        LET rt == dps[n].routes[h]
        IN  rt.up /\ rt.next \in Nodes => HasBeyond(rt.next, keyOf(rt, linkMetric[n]))

\* A packet on the air tells a right age, and nothing better than its sender has.
TellsTrue(pkt, A) ==
    /\ pkt.says.seq \in 0 .. dst.seq
    /\ pkt.from = Dst => A[pkt.says.seq] = 0
    /\ pkt.from # Dst =>
        /\ pkt.says.age = A[pkt.says.seq]
        /\ pkt.says.metric # Infinite /\ pkt.says.age <= MaxAcceptedAge =>
                HasAhead(pkt.from, [seq |-> pkt.says.seq, metric |-> pkt.says.metric])

IsPacket(pkt) ==
    /\ <<pkt.from, pkt.to>> \in Links
    /\ pkt.from # Dst =>
        /\ pkt.says.metric \in Metrics \cup {Infinite}
        /\ pkt.says.lastHop \in LastHops /\ pkt.says.age \in Nat

NetType ==
    /\ dps = [n \in Nodes |-> dps[n]]
    /\ nbrs = [n \in Nodes |-> nbrs[n]] /\ \A n \in Nodes : nbrs[n] \in SUBSET NbrsOf(n)
    /\ linkMetric \in [Nodes -> LinkMetrics]
    /\ IsFiniteSet(air) /\ Cardinality(air) <= MaxOnAir /\ \A pkt \in air : IsPacket(pkt)
    /\ dst \in [up : BOOLEAN, seq : 0 .. MaxSends, fresh : BOOLEAN]

\* A is the clock of the sequence numbers: the ones to come, and the one that Dst has
\* just used, are not old.
Shows(A) ==
    /\ IsClock(A)
    /\ \A s \in 0 .. MaxSends : s > dst.seq \/ (s = dst.seq /\ dst.fresh) => A[s] = 0

Timed(A) ==
    /\ Shows(A)
    /\ \A n \in Nodes :
            /\ dps[n] = NoPeer \/ Sound(dps[n], nbrs[n], linkMetric[n], A, dst.seq)
            /\ Told(n)
    /\ \A pkt \in air : TellsTrue(pkt, A)

IInv == NetType /\ \E A : Timed(A)

-----------------------------------------------------------------------------
\* A step of one device.

\* Who has kept its best route has something as good as it had.
LEMMA BestIsKept ==
    ASSUME NEW A, IsClock(A), NEW last \in 0 .. MaxSends, NEW link \in Nat, NEW M, NEW N,
           NEW p, p = NoPeer \/ Sound(p, M, link, A, last),
           NEW q, q = NoPeer \/ Sound(q, N, link, A, last),
           Keeps(p, q, link, A), NEW k \in Keys, A[k.seq] <= RemovalTicks
    PROVE  /\ hasBest(p) /\ ahead(bestKey(p, link), k) => hasBest(q) /\ ahead(bestKey(q, link), k)
           /\ hasBest(p) /\ beyond(bestKey(p, link), k) => hasBest(q) /\ beyond(bestKey(q, link), k)
<1>0. \A r, P : hasBest(r) /\ Sound(r, P, link, A, last) => bestKey(r, link) \in Keys
  <2> SUFFICES ASSUME NEW r, NEW P, hasBest(r), Sound(r, P, link, A, last)
               PROVE  bestKey(r, link) \in Keys
    OBVIOUS
  <2>1. r.best \in DOMAIN r.routes /\ Held(r, P, link, A, last)
    BY DEF hasBest, Sound, Held
  <2> QED BY <2>1, HeldRoutes DEF bestKey
<1>1. ASSUME hasBest(p), ahead(bestKey(p, link), k)
      PROVE  /\ hasBest(q) /\ ahead(bestKey(q, link), bestKey(p, link))
             /\ bestKey(p, link) \in Keys /\ bestKey(q, link) \in Keys
  <2>1. bestKey(p, link) \in Keys
    BY <1>0, <1>1 DEF hasBest
  <2>2. k.seq <= bestKey(p, link).seq
    BY <1>1, <2>1 DEF ahead, Keys
  <2>3. A[bestKey(p, link).seq] <= A[k.seq] /\ A[bestKey(p, link).seq] \in Nat /\ A[k.seq] \in Nat
    BY <2>1, <2>2 DEF IsClock, Keys
  <2>4. bestKey(p, link).seq = p.routes[p.best].seq
    BY DEF bestKey, keyOf
  <2>5. A[p.routes[p.best].seq] <= RemovalTicks
    BY <2>3, <2>4, RoutesBounds
  <2>6. hasBest(q) /\ ahead(bestKey(q, link), bestKey(p, link))
    BY <1>1, <2>5 DEF Keeps
  <2> QED BY <1>0, <2>1, <2>6 DEF hasBest
<1>2. hasBest(p) /\ beyond(bestKey(p, link), k) => ahead(bestKey(p, link), k)
  BY <1>0, KeyOrder DEF hasBest
<1> QED BY <1>1, <1>2, KeyOrder

\* A route that is UP is young enough for its next hop to have kept what it told.
LEMMA UpIsYoung ==
    ASSUME NEW A, NEW last \in 0 .. MaxSends, NEW link \in Nat, NEW N, NEW p,
           Sound(p, N, link, A, last), NEW h \in DOMAIN p.routes, p.routes[h].up
    PROVE  /\ keyOf(p.routes[h], link) \in Keys
           /\ A[keyOf(p.routes[h], link).seq] <= RemovalTicks
           /\ p.routes[h].next \in N
<1>1. /\ p.routes[h] \in Route /\ OnTime(p.routes[h], A, last) /\ Young(p.routes[h])
      /\ keyOf(p.routes[h], link) \in Keys /\ UpVia(p, N)
  BY HeldRoutes DEF Sound
<1>2. /\ p.routes[h].age \in Nat /\ p.routes[h].age <= MaxAcceptedAge
      /\ p.routes[h].idle \in 0 .. RemovalTicks + 1 /\ p.routes[h].idle <= DownTicks + 1
      /\ A[p.routes[h].seq] = p.routes[h].age + p.routes[h].idle
  BY <1>1 DEF Route, OnTime, Young, currentAge
<1>3. A[p.routes[h].seq] <= RemovalTicks
  BY <1>2, RoutesBounds, NetBounds
<1>4. keyOf(p.routes[h], link).seq = p.routes[h].seq
  BY DEF keyOf
<1> QED BY <1>1, <1>3, <1>4 DEF UpVia

\* A node that keeps its best route, and goes by what others have, upsets nobody.
LEMMA NodeStep ==
    ASSUME NetType, NEW A, Timed(A), NEW n \in Nodes, NEW q, NEW N,
           dps' = [dps EXCEPT ![n] = q], nbrs' = [nbrs EXCEPT ![n] = N],
           UNCHANGED <<linkMetric, dst>>, air' \subseteq air,
           q = NoPeer \/ Sound(q, N, linkMetric[n], A, dst.seq),
           Keeps(dps[n], q, linkMetric[n], A),
           q # NoPeer => \A h \in DOMAIN q.routes :
                q.routes[h].up /\ q.routes[h].next \in Nodes =>
                    HasBeyond(q.routes[h].next, keyOf(q.routes[h], linkMetric[n]))
    PROVE  Timed(A)'
<1> DEFINE link == linkMetric[n]
<1>1. /\ IsClock(A) /\ dst.seq \in 0 .. MaxSends
      /\ \A m \in Nodes : linkMetric[m] \in Nat
  BY NetBounds DEF NetType, Timed, Shows
<1>2. /\ dps'[n] = q /\ nbrs'[n] = N
      /\ \A m \in Nodes : m # n => dps'[m] = dps[m] /\ nbrs'[m] = nbrs[m]
      /\ linkMetric' = linkMetric /\ dst' = dst
  BY DEF NetType
<1>3. \A m \in Nodes : dps[m] = NoPeer \/ Sound(dps[m], nbrs[m], linkMetric[m], A, dst.seq)
  BY DEF Timed
<1>4. ASSUME NEW m \in Nodes, NEW k \in Keys, A[k.seq] <= RemovalTicks
      PROVE  (HasAhead(m, k) => HasAhead(m, k)') /\ (HasBeyond(m, k) => HasBeyond(m, k)')
  <2>1. CASE m = n
    <3>1. /\ hasBest(dps[n]) /\ ahead(bestKey(dps[n], link), k) =>
                hasBest(q) /\ ahead(bestKey(q, link), k)
          /\ hasBest(dps[n]) /\ beyond(bestKey(dps[n], link), k) =>
                hasBest(q) /\ beyond(bestKey(q, link), k)
      BY <1>1, <1>3, <1>4, BestIsKept
    <3> QED BY <1>2, <2>1, <3>1 DEF HasAhead, HasBeyond
  <2>2. CASE m # n
    BY <1>2, <2>2 DEF HasAhead, HasBeyond
  <2> QED BY <2>1, <2>2
<1>5. \A m \in Nodes : (dps[m] = NoPeer \/ Sound(dps[m], nbrs[m], linkMetric[m], A, dst.seq))'
  BY <1>2, <1>3
<1>6. ASSUME NEW m \in Nodes PROVE Told(m)'
  <2> SUFFICES ASSUME dps'[m] # NoPeer, NEW h \in DOMAIN dps'[m].routes,
                      NEW rt, rt = dps'[m].routes[h], rt.up, rt.next \in Nodes,
                      NEW k, k = keyOf(rt, linkMetric[m])
               PROVE  HasBeyond(rt.next, k)'
    BY <1>2 DEF Told, HasBeyond
  <2>1. HasBeyond(rt.next, k)
    <3>1. CASE m = n
      BY <1>2, <3>1
    <3>2. CASE m # n
      BY <1>2, <3>2 DEF Timed, Told
    <3> QED BY <3>1, <3>2
  <2>2. Sound(dps'[m], nbrs'[m], linkMetric[m], A, dst.seq)
    BY <1>2, <1>5
  <2>3. k \in Keys /\ A[k.seq] <= RemovalTicks
    BY <1>1, <2>2, UpIsYoung
  <2> QED BY <1>4, <2>1, <2>3
<1>7. ASSUME NEW pkt \in air' PROVE TellsTrue(pkt, A)'
  <2>1. pkt \in air /\ TellsTrue(pkt, A) /\ IsPacket(pkt)
    BY DEF Timed, NetType
  <2>2. ASSUME pkt.from # Dst, pkt.says.metric # Infinite, pkt.says.age <= MaxAcceptedAge
        PROVE  HasAhead(pkt.from, [seq |-> pkt.says.seq, metric |-> pkt.says.metric])'
    <3>1. pkt.from \in Nodes /\ pkt.says.metric \in Metric
      BY <2>1, <2>2, DVNetAssumption, NetBounds DEF IsPacket, DVNetAssumption, Metric
    <3>2. pkt.says.seq \in 0 .. MaxSends /\ A[pkt.says.seq] \in Nat
      <4>1. pkt.says.seq \in 0 .. MaxSends
        BY <1>1, <2>1, NetBounds DEF TellsTrue
      <4> QED BY <1>1, <4>1 DEF IsClock
    <3>3. A[pkt.says.seq] <= RemovalTicks
      BY <2>1, <2>2, <3>2, NetBounds, RoutesBounds DEF TellsTrue
    <3>4. [seq |-> pkt.says.seq, metric |-> pkt.says.metric] \in Keys
      BY <3>1, <3>2 DEF Keys
    <3>5. HasAhead(pkt.from, [seq |-> pkt.says.seq, metric |-> pkt.says.metric])
      BY <2>1, <2>2 DEF TellsTrue
    <3> QED BY <1>4, <3>1, <3>3, <3>4, <3>5
  <2> QED BY <1>2, <2>1, <2>2 DEF TellsTrue
<1>8. Shows(A)'
  BY <1>2 DEF Timed, Shows
<1> QED BY <1>5, <1>6, <1>7, <1>8 DEF Timed

LEMMA SoundGrows ==
    ASSUME NEW p, NEW M, NEW N, M \subseteq N, NEW link, NEW A, NEW last, Sound(p, M, link, A, last)
    PROVE  Sound(p, N, link, A, last)
BY DEF Sound, Held, UpVia

\* What a node knows, and what the network says of it.
LEMMA KnownIsSound ==
    ASSUME NetType, NEW A, Timed(A), NEW n \in Nodes
    PROVE  /\ known(n) <=> dps[n] # NoPeer
           /\ known(n) => Sound(dps[n], nbrs[n], linkMetric[n], A, dst.seq)
           /\ IsClock(A) /\ dst.seq \in 0 .. MaxSends /\ linkMetric[n] \in Nat
           /\ nbrs[n] \in SUBSET Nbrs
<1>1. dps[n] = NoPeer \/ Sound(dps[n], nbrs[n], linkMetric[n], A, dst.seq)
  BY DEF Timed
<1>2. Sound(dps[n], nbrs[n], linkMetric[n], A, dst.seq) =>
        dps[n].state # "null" /\ dps[n] # NoPeer
  BY RecordIsPeer DEF Sound, Held
<1>3. NoPeer.state = "null"
  BY DEF NoPeer
<1> QED BY <1>1, <1>2, <1>3, NetBounds DEF known, NetType, Timed, Shows

LEMMA SoundKeepsItself ==
    ASSUME NEW A, NEW last \in 0 .. MaxSends, NEW link \in Nat, NEW N, NEW p,
           Sound(p, N, link, A, last)
    PROVE  Keeps(p, p, link, A)
<1>1. hasBest(p) => p.best \in DOMAIN p.routes
  BY DEF Sound, Held, hasBest
<1>2. \A h \in DOMAIN p.routes : keyOf(p.routes[h], link) \in Keys
  BY HeldRoutes DEF Sound
<1> QED BY <1>1, <1>2, KeyOrder DEF Keeps, bestKey

\* An update, accepted or not, of which the sender knows better.
LEMMA Heard ==
    ASSUME NetType, NEW A, Timed(A), NEW n \in Nodes, NEW N \in SUBSET Nbrs, nbrs[n] \subseteq N,
           NEW m \in N, NEW metric \in Metric, NEW seq \in 0 .. dst.seq, NEW h \in LastHops,
           NEW age \in Nat, age = A[seq], age <= MaxAcceptedAge,
           m = Dst => metric = linkMetric[n],
           m \in Nodes /\ metric # Infinite => HasBeyond(m, [seq |-> seq, metric |-> metric])
    PROVE  LET q == heard(n, m, metric, seq, h, age)
           IN  /\ Sound(q, N, linkMetric[n], A, dst.seq)
               /\ Keeps(dps[n], q, linkMetric[n], A)
               /\ \A g \in DOMAIN q.routes : q.routes[g].up /\ q.routes[g].next \in Nodes =>
                    HasBeyond(q.routes[g].next, keyOf(q.routes[g], linkMetric[n]))
<1> DEFINE link == linkMetric[n]
           last == dst.seq
           p == peerOf(n)
           u == updateRoute(p, m, metric, seq, h, age, link, FALSE, 0)
           q == heard(n, m, metric, seq, h, age)
<1>1. /\ IsClock(A) /\ last \in 0 .. MaxSends /\ link \in Nat
      /\ known(n) <=> dps[n] # NoPeer
      /\ known(n) => Sound(dps[n], nbrs[n], link, A, last)
  BY KnownIsSound
<1>2. q = IF accepts(p.routes, m, metric, seq, h, age, link) THEN u ELSE p
  BY DEF heard
<1>3. known(n) => /\ p = dps[n] /\ Sound(p, N, link, A, last)
                  /\ \A g \in DOMAIN p.routes : p.routes[g].up /\ p.routes[g].next \in Nodes =>
                        HasBeyond(p.routes[g].next, keyOf(p.routes[g], link))
  <2>1. Told(n)
    BY DEF Timed
  <2> QED BY <1>1, <2>1, SoundGrows DEF peerOf, Told
<1>4. ~known(n) => p = newDVPeer /\ dps[n] = NoPeer /\ DOMAIN p.routes = {}
  BY <1>1, NewDVPeerType DEF peerOf
<1>5. Held(p, N, link, A, last)
  BY <1>3, <1>4, NewIsSound DEF Sound
<1> HIDE DEF p
<1>6. CASE accepts(p.routes, m, metric, seq, h, age, link)
  <2>1. /\ Sound(u, N, link, A, last) /\ Keeps(p, u, link, A)
        /\ AddsOnly(p, u, link, m, [seq |-> seq, metric |-> metric])
    <3>1. 0 \in 0 .. MaxQueue /\ FALSE \in BOOLEAN
      BY RoutesBounds
    <3> HIDE DEF last
    <3>2. seq \in 0 .. last
      BY DEF last
    <3> HIDE DEF link
    <3>3. m = Dst => metric = link
      BY DEF link
    <3> QED BY <1>1, <1>5, <1>6, <3>1, <3>2, <3>3, Updated
  <2>2. Keeps(dps[n], u, link, A)
    <3>1. ~hasBest(NoPeer)
      BY DEF hasBest
    <3> QED BY <1>3, <1>4, <2>1, <3>1 DEF Keeps
  <2>3. q = u
    BY <1>2, <1>6
  <2> HIDE DEF q, u
  <2>4. ASSUME NEW g \in DOMAIN u.routes, u.routes[g].up, u.routes[g].next \in Nodes
        PROVE  HasBeyond(u.routes[g].next, keyOf(u.routes[g], link))
    <3>1. CASE g \in DOMAIN p.routes /\ u.routes[g] = p.routes[g]
      <4>1. known(n)
        BY <1>4, <3>1
      <4> QED BY <1>3, <2>4, <3>1, <4>1
    <3>2. CASE /\ u.routes[g].next = m /\ metric # Infinite
               /\ keyOf(u.routes[g], link) = [seq |-> seq, metric |-> metric]
      BY <2>4, <3>2
    <3> QED BY <2>1, <2>4, <3>1, <3>2 DEF AddsOnly
  <2> QED BY <2>1, <2>2, <2>3, <2>4 DEF q
<1>7. CASE ~accepts(p.routes, m, metric, seq, h, age, link)
  <2>1. known(n)
    BY <1>4, <1>7 DEF accepts
  <2>2. q = dps[n] /\ q = p
    BY <1>2, <1>3, <1>7, <2>1
  <2> HIDE DEF q
  <2>3. Keeps(q, q, link, A)
    BY <1>1, <1>3, <2>1, <2>2, SoundKeepsItself
  <2> QED BY <1>3, <2>1, <2>2, <2>3 DEF q
<1> QED BY <1>6, <1>7

LEMMA NodeType ==
    ASSUME NetType, NEW n \in Nodes, NEW q, NEW N \in SUBSET NbrsOf(n),
           dps' = [dps EXCEPT ![n] = q], nbrs' = [nbrs EXCEPT ![n] = N],
           UNCHANGED <<linkMetric, dst>>, air' \subseteq air
    PROVE  NetType'
<1>1. IsFiniteSet(air') /\ Cardinality(air') <= Cardinality(air)
  BY FS_Subset DEF NetType
<1>2. Cardinality(air) \in Nat /\ Cardinality(air') \in Nat
  BY <1>1, FS_CardinalityType DEF NetType
<1>3. IsFiniteSet(air') /\ Cardinality(air') <= MaxOnAir /\ \A pkt \in air' : IsPacket(pkt)
  BY <1>1, <1>2, NetBounds DEF NetType
<1>4. dps' = [m \in Nodes |-> dps'[m]]
  BY DEF NetType
<1>5. nbrs' = [m \in Nodes |-> nbrs'[m]] /\ \A m \in Nodes : nbrs'[m] \in SUBSET NbrsOf(m)
  BY DEF NetType
<1> QED BY <1>3, <1>4, <1>5 DEF NetType, IsPacket

\* A step that no node takes part in.
LEMMA NoNodeStep ==
    ASSUME NetType, NEW A, Timed(A), NEW n \in Nodes,
           UNCHANGED <<dps, nbrs, linkMetric, dst>>, air' \subseteq air
    PROVE  NetType' /\ Timed(A)'
<1>1. /\ dps' = [dps EXCEPT ![n] = dps[n]] /\ nbrs' = [nbrs EXCEPT ![n] = nbrs[n]]
      /\ nbrs[n] \in SUBSET NbrsOf(n)
  BY DEF NetType
<1>2. dps[n] = NoPeer \/ Sound(dps[n], nbrs[n], linkMetric[n], A, dst.seq)
  BY DEF Timed
<1>3. Keeps(dps[n], dps[n], linkMetric[n], A)
  <2>1. ~hasBest(NoPeer)
    BY DEF hasBest
  <2> QED BY <1>2, <2>1, KnownIsSound, SoundKeepsItself DEF Keeps
<1>4. dps[n] # NoPeer => \A h \in DOMAIN dps[n].routes :
                dps[n].routes[h].up /\ dps[n].routes[h].next \in Nodes =>
                    HasBeyond(dps[n].routes[h].next, keyOf(dps[n].routes[h], linkMetric[n]))
  BY DEF Timed, Told
<1>5. Timed(A)'
  BY <1>1, <1>2, <1>3, <1>4, NodeStep
<1>6. NetType'
  BY <1>1, NodeType
<1> QED BY <1>5, <1>6

LEMMA AddDstStep ==
    ASSUME NetType, NEW A, Timed(A), NEW n \in Nodes, AddDst(n)
    PROVE  NetType' /\ Timed(A)'
<1> DEFINE link == linkMetric[n]
           N == nbrs[n] \cup {Dst}
           q == heard(n, Dst, link, dst.seq, n, 0)
<1>1. /\ dst.seq \in 0 .. MaxSends /\ link \in Nat /\ nbrs[n] \in SUBSET NbrsOf(n)
      /\ Dst \in NbrsOf(n) /\ Dst \notin Nodes /\ NbrsOf(n) \subseteq Nbrs
      /\ nbrs[n] \in SUBSET NbrsOf(n)
  BY KnownIsSound, NetBounds DEF NetType, AddDst
<1>2. /\ dps' = [dps EXCEPT ![n] = q] /\ nbrs' = [nbrs EXCEPT ![n] = N]
      /\ UNCHANGED <<linkMetric, dst>> /\ air' \subseteq air
  BY DEF AddDst, heardDirect, NetType
<1>3. A[dst.seq] = 0
  BY <1>1 DEF AddDst, Timed, Shows
<1>4. /\ Sound(q, N, link, A, dst.seq) /\ Keeps(dps[n], q, link, A)
      /\ \A g \in DOMAIN q.routes : q.routes[g].up /\ q.routes[g].next \in Nodes =>
                    HasBeyond(q.routes[g].next, keyOf(q.routes[g], link))
  <2>1. /\ N \in SUBSET Nbrs /\ nbrs[n] \subseteq N /\ Dst \in N /\ link \in Metric
        /\ dst.seq \in 0 .. dst.seq /\ n \in LastHops /\ 0 \in Nat /\ 0 = A[dst.seq]
        /\ 0 <= MaxAcceptedAge /\ Dst \notin Nodes
    BY <1>1, <1>3, NetBounds DEF Metric
  <2> QED BY <2>1, Heard
<1> HIDE DEF q
<1>5. Timed(A)'
  BY <1>2, <1>4, NodeStep
<1>6. NetType'
  <2>1. N \in SUBSET NbrsOf(n)
    BY <1>1
  <2> QED BY <1>2, <2>1, NodeType
<1> QED BY <1>5, <1>6

LEMMA AddNbrStep ==
    ASSUME NetType, NEW A, Timed(A), NEW n \in Nodes, NEW m, AddNbr(n, m)
    PROVE  NetType' /\ Timed(A)'
<1> DEFINE N == nbrs[n] \cup {m}
           q == dps[n]
<1>1. /\ dps' = [dps EXCEPT ![n] = q] /\ nbrs' = [nbrs EXCEPT ![n] = N]
      /\ UNCHANGED <<linkMetric, dst>> /\ air' \subseteq air /\ N \in SUBSET NbrsOf(n)
  BY DEF AddNbr, NetType
<1>2. dps[n] = NoPeer \/ Sound(dps[n], nbrs[n], linkMetric[n], A, dst.seq)
  BY DEF Timed
<1>3. q = NoPeer \/ Sound(q, N, linkMetric[n], A, dst.seq)
  BY <1>2, SoundGrows
<1>4. Keeps(dps[n], q, linkMetric[n], A)
  <2>1. ~hasBest(NoPeer)
    BY DEF hasBest
  <2> QED BY <1>2, <2>1, KnownIsSound, SoundKeepsItself DEF Keeps
<1>5. q # NoPeer => \A h \in DOMAIN q.routes :
                q.routes[h].up /\ q.routes[h].next \in Nodes =>
                    HasBeyond(q.routes[h].next, keyOf(q.routes[h], linkMetric[n]))
  BY DEF Timed, Told
<1>6. Timed(A)'
  BY <1>1, <1>3, <1>4, <1>5, NodeStep
<1>7. NetType'
  BY <1>1, NodeType
<1> QED BY <1>6, <1>7

LEMMA RemoveNbrStep ==
    ASSUME NetType, NEW A, Timed(A), NEW n \in Nodes, NEW m, RemoveNbr(n, m)
    PROVE  NetType' /\ Timed(A)'
<1> DEFINE link == linkMetric[n]
           N == nbrs[n] \ {m}
           q == IF known(n) THEN nbrRoutesDown(dps[n], m, link, FALSE, 0) ELSE NoPeer
<1>1. /\ IsClock(A) /\ dst.seq \in 0 .. MaxSends /\ link \in Nat
      /\ known(n) <=> dps[n] # NoPeer
      /\ known(n) => Sound(dps[n], nbrs[n], link, A, dst.seq)
      /\ nbrs[n] \in SUBSET Nbrs
  BY KnownIsSound
<1>2. /\ dps' = [dps EXCEPT ![n] = q] /\ nbrs' = [nbrs EXCEPT ![n] = N]
      /\ UNCHANGED <<linkMetric, dst>> /\ air' \subseteq air /\ N \in SUBSET NbrsOf(n)
      /\ m \in Nbrs
  BY <1>1 DEF RemoveNbr, NetType
<1>3. CASE known(n)
  <2>1. 0 \in 0 .. MaxQueue /\ FALSE \in BOOLEAN
    BY RoutesBounds
  <2>2. /\ Sound(nbrRoutesDown(dps[n], m, link, FALSE, 0), N, link, A, dst.seq)
        /\ Keeps(dps[n], nbrRoutesDown(dps[n], m, link, FALSE, 0), link, A)
        /\ AddsNone(dps[n], nbrRoutesDown(dps[n], m, link, FALSE, 0))
    BY <1>1, <1>2, <1>3, <2>1, Broken
  <2>3. q = nbrRoutesDown(dps[n], m, link, FALSE, 0)
    BY <1>3
  <2> HIDE DEF q
  <2>4. \A h \in DOMAIN q.routes : q.routes[h].up /\ q.routes[h].next \in Nodes =>
                HasBeyond(q.routes[h].next, keyOf(q.routes[h], link))
    BY <1>1, <1>3, <2>2, <2>3 DEF Timed, Told, AddsNone
  <2>5. Timed(A)'
    BY <1>2, <2>2, <2>3, <2>4, NodeStep
  <2> QED BY <1>2, <2>5, NodeType
<1>4. CASE ~known(n)
  <2>1. q = NoPeer /\ dps[n] = NoPeer
    BY <1>1, <1>4
  <2>2. Keeps(dps[n], q, link, A)
    BY <2>1 DEF Keeps, hasBest
  <2> HIDE DEF q
  <2>3. Timed(A)'
    BY <1>2, <2>1, <2>2, NodeStep
  <2> QED BY <1>2, <2>3, NodeType
<1> QED BY <1>3, <1>4

\* The sender has something as good as it told, which is better with a link added.
LEMMA ReceiveStep ==
    ASSUME NetType, NEW A, Timed(A), NEW n \in Nodes, Receive(n)
    PROVE  NetType' /\ Timed(A)'
<1>1. PICK pkt \in air :
        /\ pkt.to = n /\ pkt.from # Dst /\ air' = air \ {pkt}
        /\ IF ignores(n, pkt.from, pkt.says)
           THEN dps' = dps
           ELSE \E link \in HopMetrics :
                dps' = [dps EXCEPT ![n] =
                        heard(n, pkt.from, plusLink(pkt.says.metric, link),
                              pkt.says.seq, pkt.says.lastHop, pkt.says.age)]
        /\ UNCHANGED <<nbrs, linkMetric, dst>>
  BY DEF Receive
<1>2. CASE ignores(n, pkt.from, pkt.says)
  BY <1>1, <1>2, NoNodeStep
<1>3. CASE ~ignores(n, pkt.from, pkt.says)
  <2> DEFINE m == pkt.from
             said == pkt.says
             told == [seq |-> said.seq, metric |-> said.metric]
  <2>1. PICK hop \in HopMetrics :
                dps' = [dps EXCEPT ![n] = heard(n, m, plusLink(said.metric, hop),
                                                said.seq, said.lastHop, said.age)]
    BY <1>1, <1>3
  <2> DEFINE metric == plusLink(said.metric, hop)
             q == heard(n, m, metric, said.seq, said.lastHop, said.age)
  <2>2. /\ m \in Nodes /\ m \in nbrs[n] /\ said.age <= MaxAcceptedAge
        /\ IsPacket(pkt) /\ TellsTrue(pkt, A)
        /\ IsClock(A) /\ dst.seq \in 0 .. MaxSends
    BY <1>1, <1>3, DVNetAssumption, KnownIsSound
    DEF IsPacket, NetType, Timed, ignores, DVNetAssumption
  <2>3. /\ said.seq \in 0 .. dst.seq /\ said.age = A[said.seq] /\ said.age \in Nat
        /\ said.lastHop \in LastHops /\ said.metric \in Metric
        /\ said.metric # Infinite => HasAhead(m, told)
    BY <1>1, <2>2, NetBounds DEF TellsTrue, IsPacket, Metric
  <2>4. /\ metric \in Metric
        /\ metric # Infinite => /\ said.metric # Infinite
                                /\ ~isBetterThan(said.metric, metric) \/ metric > said.metric
    BY <2>3, NetBounds, RoutesBounds DEF plusLink, Metric, isBetterThan
  <2>5. ASSUME metric # Infinite
        PROVE  HasBeyond(m, [seq |-> said.seq, metric |-> metric])
    <3> DEFINE k == [seq |-> said.seq, metric |-> metric]
    <3>1. said.seq \in 0 .. MaxSends
      BY <2>2, <2>3, NetBounds
    <3>2. told \in Keys /\ k \in Keys
      BY <2>3, <2>4, <3>1 DEF Keys
    <3>3. beyond(told, k)
      <4>1. metric \in Nat /\ said.metric \in Nat /\ said.metric < metric
        BY <2>3, <2>5, NetBounds DEF plusLink, Metric
      <4>2. ~isBetterThan(metric, said.metric)
        BY <4>1, RoutesBounds DEF isBetterThan
      <4> QED BY <4>2 DEF beyond
    <3>4. hasBest(dps[m]) /\ ahead(bestKey(dps[m], linkMetric[m]), told)
      BY <2>3, <2>4, <2>5 DEF HasAhead
    <3>5. bestKey(dps[m], linkMetric[m]) \in Keys
      <4>1. /\ Sound(dps[m], nbrs[m], linkMetric[m], A, dst.seq)
            /\ linkMetric[m] \in Nat /\ dst.seq \in 0 .. MaxSends
        BY <2>2, <3>4, KnownIsSound DEF hasBest
      <4>2. dps[m].best \in DOMAIN dps[m].routes
        BY <3>4, <4>1 DEF Sound, Held, hasBest
      <4> QED BY <4>1, <4>2, HeldRoutes DEF Sound, bestKey
    <3>6. beyond(bestKey(dps[m], linkMetric[m]), k)
      BY <3>2, <3>3, <3>4, <3>5, KeyOrder
    <3> QED BY <3>4, <3>6 DEF HasBeyond
  <2>6. /\ Sound(q, nbrs[n], linkMetric[n], A, dst.seq)
        /\ Keeps(dps[n], q, linkMetric[n], A)
        /\ \A g \in DOMAIN q.routes : q.routes[g].up /\ q.routes[g].next \in Nodes =>
                    HasBeyond(q.routes[g].next, keyOf(q.routes[g], linkMetric[n]))
    <3>1. nbrs[n] \in SUBSET Nbrs /\ m # Dst
      BY <1>1, KnownIsSound
    <3> HIDE DEF m, said, metric
    <3> QED BY <2>2, <2>3, <2>4, <2>5, <3>1, Heard
  <2>7. /\ dps' = [dps EXCEPT ![n] = q] /\ nbrs' = [nbrs EXCEPT ![n] = nbrs[n]]
        /\ UNCHANGED <<linkMetric, dst>> /\ air' \subseteq air /\ nbrs[n] \in SUBSET NbrsOf(n)
    BY <1>1, <2>1 DEF NetType
  <2> HIDE DEF q
  <2>8. Timed(A)'
    BY <2>6, <2>7, NodeStep
  <2> QED BY <2>7, <2>8, NodeType
<1> QED BY <1>2, <1>3

LEMMA ReceiveFromDstStep ==
    ASSUME NetType, NEW A, Timed(A), NEW n \in Nodes, ReceiveFromDst(n)
    PROVE  NetType' /\ Timed(A)'
<1>1. PICK pkt \in air :
        /\ pkt.from = Dst /\ air' = air \ {pkt}
        /\ dps' = IF Dst \in nbrs[n]
                  THEN [dps EXCEPT ![n] = heardDirect(n, pkt.says.seq)] ELSE dps
        /\ UNCHANGED <<nbrs, linkMetric, dst>>
  BY DEF ReceiveFromDst
<1>2. CASE Dst \notin nbrs[n]
  BY <1>1, <1>2, NoNodeStep
<1>3. CASE Dst \in nbrs[n]
  <2> DEFINE link == linkMetric[n]
             seq == pkt.says.seq
             q == heard(n, Dst, link, seq, n, 0)
  <2>1. /\ dps' = [dps EXCEPT ![n] = q] /\ nbrs' = [nbrs EXCEPT ![n] = nbrs[n]]
        /\ UNCHANGED <<linkMetric, dst>> /\ air' \subseteq air /\ nbrs[n] \in SUBSET NbrsOf(n)
    BY <1>1, <1>3 DEF heardDirect, NetType
  <2>2. TellsTrue(pkt, A)
    BY DEF Timed
  <2>3. /\ nbrs[n] \in SUBSET Nbrs /\ Dst \in nbrs[n] /\ link \in Metric
        /\ seq \in 0 .. dst.seq /\ n \in LastHops /\ 0 \in Nat /\ 0 = A[seq]
        /\ 0 <= MaxAcceptedAge /\ Dst \notin Nodes
    BY <1>1, <1>3, <2>2, KnownIsSound, NetBounds DEF Metric, TellsTrue
  <2>4. /\ Sound(q, nbrs[n], link, A, dst.seq) /\ Keeps(dps[n], q, link, A)
        /\ \A g \in DOMAIN q.routes : q.routes[g].up /\ q.routes[g].next \in Nodes =>
                    HasBeyond(q.routes[g].next, keyOf(q.routes[g], link))
    <3> HIDE DEF seq
    <3> QED BY <2>3, Heard
  <2> HIDE DEF q
  <2>5. Timed(A)'
    BY <2>1, <2>4, NodeStep
  <2> QED BY <2>1, <2>5, NodeType
<1> QED BY <1>2, <1>3

LEMMA TimeoutStep ==
    ASSUME NetType, NEW A, Timed(A), NEW n \in Nodes, Timeout(n)
    PROVE  NetType' /\ Timed(A)'
<1> DEFINE link == linkMetric[n]
           q == expired(n)
<1>1. /\ IsClock(A) /\ dst.seq \in 0 .. MaxSends /\ link \in Nat
      /\ dps[n] # NoPeer /\ Sound(dps[n], nbrs[n], link, A, dst.seq)
      /\ nbrs[n] \in SUBSET Nbrs
  BY KnownIsSound DEF Timeout
<1>2. /\ dps' = [dps EXCEPT ![n] = q] /\ nbrs' = [nbrs EXCEPT ![n] = nbrs[n]]
      /\ UNCHANGED <<linkMetric, dst>> /\ air' \subseteq air /\ nbrs[n] \in SUBSET NbrsOf(n)
  BY DEF NetType, Timeout
<1>3. /\ q = NoPeer \/ Sound(q, nbrs[n], link, A, dst.seq)
      /\ Keeps(dps[n], q, link, A)
      /\ q # NoPeer => \A g \in DOMAIN q.routes : q.routes[g].up =>
            g \in DOMAIN dps[n].routes /\ q.routes[g] = dps[n].routes[g]
  BY <1>1, Expired
<1> HIDE DEF q
<1>4. q # NoPeer => \A h \in DOMAIN q.routes : q.routes[h].up /\ q.routes[h].next \in Nodes =>
                HasBeyond(q.routes[h].next, keyOf(q.routes[h], link))
  BY <1>1, <1>3 DEF Timed, Told
<1>5. Timed(A)'
  BY <1>2, <1>3, <1>4, NodeStep
<1> QED BY <1>2, <1>5, NodeType

\* Dst has used one number more: what was right of the others is so still.
LEMMA DstStep ==
    ASSUME NetType, NEW A, Timed(A), DstCounts \/ DstDies
    PROVE  NetType' /\ Timed(A)'
<1>1. /\ UNCHANGED <<dps, nbrs, linkMetric, air>>
      /\ dst.seq \in 0 .. MaxSends /\ dst'.seq \in 0 .. MaxSends /\ dst.seq <= dst'.seq
      /\ dst' \in [up : BOOLEAN, seq : 0 .. MaxSends, fresh : BOOLEAN]
      /\ dst'.seq = dst.seq \/ dst'.seq = dst.seq + 1
      /\ dst'.seq = dst.seq => dst'.fresh = dst.fresh
  <2>1. dst \in [up : BOOLEAN, seq : 0 .. MaxSends, fresh : BOOLEAN] /\ MaxSends \in Nat
    BY NetBounds DEF NetType
  <2>2. CASE DstCounts
    <3>1. dst' = [dst EXCEPT !.seq = @ + 1, !.fresh = TRUE] /\ dst.seq < MaxSends
      BY <2>2 DEF DstCounts
    <3>2. dst.seq \in 0 .. MaxSends /\ dst.seq + 1 \in 0 .. MaxSends
      BY <2>1, <3>1
    <3>3. dst' = [up |-> dst.up, seq |-> dst.seq + 1, fresh |-> TRUE]
      BY <2>1, <3>1
    <3>4. dst'.seq = dst.seq + 1 /\ dst' \in [up : BOOLEAN, seq : 0 .. MaxSends, fresh : BOOLEAN]
      BY <2>1, <3>2, <3>3
    <3>5. dst.seq <= dst.seq + 1 /\ dst.seq # dst.seq + 1
      BY <3>2
    <3> QED BY <2>2, <3>2, <3>4, <3>5 DEF DstCounts
  <2>3. CASE DstDies
    <3>1. dst' = [dst EXCEPT !.up = FALSE]
      BY <2>3 DEF DstDies
    <3>2. /\ dst'.seq = dst.seq /\ dst'.fresh = dst.fresh
          /\ dst' \in [up : BOOLEAN, seq : 0 .. MaxSends, fresh : BOOLEAN]
      BY <2>1, <3>1
    <3> QED BY <2>1, <2>3, <3>2 DEF DstDies
  <2> QED BY <2>2, <2>3
<1>2. NetType'
  BY <1>1 DEF NetType
<1>3. Shows(A)'
  <2>1. ASSUME NEW s \in 0 .. MaxSends, s > dst'.seq \/ (s = dst'.seq /\ dst'.fresh)
        PROVE  A[s] = 0
    <3>1. s > dst.seq \/ (s = dst.seq /\ dst.fresh)
      BY <1>1, <2>1
    <3> QED BY <3>1 DEF Timed, Shows
  <2> QED BY <2>1 DEF Timed, Shows
<1>4. \A rt : OnTime(rt, A, dst.seq) => OnTime(rt, A, dst'.seq)
  BY <1>1 DEF OnTime
<1>5. ASSUME NEW n \in Nodes
      PROVE  (dps[n] = NoPeer \/ Sound(dps[n], nbrs[n], linkMetric[n], A, dst.seq))'
  BY <1>1, <1>4 DEF Timed, Sound, Held, AllOnTime
<1>6. ASSUME NEW n \in Nodes PROVE Told(n)'
  BY <1>1 DEF Timed, Told, HasBeyond
<1>7. ASSUME NEW pkt \in air PROVE TellsTrue(pkt, A)'
  <2>1. TellsTrue(pkt, A)
    BY DEF Timed
  <2>2. pkt.says.seq \in 0 .. dst.seq => pkt.says.seq \in 0 .. dst'.seq
    BY <1>1
  <2> QED BY <1>1, <2>1, <2>2 DEF TellsTrue, HasAhead
<1> QED BY <1>1, <1>2, <1>3, <1>5, <1>6, <1>7 DEF Timed

\* One packet more.
LEMMA PutStep ==
    ASSUME NetType, NEW A, Timed(A), NEW m, NEW n, NEW content, puts(m, n, content),
           UNCHANGED <<dps, nbrs, linkMetric, dst>>,
           IsPacket([from |-> m, to |-> n, says |-> content]),
           TellsTrue([from |-> m, to |-> n, says |-> content], A)
    PROVE  NetType' /\ Timed(A)'
<1> DEFINE pkt == [from |-> m, to |-> n, says |-> content]
<1> HIDE DEF pkt
<1>1. /\ air' = air \cup {pkt} /\ Cardinality(air) < MaxOnAir
      /\ IsPacket(pkt) /\ TellsTrue(pkt, A)
  BY DEF puts, pkt
<1>2. IsFiniteSet(air') /\ Cardinality(air') <= MaxOnAir
  <2>1. IsFiniteSet(air) /\ Cardinality(air) \in Nat
    BY FS_CardinalityType DEF NetType
  <2>2. /\ IsFiniteSet(air \cup {pkt})
        /\ Cardinality(air \cup {pkt}) =
                IF pkt \in air THEN Cardinality(air) ELSE Cardinality(air) + 1
    BY <2>1, FS_AddElement, Zenon
  <2>3. IsFiniteSet(air') /\ (\/ Cardinality(air') = Cardinality(air)
                              \/ Cardinality(air') = Cardinality(air) + 1)
    BY <1>1, <2>2
  <2> QED BY <1>1, <2>1, <2>3, NetBounds
<1>3. \A p \in air' : IsPacket(p) /\ TellsTrue(p, A)
  BY <1>1 DEF NetType, Timed
<1>4. NetType'
  BY <1>2, <1>3 DEF NetType
<1>5. \A p \in air' : TellsTrue(p, A)'
  BY <1>3 DEF TellsTrue, HasAhead
<1>6. \A k \in Nodes : Told(k)'
  BY DEF Timed, Told, HasBeyond
<1> QED BY <1>4, <1>5, <1>6 DEF Timed, Shows

\* A node tells what its best route is.
LEMMA AdvertiseStep ==
    ASSUME NetType, NEW A, Timed(A), NEW n \in Nodes, NEW m \in Nodes,
           <<n, m>> \in Links, Advertise(n, m)
    PROVE  NetType' /\ Timed(A)'
<1> DEFINE link == linkMetric[n]
           p == dps[n]
           rt == p.routes[p.best]
           says == advertisement(n)
<1>1. /\ dst.seq \in 0 .. MaxSends /\ link \in Nat
      /\ Sound(p, nbrs[n], link, A, dst.seq) /\ hasBest(p)
  BY KnownIsSound DEF Advertise, advertises, hasBest
<1>2. p.best \in DOMAIN p.routes
  BY <1>1 DEF Sound, Held, hasBest
<1>3. rt \in Route /\ OnTime(rt, A, dst.seq) /\ keyOf(rt, link) \in Keys /\ p.best \in LastHops
  BY <1>1, <1>2, HeldRoutes DEF Sound
<1>4. /\ says.seq = rt.seq /\ says.lastHop = p.best /\ says.age = currentAge(rt)
      /\ says.metric = IF rt.up THEN metricOf(rt, link) ELSE Infinite
      /\ says.metric \in Metrics \cup {Infinite}
  BY DEF Advertise, advertisement
<1>5. /\ puts(n, m, says) /\ UNCHANGED <<dps, nbrs, linkMetric, dst>> /\ n # Dst
  BY NetBounds DEF Advertise
<1>6. currentAge(rt) \in Nat
  BY <1>3 DEF currentAge, Route
<1> HIDE DEF says
<1>7. IsPacket([from |-> n, to |-> m, says |-> says])
  BY <1>3, <1>4, <1>6 DEF IsPacket
<1>8. says.metric # Infinite => HasAhead(n, [seq |-> says.seq, metric |-> says.metric])
  <2>1. says.metric # Infinite => [seq |-> says.seq, metric |-> says.metric] = bestKey(p, link)
    BY <1>4 DEF bestKey, keyOf
  <2>2. bestKey(p, link) \in Keys
    BY <1>3 DEF bestKey
  <2> QED BY <1>1, <2>1, <2>2, KeyOrder DEF HasAhead
<1>9. TellsTrue([from |-> n, to |-> m, says |-> says], A)
  BY <1>3, <1>4, <1>5, <1>8 DEF TellsTrue, OnTime
<1> QED BY <1>5, <1>7, <1>9, PutStep

LEMMA DstSendsStep ==
    ASSUME NetType, NEW A, Timed(A), NEW n \in Nodes, DstSends(n)
    PROVE  NetType' /\ Timed(A)'
<1> DEFINE says == [seq |-> dst.seq]
           pkt == [from |-> Dst, to |-> n, says |-> says]
<1>1. /\ puts(Dst, n, says) /\ UNCHANGED <<dps, nbrs, linkMetric, dst>>
      /\ dst.fresh /\ <<Dst, n>> \in Links
  BY DEF DstSends, NbrsOf
<1>2. IsPacket(pkt)
  BY <1>1 DEF IsPacket
<1>3. dst.seq \in 0 .. MaxSends /\ dst.seq \in 0 .. dst.seq /\ A[dst.seq] = 0
  BY <1>1, KnownIsSound DEF NetType, Timed, Shows
<1>4. TellsTrue(pkt, A)
  BY <1>3 DEF TellsTrue
<1> HIDE DEF says
<1> QED BY <1>1, <1>2, <1>4, PutStep

LEMMA OlderIsSame ==
    ASSUME NEW rt \in Route, NEW link
    PROVE  /\ keyOf(older(rt), link) = keyOf(rt, link)
           /\ older(rt).up = rt.up /\ older(rt).next = rt.next /\ older(rt).seq = rt.seq
           /\ older(rt).age = rt.age /\ older(rt).idle = rt.idle + 1
           /\ currentAge(older(rt)) = currentAge(rt) + 1
<1>1. /\ older(rt).next = rt.next /\ older(rt).metric = rt.metric /\ older(rt).seq = rt.seq
      /\ older(rt).age = rt.age /\ older(rt).idle = rt.idle + 1 /\ older(rt).up = rt.up
  BY DEF older, Route
<1>2. rt.age \in Nat /\ rt.idle \in Nat
  BY RoutesBounds DEF Route
<1> QED BY <1>1, <1>2 DEF keyOf, metricOf, currentAge

\* All numbers that Dst has used grow older, and with them all routes.
LEMMA TickStep ==
    ASSUME NetType, NEW A, Timed(A), Tick
    PROVE  NetType' /\ \E B : Timed(B)'
<1> DEFINE last == dst.seq
<1>0. PICK B : B = [s \in 0 .. MaxSends |-> IF s <= last THEN A[s] + 1 ELSE A[s]]
  OBVIOUS
<1>1. /\ IsClock(A) /\ last \in 0 .. MaxSends /\ MaxSends \in Nat
      /\ \A s \in 0 .. MaxSends : A[s] \in Nat /\ (s > last => A[s] = 0)
  BY NetBounds DEF NetType, Timed, Shows, IsClock
<1>2. /\ air' = {} /\ nbrs' = nbrs /\ linkMetric' = linkMetric
      /\ dst' = [up |-> dst.up, seq |-> last, fresh |-> FALSE]
      /\ dst.up \in BOOLEAN
      /\ \A n \in Nodes : known(n) => expired(n) = dps[n]
      /\ dps' = [n \in Nodes |-> IF known(n) THEN olderPeer(dps[n]) ELSE dps[n]]
  BY DEF Tick, NetType
<1>3. IsClock(B)
  <2>1. B \in [0 .. MaxSends -> Nat]
    BY <1>0, <1>1
  <2>2. ASSUME NEW s \in 0 .. MaxSends, NEW t \in 0 .. MaxSends, s <= t
        PROVE  B[t] <= B[s]
    <3>1. A[t] <= A[s] /\ A[s] \in Nat /\ A[t] \in Nat /\ (t > last => A[t] = 0)
      BY <1>1, <2>2 DEF IsClock
    <3> QED BY <1>0, <1>1, <2>2, <3>1
  <2> QED BY <2>1, <2>2 DEF IsClock
<1>4. \A s \in 0 .. last : s \in 0 .. MaxSends /\ B[s] = A[s] + 1
  BY <1>0, <1>1
<1>5. \A s \in 0 .. MaxSends : s > last => B[s] = 0
  BY <1>0, <1>1
<1>6. Shows(B)'
  BY <1>2, <1>3, <1>5 DEF Shows
<1>7. ASSUME NEW n \in Nodes, known(n)
      PROVE  /\ Sound(dps'[n], nbrs[n], linkMetric[n], B, last)
             /\ dps'[n].best = dps[n].best /\ DOMAIN dps'[n].routes = DOMAIN dps[n].routes
             /\ \A h \in DOMAIN dps[n].routes :
                    /\ dps'[n].routes[h].up = dps[n].routes[h].up
                    /\ dps'[n].routes[h].next = dps[n].routes[h].next
                    /\ keyOf(dps'[n].routes[h], linkMetric[n])
                        = keyOf(dps[n].routes[h], linkMetric[n])
  <2> DEFINE p == dps[n]
             q == dps'[n]
             N == nbrs[n]
             link == linkMetric[n]
  <2>1. /\ Sound(p, N, link, A, last) /\ link \in Nat /\ N \in SUBSET Nbrs /\ p # NoPeer
        /\ expired(n) = p
    BY <1>2, <1>7, KnownIsSound
  <2>2. q = olderPeer(p)
    BY <1>2, <1>7
  <2> HIDE DEF q
  <2>3. /\ \A g \in DOMAIN p.routes : p.routes[g].up => p.routes[g].idle <= DownTicks
        /\ \A g \in DOMAIN p.routes : p.routes[g].idle <= RemovalTicks
    BY <1>1, <2>1, Expired
  <2>4. /\ p \in Records /\ BestFits(p) /\ UpVia(p, N)
        /\ \A h \in DOMAIN p.routes : p.routes[h] \in Route /\ OnTime(p.routes[h], A, last)
                                        /\ Young(p.routes[h])
    BY <1>1, <2>1, HeldRoutes DEF Sound
  <2>5. /\ Well(q, N) /\ q.best = p.best
        /\ q.routes = [h \in DOMAIN p.routes |-> older(p.routes[h])]
    BY <2>1, <2>2, <2>3, <2>4, OlderPeer
  <2> HIDE DEF p, link, N
  <2>6. ASSUME NEW h \in DOMAIN p.routes
        PROVE  /\ q.routes[h].up = p.routes[h].up /\ q.routes[h].next = p.routes[h].next
               /\ keyOf(q.routes[h], link) = keyOf(p.routes[h], link)
               /\ OnTime(q.routes[h], B, last) /\ Young(q.routes[h])
    <3>1. q.routes[h] = older(p.routes[h])
      BY <2>5
    <3>2. /\ p.routes[h].seq \in 0 .. last /\ currentAge(p.routes[h]) = A[p.routes[h].seq]
          /\ p.routes[h].up => p.routes[h].age <= MaxAcceptedAge /\ p.routes[h].idle <= DownTicks
          /\ p.routes[h].idle \in Nat
      BY <2>3, <2>4, RoutesBounds DEF OnTime, Young, Route
    <3>3. OnTime(q.routes[h], B, last)
      BY <1>4, <2>4, <3>1, <3>2, OlderIsSame DEF OnTime
    <3>4. Young(q.routes[h])
      BY <2>4, <3>1, <3>2, OlderIsSame, RoutesBounds DEF Young
    <3> QED BY <2>4, <3>1, <3>3, <3>4, OlderIsSame
  <2>7. DOMAIN q.routes = DOMAIN p.routes
    BY <2>5
  <2>8. Top(q, link)
    BY <2>1, <2>5, <2>6, <2>7 DEF Sound, Held, Top
  <2>9. Sound(q, N, link, B, last)
    BY <2>5, <2>6, <2>7, <2>8 DEF Sound, Held, AllOnTime, Well, BestFits
  <2> QED BY <2>5, <2>6, <2>7, <2>9 DEF p, q, link, N
<1>8. ASSUME NEW n \in Nodes
      PROVE  /\ (dps[n] = NoPeer \/ Sound(dps[n], nbrs[n], linkMetric[n], B, dst.seq))'
             /\ dps[n] = NoPeer <=> dps'[n] = NoPeer
             /\ \A k : HasBeyond(n, k) => HasBeyond(n, k)'
  <2>1. dst'.seq = last
    BY <1>2
  <2>2. CASE known(n)
    <3>1. dps'[n] # NoPeer /\ dps[n] # NoPeer
      BY <1>7, <2>2, KnownIsSound, RecordIsPeer DEF Sound, Held
    <3>2. hasBest(dps[n]) => dps[n].best \in DOMAIN dps[n].routes
      BY <2>2, KnownIsSound DEF Sound, Held, hasBest
    <3>3. hasBest(dps[n]) => hasBest(dps'[n]) /\ bestKey(dps'[n], linkMetric[n])
                                                    = bestKey(dps[n], linkMetric[n])
      BY <1>7, <2>2, <3>1, <3>2 DEF hasBest, bestKey
    <3>4. \A k : HasBeyond(n, k) => HasBeyond(n, k)'
      BY <1>2, <3>3 DEF HasBeyond
    <3> QED BY <1>2, <1>7, <2>1, <2>2, <3>1, <3>4
  <2>3. CASE ~known(n)
    <3>1. dps[n] = NoPeer /\ dps'[n] = NoPeer
      BY <1>2, <2>3, KnownIsSound
    <3>2. ~hasBest(NoPeer)
      BY DEF hasBest
    <3> QED BY <3>1, <3>2 DEF HasBeyond
  <2> QED BY <2>2, <2>3
<1>9. ASSUME NEW n \in Nodes PROVE Told(n)'
  <2> SUFFICES ASSUME dps'[n] # NoPeer, NEW h \in DOMAIN dps'[n].routes,
                      NEW rt, rt = dps'[n].routes[h], rt.up, rt.next \in Nodes,
                      NEW k, k = keyOf(rt, linkMetric[n])
               PROVE  HasBeyond(rt.next, k)'
    BY <1>2 DEF Told, HasBeyond
  <2>1. known(n)
    BY <1>8, KnownIsSound
  <2>2. /\ h \in DOMAIN dps[n].routes /\ dps[n].routes[h].up
        /\ dps[n].routes[h].next = rt.next /\ keyOf(dps[n].routes[h], linkMetric[n]) = k
    BY <1>7, <2>1
  <2>3. HasBeyond(rt.next, k)
    BY <1>8, <2>2 DEF Timed, Told
  <2> QED BY <1>8, <2>3
<1>10. Timed(B)'
  BY <1>2, <1>6, <1>8, <1>9 DEF Timed
<1>11. NetType'
  <2>1. IsFiniteSet(air') /\ Cardinality(air') <= MaxOnAir
    <3>1. IsFiniteSet({}) /\ Cardinality({}) = 0
      BY FS_EmptySet
    <3> QED BY <1>2, <3>1, NetBounds
  <2>2. dst' \in [up : BOOLEAN, seq : 0 .. MaxSends, fresh : BOOLEAN]
    BY <1>1, <1>2
  <2>3. dps' = [n \in Nodes |-> dps'[n]]
    BY <1>2
  <2> QED BY <1>2, <2>1, <2>2, <2>3 DEF NetType
<1> QED BY <1>10, <1>11

-----------------------------------------------------------------------------
\* The invariant holds.

LEMMA InitHolds == Init => IInv
<1> SUFFICES ASSUME Init PROVE IInv
  OBVIOUS
<1>1. PICK A : A = [s \in 0 .. MaxSends |-> 0]
  OBVIOUS
<1>2. /\ dps = [n \in Nodes |-> NoPeer] /\ nbrs = [n \in Nodes |-> NbrsOf(n) \ {Dst}]
      /\ linkMetric \in [Nodes -> LinkMetrics] /\ air = {}
      /\ dst = [up |-> TRUE, seq |-> 0, fresh |-> TRUE]
  BY DEF Init
<1>3. 0 \in 0 .. MaxSends
  BY NetBounds
<1>4. NetType
  <2>1. IsFiniteSet(air) /\ Cardinality(air) <= MaxOnAir
    <3>1. IsFiniteSet({}) /\ Cardinality({}) = 0
      BY FS_EmptySet
    <3> QED BY <1>2, <3>1, NetBounds
  <2> QED BY <1>2, <1>3, <2>1 DEF NetType
<1>5. Shows(A)
  <2>1. IsClock(A)
    BY <1>1, NetBounds DEF IsClock
  <2> QED BY <1>1, <2>1 DEF Shows
<1>6. Timed(A)
  BY <1>2, <1>5 DEF Timed, Told
<1> QED BY <1>4, <1>6 DEF IInv

LEMMA NextHolds == IInv /\ [Next]_vars => IInv'
<1> SUFFICES ASSUME NetType, NEW A, Timed(A), [Next]_vars
             PROVE  NetType' /\ \E B : Timed(B)'
  BY DEF IInv
<1>1. CASE \E n \in Nodes : AddDst(n) \/ DstSends(n) \/ ReceiveFromDst(n) \/ Receive(n) \/ Timeout(n)
  BY <1>1, AddDstStep, DstSendsStep, ReceiveFromDstStep, ReceiveStep, TimeoutStep
<1>2. CASE \E n \in Nodes, m \in Nbrs : AddNbr(n, m) \/ RemoveNbr(n, m)
  BY <1>2, AddNbrStep, RemoveNbrStep
<1>3. CASE \E n \in Nodes, m \in Nodes : <<n, m>> \in Links /\ Advertise(n, m)
  BY <1>3, AdvertiseStep
<1>4. CASE DstCounts \/ DstDies
  BY <1>4, DstStep
<1>5. CASE Tick
  BY <1>5, TickStep
<1>6. CASE UNCHANGED vars
  BY <1>6, NoNodeStep, DVNetNodeAssumption DEF vars, DVNetNodeAssumption
<1> QED BY <1>1, <1>2, <1>3, <1>4, <1>5, <1>6, NetBounds DEF Next

\* The inductive invariant holds in every reachable state.
THEOREM Invariance == Spec => []IInv
BY InitHolds, NextHolds, PTL DEF Spec

\* Every DVPeer of the network stays one, neighbours are devices that can be heard, and
\* no more packets are on the air than the bound says.
THEOREM NetTypeCorrect == Spec => []TypeOK
<1>1. IInv => TypeOK
  <2> SUFFICES ASSUME NetType, NEW A, Timed(A) PROVE TypeOK
    BY DEF IInv
  <2>1. ASSUME NEW n \in Nodes PROVE dps[n] = NoPeer \/ IsDVPeer(dps[n])
    BY DVPeerForms DEF Timed, Sound, Held
  <2> QED BY <2>1, NetBounds DEF TypeOK, NetType, IsPacket
<1> QED BY <1>1, Invariance, PTL

\* Of a node whose next hop is another node.
LEMMA NextHopIsAhead ==
    ASSUME NetType, NEW A, Timed(A), NEW n \in Nodes, nextHop(n) \in Nodes
    PROVE  /\ known(n) /\ dps[n].best # None
           /\ known(nextHop(n)) /\ dps[nextHop(n)].best # None
           /\ bestKey(dps[n], linkMetric[n]) \in Keys
           /\ bestKey(dps[nextHop(n)], linkMetric[nextHop(n)]) \in Keys
           /\ beyond(bestKey(dps[nextHop(n)], linkMetric[nextHop(n)]),
                     bestKey(dps[n], linkMetric[n]))
<1> DEFINE m == nextHop(n)
           rt == dps[n].routes[dps[n].best]
<1>1. /\ hasNextHop(n) /\ m = rt.next /\ known(n) /\ dps[n].best # None /\ rt.up
  BY RoutesBounds DEF nextHop, hasNextHop, Nodes
<1>2. dps[n] # NoPeer /\ dps[n].best \in DOMAIN dps[n].routes
  BY <1>1, KnownIsSound DEF Sound, Held
<1>3. HasBeyond(m, keyOf(rt, linkMetric[n]))
  BY <1>1, <1>2 DEF Timed, Told
<1>4. ASSUME NEW k \in Nodes, hasBest(dps[k])
      PROVE  known(k) /\ bestKey(dps[k], linkMetric[k]) \in Keys
  <2>1. /\ known(k) /\ Sound(dps[k], nbrs[k], linkMetric[k], A, dst.seq)
        /\ linkMetric[k] \in Nat /\ dst.seq \in 0 .. MaxSends
    BY <1>4, KnownIsSound DEF hasBest
  <2>2. dps[k].best \in DOMAIN dps[k].routes
    BY <1>4, <2>1 DEF Sound, Held, hasBest
  <2> QED BY <2>1, <2>2, HeldRoutes DEF Sound, bestKey
<1> QED BY <1>1, <1>2, <1>3, <1>4 DEF HasBeyond, hasBest, bestKey

\* The next hop of a node knows something newer about the destination than the node
\* itself, or something as new and nearer.
THEOREM BetterNextHops == Spec => []NextHopKnowsBetter
<1>1. IInv => NextHopKnowsBetter
  <2> SUFFICES ASSUME NetType, NEW A, Timed(A), NEW n \in Nodes, nextHop(n) \in Nodes,
                      NEW m, m = nextHop(n),
                      NEW mine, mine = dps[n].routes[dps[n].best],
                      NEW its, its = dps[m].routes[dps[m].best]
               PROVE  /\ known(m) /\ dps[m].best # None
                      /\ \/ seqNoGreater(its.seq, mine.seq, currentAge(its), currentAge(mine))
                         \/ /\ its.seq = mine.seq
                            /\ ~isBetterThan(metricOf(mine, linkMetric[n]),
                                             metricOf(its, linkMetric[m]))
    BY DEF IInv, NextHopKnowsBetter
  <2>1. /\ known(n) /\ dps[n].best # None /\ known(m) /\ dps[m].best # None
        /\ beyond(keyOf(its, linkMetric[m]), keyOf(mine, linkMetric[n]))
    BY NextHopIsAhead DEF bestKey
  <2>2. CASE its.seq = mine.seq /\ ~isBetterThan(metricOf(mine, linkMetric[n]),
                                                 metricOf(its, linkMetric[m]))
    BY <2>1, <2>2
  <2>3. CASE its.seq > mine.seq
    <3>1. ASSUME NEW k \in Nodes, known(k), dps[k].best # None
          PROVE  OnTime(dps[k].routes[dps[k].best], A, dst.seq)
      BY <3>1, KnownIsSound DEF Sound, Held, AllOnTime
    <3>2. OnTime(its, A, dst.seq) /\ OnTime(mine, A, dst.seq) /\ dst.seq \in 0 .. MaxSends
          /\ IsClock(A)
      BY <2>1, <3>1, KnownIsSound
    <3>3. /\ its.seq \in 0 .. MaxSends /\ mine.seq \in 0 .. MaxSends
          /\ currentAge(its) = A[its.seq] /\ currentAge(mine) = A[mine.seq]
      BY <3>2, NetBounds DEF OnTime
    <3>4. A[its.seq] <= A[mine.seq] /\ A[its.seq] \in Nat /\ A[mine.seq] \in Nat
      <4>1. mine.seq <= its.seq
        BY <2>3, <3>3, NetBounds
      <4> QED BY <3>2, <3>3, <4>1 DEF IsClock
    <3>5. its.seq - mine.seq <= SeqWindow /\ AgeTolerance \in Nat
      BY <3>3, NetBounds, SeqNoAssumption DEF SeqNoAssumption, SeqWindow
    <3>6. A[its.seq] - A[mine.seq] <= AgeTolerance
      BY <3>4, <3>5
    <3> QED BY <2>1, <2>3, <3>3, <3>5, <3>6 DEF seqNoGreater
  <2>4. /\ keyOf(its, linkMetric[m]).seq = its.seq /\ keyOf(mine, linkMetric[n]).seq = mine.seq
        /\ keyOf(its, linkMetric[m]).metric = metricOf(its, linkMetric[m])
        /\ keyOf(mine, linkMetric[n]).metric = metricOf(mine, linkMetric[n])
    BY DEF keyOf
  <2> QED BY <2>1, <2>2, <2>3, <2>4 DEF beyond
<1> QED BY <1>1, Invariance, PTL

LEMMA Smallest ==
    ASSUME NEW S \in SUBSET Nat, S # {}
    PROVE  \E x \in S : \A y \in S : x <= y
<1>1. PICK x \in S : \A y \in S : ~(<<y, x>> \in OpToRel(<, Nat))
  BY WFMin, NatLessThanWellFounded
<1>2. \A y \in S : ~(y < x)
  BY <1>1 DEF OpToRel
<1> QED BY <1>2

\* Packets to the destination do not circle: they get out of every set of devices, in
\* networks of any size and shape, whatever becomes of updates and links.
THEOREM NoLoops == Spec => []LoopFree
<1>1. IInv => LoopFree
  <2> SUFFICES ASSUME NetType, NEW A, Timed(A), NEW S \in SUBSET Nodes, S # {},
                      \A n \in S : nextHop(n) \in S
               PROVE  FALSE
    BY DEF IInv, LoopFree
  <2> DEFINE k(n) == bestKey(dps[n], linkMetric[n])
  <2>1. \A n \in S : /\ nextHop(n) \in S /\ k(n) \in Keys /\ k(nextHop(n)) \in Keys
                     /\ beyond(k(nextHop(n)), k(n))
    BY NextHopIsAhead
  <2> HIDE DEF k
  <2>2. \A n \in S : /\ k(n).seq \in 0 .. MaxSends /\ k(n).metric \in Metric
                     /\ \/ k(nextHop(n)).seq > k(n).seq
                        \/ /\ k(nextHop(n)).seq = k(n).seq
                           /\ ~isBetterThan(k(n).metric, k(nextHop(n)).metric)
    BY <2>1 DEF Keys, beyond
  <2>3. PICK s \in S : \A n \in S : k(n).seq <= k(s).seq
    <3> DEFINE R == {MaxSends - k(n).seq : n \in S}
    <3>1. R \in SUBSET Nat /\ R # {}
      BY <2>2, NetBounds
    <3> HIDE DEF R
    <3>2. PICK x \in R : \A y \in R : x <= y
      BY <3>1, Smallest
    <3>3. PICK s \in S : x = MaxSends - k(s).seq
      BY <3>2 DEF R
    <3>4. \A n \in S : MaxSends - k(s).seq <= MaxSends - k(n).seq
      BY <3>2, <3>3 DEF R
    <3> QED BY <2>2, <3>3, <3>4, NetBounds
  <2> DEFINE T == {n \in S : k(n).seq = k(s).seq}
             M == {k(n).metric : n \in T} \cap Nat
  <2>4. \A n \in T : /\ nextHop(n) \in T
                     /\ ~isBetterThan(k(n).metric, k(nextHop(n)).metric)
    <3> SUFFICES ASSUME NEW n \in S, k(n).seq = k(s).seq
                 PROVE  /\ nextHop(n) \in S /\ k(nextHop(n)).seq = k(s).seq
                        /\ ~isBetterThan(k(n).metric, k(nextHop(n)).metric)
      OBVIOUS
    <3>1. nextHop(n) \in S /\ k(nextHop(n)).seq <= k(s).seq
      BY <2>1, <2>3
    <3>2. k(nextHop(n)).seq \in Int /\ k(s).seq \in Int
      BY <2>2, <3>1
    <3> QED BY <2>2, <3>1, <3>2
  <2>5. \A n \in T : k(nextHop(n)).metric \in M
    BY <2>2, <2>4 DEF isBetterThan, Metric
  <2>6. s \in T
    OBVIOUS
  <2>7. M \in SUBSET Nat /\ M # {}
    BY <2>5, <2>6
  <2>8. PICK x \in M : \A y \in M : x <= y
    <3> HIDE DEF M
    <3> QED BY <2>7, Smallest
  <2>9. PICK n \in T : x = k(n).metric
    OBVIOUS
  <2>10. k(nextHop(n)).metric \in Nat /\ x \in Nat /\ x <= k(nextHop(n)).metric
    BY <2>5, <2>8, <2>9
  <2>11. ~isBetterThan(x, k(nextHop(n)).metric)
    BY <2>4, <2>9
  <2> QED BY <2>10, <2>11, RoutesBounds DEF isBetterThan
<1> QED BY <1>1, Invariance, PTL

-----------------------------------------------------------------------------
\* Each node behaves as DVPeer says.  The operators of its DVPeer are those of DVNet.

LEMMA SameRoutes ==
    /\ \A rt : Node!currentAge(rt) = currentAge(rt)
    /\ \A rt, sel, link : Node!supersedes(rt, sel, link) <=> supersedes(rt, sel, link)
    /\ \A routes, link : Node!scan(routes, link) = scan(routes, link)
    /\ \A routes, n, metric, seq, h, age, link :
            Node!accepts(routes, n, metric, seq, h, age, link)
                <=> accepts(routes, n, metric, seq, h, age, link)
<1>1. \A rt : Node!currentAge(rt) = currentAge(rt)
  BY DEF Node!currentAge, currentAge
<1>2. \A rt, sel, link : Node!supersedes(rt, sel, link) <=> supersedes(rt, sel, link)
  BY DEF Node!currentAge, currentAge, Node!supersedes, supersedes, Node!seqNoGreater, seqNoGreater, Node!SeqWindow, SeqWindow, Node!isBetterThan, isBetterThan, Node!metricOf, metricOf
<1>3. \A routes, link : Node!scan(routes, link) = scan(routes, link)
  BY DEF Node!currentAge, currentAge, Node!supersedes, supersedes, Node!seqNoGreater, seqNoGreater, Node!SeqWindow, SeqWindow, Node!isBetterThan, isBetterThan, Node!metricOf, metricOf, Node!scan, scan
<1>4. \A routes, n, metric, seq, h, age, link :
            Node!accepts(routes, n, metric, seq, h, age, link)
                <=> accepts(routes, n, metric, seq, h, age, link)
  BY DEF Node!currentAge, currentAge, Node!accepts, accepts, Node!seqNoGreater, seqNoGreater, Node!SeqWindow, SeqWindow, Node!isBetterThan, isBetterThan, Node!metricOf, metricOf
<1> QED BY <1>1, <1>2, <1>3, <1>4

LEMMA SameMethods ==
    /\ Node!newDVPeer = newDVPeer /\ Node!NoPeer = NoPeer
    /\ \A metric, link : Node!plusLink(metric, link) = plusLink(metric, link)
    /\ \A p, link, flow, kept :
            Node!selectBestRoute(p, link, flow, kept) = selectBestRoute(p, link, flow, kept)
    /\ \A p, n, metric, seq, h, age, link, flow, kept :
            Node!updateRoute(p, n, metric, seq, h, age, link, flow, kept)
                = updateRoute(p, n, metric, seq, h, age, link, flow, kept)
    /\ \A p, n, link, flow, kept :
            Node!nbrRoutesDown(p, n, link, flow, kept) = nbrRoutesDown(p, n, link, flow, kept)
    /\ \A p, link, flow, kept :
            Node!expireRoutes(p, link, flow, kept) = expireRoutes(p, link, flow, kept)
    /\ \A p, flow : Node!expireProbation(p, flow) = expireProbation(p, flow)
    /\ \A p : /\ Node!timesOut(p) <=> timesOut(p)
              /\ Node!expirePeer(p) = expirePeer(p) /\ Node!olderPeer(p) = olderPeer(p)
    /\ \A p, q : Node!readds(p, q) <=> readds(p, q)
<1>1. Node!newDVPeer = newDVPeer /\ Node!NoPeer = NoPeer
  BY DEF Node!newDVPeer, newDVPeer, Node!NoPeer, NoPeer
<1>2. \A metric, link : Node!plusLink(metric, link) = plusLink(metric, link)
  BY DEF Node!plusLink, plusLink
<1>3. ASSUME NEW p, NEW link, NEW flow, NEW kept
      PROVE  Node!selectBestRoute(p, link, flow, kept) = selectBestRoute(p, link, flow, kept)
  <2>1. \A state, routes, sel : Node!stateAfter(state, routes, sel) = stateAfter(state, routes, sel)
    BY DEF Node!stateAfter, stateAfter, Node!hasUpRoute, hasUpRoute
  <2> QED BY <2>1, SameRoutes DEF Node!selectBestRoute, selectBestRoute
<1>4. \A rt : Node!stateDOWN(rt) = stateDOWN(rt)
  BY DEF Node!stateDOWN, stateDOWN
<1>5. ASSUME NEW p, NEW n, NEW metric, NEW seq, NEW h, NEW age, NEW link, NEW flow, NEW kept
      PROVE  Node!updateRoute(p, n, metric, seq, h, age, link, flow, kept)
                = updateRoute(p, n, metric, seq, h, age, link, flow, kept)
  <2>1. Node!newRoute(n, metric, seq, age) = newRoute(n, metric, seq, age)
    BY DEF Node!newRoute, newRoute
  <2>2. \A rt : Node!update(rt, metric, seq, age) = update(rt, metric, seq, age)
    BY <1>4 DEF Node!update, update, Node!newRoute, newRoute
  <2> QED BY <1>3, <2>1, <2>2 DEF Node!updateRoute, updateRoute
<1>6. ASSUME NEW p, NEW n, NEW link, NEW flow, NEW kept
      PROVE  Node!nbrRoutesDown(p, n, link, flow, kept) = nbrRoutesDown(p, n, link, flow, kept)
  BY <1>3, <1>4 DEF Node!nbrRoutesDown, nbrRoutesDown
<1>7. ASSUME NEW p, NEW link, NEW flow, NEW kept
      PROVE  Node!expireRoutes(p, link, flow, kept) = expireRoutes(p, link, flow, kept)
  BY <1>3, <1>4 DEF Node!expireRoutes, expireRoutes
<1>8. \A p, flow : Node!expireProbation(p, flow) = expireProbation(p, flow)
  BY DEF Node!expireProbation, expireProbation
<1>9. ASSUME NEW p
      PROVE  /\ Node!timesOut(p) <=> timesOut(p)
             /\ Node!expirePeer(p) = expirePeer(p) /\ Node!olderPeer(p) = olderPeer(p)
  BY DEF Node!timesOut, timesOut, Node!expirePeer, expirePeer, Node!olderPeer, olderPeer,
         Node!older, older
<1>10. \A p, q : Node!readds(p, q) <=> readds(p, q)
  BY DEF Node!readds, readds
<1> QED BY <1>1, <1>2, <1>3, <1>5, <1>6, <1>7, <1>8, <1>9, <1>10

\* Nobody has an active flow here, so that no immediate update gets due.
Quiet(p) ==
    /\ p = [state |-> p.state, routes |-> p.routes, best |-> p.best, heard |-> p.heard,
            probation |-> p.probation, flag |-> p.flag, queue |-> p.queue]
    /\ p.flag = FALSE

AllQuiet == \A n \in Nodes : known(n) => Quiet(dps[n])

LEMMA MethodsAreQuiet ==
    ASSUME NEW p, Quiet(p), NEW link
    PROVE  /\ Quiet(selectBestRoute(p, link, FALSE, 0))
           /\ \A n, metric, seq, h, age : Quiet(updateRoute(p, n, metric, seq, h, age, link, FALSE, 0))
           /\ \A n : Quiet(nbrRoutesDown(p, n, link, FALSE, 0))
           /\ Quiet(expireRoutes(p, link, FALSE, 0)) /\ Quiet(expireProbation(p, FALSE))
           /\ Quiet(expirePeer(p)) /\ Quiet(olderPeer(p))
<1>1. ASSUME NEW q, Quiet(q) PROVE Quiet(selectBestRoute(q, link, FALSE, 0))
  <2>1. PICK best, state, probation, queue, flag :
            /\ selectBestRoute(q, link, FALSE, 0) =
                [q EXCEPT !.best = best, !.state = state, !.probation = probation,
                          !.queue = queue, !.flag = flag]
            /\ flag = (q.flag \/ FALSE)
    BY DEF selectBestRoute
  <2> QED BY <1>1, <2>1 DEF Quiet
<1> DEFINE rec(state, routes, best, time, probation, queue) ==
                [state |-> state, routes |-> routes, best |-> best, heard |-> time,
                 probation |-> probation, flag |-> FALSE, queue |-> queue]
<1>0. \A a, b, c, d, e, f : Quiet(rec(a, b, c, d, e, f))
  BY DEF Quiet
<1>p. PICK a, b, c, d, e, f : p = rec(a, b, c, d, e, f)
  BY DEF Quiet
<1>2. ASSUME NEW r, NEW q, (\E t : q = [p EXCEPT !.routes = r, !.heard = t])
                            \/ q = [p EXCEPT !.routes = r]
      PROVE  Quiet(q)
  <2>1. \E t : q = rec(a, r, c, t, e, f)
    BY <1>p, <1>2
  <2> HIDE DEF rec
  <2> QED BY <1>0, <2>1
<1>3. ASSUME NEW n, NEW metric, NEW seq, NEW h, NEW age
      PROVE  Quiet(updateRoute(p, n, metric, seq, h, age, link, FALSE, 0))
  BY <1>1, <1>2 DEF updateRoute
<1>4. ASSUME NEW n PROVE Quiet(nbrRoutesDown(p, n, link, FALSE, 0))
  BY <1>1, <1>2 DEF nbrRoutesDown
<1>5. Quiet(expireRoutes(p, link, FALSE, 0))
  BY <1>1, <1>2 DEF expireRoutes
<1>6. Quiet(expireProbation(p, FALSE)) /\ Quiet(expirePeer(p))
  BY DEF Quiet, expireProbation, expirePeer
<1>7. Quiet(olderPeer(p))
  <2>1. PICK r, t, u : olderPeer(p) = [p EXCEPT !.routes = r, !.heard = t, !.probation = u]
    BY DEF olderPeer
  <2>2. olderPeer(p) = rec(a, r, c, t, u, f)
    BY <1>p, <2>1
  <2> HIDE DEF rec
  <2> QED BY <1>0, <2>2
<1> QED BY <1>1, <1>3, <1>4, <1>5, <1>6, <1>7

LEMMA HeardIsQuiet ==
    ASSUME AllQuiet, NEW n \in Nodes
    PROVE  \A m, metric, seq, h, age : Quiet(heard(n, m, metric, seq, h, age))
<1>1. Quiet(newDVPeer)
  BY DEF newDVPeer, Quiet
<1>2. Quiet(peerOf(n))
  BY <1>1 DEF AllQuiet, peerOf
<1> QED BY <1>2, MethodsAreQuiet DEF heard

LEMMA NextIsQuiet == NetType /\ AllQuiet /\ [Next]_vars => AllQuiet'
<1> SUFFICES ASSUME NetType, AllQuiet, [Next]_vars, NEW k \in Nodes, known(k)'
             PROVE  Quiet(dps'[k])
  BY DEF AllQuiet
<1>1. ASSUME dps' = dps PROVE Quiet(dps'[k])
  BY <1>1 DEF AllQuiet, known
<1>2. ASSUME NEW n \in Nodes, NEW q, q # NoPeer => Quiet(q), dps' = [dps EXCEPT ![n] = q]
      PROVE  Quiet(dps'[k])
  <2>1. dps'[k] = IF k = n THEN q ELSE dps[k]
    BY <1>2 DEF NetType
  <2>2. dps'[k] # NoPeer /\ (k # n => known(k))
    BY <2>1 DEF known, NoPeer
  <2> QED BY <1>2, <2>1, <2>2 DEF AllQuiet
<1>3. ASSUME NEW n \in Nodes,
             AddDst(n) \/ DstSends(n) \/ ReceiveFromDst(n) \/ Receive(n) \/ Timeout(n)
      PROVE  Quiet(dps'[k])
  <2>1. \A seq : Quiet(heardDirect(n, seq))
    BY HeardIsQuiet DEF heardDirect
  <2>2. CASE AddDst(n)
    BY <1>2, <2>1, <2>2 DEF AddDst
  <2>3. CASE DstSends(n)
    BY <1>1, <2>3 DEF DstSends
  <2>4. CASE ReceiveFromDst(n)
    BY <1>1, <1>2, <2>1, <2>4 DEF ReceiveFromDst
  <2>5. CASE Receive(n)
    <3>1. \/ dps' = dps
          \/ \E m, metric, seq, h, age :
                dps' = [dps EXCEPT ![n] = heard(n, m, metric, seq, h, age)]
      BY <2>5 DEF Receive
    <3> QED BY <1>1, <1>2, <3>1, HeardIsQuiet
  <2>6. CASE Timeout(n)
    <3>1. Quiet(dps[n])
      BY <2>6 DEF Timeout, AllQuiet
    <3>2. expired(n) = NoPeer \/ Quiet(expired(n))
      BY <3>1, MethodsAreQuiet DEF expired
    <3> QED BY <1>2, <2>6, <3>2 DEF Timeout
  <2> QED BY <1>3, <2>2, <2>3, <2>4, <2>5, <2>6
<1>4. ASSUME NEW n \in Nodes, NEW m, AddNbr(n, m) \/ RemoveNbr(n, m)
      PROVE  Quiet(dps'[k])
  <2>1. CASE AddNbr(n, m)
    BY <1>1, <2>1 DEF AddNbr
  <2>2. CASE RemoveNbr(n, m)
    <3>1. known(n) => Quiet(nbrRoutesDown(dps[n], m, linkMetric[n], FALSE, 0))
      BY MethodsAreQuiet DEF AllQuiet
    <3> QED BY <1>1, <1>2, <2>2, <3>1 DEF RemoveNbr
  <2> QED BY <1>4, <2>1, <2>2
<1>5. CASE \E n, m \in Nodes : Advertise(n, m)
  BY <1>1, <1>5 DEF Advertise
<1>6. CASE DstCounts \/ DstDies \/ UNCHANGED vars
  BY <1>1, <1>6 DEF DstCounts, DstDies, vars
<1>7. CASE Tick
  <2>1. dps'[k] = IF known(k) THEN olderPeer(dps[k]) ELSE dps[k]
    BY <1>7 DEF Tick
  <2>2. known(k)
    BY <2>1 DEF known
  <2> QED BY <2>1, <2>2, MethodsAreQuiet DEF AllQuiet
<1> QED BY <1>3, <1>4, <1>5, <1>6, <1>7 DEF Next

LEMMA QuietHolds == Spec => []AllQuiet
<1>1. Init => AllQuiet
  BY DEF Init, AllQuiet, known, NoPeer
<1>2. IInv => NetType
  BY DEF IInv
<1> QED BY <1>1, <1>2, NextIsQuiet, Invariance, PTL DEF Spec

\* An update that a handler of DVPeer can pass on, whatever happens at the end of it.
LEMMA HeardIsUpdatePeer ==
    ASSUME NetType, NEW A, Timed(A), AllQuiet,
           NEW N \in SUBSET Nbrs, nbrs[Me] \subseteq N, NEW m \in N, NEW metric \in Metric,
           NEW seq \in 0 .. dst.seq, NEW h \in LastHops, NEW age \in Nat, NEW sent \in BOOLEAN,
           dps' = [dps EXCEPT ![Me] = heard(Me, m, metric, seq, h, age)]
    PROVE  Node!updatePeer(m, metric, seq, h, age, sent)
<1> DEFINE link == linkMetric[Me]
           dp == dps[Me]
           p == peerOf(Me)
           q == heard(Me, m, metric, seq, h, age)
           u == updateRoute(p, m, metric, seq, h, age, link, FALSE, 0)
           ok == accepts(p.routes, m, metric, seq, h, age, link)
<1>1. /\ Me \in Nodes /\ dst.seq \in 0 .. MaxSends /\ link \in Nat
      /\ known(Me) <=> dp # NoPeer
      /\ known(Me) => Sound(dp, nbrs[Me], link, A, dst.seq)
  BY KnownIsSound, DVNetNodeAssumption DEF DVNetNodeAssumption
<1>2. dps'[Me] = q
  BY <1>1 DEF NetType
<1>3. p = (IF dp = NoPeer THEN newDVPeer ELSE dp) /\ q = (IF ok THEN u ELSE p)
  BY <1>1 DEF peerOf, heard
<1>4. p \in Records /\ UpVia(p, N)
  <2>1. CASE dp = NoPeer
    BY <1>3, <2>1, NewIsSound DEF Held
  <2>2. CASE dp # NoPeer
    BY <1>1, <1>3, <2>2, SoundGrows DEF Sound, Held
  <2> QED BY <2>1, <2>2
<1>5. u \in Records /\ Revives(p, u)
  <2>1. seq \in SeqNos /\ m \in Nbrs /\ 0 \in 0 .. MaxQueue /\ FALSE \in BOOLEAN
    BY <1>1, NetBounds, RoutesBounds
  <2> HIDE DEF p, link
  <2> QED BY <1>4, <2>1, UpdateRoute
<1>6. Quiet(q)
  BY <1>1, HeardIsQuiet
<1> HIDE DEF ok, u, p, q
<1>7. q \in Records /\ Revives(p, q) /\ q # NoPeer /\ q.state # "null"
  <2>1. Revives(p, p)
    BY <1>4 DEF Revives
  <2> QED BY <1>3, <1>4, <1>5, <2>1, RecordIsPeer
<1>8. dp = NoPeer => p.state = "UP"
  BY <1>3, NewDVPeerType
<1> DEFINE registered == known(Me) /\ dp.state # "TIMED_OUT"
<1>9. /\ known(Me)' /\ (dps'[Me].state # "TIMED_OUT"
                            <=> registered \/ dp = NoPeer \/ readds(p, q))
      /\ ~(readds(p, q) /\ registered) /\ ~(dp = NoPeer /\ registered)
  BY <1>1, <1>2, <1>3, <1>7, <1>8 DEF readds, Revives, known
<1>10. [q EXCEPT !.flag = @ /\ ~sent] = q
  BY <1>6 DEF Quiet
<1>11. <<FALSE, 0>> \in Node!Circumstances(sent)
  <2>1. dp # NoPeer => 0 \in 0 .. dp.queue
    BY <1>3, <1>4, RoutesBounds DEF Records
  <2> QED BY <2>1, SameMethods DEF Node!Circumstances
<1>12. /\ p = (IF dp = Node!NoPeer THEN Node!newDVPeer ELSE dp)
       /\ ok <=> Node!accepts(p.routes, m, metric, seq, h, age, link)
       /\ q = (IF ok THEN Node!updateRoute(p, m, metric, seq, h, age, link, FALSE, 0) ELSE p)
       /\ readds(p, q) <=> Node!readds(p, q)
  BY <1>3, SameRoutes, SameMethods DEF ok, u
<1>13. /\ dps[Me]' = [q EXCEPT !.flag = @ /\ ~sent]
       /\ FALSE' = (FALSE \/ (Node!readds(p, q) /\ registered))
       /\ registered' = (registered \/ dp = Node!NoPeer \/ Node!readds(p, q))
       /\ ~(dp = Node!NoPeer /\ registered)
  <2>1. registered' <=> (registered \/ dp = Node!NoPeer \/ Node!readds(p, q))
    BY <1>9, <1>12, SameMethods
  <2>2. ~(Node!readds(p, q) /\ registered) /\ ~(dp = Node!NoPeer /\ registered)
    BY <1>9, <1>12, SameMethods
  <2>3. dps[Me]' = [q EXCEPT !.flag = @ /\ ~sent]
    BY <1>2, <1>10
  <2> QED BY <2>1, <2>2, <2>3
<1>14. \E c \in Node!Circumstances(sent) : c[1] = FALSE /\ c[2] = 0
  BY <1>11
<1> HIDE DEF registered
<1> QED BY <1>12, <1>13, <1>14 DEF Node!updatePeer, registered

LEMMA OthersStutter ==
    ASSUME dps'[Me] = dps[Me], nbrs'[Me] = nbrs[Me], linkMetric'[Me] = linkMetric[Me]
    PROVE  UNCHANGED Node!vars
BY DEF Node!vars, known

LEMMA RemoveNbrIsNodes ==
    ASSUME NetType, NEW A, Timed(A), AllQuiet, NEW m, RemoveNbr(Me, m)
    PROVE  Node!RemoveNbr(m) /\ m \in NbrsOf(Me)
<1> DEFINE link == linkMetric[Me]
           dp == dps[Me]
           q == nbrRoutesDown(dp, m, link, FALSE, 0)
           registered == known(Me) /\ dp.state # "TIMED_OUT"
<1>1. /\ Me \in Nodes /\ nbrs[Me] \in SUBSET NbrsOf(Me) /\ nbrs[Me] \in SUBSET Nbrs
      /\ IsClock(A) /\ dst.seq \in 0 .. MaxSends /\ link \in Nat
      /\ known(Me) <=> dp # NoPeer
      /\ known(Me) => Sound(dp, nbrs[Me], link, A, dst.seq)
  BY KnownIsSound, DVNetNodeAssumption DEF DVNetNodeAssumption, NetType
<1>2. /\ m \in nbrs[Me] /\ m \in Nbrs /\ m \in NbrsOf(Me) /\ nbrs'[Me] = nbrs[Me] \ {m}
      /\ linkMetric' = linkMetric
  BY <1>1 DEF RemoveNbr, NetType
<1>3. CASE dp = NoPeer
  <2>1. dps' = dps
    BY <1>1, <1>3 DEF RemoveNbr
  <2> QED BY <1>2, <1>3, <2>1, SameMethods DEF Node!RemoveNbr, known
<1>4. CASE dp # NoPeer
  <2>1. dps'[Me] = q
    BY <1>1, <1>4 DEF RemoveNbr, NetType
  <2>2. q \in Records /\ Revives(dp, q)
    <3>1. /\ dp \in Records /\ BestFits(dp) /\ UpVia(dp, nbrs[Me])
          /\ 0 \in 0 .. MaxQueue /\ FALSE \in BOOLEAN
      BY <1>1, <1>4, RoutesBounds DEF Sound, Held
    <3> DEFINE N == nbrs[Me]
    <3> HIDE DEF dp, link, N
    <3>0. /\ BestFits(dp) /\ dp \in Records /\ UpVia(dp, N) /\ N \in SUBSET Nbrs /\ m \in Nbrs
          /\ 0 \in 0 .. MaxQueue /\ FALSE \in BOOLEAN
      BY <1>1, <1>2, <3>1 DEF N
    <3>2. /\ q \in Records /\ BestFits(q) /\ Revives(dp, q) /\ UpVia(q, N \ {m})
          /\ q.routes = broken(dp.routes, m)
          /\ q.best = dp.best \/ q.best = scan(q.routes, link)
      BY <3>0, NbrRoutesDown, Zenon
    <3> QED BY <3>2
  <2>3. Quiet(q)
    BY <1>1, <1>4, MethodsAreQuiet DEF AllQuiet
  <2> HIDE DEF q
  <2>4. known(Me)' /\ dps'[Me] = [q EXCEPT !.flag = FALSE]
    BY <2>1, <2>2, <2>3, RecordIsPeer DEF Quiet, known
  <2>5. /\ registered' <=> registered \/ Node!readds(dp, q)
        /\ ~(Node!readds(dp, q) /\ registered)
    BY <1>1, <1>4, <2>1, <2>2, <2>4, SameMethods DEF readds, Revives
  <2>6. \E c \in Node!Circumstances(TRUE) : c[1] = FALSE /\ c[2] = 0
    <3>1. 0 \in 0 .. dp.queue
      BY <1>1, <1>4, RoutesBounds DEF Sound, Held, Records
    <3>2. <<FALSE, 0>> \in Node!Circumstances(TRUE)
      BY <3>1, SameMethods DEF Node!Circumstances
    <3> QED BY <3>2
  <2>7. q = Node!nbrRoutesDown(dp, m, link, FALSE, 0) /\ dp # Node!NoPeer
    BY <1>4, SameMethods DEF q
  <2>8. /\ registered' = (registered \/ Node!readds(dp, q))
        /\ FALSE' = (FALSE \/ (Node!readds(dp, q) /\ registered))
    BY <2>5
  <2> HIDE DEF registered
  <2> QED BY <1>2, <2>4, <2>6, <2>7, <2>8 DEF Node!RemoveNbr, registered
<1> QED BY <1>2, <1>3, <1>4

LEMMA TimeoutIsNodes ==
    ASSUME NetType, NEW A, Timed(A), AllQuiet, Timeout(Me)
    PROVE  Node!Timeout
<1> DEFINE link == linkMetric[Me]
           dp == dps[Me]
           p == expireRoutes(dp, link, FALSE, 0)
           q == expireProbation(p, FALSE)
           r == expirePeer(q)
           registered == known(Me) /\ dp.state # "TIMED_OUT"
<1>1. /\ Me \in Nodes /\ nbrs[Me] \in SUBSET Nbrs
      /\ dst.seq \in 0 .. MaxSends /\ link \in Nat
      /\ known(Me) /\ dp # NoPeer /\ Sound(dp, nbrs[Me], link, A, dst.seq)
  BY KnownIsSound, DVNetNodeAssumption DEF DVNetNodeAssumption, Timeout
<1>2. /\ dps'[Me] = IF r.state = "TIMED_OUT" /\ DOMAIN r.routes = {} THEN NoPeer ELSE r
      /\ nbrs' = nbrs /\ linkMetric' = linkMetric
  BY <1>1 DEF Timeout, expired, NetType
<1>3. Quiet(r)
  BY <1>1, MethodsAreQuiet DEF AllQuiet
<1>4. /\ p \in Records /\ BestFits(p) /\ Revives(dp, p) /\ UpVia(p, nbrs[Me])
      /\ \A h \in DOMAIN p.routes : p.routes[h].up => p.routes[h].idle <= DownTicks
  <2>1. /\ dp \in Records /\ BestFits(dp) /\ UpVia(dp, nbrs[Me])
        /\ 0 \in 0 .. MaxQueue /\ FALSE \in BOOLEAN
    BY <1>1, RoutesBounds DEF Sound, Held
  <2> HIDE DEF dp, link
  <2> QED BY <1>1, <2>1, ExpireRoutes
<1> HIDE DEF p
<1>5. /\ q \in Records /\ BestFits(q)
      /\ q.state = "TIMED_OUT" <=> p.state = "TIMED_OUT"
      /\ q.routes = p.routes /\ q.heard = p.heard
  BY <1>4, ExpireProbation
<1> HIDE DEF q
<1>6. UpVia(q, nbrs[Me]) /\ \A h \in DOMAIN q.routes : q.routes[h].up => q.routes[h].idle <= DownTicks
  BY <1>4, <1>5 DEF UpVia
<1>7. r \in Records /\ (r.state = "TIMED_OUT" <=> (q.state = "TIMED_OUT" \/ timesOut(q)))
  <2> DEFINE N == nbrs[Me]
  <2> HIDE DEF N
  <2>1. /\ N \in SUBSET Nbrs /\ UpVia(q, N)
        /\ \A h \in DOMAIN q.routes : q.routes[h].up => q.routes[h].idle <= DownTicks
    BY <1>1, <1>6 DEF N
  <2> QED BY <1>5, <2>1, ExpirePeer
<1> HIDE DEF r
<1>8. r.state # "null"
  BY <1>7, RecordIsPeer
<1> DEFINE inRegistry == registered \/ readds(dp, p)
           throws == timesOut(q) /\ ~inRegistry
<1>9. /\ ~throws /\ ~(readds(dp, p) /\ registered)
      /\ registered' <=> inRegistry /\ ~timesOut(q)
      /\ dps'[Me] = IF r.state = "TIMED_OUT" /\ DOMAIN r.routes = {} /\ ~throws
                    THEN NoPeer ELSE [r EXCEPT !.flag = @ /\ throws]
  <2>1. ~throws /\ ~(readds(dp, p) /\ registered)
    BY <1>1, <1>4, <1>5 DEF timesOut, readds, Revives
  <2>2. [r EXCEPT !.flag = @ /\ throws] = r
    BY <1>3, <2>1 DEF Quiet
  <2>3. r.state = "TIMED_OUT" <=> ~(inRegistry /\ ~timesOut(q))
    BY <1>1, <1>4, <1>5, <1>7 DEF timesOut, readds, Revives
  <2>4. registered' <=> r.state # "TIMED_OUT"
    BY <1>2, <1>8 DEF known, NoPeer
  <2> QED BY <1>2, <2>1, <2>2, <2>3, <2>4
<1>10. \E c \in Node!Circumstances(FALSE) : c[1] = FALSE /\ c[2] = 0
  <2>1. 0 \in 0 .. dp.queue
    BY <1>1, RoutesBounds DEF Sound, Held, Records
  <2>2. <<FALSE, 0>> \in Node!Circumstances(FALSE)
    BY <2>1, SameMethods DEF Node!Circumstances
  <2> QED BY <2>2
<1>11. /\ p = Node!expireRoutes(dp, link, FALSE, 0) /\ q = Node!expireProbation(p, FALSE)
       /\ r = Node!expirePeer(q) /\ dp # Node!NoPeer /\ NoPeer = Node!NoPeer
       /\ readds(dp, p) <=> Node!readds(dp, p)
       /\ timesOut(q) <=> Node!timesOut(q)
  BY <1>1, SameMethods DEF p, q, r
<1>12. /\ dps[Me]' = IF r.state = "TIMED_OUT" /\ DOMAIN r.routes = {} /\ ~throws
                     THEN Node!NoPeer ELSE [r EXCEPT !.flag = @ /\ throws]
       /\ registered' = (inRegistry /\ ~timesOut(q))
       /\ FALSE' = (FALSE \/ throws \/ (readds(dp, p) /\ registered))
       /\ UNCHANGED <<nbrs[Me], linkMetric[Me], FALSE>>
  BY <1>2, <1>9, <1>11
<1> HIDE DEF registered
<1> QED BY <1>10, <1>11, <1>12 DEF Node!Timeout, registered

LEMMA ReceiveIsNodes ==
    ASSUME NetType, NEW A, Timed(A), AllQuiet, Receive(Me)
    PROVE  \/ UNCHANGED Node!vars
           \/ \E m \in NbrsOf(Me) : Node!ReceiveFromNbr(m)
<1>1. PICK pkt \in air :
        /\ pkt.to = Me /\ pkt.from # Dst
        /\ IF ignores(Me, pkt.from, pkt.says)
           THEN dps' = dps
           ELSE \E link \in HopMetrics :
                dps' = [dps EXCEPT ![Me] =
                        heard(Me, pkt.from, plusLink(pkt.says.metric, link),
                              pkt.says.seq, pkt.says.lastHop, pkt.says.age)]
        /\ UNCHANGED <<nbrs, linkMetric, dst>>
  BY DEF Receive
<1>2. CASE ignores(Me, pkt.from, pkt.says)
  BY <1>1, <1>2, OthersStutter
<1>3. CASE ~ignores(Me, pkt.from, pkt.says)
  <2> DEFINE m == pkt.from
             said == pkt.says
  <2>1. PICK hop \in HopMetrics :
                dps' = [dps EXCEPT ![Me] = heard(Me, m, plusLink(said.metric, hop),
                                                 said.seq, said.lastHop, said.age)]
    BY <1>1, <1>3
  <2>2. /\ m \in nbrs[Me] /\ said.age <= MaxAcceptedAge /\ said.lastHop # Me /\ m # Dst
        /\ IsPacket(pkt) /\ TellsTrue(pkt, A)
        /\ dst.seq \in 0 .. MaxSends /\ nbrs[Me] \in SUBSET NbrsOf(Me) /\ nbrs[Me] \in SUBSET Nbrs
    <3>1. m \in nbrs[Me] /\ said.age <= MaxAcceptedAge /\ said.lastHop # Me /\ m # Dst
      <4>1. m \in nbrs[Me] /\ ~(said.age > MaxAcceptedAge) /\ said.lastHop # Me /\ m # Dst
        BY <1>1, <1>3 DEF ignores
      <4>2. said.age \in Nat /\ MaxAcceptedAge \in Nat
        BY <1>1, <4>1, DVNetAssumption DEF NetType, IsPacket, DVNetAssumption
      <4> HIDE DEF said, m
      <4> QED BY <4>1, <4>2
    <3>2. IsPacket(pkt) /\ TellsTrue(pkt, A)
      BY <1>1 DEF NetType, Timed
    <3>3. /\ dst.seq \in 0 .. MaxSends /\ nbrs[Me] \in SUBSET NbrsOf(Me)
          /\ nbrs[Me] \in SUBSET Nbrs
      BY KnownIsSound, DVNetNodeAssumption DEF NetType, DVNetNodeAssumption
    <3> QED BY <3>1, <3>2, <3>3
  <2>3. /\ said.seq \in 0 .. dst.seq /\ said.age \in Nat /\ said.age \in 0 .. MaxAcceptedAge
        /\ said.lastHop \in Nodes \ {Me} /\ said.metric \in Metrics \cup {Infinite}
        /\ plusLink(said.metric, hop) \in Metric /\ said.lastHop \in LastHops
    <3>1. said.seq \in 0 .. dst.seq
      BY <2>2 DEF TellsTrue
    <3>2. said.age \in Nat /\ said.metric \in Metrics \cup {Infinite} /\ said.lastHop \in LastHops
      BY <2>2 DEF IsPacket
    <3>3. plusLink(said.metric, hop) \in Metric
      <4>1. hop \in Nat /\ Metrics \subseteq Nat
        BY <2>1, NetBounds, DVNetAssumption DEF DVNetAssumption
      <4> DEFINE x == said.metric
      <4>2. x = Infinite \/ x \in Nat
        BY <3>2, <4>1
      <4> HIDE DEF x
      <4>3. plusLink(x, hop) \in Metric
        BY <4>1, <4>2 DEF Metric, plusLink
      <4> QED BY <4>3 DEF x
    <3>4. said.age \in 0 .. MaxAcceptedAge /\ said.lastHop \in Nodes \ {Me}
      BY <2>2, <3>2, DVNetAssumption DEF DVNetAssumption, Nodes
    <3> QED BY <3>1, <3>2, <3>3, <3>4
  <2>4. said.seq \in Node!SeqNos
    BY <2>2, <2>3, NetBounds DEF Node!SeqNos, SeqNos
  <2>5. Node!updatePeer(m, Node!plusLink(said.metric, hop), said.seq, said.lastHop, said.age, TRUE)
    <3> DEFINE N == nbrs[Me]
               metric == plusLink(said.metric, hop)
    <3>1. metric = Node!plusLink(said.metric, hop)
      BY SameMethods
    <3>2. /\ N \in SUBSET Nbrs /\ nbrs[Me] \subseteq N /\ m \in N /\ metric \in Metric
          /\ TRUE \in BOOLEAN
      BY <2>2, <2>3
    <3>3. dps' = [dps EXCEPT ![Me] = heard(Me, m, metric, said.seq, said.lastHop, said.age)]
      BY <2>1
    <3> DEFINE seq == said.seq
               h == said.lastHop
               age == said.age
    <3>4. /\ NetType /\ Timed(A) /\ AllQuiet /\ N \in SUBSET Nbrs /\ nbrs[Me] \subseteq N
          /\ m \in N /\ metric \in Metric /\ seq \in 0 .. dst.seq /\ h \in LastHops
          /\ age \in Nat /\ TRUE \in BOOLEAN
          /\ dps' = [dps EXCEPT ![Me] = heard(Me, m, metric, seq, h, age)]
      BY <2>3, <3>2, <3>3
    <3> HIDE DEF N, m, said, metric, seq, h, age
    <3>5. Node!updatePeer(m, metric, seq, h, age, TRUE)
      BY <3>4, HeardIsUpdatePeer
    <3> QED BY <3>1, <3>5 DEF seq, h, age
  <2>6. said.age \in Node!AcceptedAges
    BY <2>3 DEF Node!AcceptedAges
  <2>7. hop \in LinkMetrics \cup HopMetrics /\ UNCHANGED <<nbrs[Me], linkMetric[Me], FALSE>>
    BY <1>1
  <2>8. m \in nbrs[Me] \ {Dst} /\ m \in NbrsOf(Me)
    BY <2>2
  <2> HIDE DEF m, said
  <2>9. Node!ReceiveFromNbr(m)
    BY <2>3, <2>4, <2>5, <2>6, <2>7, <2>8 DEF Node!ReceiveFromNbr
  <2> QED BY <2>8, <2>9
<1> QED BY <1>2, <1>3

\* What AddDst and ReceiveFromDst have in common.
LEMMA HeardDirectIsNodes ==
    ASSUME NetType, NEW A, Timed(A), AllQuiet, NEW N \in SUBSET Nbrs, nbrs[Me] \subseteq N,
           Dst \in N, NEW seq \in 0 .. dst.seq, A[seq] = 0,
           dps' = [dps EXCEPT ![Me] = heardDirect(Me, seq)]
    PROVE  seq \in Node!SeqNos /\ Node!updateDirect(seq, TRUE) /\ Node!updateDirect(seq, FALSE)
<1>1. /\ linkMetric[Me] \in Metric /\ dst.seq \in 0 .. MaxSends /\ Me \in LastHops /\ 0 \in Nat
  BY KnownIsSound, DVNetNodeAssumption, NetBounds DEF DVNetNodeAssumption, Metric
<1>2. seq \in Node!SeqNos
  BY <1>1, NetBounds DEF Node!SeqNos, SeqNos
<1>3. dps' = [dps EXCEPT ![Me] = heard(Me, Dst, linkMetric[Me], seq, Me, 0)]
  BY DEF heardDirect
<1>4. /\ Node!updatePeer(Dst, linkMetric[Me], seq, Me, 0, TRUE)
      /\ Node!updatePeer(Dst, linkMetric[Me], seq, Me, 0, FALSE)
  <2> DEFINE metric == linkMetric[Me]
             m == Dst
             h == Me
             age == 0
  <2>1. /\ NetType /\ Timed(A) /\ AllQuiet /\ N \in SUBSET Nbrs /\ nbrs[Me] \subseteq N
        /\ m \in N /\ metric \in Metric /\ seq \in 0 .. dst.seq /\ h \in LastHops
        /\ age \in Nat /\ TRUE \in BOOLEAN /\ FALSE \in BOOLEAN
        /\ dps' = [dps EXCEPT ![Me] = heard(Me, m, metric, seq, h, age)]
    BY <1>1, <1>3
  <2> HIDE DEF metric, m, h, age
  <2>2. Node!updatePeer(m, metric, seq, h, age, TRUE)
    BY <2>1, HeardIsUpdatePeer
  <2>3. Node!updatePeer(m, metric, seq, h, age, FALSE)
    BY <2>1, HeardIsUpdatePeer
  <2> QED BY <2>2, <2>3 DEF metric, m, h, age
<1> QED BY <1>2, <1>4 DEF Node!updateDirect

LEMMA NextIsNodes ==
    ASSUME NetType, NEW A, Timed(A), AllQuiet, [Next]_vars
    PROVE  [Node!Next]_(Node!vars)
<1>0. /\ Me \in Nodes /\ nbrs[Me] \in SUBSET Nbrs /\ dst.seq \in 0 .. MaxSends
      /\ dps = [n \in Nodes |-> dps[n]] /\ nbrs = [n \in Nodes |-> nbrs[n]]
      /\ known(Me) <=> dps[Me] # NoPeer
      /\ nbrs[Me] \in SUBSET NbrsOf(Me)
  BY KnownIsSound, DVNetNodeAssumption DEF DVNetNodeAssumption, NetType
<1>1. CASE \E n \in Nodes : AddDst(n)
  <2>1. PICK n \in Nodes : AddDst(n)
    BY <1>1
  <2>2. CASE n # Me
    BY <1>0, <2>1, <2>2, OthersStutter DEF AddDst
  <2>3. CASE n = Me
    <3>1. /\ Dst \in NbrsOf(Me) /\ Dst \notin nbrs[Me] /\ Dst \in Nbrs
          /\ nbrs'[Me] = nbrs[Me] \cup {Dst} /\ linkMetric'[Me] = linkMetric[Me]
          /\ dps' = [dps EXCEPT ![Me] = heardDirect(Me, dst.seq)]
      BY <1>0, <2>1, <2>3, NetBounds DEF AddDst
    <3>2. A[dst.seq] = 0 /\ dst.seq \in 0 .. dst.seq
      BY <1>0, <2>1 DEF AddDst, Timed, Shows
    <3>3. dst.seq \in Node!SeqNos /\ Node!updateDirect(dst.seq, FALSE)
      <4> DEFINE N == nbrs[Me] \cup {Dst}
      <4>1. N \in SUBSET Nbrs /\ nbrs[Me] \subseteq N /\ Dst \in N /\ FALSE \in BOOLEAN
        BY <1>0, <3>1
      <4> HIDE DEF N
      <4> QED BY <3>1, <3>2, <4>1, HeardDirectIsNodes
    <3>4. Node!AddNbr(Dst)
      BY <3>1, <3>3 DEF Node!AddNbr
    <3> QED BY <3>1, <3>4 DEF Node!Next
  <2> QED BY <2>2, <2>3
<1>2. CASE \E n \in Nodes : DstSends(n)
  BY <1>2, OthersStutter DEF DstSends
<1>3. CASE \E n \in Nodes : ReceiveFromDst(n)
  <2>1. PICK n \in Nodes : ReceiveFromDst(n)
    BY <1>3
  <2>2. PICK pkt \in air :
        /\ pkt.from = Dst
        /\ dps' = IF Dst \in nbrs[n]
                  THEN [dps EXCEPT ![n] = heardDirect(n, pkt.says.seq)] ELSE dps
        /\ UNCHANGED <<nbrs, linkMetric, dst>>
    BY <2>1 DEF ReceiveFromDst
  <2>3. CASE n # Me \/ Dst \notin nbrs[n]
    BY <1>0, <2>2, <2>3, OthersStutter
  <2>4. CASE n = Me /\ Dst \in nbrs[n]
    <3>1. pkt.says.seq \in 0 .. dst.seq /\ A[pkt.says.seq] = 0
      BY <2>2 DEF Timed, TellsTrue
    <3>2. pkt.says.seq \in Node!SeqNos /\ Node!updateDirect(pkt.says.seq, TRUE)
      <4> DEFINE N == nbrs[Me]
                 seq == pkt.says.seq
      <4>1. /\ N \in SUBSET Nbrs /\ nbrs[Me] \subseteq N /\ Dst \in N /\ TRUE \in BOOLEAN
            /\ seq \in 0 .. dst.seq /\ A[seq] = 0
            /\ dps' = [dps EXCEPT ![Me] = heardDirect(Me, seq)]
        BY <1>0, <2>2, <2>4, <3>1
      <4> HIDE DEF N, seq
      <4>2. seq \in Node!SeqNos /\ Node!updateDirect(seq, TRUE)
        BY <4>1, HeardDirectIsNodes
      <4> QED BY <4>2 DEF seq
    <3>3. Node!ReceiveFromDst
      BY <2>2, <2>4, <3>2 DEF Node!ReceiveFromDst
    <3> QED BY <3>3 DEF Node!Next
  <2> QED BY <2>3, <2>4
<1>4. CASE \E n \in Nodes : Receive(n)
  <2>1. PICK n \in Nodes : Receive(n)
    BY <1>4
  <2>2. CASE n # Me
    <3>1. dps'[Me] = dps[Me] /\ UNCHANGED <<nbrs, linkMetric, dst>>
      BY <1>0, <2>1, <2>2 DEF Receive
    <3> QED BY <3>1, OthersStutter
  <2>3. CASE n = Me
    BY <2>1, <2>3, ReceiveIsNodes DEF Node!Next
  <2> QED BY <2>2, <2>3
<1>5. CASE \E n \in Nodes : Timeout(n)
  <2>1. PICK n \in Nodes : Timeout(n)
    BY <1>5
  <2>2. CASE n # Me
    BY <1>0, <2>1, <2>2, OthersStutter DEF Timeout
  <2>3. CASE n = Me
    BY <2>1, <2>3, TimeoutIsNodes DEF Node!Next
  <2> QED BY <2>2, <2>3
<1>6. CASE \E n \in Nodes : \E m \in NbrsOf(n) : AddNbr(n, m)
  <2>0. PICK n \in Nodes : \E m \in NbrsOf(n) : AddNbr(n, m)
    BY <1>6
  <2>1. PICK m \in NbrsOf(n) : AddNbr(n, m)
    BY <2>0
  <2>2. CASE n # Me
    BY <1>0, <2>1, <2>2, OthersStutter DEF AddNbr
  <2>3. CASE n = Me
    <3>1. /\ m \in NbrsOf(Me) /\ m \notin nbrs[Me] /\ m # Dst
          /\ nbrs'[Me] = nbrs[Me] \cup {m} /\ UNCHANGED <<dps, linkMetric>>
      BY <1>0, <2>1, <2>3 DEF AddNbr
    <3>2. Node!AddNbr(m)
      BY <3>1 DEF Node!AddNbr, known
    <3> QED BY <3>1, <3>2 DEF Node!Next
  <2> QED BY <2>2, <2>3
<1>7. CASE \E n \in Nodes : \E m \in NbrsOf(n) : RemoveNbr(n, m)
  <2>0. PICK n \in Nodes : \E m \in NbrsOf(n) : RemoveNbr(n, m)
    BY <1>7
  <2>1. PICK m \in NbrsOf(n) : RemoveNbr(n, m)
    BY <2>0
  <2>2. CASE n # Me
    BY <1>0, <2>1, <2>2, OthersStutter DEF RemoveNbr
  <2>3. CASE n = Me
    BY <2>1, <2>3, RemoveNbrIsNodes DEF Node!Next
  <2> QED BY <2>2, <2>3
<1>8. CASE \E n \in Nodes, m \in Nodes : Advertise(n, m)
  BY <1>8, OthersStutter DEF Advertise
<1>9. CASE DstCounts \/ DstDies \/ UNCHANGED vars
  BY <1>9, OthersStutter DEF DstCounts, DstDies, vars
<1>10. CASE Tick
  <2>1. /\ dps'[Me] = IF known(Me) THEN olderPeer(dps[Me]) ELSE dps[Me]
        /\ nbrs' = nbrs /\ linkMetric' = linkMetric
        /\ known(Me) => expired(Me) = dps[Me]
    BY <1>0, <1>10 DEF Tick
  <2>2. CASE ~known(Me)
    BY <2>1, <2>2, OthersStutter
  <2>3. CASE known(Me)
    <3>1. /\ linkMetric[Me] \in Nat /\ IsClock(A)
          /\ Sound(dps[Me], nbrs[Me], linkMetric[Me], A, dst.seq)
      BY <1>0, <2>3, KnownIsSound
    <3>2. \A h \in DOMAIN dps[Me].routes : dps[Me].routes[h].idle <= RemovalTicks
      BY <1>0, <2>1, <2>3, <3>1, Expired
    <3>3. Quiet(dps[Me])
      BY <1>0, <2>3 DEF AllQuiet
    <3>4. olderPeer(dps[Me]).state = dps[Me].state
      BY <3>3 DEF Quiet, olderPeer
    <3>5. /\ dps[Me] # Node!NoPeer /\ dps[Me]' = Node!olderPeer(dps[Me])
          /\ (known(Me) /\ dps[Me].state # "TIMED_OUT")'
                = (known(Me) /\ dps[Me].state # "TIMED_OUT")
          /\ UNCHANGED <<FALSE, nbrs[Me], linkMetric[Me]>>
      BY <1>0, <2>1, <2>3, <3>4, SameMethods DEF known
    <3>6. Node!Tick
      BY <3>2, <3>5 DEF Node!Tick
    <3> QED BY <3>6 DEF Node!Next
  <2> QED BY <2>2, <2>3
<1> QED BY <1>1, <1>2, <1>3, <1>4, <1>5, <1>6, <1>7, <1>8, <1>9, <1>10 DEF Next

\* What module DVPeer assumes of its constants is true of each device (the constants that
\* DVRoutes assumes something of are the same).
LEMMA NodeAssumption == Node!DVPeerAssumption
<1>1. /\ Me \in Nodes /\ Dst \notin Nodes /\ Me \notin NbrsOf(Me)
      /\ LinkMetrics \subseteq Nat /\ LinkMetrics # {} /\ HopMetrics \subseteq Nat
      /\ Metrics \subseteq Nat /\ MaxAcceptedAge \in Nat
  BY DVNetAssumption, DVNetNodeAssumption DEF DVNetAssumption, DVNetNodeAssumption, NbrsOf
<1> QED BY <1>1 DEF Node!DVPeerAssumption, Nodes

\* What the network makes of the DVPeer of any of its devices is what the handlers and
\* the timers of DVPeer make of one, so that every theorem about DVPeer holds of it.
THEOREM NodesAreDVPeers == Spec => NodeIsDVPeer
<1>1. Init => Node!Init
  <2> SUFFICES ASSUME Init PROVE Node!Init
    OBVIOUS
  <2>1. /\ Me \in Nodes /\ dps[Me] = NoPeer /\ nbrs[Me] = NbrsOf(Me) \ {Dst}
        /\ linkMetric[Me] \in LinkMetrics
    BY DVNetNodeAssumption DEF Init, DVNetNodeAssumption
  <2>2. ~known(Me)
    BY <2>1 DEF known, NoPeer
  <2> QED BY <2>1, <2>2, SameMethods DEF Node!Init
<1>2. IInv /\ AllQuiet /\ [Next]_vars => [Node!Next]_(Node!vars)
  <2> SUFFICES ASSUME NetType, NEW A, Timed(A), AllQuiet, [Next]_vars
               PROVE  [Node!Next]_(Node!vars)
    BY DEF IInv
  <2> QED BY NextIsNodes
<1> QED BY <1>1, <1>2, Invariance, QuietHolds, PTL DEF Spec, NodeIsDVPeer, Node!Spec
=============================================================================
