---------------------------- MODULE DVRoutes_proofs ----------------------------
(***************************************************************************)
(* What the operators of DVRoutes make of any DVPeer, whatever the         *)
(* devices, metrics, sequence numbers, ages and timeouts are: the lemmas   *)
(* on which the proofs about one device and about several rest.            *)
(*                                                                         *)
(* selectBestRoute is called at the end of nearly every handler, so they   *)
(* first say what it makes of ANY DVPeer, then that each handler that      *)
(* skips it left the best route as it was.                                 *)
(***************************************************************************)
EXTENDS DVRoutes, WellFoundedInduction, TLAPS

\* The maps and records of IsRouteMap and IsDVPeer, as sets.
RouteMaps == UNION {[D -> Route] : D \in SUBSET LastHops}

Records == [state : PeerStates, routes : RouteMaps, best : LastHops \cup {None},
            heard : 0 .. PeerTicks + 1, probation : 0 .. ProbationTicks,
            flag : BOOLEAN, queue : 0 .. MaxQueue]

\* The best route of p is one of its routes; it is UP exactly when p is.
BestFits(p) ==
    /\ p.best \in DOMAIN p.routes \cup {None}
    /\ p.state = "UP" <=> p.best # None /\ p.routes[p.best].up

\* The next hops of the UP routes are in N, and h says how long ago p was heard of.
UpVia(p, N) ==
    \A h \in DOMAIN p.routes :
        p.routes[h].up => p.routes[h].next \in N /\ p.heard <= p.routes[h].idle

\* Only an UP route brings a peer that has timed out back, only a timeout makes it so.
Revives(p, q) ==
    /\ p.state # "TIMED_OUT" => q.state # "TIMED_OUT"
    /\ p.state = "TIMED_OUT" => q.state \in {"TIMED_OUT", "UP"}

Well(p, N) == p \in Records /\ BestFits(p) /\ UpVia(p, N)

-----------------------------------------------------------------------------

\* What the proofs need of the constants.
LEMMA RoutesBounds ==
    /\ DownTicks \in Nat /\ PeerTicks \in Nat /\ RemovalTicks \in Nat
    /\ DownTicks < PeerTicks /\ PeerTicks < RemovalTicks
    /\ ProbationTicks \in Nat /\ MaxQueue \in Nat
    /\ None \notin LastHops
    /\ Infinite \notin Nat
BY DVRoutesAssumption DEF DVRoutesAssumption

\* A partial function from last hops to routes, in the two forms.
LEMMA RouteMapForms ==
    ASSUME NEW r PROVE IsRouteMap(r) <=> r \in RouteMaps
BY DEF IsRouteMap, RouteMaps

\* A DVPeer in the two forms.
LEMMA DVPeerForms ==
    ASSUME NEW p
    PROVE  IsDVPeer(p) <=> p \in Records /\ p.best \in DOMAIN p.routes \cup {None}
<1>1. ASSUME IsDVPeer(p) PROVE p \in Records /\ p.best \in DOMAIN p.routes \cup {None}
  <2>1. p.routes \in RouteMaps /\ DOMAIN p.routes \subseteq LastHops
    BY <1>1, RouteMapForms DEF IsDVPeer, IsRouteMap
  <2> QED BY <1>1, <2>1 DEF IsDVPeer, Records
<1>2. ASSUME p \in Records, p.best \in DOMAIN p.routes \cup {None} PROVE IsDVPeer(p)
  <2>1. IsRouteMap(p.routes)
    BY <1>2, RouteMapForms DEF Records
  <2> QED BY <1>2, <2>1 DEF IsDVPeer, Records
<1> QED BY <1>1, <1>2

\* A map made of the entries of routes is a map of routes again.
LEMMA RouteMapIntro ==
    ASSUME NEW D \in SUBSET LastHops, NEW r \in [D -> Route]
    PROVE  r \in RouteMaps
BY DEF RouteMaps

LEMMA RouteMapElim ==
    ASSUME NEW r \in RouteMaps
    PROVE  /\ DOMAIN r \subseteq LastHops
           /\ r \in [DOMAIN r -> Route]
BY DEF RouteMaps

\* The constructor and the methods of Route give routes.
LEMMA RouteType ==
    /\ \A n \in Nbrs, metric \in Metric, seq \in SeqNos, age \in Nat :
            /\ newRoute(n, metric, seq, age) \in Route
            /\ newRoute(n, metric, seq, age).next = n
            /\ newRoute(n, metric, seq, age).idle = 0
            /\ newRoute(n, metric, seq, age).up <=> metric # Infinite
    /\ \A rt \in Route : /\ stateDOWN(rt) \in Route
                         /\ stateDOWN(rt).up = FALSE
                         /\ stateDOWN(rt).next = rt.next
                         /\ stateDOWN(rt).idle = rt.idle
<1>1. 0 \in 0 .. RemovalTicks + 1
  BY RoutesBounds
<1>2. ASSUME NEW n \in Nbrs, NEW metric \in Metric, NEW seq \in SeqNos, NEW age \in Nat
      PROVE  /\ newRoute(n, metric, seq, age) \in Route
             /\ newRoute(n, metric, seq, age).next = n
             /\ newRoute(n, metric, seq, age).idle = 0
             /\ newRoute(n, metric, seq, age).up <=> metric # Infinite
  <2>1. (metric # Infinite) \in BOOLEAN /\ (IF n = Dst THEN 0 ELSE metric) \in Metric
    BY DEF Metric
  <2> QED BY <1>1, <2>1 DEF newRoute, Route
<1>3. ASSUME NEW rt \in Route
      PROVE  /\ stateDOWN(rt) \in Route
             /\ stateDOWN(rt).up = FALSE
             /\ stateDOWN(rt).next = rt.next
             /\ stateDOWN(rt).idle = rt.idle
  BY DEF stateDOWN, Route
<1> QED BY <1>2, <1>3

LEMMA NewDVPeerType ==
    /\ newDVPeer \in Records
    /\ newDVPeer.routes = [h \in {} |-> None] /\ newDVPeer.state = "UP"
    /\ newDVPeer.best = None
<1>1. [h \in {} |-> None] \in RouteMaps
  <2>1. [h \in {} |-> None] \in [{} -> Route]
    OBVIOUS
  <2> QED BY <2>1, RouteMapIntro
<1> QED BY <1>1, RoutesBounds DEF newDVPeer, Records, PeerStates

-----------------------------------------------------------------------------
\* The scan of selectBestRoute.

LEMMA Induction ==
    ASSUME NEW S, 0 \in S, \A n \in Nat : n \in S => n + 1 \in S
    PROVE  Nat \subseteq S
<1> SUFFICES ASSUME Nat \ S # {} PROVE FALSE
  OBVIOUS
<1>1. PICK x \in Nat \ S : \A y \in Nat \ S : x <= y
  <2>1. PICK x \in Nat \ S : \A y \in Nat \ S : ~(<<y, x>> \in OpToRel(<, Nat))
    BY WFMin, NatLessThanWellFounded
  <2>2. \A y \in Nat \ S : ~(y < x)
    BY <2>1 DEF OpToRel
  <2> QED BY <2>2
<1>2. x # 0 /\ x - 1 \in Nat
  BY <1>1
<1>3. x - 1 \in S
  BY <1>1, <1>2
<1> QED BY <1>1, <1>2, <1>3

\* What the scan has selected after the last hop h, when it had selected prev before.
after(routes, link, h, prev) ==
    IF h \in DOMAIN routes /\ (prev = None \/ supersedes(routes[h], routes[prev], link))
    THEN h ELSE prev

\* sel is what it has selected after each of the first k last hops.
Selects(sel, routes, link, k) ==
    /\ sel = [i \in 0 .. k |-> sel[i]] /\ sel[0] = None
    /\ \A i \in 1 .. k : sel[i] = after(routes, link, HashOrder[i], sel[i - 1])

LEMMA SelectionExists ==
    ASSUME NEW routes, NEW link
    PROVE  \E sel : Selects(sel, routes, link, Len(HashOrder))
<1> DEFINE N == Len(HashOrder)
           S == {k \in Nat : k <= N => \E sel : Selects(sel, routes, link, k)}
<1>0. N \in Nat
  BY DVRoutesAssumption DEF DVRoutesAssumption
<1> HIDE DEF N
<1>1. 0 \in S
  <2>1. Selects([i \in 0 .. 0 |-> None], routes, link, 0)
    BY DEF Selects
  <2> QED BY <2>1
<1>2. ASSUME NEW k \in Nat, k \in S, k + 1 <= N
      PROVE  \E sel : Selects(sel, routes, link, k + 1)
  <2>1. PICK f : Selects(f, routes, link, k)
    BY <1>0, <1>2
  <2> DEFINE g == [i \in 0 .. k + 1 |->
                    IF i = k + 1 THEN after(routes, link, HashOrder[k + 1], f[k]) ELSE f[i]]
  <2>2. g = [i \in 0 .. k + 1 |-> g[i]] /\ g[0] = None
    BY <2>1 DEF Selects
  <2>3. ASSUME NEW i \in 1 .. k + 1
        PROVE  g[i] = after(routes, link, HashOrder[i], g[i - 1])
    <3>1. g[i - 1] = f[i - 1]
      OBVIOUS
    <3>2. CASE i = k + 1
      BY <3>1, <3>2
    <3>3. CASE i \in 1 .. k
      BY <3>1, <3>3, <2>1 DEF Selects
    <3> QED BY <3>2, <3>3
  <2> HIDE DEF g
  <2> QED BY <2>2, <2>3 DEF Selects
<1>3. ASSUME NEW k \in Nat, k \in S PROVE k + 1 \in S
  BY <1>0, <1>2, <1>3
<1> HIDE DEF S
<1>4. N \in S
  BY <1>0, <1>1, <1>3, Induction
<1> QED BY <1>4 DEF S, N

\* scan is the last selection.
LEMMA ScanSelects ==
    ASSUME NEW routes, NEW link
    PROVE  \E sel : /\ Selects(sel, routes, link, Len(HashOrder))
                    /\ scan(routes, link) = sel[Len(HashOrder)]
<1> DEFINE N == Len(HashOrder)
           F(g) == [i \in 0 .. N |->
                        IF i = 0 THEN None ELSE
                        LET h == HashOrder[i]
                            prev == g[i - 1]
                        IN  IF /\ h \in DOMAIN routes
                               /\ prev = None \/ supersedes(routes[h], routes[prev], link)
                            THEN h ELSE prev]
           sel == CHOOSE g : g = F(g)
<1>0. N \in Nat
  BY DVRoutesAssumption DEF DVRoutesAssumption
<1>1. PICK f : Selects(f, routes, link, N)
  BY SelectionExists
<1>2. f = F(f)
  <2>1. \A g : F(g) = [i \in 0 .. N |->
                    IF i = 0 THEN None ELSE after(routes, link, HashOrder[i], g[i - 1])]
    BY DEF after
  <2>2. f = [i \in 0 .. N |-> f[i]]
    BY <1>1 DEF Selects
  <2>3. ASSUME NEW i \in 0 .. N
        PROVE  f[i] = IF i = 0 THEN None ELSE after(routes, link, HashOrder[i], f[i - 1])
    BY <1>1 DEF Selects
  <2>4. F(f) = [i \in 0 .. N |->
                    IF i = 0 THEN None ELSE after(routes, link, HashOrder[i], f[i - 1])]
    BY <2>1
  <2> HIDE DEF F, N
  <2>5. [i \in 0 .. N |-> IF i = 0 THEN None ELSE after(routes, link, HashOrder[i], f[i - 1])]
            = [i \in 0 .. N |-> f[i]]
    BY <2>3
  <2> QED BY <2>2, <2>4, <2>5
<1>3. sel = F(sel)
  <2> HIDE DEF F
  <2> QED BY <1>2
<1>4. Selects(sel, routes, link, N)
  <2>1. sel = [i \in 0 .. N |->
                    IF i = 0 THEN None ELSE after(routes, link, HashOrder[i], sel[i - 1])]
    BY <1>3 DEF after
  <2> HIDE DEF sel, N
  <2>2. sel = [i \in 0 .. N |-> sel[i]] /\ sel[0] = None
    BY <1>0, <2>1
  <2>3. ASSUME NEW i \in 1 .. N PROVE sel[i] = after(routes, link, HashOrder[i], sel[i - 1])
    BY <1>0, <2>1
  <2> QED BY <2>2, <2>3 DEF Selects
<1>5. scan(routes, link) = sel[N]
  BY DEF scan
<1> HIDE DEF sel
<1> QED BY <1>4, <1>5

\* The route it ends with is one of the routes.
LEMMA ScanIsRoute ==
    ASSUME NEW routes, NEW link
    PROVE  scan(routes, link) \in DOMAIN routes \cup {None}
<1>1. PICK sel : /\ Selects(sel, routes, link, Len(HashOrder))
                 /\ scan(routes, link) = sel[Len(HashOrder)]
  BY ScanSelects
<1> DEFINE N == Len(HashOrder)
           S == {k \in Nat : k <= N => sel[k] \in DOMAIN routes \cup {None}}
<1>0. N \in Nat
  BY DVRoutesAssumption DEF DVRoutesAssumption
<1> HIDE DEF N
<1>2. 0 \in S
  BY <1>1 DEF Selects
<1>3. ASSUME NEW k \in Nat, k \in S PROVE k + 1 \in S
  <2>1. SUFFICES ASSUME k + 1 <= N PROVE sel[k + 1] \in DOMAIN routes \cup {None}
    OBVIOUS
  <2>2. k + 1 \in 1 .. N /\ (k + 1) - 1 = k /\ sel[k] \in DOMAIN routes \cup {None}
    BY <1>0, <1>3, <2>1
  <2>3. sel[k + 1] = after(routes, link, HashOrder[k + 1], sel[k])
    BY <1>1, <2>2 DEF Selects, N
  <2> QED BY <2>2, <2>3 DEF after
<1> HIDE DEF S
<1>4. N \in S
  BY <1>0, <1>2, <1>3, Induction
<1> QED BY <1>0, <1>1, <1>4 DEF S, N

\* Routes that supersedes orders: of any two one supersedes the other, and it is
\* transitive.  In general it is neither (OneIsNewer of DVPeer_proofs).
Ordered(routes, link) ==
    \A f, g \in DOMAIN routes :
        /\ supersedes(routes[f], routes[g], link) \/ supersedes(routes[g], routes[f], link)
        /\ \A h \in DOMAIN routes :
                supersedes(routes[f], routes[g], link) /\ supersedes(routes[g], routes[h], link)
                    => supersedes(routes[f], routes[h], link)

\* The best route supersedes, or equals, every other.
BestIsTop(routes, best, link) ==
    \A h \in DOMAIN routes :
        best \in DOMAIN routes /\ supersedes(routes[best], routes[h], link)

\* Of such routes the scan ends with the top, in whatever order it meets them.
LEMMA ScanIsTop ==
    ASSUME NEW routes, DOMAIN routes \subseteq LastHops, NEW link, Ordered(routes, link)
    PROVE  BestIsTop(routes, scan(routes, link), link)
<1>1. PICK sel : /\ Selects(sel, routes, link, Len(HashOrder))
                 /\ scan(routes, link) = sel[Len(HashOrder)]
  BY ScanSelects
<1> DEFINE N == Len(HashOrder)
           Top(k) == /\ sel[k] \in DOMAIN routes \cup {None}
                     /\ \A i \in 1 .. k : HashOrder[i] \in DOMAIN routes =>
                            /\ sel[k] # None
                            /\ supersedes(routes[sel[k]], routes[HashOrder[i]], link)
           S == {k \in Nat : k <= N => Top(k)}
<1>0. N \in Nat /\ None \notin DOMAIN routes
  BY DVRoutesAssumption DEF DVRoutesAssumption
<1> HIDE DEF N
<1>2. 0 \in S
  BY <1>1 DEF Selects
<1>3. ASSUME NEW k \in Nat, k \in S PROVE k + 1 \in S
  <2>1. SUFFICES ASSUME k + 1 <= N PROVE Top(k + 1)
    OBVIOUS
  <2>2. k + 1 \in 1 .. N /\ (k + 1) - 1 = k /\ Top(k)
    BY <1>0, <1>3, <2>1
  <2> DEFINE h == HashOrder[k + 1]
  <2>3. sel[k + 1] = after(routes, link, h, sel[k])
    BY <1>1, <2>2 DEF Selects, N
  <2> SUFFICES ASSUME NEW i \in 1 .. k + 1, HashOrder[i] \in DOMAIN routes
               PROVE  /\ sel[k + 1] # None
                      /\ supersedes(routes[sel[k + 1]], routes[HashOrder[i]], link)
    <3>1. sel[k + 1] \in DOMAIN routes \cup {None}
      BY <2>2, <2>3 DEF after
    <3> QED BY <3>1
  <2>4. i = k + 1 \/ i \in 1 .. k
    OBVIOUS
  <2>5. \A f, g, e \in DOMAIN routes :
            /\ supersedes(routes[f], routes[g], link) \/ supersedes(routes[g], routes[f], link)
            /\ supersedes(routes[f], routes[g], link) /\ supersedes(routes[g], routes[e], link)
                    => supersedes(routes[f], routes[e], link)
    BY DEF Ordered
  <2> HIDE DEF h
  <2>6. i = k + 1 => HashOrder[i] = h
    BY DEF h
  <2>7. i \in 1 .. k => sel[k] # None /\ supersedes(routes[sel[k]], routes[HashOrder[i]], link)
    BY <2>2
  <2>8. CASE h \in DOMAIN routes /\ (sel[k] = None \/ supersedes(routes[h], routes[sel[k]], link))
    <3>1. sel[k + 1] = h /\ h # None
      BY <1>0, <2>3, <2>8 DEF after
    <3> HIDE DEF S
    <3> QED BY <2>2, <2>4, <2>5, <2>6, <2>7, <2>8, <3>1
  <2>9. CASE ~(h \in DOMAIN routes /\ (sel[k] = None \/ supersedes(routes[h], routes[sel[k]], link)))
    <3>1. sel[k + 1] = sel[k]
      BY <2>3, <2>9 DEF after
    <3> HIDE DEF S
    <3> QED BY <2>2, <2>4, <2>5, <2>6, <2>7, <2>9, <3>1
  <2> QED BY <2>8, <2>9
<1> HIDE DEF S, Top
<1>4. N \in S
  BY <1>0, <1>2, <1>3, Induction
<1>5. Top(N)
  BY <1>0, <1>4 DEF S
<1>6. ASSUME NEW h \in DOMAIN routes
      PROVE  sel[N] \in DOMAIN routes /\ supersedes(routes[sel[N]], routes[h], link)
  <2>1. PICK i \in 1 .. N : HashOrder[i] = h
    BY DVRoutesAssumption DEF DVRoutesAssumption, N
  <2> QED BY <1>5, <2>1 DEF Top
<1> QED BY <1>1, <1>6 DEF BestIsTop, N

-----------------------------------------------------------------------------
\* selectBestRoute.

LEMMA StateAfter ==
    ASSUME NEW state \in PeerStates, NEW r \in RouteMaps, NEW sel \in DOMAIN r \cup {None}
    PROVE  LET next == stateAfter(state, r, sel)
           IN  /\ next \in PeerStates
               /\ state # "TIMED_OUT" => next # "TIMED_OUT"
               /\ state = "TIMED_OUT" => next \in {"TIMED_OUT", "UP"}
               /\ next = "UP" <=> sel # None /\ r[sel].up
<1>1. CASE sel = None
  BY <1>1 DEF stateAfter, PeerStates
<1>2. CASE sel # None
  BY <1>2 DEF stateAfter, PeerStates
<1> QED BY <1>1, <1>2

\* Whatever p has for a best route and a state, they fit after selectBestRoute.
LEMMA SelectBestRoute ==
    ASSUME NEW p \in Records, NEW link, NEW flow \in BOOLEAN, NEW kept \in 0 .. MaxQueue
    PROVE  LET q == selectBestRoute(p, link, flow, kept)
           IN  /\ q \in Records /\ BestFits(q) /\ Revives(p, q)
               /\ q.routes = p.routes /\ q.heard = p.heard
               /\ q.best = scan(p.routes, link)
<1> DEFINE sel  == scan(p.routes, link)
           next == stateAfter(p.state, p.routes, sel)
           q    == selectBestRoute(p, link, flow, kept)
<1>1. p.routes \in RouteMaps /\ p.state \in PeerStates
  BY DEF Records
<1>2. sel \in DOMAIN p.routes \cup {None}
  BY ScanIsRoute
<1>3. /\ next \in PeerStates
      /\ p.state # "TIMED_OUT" => next # "TIMED_OUT"
      /\ p.state = "TIMED_OUT" => next \in {"TIMED_OUT", "UP"}
      /\ next = "UP" <=> sel # None /\ p.routes[sel].up
  BY <1>1, <1>2, StateAfter
<1>4. sel \in LastHops \cup {None}
  BY <1>1, <1>2, RouteMapElim
<1> HIDE DEF sel, next
<1>5. /\ q.best = sel /\ q.state = next /\ q.routes = p.routes /\ q.heard = p.heard
      /\ q \in Records
  <2>1. ProbationTicks \in 0 .. ProbationTicks
    BY RoutesBounds
  <2>2. q = [p EXCEPT
            !.best = sel,
            !.state = next,
            !.probation = IF next = "DOWN_PENDING" /\ p.state # next
                          THEN ProbationTicks ELSE @,
            !.queue = IF next = "UP" /\ p.state # next THEN kept ELSE @,
            !.flag = @ \/ ( /\ sel # None /\ p.state # next
                            /\ next # "DOWN_PENDING" /\ flow)]
    BY DEF selectBestRoute, sel, next
  <2> HIDE DEF q
  <2> QED BY <1>3, <1>4, <2>1, <2>2 DEF Records
<1> HIDE DEF q
<1>6. BestFits(q) /\ Revives(p, q)
  BY <1>2, <1>3, <1>5 DEF BestFits, Revives
<1> QED BY <1>5, <1>6 DEF q, sel

-----------------------------------------------------------------------------
\* The other methods: what they make of the routes, then what selectBestRoute makes
\* of that, if it is called.

\* The route that an update leaves.
updated(p, n, metric, seq, h, age) ==
    IF h \in DOMAIN p.routes /\ p.routes[h].next = n
    THEN update(p.routes[h], metric, seq, age) ELSE newRoute(n, metric, seq, age)

LEMMA UpdateRoute ==
    ASSUME NEW p \in Records, NEW n \in Nbrs, NEW metric \in Metric, NEW seq \in SeqNos,
           NEW h \in LastHops, NEW age \in Nat,
           NEW link, NEW flow \in BOOLEAN, NEW kept \in 0 .. MaxQueue,
           NEW N \in SUBSET Nbrs, n \in N, UpVia(p, N)
    PROVE  LET q == updateRoute(p, n, metric, seq, h, age, link, flow, kept)
           IN  /\ q \in Records /\ BestFits(q) /\ Revives(p, q) /\ UpVia(q, N)
               /\ q.routes = [g \in DOMAIN p.routes \cup {h} |->
                    IF g = h THEN updated(p, n, metric, seq, h, age) ELSE p.routes[g]]
               /\ q.best = scan(q.routes, link)
<1> DEFINE rt == IF h \in DOMAIN p.routes /\ p.routes[h].next = n
                 THEN update(p.routes[h], metric, seq, age)
                 ELSE newRoute(n, metric, seq, age)
           routes == [g \in DOMAIN p.routes \cup {h} |-> IF g = h THEN rt ELSE p.routes[g]]
           heard  == IF metric = Infinite THEN p.heard ELSE 0
           p1 == [p EXCEPT !.routes = routes, !.heard = heard]
           q  == selectBestRoute(p1, link, flow, kept)
<1>1. DOMAIN p.routes \subseteq LastHops /\ p.routes \in [DOMAIN p.routes -> Route]
  BY RouteMapElim DEF Records
<1>2. rt \in Route /\ rt.next = n /\ (rt.up => metric # Infinite /\ rt.idle = 0)
  <2>1. CASE h \in DOMAIN p.routes /\ p.routes[h].next = n
    <3>1. p.routes[h] \in Route
      BY <1>1, <2>1
    <3>2. rt = update(p.routes[h], metric, seq, age)
      BY <2>1
    <3>3. CASE metric = Infinite
      <4>1. rt = stateDOWN(p.routes[h])
        BY <3>2, <3>3 DEF update
      <4> QED BY <4>1, <3>1, <2>1, RouteType
    <3>4. CASE metric # Infinite
      <4>1. rt = newRoute(n, metric, seq, age)
        BY <3>2, <3>4, <2>1 DEF update
      <4> QED BY <4>1, <3>4, RouteType
    <3> QED BY <3>3, <3>4
  <2>2. CASE ~(h \in DOMAIN p.routes /\ p.routes[h].next = n)
    <3>1. rt = newRoute(n, metric, seq, age)
      BY <2>2
    <3> QED BY <3>1, RouteType
  <2> QED BY <2>1, <2>2
<1> HIDE DEF rt
<1>3. routes \in RouteMaps
  <2>1. DOMAIN p.routes \cup {h} \in SUBSET LastHops
    BY <1>1
  <2>2. routes \in [DOMAIN p.routes \cup {h} -> Route]
    BY <1>1, <1>2
  <2> QED BY <2>1, <2>2, RouteMapIntro
<1>4. p.heard \in 0 .. PeerTicks + 1 /\ heard \in 0 .. PeerTicks + 1
  BY RoutesBounds DEF Records
<1>5. p1 \in Records /\ p1.routes = routes /\ p1.heard = heard /\ p1.state = p.state
  BY <1>3, <1>4 DEF Records
<1>6. ASSUME NEW g \in DOMAIN routes, routes[g].up
      PROVE  routes[g].next \in N /\ heard <= routes[g].idle
  <2>1. CASE g = h
    BY <2>1, <1>2, <1>6
  <2>2. CASE g # h
    <3>1. /\ routes[g] = p.routes[g] /\ g \in DOMAIN p.routes /\ p.routes[g] \in Route
          /\ p.routes[g].next \in N /\ p.heard <= p.routes[g].idle
      BY <2>2, <1>6, <1>1 DEF UpVia
    <3>2. p.routes[g].idle \in 0 .. RemovalTicks + 1
      BY <3>1 DEF Route
    <3> QED BY <3>1, <3>2, RoutesBounds
  <2> QED BY <2>1, <2>2
<1> HIDE DEF routes, heard, p1
<1>7. /\ q \in Records /\ BestFits(q) /\ Revives(p1, q)
      /\ q.routes = p1.routes /\ q.heard = p1.heard /\ q.best = scan(p1.routes, link)
  BY <1>5, SelectBestRoute
<1> HIDE DEF q
<1>8. UpVia(q, N)
  BY <1>5, <1>6, <1>7 DEF UpVia
<1>9. Revives(p, q)
  BY <1>5, <1>7 DEF Revives
<1>10. q.routes = routes /\ q.best = scan(q.routes, link)
  BY <1>5, <1>7
<1>11. routes = [g \in DOMAIN p.routes \cup {h} |->
                    IF g = h THEN updated(p, n, metric, seq, h, age) ELSE p.routes[g]]
  BY DEF routes, rt, updated
<1>12. q = updateRoute(p, n, metric, seq, h, age, link, flow, kept)
  BY DEF q, p1, routes, heard, rt, updateRoute
<1> QED BY <1>7, <1>8, <1>9, <1>10, <1>11, <1>12

\* The routes that the loss of the neighbour n leaves.
broken(routes, n) ==
    [h \in DOMAIN routes |-> IF routes[h].next = n THEN stateDOWN(routes[h]) ELSE routes[h]]

\* After nbrRoutesDown no UP route goes through n.
LEMMA NbrRoutesDown ==
    ASSUME NEW p \in Records, BestFits(p), NEW n \in Nbrs,
           NEW link, NEW flow \in BOOLEAN, NEW kept \in 0 .. MaxQueue,
           NEW N \in SUBSET Nbrs, UpVia(p, N)
    PROVE  LET q == nbrRoutesDown(p, n, link, flow, kept)
           IN  /\ q \in Records /\ BestFits(q) /\ Revives(p, q) /\ UpVia(q, N \ {n})
               /\ q.routes = broken(p.routes, n)
               /\ q.best = p.best \/ q.best = scan(q.routes, link)
<1> DEFINE routes == [h \in DOMAIN p.routes |->
                        IF p.routes[h].next = n THEN stateDOWN(p.routes[h]) ELSE p.routes[h]]
           p1 == [p EXCEPT !.routes = routes]
           q  == nbrRoutesDown(p, n, link, flow, kept)
<1>1. DOMAIN p.routes \subseteq LastHops /\ p.routes \in [DOMAIN p.routes -> Route]
  BY RouteMapElim DEF Records
<1>2. \A h \in DOMAIN p.routes : routes[h] \in Route
  BY <1>1, RouteType
<1>3. routes \in RouteMaps
  BY <1>1, <1>2, RouteMapIntro
<1>4. ASSUME NEW h \in DOMAIN routes, routes[h].up
      PROVE  routes[h].next \in N \ {n} /\ p.heard <= routes[h].idle
  <2>1. p.routes[h] \in Route
    BY <1>1
  <2>2. p.routes[h].next # n
    BY <1>4, <2>1, RouteType
  <2> QED BY <1>4, <2>2 DEF UpVia
<1>5. p1 \in Records /\ p1.routes = routes /\ p1.heard = p.heard /\ p1.state = p.state
      /\ p1.best = p.best
  BY <1>3 DEF Records
<1>6. p.best # None => p.best \in DOMAIN p.routes
  BY DEF BestFits
<1>7. (p.best # None /\ p.routes[p.best].next # n) => routes[p.best] = p.routes[p.best]
  BY <1>6
<1>8. DOMAIN routes = DOMAIN p.routes
  OBVIOUS
<1>9. q = IF p.best # None /\ p.routes[p.best].next = n
          THEN selectBestRoute(p1, link, flow, kept) ELSE p1
  BY DEF nbrRoutesDown
<1> HIDE DEF routes, p1, q
<1>10. /\ q \in Records /\ BestFits(q) /\ Revives(p1, q)
       /\ q.routes = routes /\ q.heard = p.heard
       /\ q.best = p.best \/ q.best = scan(q.routes, link)
  <2>1. CASE p.best # None /\ p.routes[p.best].next = n
    BY <2>1, <1>9, <1>5, SelectBestRoute
  <2>2. CASE ~(p.best # None /\ p.routes[p.best].next = n)
    <3>1. q = p1
      BY <2>2, <1>9
    <3>2. BestFits(p1)
      BY <2>2, <1>5, <1>7, <1>8 DEF BestFits
    <3>3. Revives(p1, p1)
      BY DEF Revives
    <3> QED BY <3>1, <3>2, <3>3, <1>5
  <2> QED BY <2>1, <2>2
<1>11. UpVia(q, N \ {n})
  BY <1>4, <1>10 DEF UpVia
<1>12. Revives(p, q)
  BY <1>5, <1>10 DEF Revives
<1>13. routes = broken(p.routes, n)
  BY DEF routes, broken
<1> QED BY <1>10, <1>11, <1>12, <1>13 DEF q

\* After the first part of timeout every UP route is fresh.
LEMMA ExpireRoutes ==
    ASSUME NEW p \in Records, BestFits(p),
           NEW link, NEW flow \in BOOLEAN, NEW kept \in 0 .. MaxQueue,
           NEW N \in SUBSET Nbrs, UpVia(p, N)
    PROVE  LET q == expireRoutes(p, link, flow, kept)
           IN  /\ q \in Records /\ BestFits(q) /\ Revives(p, q) /\ UpVia(q, N)
               /\ \A h \in DOMAIN q.routes : q.routes[h].up => q.routes[h].idle <= DownTicks
               /\ q.routes = [h \in {g \in DOMAIN p.routes : p.routes[g].idle <= RemovalTicks} |->
                    IF p.routes[h].idle > DownTicks THEN stateDOWN(p.routes[h]) ELSE p.routes[h]]
               /\ q.best = p.best \/ q.best = scan(q.routes, link)
<1> DEFINE fresh  == {h \in DOMAIN p.routes : p.routes[h].idle <= RemovalTicks}
           routes == [h \in fresh |-> IF p.routes[h].idle > DownTicks
                                      THEN stateDOWN(p.routes[h]) ELSE p.routes[h]]
           p1 == [p EXCEPT !.routes = routes]
           q  == expireRoutes(p, link, flow, kept)
           lost == p.best # None /\ (p.best \notin fresh \/ routes[p.best] # p.routes[p.best])
<1>1. DOMAIN p.routes \subseteq LastHops /\ p.routes \in [DOMAIN p.routes -> Route]
  BY RouteMapElim DEF Records
<1>2. \A h \in fresh : routes[h] \in Route
  BY <1>1, RouteType
<1>3. routes \in RouteMaps
  BY <1>1, <1>2, RouteMapIntro
<1>4. ASSUME NEW h \in DOMAIN routes, routes[h].up
      PROVE  routes[h].next \in N /\ p.heard <= routes[h].idle /\ routes[h].idle <= DownTicks
  <2>1. p.routes[h] \in Route /\ h \in DOMAIN p.routes
    BY <1>1
  <2>2. ~(p.routes[h].idle > DownTicks)
    BY <1>4, <2>1, RouteType
  <2>3. p.routes[h].idle \in 0 .. RemovalTicks + 1
    BY <2>1 DEF Route
  <2> QED BY <1>4, <2>1, <2>2, <2>3, RoutesBounds DEF UpVia
<1>5. p1 \in Records /\ p1.routes = routes /\ p1.heard = p.heard /\ p1.state = p.state
      /\ p1.best = p.best
  BY <1>3 DEF Records
<1>6. DOMAIN routes = fresh
  OBVIOUS
<1>7. q = IF lost THEN selectBestRoute(p1, link, flow, kept) ELSE p1
  BY DEF expireRoutes
<1> HIDE DEF routes, p1, q, fresh
<1>8. /\ q \in Records /\ BestFits(q) /\ Revives(p1, q)
      /\ q.routes = routes /\ q.heard = p.heard
      /\ q.best = p.best \/ q.best = scan(q.routes, link)
  <2>1. CASE lost
    BY <2>1, <1>7, <1>5, SelectBestRoute
  <2>2. CASE ~lost
    <3>1. q = p1
      BY <2>2, <1>7
    <3>2. BestFits(p1)
      BY <2>2, <1>5, <1>6 DEF BestFits
    <3>3. Revives(p1, p1)
      BY DEF Revives
    <3> QED BY <3>1, <3>2, <3>3, <1>5
  <2> QED BY <2>1, <2>2
<1>9. UpVia(q, N)
  BY <1>4, <1>8 DEF UpVia
<1>10. Revives(p, q)
  BY <1>5, <1>8 DEF Revives
<1> QED BY <1>4, <1>8, <1>9, <1>10 DEF q, routes, fresh

\* The end of the probation changes DOWN_PENDING to DOWN, neither of which is UP.
LEMMA ExpireProbation ==
    ASSUME NEW p \in Records, BestFits(p), NEW flow \in BOOLEAN
    PROVE  LET q == expireProbation(p, flow)
           IN  /\ q \in Records /\ BestFits(q)
               /\ q.state = "TIMED_OUT" <=> p.state = "TIMED_OUT"
               /\ q.routes = p.routes /\ q.heard = p.heard /\ q.best = p.best
<1>1. CASE p.state = "DOWN_PENDING" /\ p.probation = 0
  <2> DEFINE q == [p EXCEPT !.state = "DOWN", !.flag = @ \/ flow]
  <2>1. /\ q \in Records /\ q.state = "DOWN" /\ q.best = p.best
        /\ q.routes = p.routes /\ q.heard = p.heard
    BY DEF Records, PeerStates
  <2>2. expireProbation(p, flow) = q
    BY <1>1 DEF expireProbation
  <2> HIDE DEF q
  <2> QED BY <1>1, <2>1, <2>2 DEF BestFits
<1>2. CASE ~(p.state = "DOWN_PENDING" /\ p.probation = 0)
  BY <1>2 DEF expireProbation
<1> QED BY <1>1, <1>2

\* A peer whose UP routes are fresh has none when it times out: the best is not UP.
LEMMA ExpirePeer ==
    ASSUME NEW p \in Records, BestFits(p), NEW N \in SUBSET Nbrs, UpVia(p, N),
           \A h \in DOMAIN p.routes : p.routes[h].up => p.routes[h].idle <= DownTicks
    PROVE  LET q == expirePeer(p)
           IN  /\ q \in Records /\ BestFits(q) /\ UpVia(q, N)
               /\ q.routes = p.routes /\ q.best = p.best
               /\ q.state = "TIMED_OUT" <=> (p.state = "TIMED_OUT" \/ timesOut(p))
<1>1. CASE timesOut(p)
  <2> DEFINE q == [p EXCEPT !.state = "TIMED_OUT"]
  <2>1. /\ q \in Records /\ q.state = "TIMED_OUT" /\ q.best = p.best
        /\ q.routes = p.routes /\ q.heard = p.heard
    BY DEF Records, PeerStates
  <2>2. expirePeer(p) = q
    BY <1>1 DEF expirePeer
  <2>3. \A h \in DOMAIN p.routes : ~p.routes[h].up
    <3>1. SUFFICES ASSUME NEW h \in DOMAIN p.routes, p.routes[h].up PROVE FALSE
      OBVIOUS
    <3>2. p.routes[h] \in Route
      BY RouteMapElim DEF Records
    <3>3. p.heard <= p.routes[h].idle /\ p.routes[h].idle <= DownTicks /\ p.heard > PeerTicks
      BY <3>1, <1>1 DEF UpVia, timesOut
    <3>4. p.heard \in 0 .. PeerTicks + 1 /\ p.routes[h].idle \in 0 .. RemovalTicks + 1
      BY <3>2 DEF Route, Records
    <3> QED BY <3>3, <3>4, RoutesBounds
  <2> HIDE DEF q
  <2>4. BestFits(q) /\ UpVia(q, N)
    BY <2>1, <2>3 DEF BestFits, UpVia
  <2> QED BY <1>1, <2>1, <2>2, <2>4
<1>2. CASE ~timesOut(p)
  BY <1>2 DEF expirePeer
<1> QED BY <1>1, <1>2
-----------------------------------------------------------------------------
\* The handlers.

LEMMA RecordIsPeer ==
    ASSUME NEW p \in Records PROVE p # NoPeer /\ p.state # "null"
BY DEF Records, PeerStates, NoPeer

LEMMA WellIsPeer ==
    ASSUME NEW p, NEW N, Well(p, N) PROVE p # NoPeer
BY RecordIsPeer DEF Well

\* New neighbours break nothing.
LEMMA WellGrows ==
    ASSUME NEW p, NEW M, NEW N, M \subseteq N, Well(p, M) PROVE Well(p, N)
BY DEF Well, UpVia

\* Well says nothing of the flag, the queue and the probation.
LEMMA WellIgnores ==
    ASSUME NEW p, NEW N, Well(p, N)
    PROVE  /\ \A f \in BOOLEAN : /\ Well([p EXCEPT !.flag = @ /\ f], N)
                                 /\ [p EXCEPT !.flag = @ /\ f].state = p.state
           /\ \A k \in 0 .. MaxQueue : /\ Well([p EXCEPT !.queue = k], N)
                                       /\ [p EXCEPT !.queue = k].state = p.state
           /\ \A t \in 0 .. ProbationTicks : /\ Well([p EXCEPT !.probation = t], N)
                                             /\ [p EXCEPT !.probation = t].state = p.state
<1>1. p \in Records
  BY DEF Well
<1> DEFINE Same(q) == /\ q \in Records /\ q.routes = p.routes /\ q.best = p.best
                      /\ q.state = p.state /\ q.heard = p.heard
<1>2. ASSUME NEW q, Same(q) PROVE Well(q, N) /\ q.state = p.state
  BY <1>2 DEF Well, BestFits, UpVia
<1>4. \A f \in BOOLEAN : Same([p EXCEPT !.flag = @ /\ f])
  BY <1>1 DEF Records
<1>5. \A k \in 0 .. MaxQueue : Same([p EXCEPT !.queue = k])
  BY <1>1 DEF Records
<1>6. \A t \in 0 .. ProbationTicks : Same([p EXCEPT !.probation = t])
  BY <1>1 DEF Records
<1> HIDE DEF Same
<1> QED BY <1>2, <1>4, <1>5, <1>6

\* Time keeps what holds of a DVPeer, as long as no route is overdue for removal.
LEMMA OlderPeer ==
    ASSUME NEW p \in Records, BestFits(p), NEW N \in SUBSET Nbrs, UpVia(p, N),
           \A h \in DOMAIN p.routes : p.routes[h].idle <= RemovalTicks
    PROVE  LET q == olderPeer(p)
           IN  /\ Well(q, N) /\ q.state = p.state /\ q.best = p.best
               /\ q.routes = [h \in DOMAIN p.routes |-> older(p.routes[h])]
<1> DEFINE routes == [h \in DOMAIN p.routes |-> older(p.routes[h])]
           heard  == IF p.heard > PeerTicks THEN p.heard ELSE p.heard + 1
           rest   == IF p.probation = 0 THEN p.probation ELSE p.probation - 1
           q      == olderPeer(p)
<1>1. DOMAIN p.routes \subseteq LastHops /\ p.routes \in [DOMAIN p.routes -> Route]
  BY RouteMapElim DEF Records
<1>2. /\ p.heard \in 0 .. PeerTicks + 1 /\ heard \in 0 .. PeerTicks + 1
      /\ heard <= p.heard + 1
  BY RoutesBounds DEF Records
<1>3. rest \in 0 .. ProbationTicks
  BY RoutesBounds DEF Records
<1>4. ASSUME NEW h \in DOMAIN p.routes
      PROVE  /\ routes[h] \in Route /\ routes[h].up = p.routes[h].up
             /\ routes[h].next = p.routes[h].next /\ routes[h].idle = p.routes[h].idle + 1
             /\ p.routes[h].idle \in Nat
  <2>1. p.routes[h] \in Route
    BY <1>1
  <2>2. p.routes[h].idle + 1 \in 0 .. RemovalTicks + 1 /\ p.routes[h].idle \in Nat
    BY <2>1, RoutesBounds DEF Route
  <2> QED BY <2>1, <2>2 DEF Route, older
<1>5. routes \in RouteMaps /\ DOMAIN routes = DOMAIN p.routes
  BY <1>1, <1>4, RouteMapIntro
<1>6. q = [p EXCEPT !.routes = routes, !.heard = heard, !.probation = rest]
  BY DEF olderPeer
<1>7. /\ q \in Records /\ q.routes = routes /\ q.heard = heard
      /\ q.state = p.state /\ q.best = p.best
  <2> HIDE DEF routes, heard, rest, q
  <2> QED BY <1>2, <1>3, <1>5, <1>6 DEF Records
<1> HIDE DEF q
<1>8. BestFits(q)
  BY <1>4, <1>5, <1>7 DEF BestFits
<1>9. UpVia(q, N)
  <2> SUFFICES ASSUME NEW h \in DOMAIN routes, routes[h].up
               PROVE  routes[h].next \in N /\ heard <= routes[h].idle
    BY <1>7 DEF UpVia
  <2>1. p.routes[h].next \in N /\ p.heard <= p.routes[h].idle
    BY <1>4, <1>5 DEF UpVia
  <2>2. heard \in Int /\ p.heard \in Int /\ p.routes[h].idle \in Int
    <3>1. h \in DOMAIN p.routes
      BY <1>5
    <3>2. p.routes[h].idle \in Nat
      BY <1>4, <3>1
    <3> HIDE DEF heard, routes
    <3> QED BY <1>2, <3>2, RoutesBounds
  <2>3. routes[h].next = p.routes[h].next /\ routes[h].idle = p.routes[h].idle + 1
    BY <1>4, <1>5
  <2> HIDE DEF heard, routes
  <2> QED BY <1>2, <2>1, <2>2, <2>3
<1> QED BY <1>7, <1>8, <1>9 DEF Well, q
=============================================================================
