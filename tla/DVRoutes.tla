------------------------------ MODULE DVRoutes ------------------------------
(***************************************************************************)
(* What a device holds about one destination, Dst, and what the methods of *)
(* DVPeer and Route make of it: candidate routes keyed by last hop, the    *)
(* selected one, the peer state.  Pure operators: DVPeer has the handlers  *)
(* of one device that call them, DVNet several devices.  link is always    *)
(* the current metric of the device's own link to Dst, if Dst is its       *)
(* neighbour.                                                              *)
(*                                                                         *)
(* Times are in ticks.  Instead of the time stamps of the code, a route    *)
(* and a peer hold the ticks elapsed since.                                *)
(***************************************************************************)
EXTENDS SeqNo, Sequences

CONSTANTS
    Dst,            \* the device the routes lead to
    Nbrs,           \* devices that can be next hops, Dst among them or not
    LastHops,       \* devices that can be the last hop before Dst
    HashOrder,      \* the order in which allRoutes, a HashMap, iterates its keys
    None,           \* null, as a last hop
    Infinite,       \* METRIC_INFINITE
    DownTicks,      \* DV_ROUTE_DOWN_TIMEOUT_MS
    PeerTicks,      \* PEER_TIMEOUT_MS
    RemovalTicks,   \* DV_ROUTE_REMOVAL_MS
    ProbationTicks, \* DV_DOWN_PENDING_PROBATION_MS
    MaxQueue        \* bound: packets in sendQueue, a list without bound in the code

ASSUME DVRoutesAssumption ==
    /\ None \notin LastHops
    /\ HashOrder \in Seq(LastHops)
    /\ \A h \in LastHops : \E i \in 1 .. Len(HashOrder) : HashOrder[i] = h
    /\ Infinite \notin Nat
    /\ DownTicks \in Nat /\ PeerTicks \in Nat /\ RemovalTicks \in Nat
    /\ DownTicks < PeerTicks /\ PeerTicks < RemovalTicks
    /\ ProbationTicks \in Nat /\ MaxQueue \in Nat

PeerStates == {"UP", "DOWN_PENDING", "DOWN", "TIMED_OUT"}

\* null, as a DVPeer.
NoPeer == [state |-> "null"]

Metric == Nat \cup {Infinite}

Route == [next : Nbrs, metric : Metric, seq : SeqNos, age : Nat,
          idle : 0 .. RemovalTicks + 1, up : BOOLEAN]

\* allRoutes: a map from last hops to routes.
IsRouteMap(routes) ==
    /\ DOMAIN routes \subseteq LastHops
    /\ routes \in [DOMAIN routes -> Route]

IsDVPeer(p) ==
    /\ p = [state |-> p.state, routes |-> p.routes, best |-> p.best, heard |-> p.heard,
            probation |-> p.probation, flag |-> p.flag, queue |-> p.queue]
    /\ p.state \in PeerStates
    /\ IsRouteMap(p.routes)
    /\ p.best \in DOMAIN p.routes \cup {None}
    /\ p.heard \in 0 .. PeerTicks + 1 /\ p.probation \in 0 .. ProbationTicks
    /\ p.flag \in BOOLEAN /\ p.queue \in 0 .. MaxQueue

\* Route: constructor, getCurrentAge, stateDOWN, update.  The metric of a direct
\* route is the object of the link itself, not a copy of its value: 0 stands for it.
newRoute(n, metric, seq, age) ==
    [next |-> n, metric |-> IF n = Dst THEN 0 ELSE metric, seq |-> seq, age |-> age,
     idle |-> 0, up |-> metric # Infinite]

currentAge(rt) == rt.age + rt.idle

\* A fault: the time of a route that goes DOWN begins anew.
stateDOWN_touches(rt) == [rt EXCEPT !.up = FALSE, !.idle = 0]

stateDOWN(rt) == [rt EXCEPT !.up = FALSE]

update(rt, metric, seq, age) ==
    IF metric = Infinite THEN stateDOWN(rt) ELSE newRoute(rt.next, metric, seq, age)

metricOf(rt, link) == IF rt.next = Dst THEN link ELSE rt.metric

\* MetricETT.isBetterThan: or as good.
isBetterThan(m1, m2) == m2 = Infinite \/ (m1 # Infinite /\ m1 <= m2)

\* The metric of a route over a link: an infinite one stays so, and a finite one, a
\* double, stays finite however often it is added to.
plusLink(metric, link) ==
    IF metric = Infinite THEN Infinite ELSE metric + link

-----------------------------------------------------------------------------
\* DVPeer: constructor, selectBestRoute, updateRoute, timeout, nbrRoutesDown.
\* They take the DVPeer and return it changed.

newDVPeer ==
    [state |-> "UP", routes |-> [h \in {} |-> None], best |-> None,
     heard |-> PeerTicks + 1, probation |-> 0, flag |-> FALSE, queue |-> 0]

supersedes(rt, sel, link) ==
    \/ seqNoGreater(rt.seq, sel.seq, currentAge(rt), currentAge(sel))
    \/ rt.seq = sel.seq /\ isBetterThan(metricOf(rt, link), metricOf(sel, link))

\* A fault: what is DOWN is passed over.
scan_upOnly(routes, link) ==
    LET sel[i \in 0 .. Len(HashOrder)] ==
            IF i = 0 THEN None ELSE
            LET h == HashOrder[i]
                prev == sel[i - 1]
            IN  IF /\ h \in DOMAIN routes /\ routes[h].up
                   /\ prev = None \/ supersedes(routes[h], routes[prev], link)
                THEN h ELSE prev
    IN  sel[Len(HashOrder)]

\* The scan of selectBestRoute, in the order of the HashMap: UP or DOWN does not count.
scan(routes, link) ==
    LET sel[i \in 0 .. Len(HashOrder)] ==
            IF i = 0 THEN None ELSE
            LET h == HashOrder[i]
                prev == sel[i - 1]
            IN  IF /\ h \in DOMAIN routes
                   /\ prev = None \/ supersedes(routes[h], routes[prev], link)
                THEN h ELSE prev
    IN  sel[Len(HashOrder)]

hasUpRoute(routes) == \E h \in DOMAIN routes : routes[h].up

\* A fault: TIMED_OUT is overridden by a route that is DOWN.
stateAfter_leavesTimedOut(state, routes, sel) ==
    CASE sel = None -> IF state = "TIMED_OUT" THEN state ELSE "DOWN"
      [] sel # None /\ routes[sel].up -> "UP"
      [] OTHER -> IF hasUpRoute(routes) THEN "DOWN_PENDING" ELSE "DOWN"

\* The state a DVPeer goes to when its best route is sel.
stateAfter(state, routes, sel) ==
    CASE sel = None ->
            IF state = "TIMED_OUT" THEN state ELSE "DOWN"
      [] sel # None /\ routes[sel].up -> "UP"
      [] sel # None /\ ~routes[sel].up /\ state = "TIMED_OUT" -> state
      [] OTHER -> IF hasUpRoute(routes) THEN "DOWN_PENDING" ELSE "DOWN"

\* kept: how many queued packets sendQueuedPackets fails to send (closed channel).
selectBestRoute(p, link, activeFlow, kept) ==
    LET sel  == scan(p.routes, link)
        next == stateAfter(p.state, p.routes, sel)
    IN  [p EXCEPT
            !.best = sel,
            !.state = next,
            !.probation = IF next = "DOWN_PENDING" /\ p.state # next
                          THEN ProbationTicks ELSE @,
            !.queue = IF next = "UP" /\ p.state # next THEN kept ELSE @,
            !.flag = @ \/ ( /\ sel # None /\ p.state # next
                            /\ next # "DOWN_PENDING" /\ activeFlow)]

\* selectBestRoute calls registry.addPeer.
readds(p, q) == p.state = "TIMED_OUT" /\ q.state = "UP"

\* A fault: a route that is DOWN gives way to anything.
accepts_overDown(routes, n, metric, seq, h, age, link) ==
    \/ h \notin DOMAIN routes
    \/ ~routes[h].up
    \/ seqNoGreater(seq, routes[h].seq, age, currentAge(routes[h]))
    \/ seq = routes[h].seq /\ isBetterThan(metric, metricOf(routes[h], link))

accepts(routes, n, metric, seq, h, age, link) ==
    \/ h \notin DOMAIN routes
    \/ seqNoGreater(seq, routes[h].seq, age, currentAge(routes[h]))
    \/ seq = routes[h].seq /\ isBetterThan(metric, metricOf(routes[h], link))
    \/ metric = Infinite /\ routes[h].next = n

\* A fault: an update does not count as having heard of the peer.
updateRoute_hearsNothing(p, n, metric, seq, h, age, link, activeFlow, kept) ==
    LET rt == IF h \in DOMAIN p.routes /\ p.routes[h].next = n
              THEN update(p.routes[h], metric, seq, age)
              ELSE newRoute(n, metric, seq, age)
        routes == [x \in DOMAIN p.routes \cup {h} |-> IF x = h THEN rt ELSE p.routes[x]]
    IN  selectBestRoute([p EXCEPT !.routes = routes], link, activeFlow, kept)

\* updateRoute, of an update that is accepted.
updateRoute(p, n, metric, seq, h, age, link, activeFlow, kept) ==
    LET rt == IF h \in DOMAIN p.routes /\ p.routes[h].next = n
              THEN update(p.routes[h], metric, seq, age)
              ELSE newRoute(n, metric, seq, age)
        routes == [x \in DOMAIN p.routes \cup {h} |-> IF x = h THEN rt ELSE p.routes[x]]
    IN  selectBestRoute([p EXCEPT !.routes = routes,
                                  !.heard = IF metric = Infinite THEN @ ELSE 0],
                        link, activeFlow, kept)

\* Faults: no route is selected after a break; only the best route breaks.
nbrRoutesDown_keepsState(p, n, link, activeFlow, kept) ==
    [p EXCEPT !.routes = [h \in DOMAIN @ |->
        IF @[h].next = n THEN stateDOWN(@[h]) ELSE @[h]]]

nbrRoutesDown_bestOnly(p, n, link, activeFlow, kept) ==
    IF p.best # None /\ p.routes[p.best].next = n
    THEN selectBestRoute([p EXCEPT !.routes[p.best] = stateDOWN(@)], link, activeFlow, kept)
    ELSE p

nbrRoutesDown(p, n, link, activeFlow, kept) ==
    LET routes == [h \in DOMAIN p.routes |->
                    IF p.routes[h].next = n THEN stateDOWN(p.routes[h]) ELSE p.routes[h]]
        q == [p EXCEPT !.routes = routes]
    IN  IF p.best # None /\ p.routes[p.best].next = n
        THEN selectBestRoute(q, link, activeFlow, kept) ELSE q

\* A fault: a route is selected if the best one goes DOWN, not if it is removed.
expireRoutes_keepsRemovedBest(p, link, activeFlow, kept) ==
    LET fresh  == {h \in DOMAIN p.routes : p.routes[h].idle <= RemovalTicks}
        routes == [h \in fresh |-> IF p.routes[h].idle > DownTicks
                                   THEN stateDOWN(p.routes[h]) ELSE p.routes[h]]
        q == [p EXCEPT !.routes = routes]
    IN  IF p.best \in fresh /\ routes[p.best] # p.routes[p.best]
        THEN selectBestRoute(q, link, activeFlow, kept) ELSE q

\* A fault: a route is removed when it should go DOWN.
expireRoutes_removesDown(p, link, activeFlow, kept) ==
    LET fresh == {h \in DOMAIN p.routes : p.routes[h].idle <= DownTicks}
        q == [p EXCEPT !.routes = [h \in fresh |-> @[h]]]
    IN  IF p.best # None /\ p.best \notin fresh
        THEN selectBestRoute(q, link, activeFlow, kept) ELSE q

\* timeout, its three parts: the routes, the probation, the peer.
expireRoutes(p, link, activeFlow, kept) ==
    LET fresh  == {h \in DOMAIN p.routes : p.routes[h].idle <= RemovalTicks}
        routes == [h \in fresh |-> IF p.routes[h].idle > DownTicks
                                   THEN stateDOWN(p.routes[h]) ELSE p.routes[h]]
        q == [p EXCEPT !.routes = routes]
    IN  IF p.best # None /\ (p.best \notin fresh \/ routes[p.best] # p.routes[p.best])
        THEN selectBestRoute(q, link, activeFlow, kept) ELSE q

expireProbation(p, activeFlow) ==
    IF p.state = "DOWN_PENDING" /\ p.probation = 0
    THEN [p EXCEPT !.state = "DOWN", !.flag = @ \/ activeFlow] ELSE p

\* A fault: a peer that has timed out does so again.
timesOut_again(p) == p.heard > PeerTicks

timesOut(p) == p.state # "TIMED_OUT" /\ p.heard > PeerTicks

expirePeer(p) ==
    IF timesOut(p) THEN [p EXCEPT !.state = "TIMED_OUT"] ELSE p

\* A tick passes.
older(rt) == [rt EXCEPT !.idle = @ + 1]

olderPeer(p) ==
    [p EXCEPT !.routes = [h \in DOMAIN p.routes |-> older(p.routes[h])],
              !.heard = IF @ > PeerTicks THEN @ ELSE @ + 1,
              !.probation = IF @ = 0 THEN @ ELSE @ - 1]
=============================================================================
