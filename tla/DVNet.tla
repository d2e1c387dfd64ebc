------------------------------- MODULE DVNet -------------------------------
(***************************************************************************)
(* Several devices and what their distance vector modules know about one   *)
(* destination, Dst.  Each device n holds a DVPeer of Dst, changed by the  *)
(* operators of module DVRoutes; here are the packets that connect them:   *)
(* sendPacket of one device, receive of the next, the neighbours of each,  *)
(* and the timers that all of them run.  That each device behaves as       *)
(* module DVPeer says is stated in DVNetNode.                              *)
(*                                                                         *)
(* A packet is on the air for less than a tick.  It may get lost, and      *)
(* packets may overtake each other.  Split horizon leaves entries out of   *)
(* packets on wired interfaces: here that is the loss of a packet.         *)
(* Applications and services are left out, so that nobody queues data.     *)
(***************************************************************************)
EXTENDS DVRoutes, FiniteSets

Nodes == LastHops   \* the devices beside Dst

CONSTANTS
    Links,              \* pairs of devices, Dst among them: the second hears the first
    Breaking,           \* bound: links that may break while both devices run
    MaxAcceptedAge,     \* DV_MAX_ACCEPTED_AGE
    LinkMetrics,        \* metrics of links to Dst
    HopMetrics,         \* metrics of links between nodes
    Metrics,            \* bound: finite metrics that are advertised
    MaxSends,           \* bound: sequence numbers that Dst uses
    MaxOnAir            \* bound: packets on the air at a time

\* A route is out of date, and a node DOWN, some time before routes are removed, as
\* in the code (64 s and 30 s against 150 s): removing the route that others hold a
\* younger copy of is what they would circle on.
ASSUME DVNetAssumption ==
    /\ Dst \notin Nodes /\ Nbrs = Nodes \cup {Dst}
    /\ Links \subseteq Nbrs \X Nodes /\ Breaking \subseteq Links
    /\ \A n \in Nodes : <<n, n>> \notin Links
    /\ LinkMetrics \subseteq Nat /\ LinkMetrics # {}
    /\ HopMetrics \subseteq Nat \ {0} /\ Metrics \subseteq Nat
    /\ MaxAcceptedAge \in Nat /\ MaxAcceptedAge + DownTicks < RemovalTicks
    /\ MaxSends \in Nat /\ MaxSends <= SeqWindow /\ MaxOnAir \in Nat

VARIABLES
    dps,           \* of each node: its DVPeer of Dst, or NoPeer
    nbrs,          \* of each node: its official neighbours
    linkMetric,    \* of each node: the current metric of its link to Dst
    air,           \* the packets on the air
    dst            \* Dst: is it running, its seqNo, did it send one in this tick?

vars == <<dps, nbrs, linkMetric, air, dst>>

NbrsOf(n) == {m \in Nbrs : <<m, n>> \in Links}

known(n) == dps[n].state # "null"

Init ==
    /\ dps = [n \in Nodes |-> NoPeer]
    /\ nbrs = [n \in Nodes |-> NbrsOf(n) \ {Dst}]
    /\ linkMetric \in [Nodes -> LinkMetrics]
    /\ \A n \in Nodes : Dst \notin NbrsOf(n) => linkMetric[n] = CHOOSE l \in LinkMetrics : TRUE
    /\ air = {}
    /\ dst = [up |-> TRUE, seq |-> 0, fresh |-> TRUE]

-----------------------------------------------------------------------------
\* DistanceVectorRouting of node n.

peerOf(n) == IF known(n) THEN dps[n] ELSE newDVPeer

\* A fault: the update is taken whatever the DVPeer holds.
heard_unchecked(n, m, metric, seq, h, age) ==
    updateRoute(peerOf(n), m, metric, seq, h, age, linkMetric[n], FALSE, 0)

\* updateRoute: an update that passed updatePeer's checks, accepted or not.
heard(n, m, metric, seq, h, age) ==
    LET p == peerOf(n)
    IN  IF accepts(p.routes, m, metric, seq, h, age, linkMetric[n])
        THEN updateRoute(p, m, metric, seq, h, age, linkMetric[n], FALSE, 0) ELSE p

heardDirect(n, seq) == heard(n, Dst, linkMetric[n], seq, n, 0)

\* A HELLO of Dst, which carries its current seqNo, makes it an official neighbour.
AddDst(n) ==
    /\ Dst \in NbrsOf(n) \ nbrs[n]
    /\ dst.up /\ dst.fresh
    /\ nbrs' = [nbrs EXCEPT ![n] = @ \cup {Dst}]
    /\ dps' = [dps EXCEPT ![n] = heardDirect(n, dst.seq)]
    /\ UNCHANGED <<linkMetric, air, dst>>

AddNbr(n, m) ==
    /\ m \in NbrsOf(n) \ (nbrs[n] \cup {Dst})
    /\ nbrs' = [nbrs EXCEPT ![n] = @ \cup {m}]
    /\ UNCHANGED <<dps, linkMetric, air, dst>>

\* removeNbr: the link was silent for too long.
RemoveNbr(n, m) ==
    /\ m \in nbrs[n]
    /\ <<m, n>> \in Breaking \/ (m = Dst /\ ~dst.up)
    /\ nbrs' = [nbrs EXCEPT ![n] = @ \ {m}]
    /\ dps' = IF known(n)
              THEN [dps EXCEPT ![n] = nbrRoutesDown(@, m, linkMetric[n], FALSE, 0)] ELSE dps
    /\ UNCHANGED <<linkMetric, air, dst>>

\* What sendPacket of n says about Dst.  A route in DOWN_PENDING or TIMED_OUT state, or
\* none, is not mentioned; one that is DOWN is retracted.
advertises(n) ==
    known(n) /\ dps[n].best # None /\ dps[n].state \notin {"DOWN_PENDING", "TIMED_OUT"}

advertisement(n) ==
    LET rt == dps[n].routes[dps[n].best]
    IN  [seq |-> rt.seq, metric |-> IF rt.up THEN metricOf(rt, linkMetric[n]) ELSE Infinite,
         lastHop |-> dps[n].best, age |-> currentAge(rt)]

\* A packet with a content goes from m over the air; n is one of those in reach.
puts(m, n, content) ==
    /\ Cardinality(air) < MaxOnAir
    /\ air' = air \cup {[from |-> m, to |-> n, says |-> content]}

Advertise(n, m) ==
    /\ advertises(n)
    /\ advertisement(n).metric \in Metrics \cup {Infinite}
    /\ puts(n, m, advertisement(n))
    /\ UNCHANGED <<dps, nbrs, linkMetric, dst>>

\* receive ignores packets of other devices than neighbours; updatePeer ignores entries
\* that are too old or that name n itself as last hop.
ignores(n, m, pkt) ==
    m \notin nbrs[n] \/ pkt.age > MaxAcceptedAge \/ pkt.lastHop = n

Receive(n) == \E pkt \in air :
    /\ pkt.to = n /\ pkt.from # Dst
    /\ air' = air \ {pkt}
    /\ LET said == pkt.says
       IN  IF ignores(n, pkt.from, said)
           THEN dps' = dps
           ELSE \E link \in HopMetrics :
                dps' = [dps EXCEPT ![n] =
                        heard(n, pkt.from, plusLink(said.metric, link),
                              said.seq, said.lastHop, said.age)]
    /\ UNCHANGED <<nbrs, linkMetric, dst>>

\* A packet of Dst itself: its seqNo is about Dst.
ReceiveFromDst(n) == \E pkt \in air :
    /\ pkt.to = n /\ pkt.from = Dst
    /\ air' = air \ {pkt}
    /\ dps' = IF Dst \in nbrs[n]
              THEN [dps EXCEPT ![n] = heardDirect(n, pkt.says.seq)] ELSE dps
    /\ UNCHANGED <<nbrs, linkMetric, dst>>

\* A fault: routes are not looked at.
expired_peerOnly(n) ==
    LET q == expirePeer(dps[n])
    IN  IF q.state = "TIMED_OUT" /\ DOMAIN q.routes = {} THEN NoPeer ELSE q

\* What DistanceVectorRouting.timeout makes of the DVPeer of n.
expired(n) ==
    LET p == expireRoutes(dps[n], linkMetric[n], FALSE, 0)
        q == expirePeer(expireProbation(p, FALSE))
    IN  IF q.state = "TIMED_OUT" /\ DOMAIN q.routes = {} THEN NoPeer ELSE q

Timeout(n) ==
    /\ known(n) /\ expired(n) # dps[n]
    /\ dps' = [dps EXCEPT ![n] = expired(n)]
    /\ UNCHANGED <<nbrs, linkMetric, air, dst>>

-----------------------------------------------------------------------------
\* Dst, the links and the clock.

\* A new seqNo, in a packet of Dst or in its next HELLO.
DstCounts ==
    /\ dst.up /\ dst.seq < MaxSends
    /\ dst' = [dst EXCEPT !.seq = @ + 1, !.fresh = TRUE]
    /\ UNCHANGED <<dps, nbrs, linkMetric, air>>

DstSends(n) ==
    /\ Dst \in NbrsOf(n) /\ dst.up /\ dst.fresh
    /\ puts(Dst, n, [seq |-> dst.seq])
    /\ UNCHANGED <<dps, nbrs, linkMetric, dst>>

DstDies ==
    /\ dst.up
    /\ dst' = [dst EXCEPT !.up = FALSE]
    /\ UNCHANGED <<dps, nbrs, linkMetric, air>>

\* The ETT of the link between n and Dst is measured anew.
LinkMetricChanges(n) ==
    /\ Dst \in nbrs[n]
    /\ \E metric \in LinkMetrics \ {linkMetric[n]} :
            linkMetric' = [linkMetric EXCEPT ![n] = metric]
    /\ UNCHANGED <<dps, nbrs, air, dst>>

\* A tick of all clocks, some DV_ROUTE_DOWN_TIMEOUT_MS: much longer than a packet is
\* on the air, than the interval of Dst's packets, than NeighbourManager waits for a
\* silent neighbour, and than timers take to run.
Tick ==
    /\ dst.up => dst.fresh
    /\ ~dst.up /\ ~dst.fresh => \A n \in Nodes : Dst \notin nbrs[n]
    /\ air' = {}
    /\ dst' = [dst EXCEPT !.fresh = FALSE]
    /\ UNCHANGED <<nbrs, linkMetric>>
    /\ \A n \in Nodes : known(n) => expired(n) = dps[n]
    /\ dps' = [n \in Nodes |-> IF known(n) THEN olderPeer(dps[n]) ELSE dps[n]]

Next ==
    \/ \E n \in Nodes :
        \/ AddDst(n) \/ DstSends(n) \/ ReceiveFromDst(n) \/ Receive(n) \/ Timeout(n)
        \/ \E m \in NbrsOf(n) : AddNbr(n, m) \/ RemoveNbr(n, m)
        \/ \E m \in Nodes : <<n, m>> \in Links /\ Advertise(n, m)
    \/ DstCounts \/ DstDies \/ Tick

Spec == Init /\ [][Next]_vars

\* Time passes, and timers with it: see Tick.
FairSpec == Spec /\ []<><<Tick>>_vars

\* The metrics of links to Dst change as well.
MetricSpec == Init /\ [][Next \/ \E n \in Nodes : LinkMetricChanges(n)]_vars

-----------------------------------------------------------------------------
\* What the devices promise together.

TypeOK ==
    /\ \A n \in Nodes : dps[n] = NoPeer \/ IsDVPeer(dps[n])
    /\ nbrs \in [Nodes -> SUBSET (Nodes \cup {Dst})]
    /\ linkMetric \in [Nodes -> LinkMetrics]
    /\ Cardinality(air) <= MaxOnAir /\ \A pkt \in air : <<pkt.from, pkt.to>> \in Links
    /\ dst \in [up : BOOLEAN, seq : 0 .. MaxSends, fresh : BOOLEAN]

hasNextHop(n) ==
    /\ known(n) /\ dps[n].best # None
    /\ dps[n].routes[dps[n].best].up /\ dps[n].routes[dps[n].best].next \in nbrs[n]

\* Where n sends packets to Dst: getNextHopCC.
nextHop(n) == IF hasNextHop(n) THEN dps[n].routes[dps[n].best].next ELSE None

\* "this algorithm is correct to avoid looping" (DVPeer.selectBestRoute): a packet to Dst
\* gets out of every set of devices it comes into, and so does not circle in it, wherever
\* updates are delayed, lost or overtaken by broken links and timers.
LoopFree ==
    \A S \in SUBSET Nodes : S # {} => \E n \in S : nextHop(n) \notin S

\* Why: the next hop knows something newer about Dst, or as new and nearer.
NextHopKnowsBetter ==
    \A n \in Nodes : nextHop(n) \in Nodes =>
        LET m == nextHop(n)
            mine == dps[n].routes[dps[n].best]
            its == dps[m].routes[dps[m].best]
        IN  /\ known(m) /\ dps[m].best # None
            /\ \/ seqNoGreater(its.seq, mine.seq, currentAge(its), currentAge(mine))
               \/ /\ its.seq = mine.seq
                  /\ ~isBetterThan(metricOf(mine, linkMetric[n]), metricOf(its, linkMetric[m]))

\* A device that is gone is forgotten by all, whatever routes to it they go on telling
\* each other: "otherwise count-infinity problem happens" (DVPeer.updateRoute).
GoneIsForgotten == ~dst.up ~> \A n \in Nodes : ~known(n)
=============================================================================
