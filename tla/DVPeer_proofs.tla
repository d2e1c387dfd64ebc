---------------------------- MODULE DVPeer_proofs ----------------------------
(***************************************************************************)
(* What holds of a DVPeer whatever the devices, metrics, sequence numbers, *)
(* ages and timeouts are: the safety invariants of DVPeer, proved for Spec *)
(* from their conjunction IInv, which is inductive.                        *)
(***************************************************************************)
EXTENDS DVPeer, DVRoutes_proofs, TLAPS

\* A DVPeer that updateRoute threw about when it was created: UP, without a route, and
\* never heard of.
Blank(p) ==
    /\ p \in Records /\ p.state = "UP" /\ p.best = None
    /\ DOMAIN p.routes = {} /\ p.heard = PeerTicks + 1

\* The inductive invariant.  UpRoutesUseNeighbours and HeardSinceUp are in Well, and so
\* is UpMeansBestIsUp but for Blank; HeardSinceUp is what keeps a peer from timing out
\* while it is UP.
IInv ==
    /\ dp = NoPeer \/ Well(dp, nbrs) \/ Blank(dp)
    /\ registered = (dp # NoPeer /\ dp.state # "TIMED_OUT")
    /\ thrown = FALSE
    /\ nbrs \in SUBSET Nbrs /\ unlinked \subseteq nbrs \cap Proxied
    /\ linkMetric \in LinkMetrics
    /\ sending \in BOOLEAN

-----------------------------------------------------------------------------

\* What the proofs need of the constants.
LEMMA Bounds ==
    /\ Metrics \subseteq Nat /\ LinkMetrics \subseteq Nat /\ Ages \subseteq Nat
    /\ ProbationTicks \in Nat /\ MaxQueue \in Nat /\ PeerTicks \in Nat /\ RemovalTicks \in Nat
    /\ Dst \in Nbrs => Me \in LastHops
BY RoutesBounds, DVPeerAssumption DEF DVPeerAssumption

LEMMA CircumstancesType ==
    ASSUME IInv, NEW sent \in BOOLEAN, NEW c \in Circumstances(sent)
    PROVE  c[1] \in BOOLEAN /\ c[2] \in 0 .. MaxQueue
<1> DEFINE A == IF sent THEN {FALSE} ELSE BOOLEAN
           B == IF dp = NoPeer THEN {0} ELSE 0 .. dp.queue
<1>1. A \subseteq BOOLEAN
  OBVIOUS
<1>2. B \subseteq 0 .. MaxQueue
  <2>1. CASE dp = NoPeer
    BY <2>1, Bounds
  <2>2. CASE dp # NoPeer
    <3>1. dp.queue \in 0 .. MaxQueue
      BY <2>2 DEF IInv, Well, Blank, Records
    <3> QED BY <2>2, <3>1, Bounds
  <2> QED BY <2>1, <2>2
<1>3. c \in A \X B
  BY DEF Circumstances
<1> HIDE DEF A, B
<1>4. c[1] \in A /\ c[2] \in B
  BY <1>3
<1> QED BY <1>1, <1>2, <1>4

\* What the constructor makes is blank; what keeps a blank DVPeer so, and that the next
\* timeout removes it: expireRoutes and expireProbation leave what expirePeer looks at.
LEMMA NewIsBlank == Blank(newDVPeer)
BY NewDVPeerType DEF Blank, newDVPeer

LEMMA BlankStays ==
    ASSUME NEW p, Blank(p)
    PROVE  /\ p # NoPeer /\ p.state = "UP" /\ \A N : UpVia(p, N)
           /\ \A f \in BOOLEAN : Blank([p EXCEPT !.flag = @ /\ f])
           /\ \A k \in 0 .. MaxQueue : Blank([p EXCEPT !.queue = k])
           /\ Blank(olderPeer(p))
<1>1. p \in Records /\ p # NoPeer
  BY RecordIsPeer DEF Blank
<1>2. ASSUME NEW f \in BOOLEAN PROVE Blank([p EXCEPT !.flag = @ /\ f])
  BY <1>1 DEF Blank, Records
<1>3. ASSUME NEW k \in 0 .. MaxQueue PROVE Blank([p EXCEPT !.queue = k])
  BY <1>1 DEF Blank, Records
<1>4. Blank(olderPeer(p))
  <2> DEFINE routes == [h \in DOMAIN p.routes |-> older(p.routes[h])]
             rest   == IF p.probation = 0 THEN p.probation ELSE p.probation - 1
  <2>1. routes \in RouteMaps /\ DOMAIN routes = {}
    <3>1. routes \in [{} -> Route] /\ DOMAIN routes = {}
      BY DEF Blank
    <3> HIDE DEF routes
    <3> QED BY <3>1, RouteMapIntro
  <2>2. rest \in 0 .. ProbationTicks
    BY <1>1, RoutesBounds DEF Records
  <2>3. p.heard > PeerTicks
    BY RoutesBounds DEF Blank
  <2>4. olderPeer(p) = [p EXCEPT !.routes = routes, !.heard = p.heard, !.probation = rest]
    BY <1>1, <2>3 DEF olderPeer, Records
  <2> HIDE DEF routes, rest
  <2> QED BY <1>1, <2>1, <2>2, <2>4 DEF Blank, Records
<1> QED BY <1>1, <1>2, <1>3, <1>4 DEF Blank, UpVia

LEMMA BlankKeepsRoutes ==
    ASSUME NEW p, Blank(p), NEW n, NEW link, NEW flow, NEW kept
    PROVE  Blank(nbrRoutesDown(p, n, link, flow, kept))
<1> DEFINE routes == [h \in DOMAIN p.routes |->
                        IF p.routes[h].next = n THEN stateDOWN(p.routes[h]) ELSE p.routes[h]]
<1>1. routes \in RouteMaps /\ DOMAIN routes = {}
  <2>1. routes \in [{} -> Route] /\ DOMAIN routes = {}
    BY DEF Blank
  <2> HIDE DEF routes
  <2> QED BY <2>1, RouteMapIntro
<1>2. nbrRoutesDown(p, n, link, flow, kept) = [p EXCEPT !.routes = routes]
  BY DEF nbrRoutesDown, Blank
<1> HIDE DEF routes
<1> QED BY <1>1, <1>2 DEF Blank, Records

LEMMA BlankTimesOut ==
    ASSUME NEW p, Blank(p), NEW link, NEW flow, NEW kept
    PROVE  LET p1 == expireRoutes(p, link, flow, kept)
               q  == expireProbation(p1, flow)
               r  == expirePeer(q)
           IN  /\ p1.state = "UP" /\ timesOut(q)
               /\ r.state = "TIMED_OUT" /\ DOMAIN r.routes = {}
<1> DEFINE fresh  == {h \in DOMAIN p.routes : p.routes[h].idle <= RemovalTicks}
           routes == [h \in fresh |-> IF p.routes[h].idle > DownTicks
                                       THEN stateDOWN(p.routes[h]) ELSE p.routes[h]]
           p1 == expireRoutes(p, link, flow, kept)
           q  == expireProbation(p1, flow)
           r  == expirePeer(q)
<1>1. DOMAIN routes = {}
  BY DEF Blank
<1>2. p1 = [p EXCEPT !.routes = routes]
  BY DEF expireRoutes, Blank
<1>3. p.heard > PeerTicks
  BY RoutesBounds DEF Blank
<1> HIDE DEF routes
<1>4. p1.state = "UP" /\ p1.heard > PeerTicks /\ DOMAIN p1.routes = {}
  BY <1>1, <1>2, <1>3 DEF Blank, Records
<1>5. q = p1
  BY <1>4 DEF expireProbation
<1>6. timesOut(q) /\ r = [q EXCEPT !.state = "TIMED_OUT"]
  BY <1>4, <1>5 DEF timesOut, expirePeer
<1> QED BY <1>1, <1>2, <1>4, <1>5, <1>6 DEF Blank, Records

\* What updatePeer leaves, when its next hop is (or becomes) a neighbour.
LEMMA UpdatePeer ==
    ASSUME IInv, NEW n \in Nbrs, NEW metric \in Metric, NEW seq \in SeqNos,
           NEW h \in LastHops, NEW age \in Nat,
           NEW sent \in BOOLEAN, NEW N \in SUBSET Nbrs, nbrs \subseteq N, n \in N,
           updatePeer(n, metric, seq, h, age, sent)
    PROVE  /\ Well(dp', N)
           /\ registered' = (dp' # NoPeer /\ dp'.state # "TIMED_OUT")
           /\ thrown' = FALSE
<1> DEFINE p  == IF dp = NoPeer THEN newDVPeer ELSE dp
           ok == accepts(p.routes, n, metric, seq, h, age, linkMetric)
<1>1. PICK c \in Circumstances(sent) :
        LET q == IF ok THEN updateRoute(p, n, metric, seq, h, age, linkMetric, c[1], c[2]) ELSE p
        IN  IF dp = NoPeer /\ registered
            THEN thrown' = TRUE /\ UNCHANGED <<dp, registered>>
            ELSE /\ dp' = [q EXCEPT !.flag = @ /\ ~sent]
                 /\ thrown' = (thrown \/ (readds(p, q) /\ registered))
                 /\ registered' = (registered \/ dp = NoPeer \/ readds(p, q))
  BY DEF updatePeer
<1> DEFINE u == updateRoute(p, n, metric, seq, h, age, linkMetric, c[1], c[2])
           q == IF ok THEN u ELSE p
<1>2. ~(dp = NoPeer /\ registered)
  BY DEF IInv
<1>3. /\ dp' = [q EXCEPT !.flag = @ /\ ~sent]
      /\ thrown' = (thrown \/ (readds(p, q) /\ registered))
      /\ registered' = (registered \/ dp = NoPeer \/ readds(p, q))
  BY <1>1, <1>2
<1>4. p \in Records /\ UpVia(p, N) /\ (dp = NoPeer => p.state = "UP")
  <2>1. CASE dp = NoPeer
    BY <2>1, NewDVPeerType DEF UpVia
  <2>2. CASE dp # NoPeer
    BY <2>2, WellGrows, BlankStays DEF IInv, Well, Blank
  <2> QED BY <2>1, <2>2
<1>5. dp = NoPeer \/ Blank(dp) => ok
  BY NewDVPeerType, BlankStays DEF accepts, Blank
<1>6. c[1] \in BOOLEAN /\ c[2] \in 0 .. MaxQueue
  BY CircumstancesType
<1> HIDE DEF ok
<1>7. Well(q, N) /\ Revives(p, q)
  <2>1. CASE ok
    <3>1. Well(u, N) /\ Revives(p, u)
      BY <1>4, <1>6, UpdateRoute DEF Well
    <3>2. q = u
      BY <2>1
    <3> QED BY <3>1, <3>2
  <2>2. CASE ~ok
    <3>1. q = dp /\ p = dp /\ dp # NoPeer /\ ~Blank(dp)
      BY <2>2, <1>5
    <3>2. Well(dp, nbrs)
      BY <3>1 DEF IInv
    <3>3. Well(dp, N)
      BY <3>2, WellGrows
    <3> HIDE DEF q, p
    <3> QED BY <3>1, <3>3 DEF Revives
  <2> QED BY <2>1, <2>2
<1> HIDE DEF q
<1>8. Well(dp', N) /\ dp'.state = q.state /\ dp' # NoPeer
  BY <1>3, <1>7, WellIgnores, WellIsPeer
<1>9. CASE dp = NoPeer
  BY <1>3, <1>4, <1>7, <1>8, <1>9 DEF IInv, Revives, readds
<1>10. CASE dp # NoPeer
  <2>1. p = dp
    BY <1>10
  <2> HIDE DEF p
  <2> QED BY <1>3, <1>7, <1>8, <1>10, <2>1 DEF IInv, Revives, readds
<1> QED BY <1>8, <1>9, <1>10
\* The same, when the neighbours stay who they are.
LEMMA UpdatePeerOf ==
    ASSUME IInv, NEW n \in nbrs, NEW metric \in Metric, NEW seq \in SeqNos,
           NEW h \in LastHops, NEW age \in Nat,
           UNCHANGED <<nbrs, unlinked, linkMetric, sending>>,
           \/ updatePeer(n, metric, seq, h, age, TRUE)
           \/ updatePeer(n, metric, seq, h, age, FALSE)
    PROVE  IInv'
<1>1. nbrs \in SUBSET Nbrs /\ n \in Nbrs /\ nbrs \subseteq nbrs
  BY DEF IInv
<1>2. \A N \in SUBSET Nbrs : nbrs \subseteq N /\ n \in N =>
            /\ Well(dp', N)
            /\ registered' = (dp' # NoPeer /\ dp'.state # "TIMED_OUT")
            /\ thrown' = FALSE
  BY <1>1, UpdatePeer
<1>3. /\ Well(dp', nbrs)
      /\ registered' = (dp' # NoPeer /\ dp'.state # "TIMED_OUT")
      /\ thrown' = FALSE
  BY <1>1, <1>2
<1> QED BY <1>3 DEF IInv

-----------------------------------------------------------------------------
\* The inductive invariant.

LEMMA InitIInv == Init => IInv
<1>1. \A N \in SUBSET (Nbrs \ {Dst}) : N \in SUBSET Nbrs
  OBVIOUS
<1> QED BY <1>1 DEF Init, IInv

LEMMA NextIInv == IInv /\ [Next]_vars => IInv'
<1> SUFFICES ASSUME IInv, [Next]_vars PROVE IInv'
  OBVIOUS
<1>1. /\ nbrs \in SUBSET Nbrs /\ linkMetric \in LinkMetrics /\ linkMetric \in Metric
      /\ unlinked \subseteq nbrs \cap Proxied
      /\ sending \in BOOLEAN
  BY Bounds DEF IInv, Metric
<1>2. /\ dp # NoPeer => Well(dp, nbrs) \/ Blank(dp)
      /\ Well(dp, nbrs) => dp \in Records /\ BestFits(dp) /\ UpVia(dp, nbrs)
  BY DEF IInv, Well
<1>3. dp # NoPeer => dp \in Records
  BY <1>2 DEF Blank
<1>4. ASSUME NEW n \in Nbrs, AddNbr(n) PROVE IInv'
  <2>1. /\ nbrs' = nbrs \cup {n} /\ UNCHANGED <<unlinked, linkMetric, sending>>
    BY <1>4 DEF AddNbr
  <2>2. CASE n = Dst
    <3>1. PICK seq \in SeqNos :
            updatePeer(Dst, linkMetric, seq, Me, 0, FALSE)
      BY <1>4, <2>2 DEF AddNbr, updateDirect
    <3>2. Me \in LastHops /\ nbrs' \in SUBSET Nbrs
      BY <1>1, <2>1, <2>2, Bounds
    <3>3. Well(dp', nbrs') /\ registered' = (dp' # NoPeer /\ dp'.state # "TIMED_OUT")
          /\ thrown' = FALSE
      BY <1>1, <2>1, <2>2, <3>1, <3>2, UpdatePeer
    <3> QED BY <1>1, <2>1, <3>2, <3>3 DEF IInv
  <2>3. CASE n # Dst
    <3>1. UNCHANGED <<dp, registered, thrown>>
      BY <1>4, <2>3 DEF AddNbr
    <3>2. dp # NoPeer => Well(dp, nbrs') \/ Blank(dp)
      BY <1>2, <2>1, WellGrows
    <3> QED BY <1>1, <2>1, <3>1, <3>2 DEF IInv
  <2> QED BY <2>2, <2>3
<1>5. ASSUME NEW n \in Nbrs, RemoveNbr(n) PROVE IInv'
  <2>1. /\ nbrs' = nbrs \ {n} /\ unlinked' \subseteq nbrs' \cap Proxied
        /\ UNCHANGED <<linkMetric, sending>>
    BY <1>1, <1>5 DEF RemoveNbr
  <2>2. CASE dp = NoPeer
    BY <1>1, <1>5, <2>1, <2>2 DEF RemoveNbr, IInv
  <2>3. CASE dp # NoPeer
    <3>1. PICK c \in Circumstances(TRUE) :
            LET q == nbrRoutesDown(dp, n, linkMetric, c[1], c[2])
            IN  /\ dp' = [q EXCEPT !.flag = FALSE]
                /\ thrown' = (thrown \/ (readds(dp, q) /\ registered))
                /\ registered' = (registered \/ readds(dp, q))
      BY <1>5, <2>3 DEF RemoveNbr
    <3> DEFINE q == nbrRoutesDown(dp, n, linkMetric, c[1], c[2])
    <3>2. c[1] \in BOOLEAN /\ c[2] \in 0 .. MaxQueue
      BY CircumstancesType
    <3>3. /\ Well(q, nbrs') \/ Blank(q)
          /\ q \in Records /\ Revives(dp, q)
      <4>1. CASE Well(dp, nbrs)
        BY <1>1, <1>2, <2>1, <2>3, <3>2, <4>1, NbrRoutesDown DEF Well
      <4>2. CASE Blank(dp)
        <5>1. Blank(q)
          BY <4>2, BlankKeepsRoutes
        <5> HIDE DEF q
        <5> QED BY <4>2, <5>1 DEF Blank, Revives
      <4> QED BY <1>2, <2>3, <4>1, <4>2
    <3> HIDE DEF q
    <3>4. dp' = [q EXCEPT !.flag = @ /\ FALSE]
      BY <3>1, <3>3 DEF Records, q
    <3>5. (Well(dp', nbrs') \/ Blank(dp')) /\ dp'.state = q.state /\ dp' # NoPeer
      BY <3>3, <3>4, WellIgnores, WellIsPeer, BlankStays DEF Blank
    <3>6. thrown' = FALSE /\ registered' = (dp'.state # "TIMED_OUT")
      BY <2>3, <3>1, <3>3, <3>5 DEF IInv, Revives, readds, q
    <3> QED BY <1>1, <2>1, <3>5, <3>6 DEF IInv
  <2> QED BY <2>2, <2>3
<1>6. ASSUME NEW n \in Nbrs, ReceiveFromNbr(n) PROVE IInv'
  <2>1. PICK metric \in Metrics \cup {Infinite}, link \in LinkMetrics, seq \in SeqNos,
             h \in LastHops \ {Me}, age \in AcceptedAges :
               updatePeer(n, plusLink(metric, link), seq, h, age, TRUE)
    BY <1>6, Zenon DEF ReceiveFromNbr
  <2>2. n \in nbrs /\ UNCHANGED <<nbrs, unlinked, linkMetric, sending>>
    BY <1>6 DEF ReceiveFromNbr
  <2>3. age \in Nat /\ h \in LastHops /\ link \in Nat
    BY Bounds DEF AcceptedAges
  <2>4. metric # Infinite => metric \in Nat /\ metric + link \in Nat
    BY <2>3, Bounds
  <2>5. plusLink(metric, link) \in Metric
    BY <2>4 DEF plusLink, Metric
  <2> QED BY <2>1, <2>2, <2>3, <2>5, UpdatePeerOf
<1>7. ASSUME NEW n \in Nbrs, IgnoreFromNbr(n) PROVE IInv'
  <2>1. /\ dp # NoPeer /\ dp' = [dp EXCEPT !.flag = FALSE]
        /\ UNCHANGED <<registered, thrown, nbrs, unlinked, linkMetric, sending>>
    BY <1>7 DEF IgnoreFromNbr
  <2>2. dp' = [dp EXCEPT !.flag = @ /\ FALSE]
    BY <1>3, <2>1 DEF Records
  <2>3. (Well(dp', nbrs) \/ Blank(dp')) /\ dp'.state = dp.state /\ dp' # NoPeer
    <3>1. CASE Well(dp, nbrs)
      BY <2>2, <3>1, WellIgnores, WellIsPeer
    <3>2. CASE Blank(dp)
      <4>1. Blank(dp')
        BY <2>2, <3>2, BlankStays
      <4> QED BY <3>2, <4>1, BlankStays DEF Blank
    <3> QED BY <1>2, <2>1, <3>1, <3>2
  <2> QED BY <1>1, <2>1, <2>3 DEF IInv
<1>8. ASSUME updatePeerThrows, UNCHANGED <<nbrs, unlinked, linkMetric, sending>>
      PROVE  IInv'
  <2>1. CASE dp = NoPeer
    BY <1>1, <1>8, <2>1, NewIsBlank, BlankStays DEF updatePeerThrows, IInv
  <2>2. CASE dp # NoPeer
    BY <1>1, <1>2, <1>8, <2>2 DEF updatePeerThrows, IInv
  <2> QED BY <2>1, <2>2
<1>9. ASSUME NEW n \in Nbrs, LoseBestLink(n) \/ GetBestLink(n) PROVE IInv'
  BY <1>1, <1>9 DEF LoseBestLink, GetBestLink, IInv
<1>10. ASSUME NEW seq \in SeqNos, Dst \in nbrs,
             updateDirect(seq, TRUE) \/ updateDirect(seq, FALSE),
             UNCHANGED <<nbrs, unlinked, linkMetric, sending>>
      PROVE  IInv'
  <2>1. Me \in LastHops /\ linkMetric \in Metric /\ 0 \in Nat
    BY <1>1, <1>10, Bounds
  <2>2. \/ updatePeer(Dst, linkMetric, seq, Me, 0, TRUE)
        \/ updatePeer(Dst, linkMetric, seq, Me, 0, FALSE)
    BY <1>10 DEF updateDirect
  <2> QED BY <1>10, <2>1, <2>2, UpdatePeerOf
<1>11. CASE UpdateNbr
  BY <1>10, <1>11 DEF UpdateNbr
<1>12. CASE ReceiveFromDst
  BY <1>10, <1>12, <1>8 DEF ReceiveFromDst
<1>13. CASE Timeout
  <2>1. PICK c \in Circumstances(FALSE) :
          LET p == expireRoutes(dp, linkMetric, c[1], c[2])
              q == expireProbation(p, c[1])
              r == expirePeer(q)
              inRegistry == registered \/ readds(dp, p)
              throws == timesOut(q) /\ ~inRegistry
          IN  /\ dp' = IF r.state = "TIMED_OUT" /\ DOMAIN r.routes = {} /\ ~throws
                       THEN NoPeer ELSE [r EXCEPT !.flag = @ /\ throws]
              /\ registered' = (inRegistry /\ ~timesOut(q))
              /\ thrown' = (thrown \/ throws \/ (readds(dp, p) /\ registered))
    <3>1. PICK c \in Circumstances(FALSE) :
           \E p \in {expireRoutes(dp, linkMetric, c[1], c[2])} :
           \E q \in {expireProbation(p, c[1])} :
            LET r == expirePeer(q)
                inRegistry == registered \/ readds(dp, p)
                throws == timesOut(q) /\ ~inRegistry
            IN  /\ dp' = IF r.state = "TIMED_OUT" /\ DOMAIN r.routes = {} /\ ~throws
                         THEN NoPeer ELSE [r EXCEPT !.flag = @ /\ throws]
                /\ registered' = (inRegistry /\ ~timesOut(q))
                /\ thrown' = (thrown \/ throws \/ (readds(dp, p) /\ registered))
      BY <1>13, Zenon DEF Timeout
    <3> QED BY <3>1, Zenon
  <2>2. dp # NoPeer /\ UNCHANGED <<nbrs, unlinked, linkMetric, sending>>
    BY <1>13 DEF Timeout
  <2> DEFINE p == expireRoutes(dp, linkMetric, c[1], c[2])
             q == expireProbation(p, c[1])
             r == expirePeer(q)
             inRegistry == registered \/ readds(dp, p)
             throws == timesOut(q) /\ ~inRegistry
  <2>3. c[1] \in BOOLEAN /\ c[2] \in 0 .. MaxQueue
    BY CircumstancesType
  <2>4. CASE Blank(dp)
    <3>1. /\ p.state = "UP" /\ timesOut(q)
          /\ r.state = "TIMED_OUT" /\ DOMAIN r.routes = {}
      BY <2>4, BlankTimesOut
    <3> HIDE DEF p, q, r
    <3>2. registered = TRUE /\ thrown = FALSE /\ ~readds(dp, p)
      BY <2>2, <2>4 DEF IInv, Blank, readds
    <3>3. dp' = NoPeer /\ registered' = FALSE /\ thrown' = FALSE
      BY <2>1, <3>1, <3>2 DEF p, q, r
    <3> QED BY <1>1, <2>2, <3>3 DEF IInv
  <2>5. CASE Well(dp, nbrs)
    <3>1. /\ p \in Records /\ BestFits(p) /\ Revives(dp, p) /\ UpVia(p, nbrs)
          /\ \A h \in DOMAIN p.routes : p.routes[h].up => p.routes[h].idle <= DownTicks
      BY <1>1, <1>2, <2>2, <2>3, <2>5, ExpireRoutes
    <3> HIDE DEF p
    <3>2. /\ q \in Records /\ BestFits(q) /\ UpVia(q, nbrs)
          /\ q.state = "TIMED_OUT" <=> p.state = "TIMED_OUT"
          /\ \A h \in DOMAIN q.routes : q.routes[h].up => q.routes[h].idle <= DownTicks
      BY <2>3, <3>1, ExpireProbation DEF UpVia
    <3> HIDE DEF q
    <3>3. /\ Well(r, nbrs)
          /\ r.state = "TIMED_OUT" <=> (q.state = "TIMED_OUT" \/ timesOut(q))
      BY <1>1, <3>2, ExpirePeer DEF Well
    <3> HIDE DEF r
    <3>4. inRegistry <=> p.state # "TIMED_OUT"
      BY <2>2, <3>1 DEF IInv, Revives, readds, BestFits
    <3>5. timesOut(q) => q.state # "TIMED_OUT"
      BY DEF timesOut
    <3>6. ~throws
      BY <3>2, <3>4, <3>5
    <3>7. /\ dp' = IF r.state = "TIMED_OUT" /\ DOMAIN r.routes = {} /\ ~throws
                   THEN NoPeer ELSE [r EXCEPT !.flag = @ /\ throws]
          /\ registered' = (inRegistry /\ ~timesOut(q))
          /\ thrown' = (thrown \/ throws \/ (readds(dp, p) /\ registered))
      BY <2>1 DEF p, q, r
    <3>8. thrown' = FALSE
      BY <2>2, <3>6, <3>7 DEF IInv, readds
    <3>9. registered' = (r.state # "TIMED_OUT")
      BY <3>2, <3>3, <3>4, <3>7
    <3>10. CASE r.state = "TIMED_OUT" /\ DOMAIN r.routes = {}
      BY <1>1, <2>2, <3>6, <3>7, <3>8, <3>9, <3>10 DEF IInv
    <3>11. CASE ~(r.state = "TIMED_OUT" /\ DOMAIN r.routes = {})
      <4>1. dp' = [r EXCEPT !.flag = @ /\ throws] /\ throws \in BOOLEAN
        BY <3>6, <3>7, <3>11
      <4> HIDE DEF throws
      <4>2. Well(dp', nbrs) /\ dp'.state = r.state /\ dp' # NoPeer
        BY <3>3, <4>1, WellIgnores, WellIsPeer
      <4> QED BY <1>1, <2>2, <3>8, <3>9, <4>2 DEF IInv
    <3> QED BY <3>10, <3>11
  <2> QED BY <1>2, <2>2, <2>4, <2>5
<1>14. CASE Tick
  <2>1. /\ dp # NoPeer /\ UNCHANGED <<registered, thrown, nbrs, unlinked, linkMetric, sending>>
        /\ \A h \in DOMAIN dp.routes : dp.routes[h].idle <= RemovalTicks
        /\ dp' = olderPeer(dp)
    BY <1>14 DEF Tick
  <2>2. (Well(dp', nbrs) \/ Blank(dp')) /\ dp'.state = dp.state
    <3>1. CASE Well(dp, nbrs)
      BY <1>1, <1>2, <2>1, <3>1, OlderPeer
    <3>2. CASE Blank(dp)
      BY <2>1, <3>2, BlankStays DEF Blank
    <3> QED BY <1>2, <2>1, <3>1, <3>2
  <2>3. dp' # NoPeer
    BY <2>2, WellIsPeer, BlankStays
  <2> QED BY <1>1, <2>1, <2>2, <2>3 DEF IInv
<1>15. CASE LinkMetricChanges
  BY <1>15 DEF LinkMetricChanges, IInv
<1>16. CASE SetDownPendingExpireTime
  <2>1. PICK ticks \in 0 .. ProbationTicks : dp' = [dp EXCEPT !.probation = ticks]
    BY <1>16 DEF SetDownPendingExpireTime
  <2>2. /\ dp # NoPeer /\ ~Blank(dp)
        /\ UNCHANGED <<registered, thrown, nbrs, unlinked, linkMetric, sending>>
    BY <1>16 DEF SetDownPendingExpireTime, Blank
  <2>3. Well(dp', nbrs) /\ dp'.state = dp.state /\ dp' # NoPeer
    BY <1>2, <2>1, <2>2, WellIgnores, WellIsPeer
  <2> QED BY <1>1, <2>2, <2>3 DEF IInv
<1>17. CASE SendFindsNoNextHop
  BY <1>17 DEF SendFindsNoNextHop, IInv
<1>18. CASE QueueToSendLater
  <2>1. /\ sending' = FALSE /\ UNCHANGED <<registered, thrown, nbrs, unlinked, linkMetric>>
        /\ dp' = IF dp # NoPeer /\ dp.queue < MaxQueue
                 THEN [dp EXCEPT !.queue = @ + 1] ELSE dp
    BY <1>18 DEF QueueToSendLater
  <2>2. CASE dp # NoPeer /\ dp.queue < MaxQueue
    <3>1. dp.queue + 1 \in 0 .. MaxQueue
      BY <1>3, <2>2, Bounds DEF Records
    <3>2. dp' = [dp EXCEPT !.queue = dp.queue + 1]
      BY <1>3, <2>1, <2>2
    <3>3. (Well(dp', nbrs) \/ Blank(dp')) /\ dp'.state = dp.state /\ dp' # NoPeer
      <4>1. CASE Well(dp, nbrs)
        BY <3>1, <3>2, <4>1, WellIgnores, WellIsPeer
      <4>2. CASE Blank(dp)
        <5>1. Blank(dp')
          BY <3>1, <3>2, <4>2, BlankStays
        <5> QED BY <4>2, <5>1, BlankStays DEF Blank
      <4> QED BY <1>2, <2>2, <4>1, <4>2
    <3> QED BY <1>1, <2>1, <2>2, <3>3 DEF IInv
  <2>3. CASE ~(dp # NoPeer /\ dp.queue < MaxQueue)
    BY <2>1, <2>3 DEF IInv
  <2> QED BY <2>2, <2>3
<1>19. CASE UNCHANGED vars
  BY <1>19 DEF vars, IInv
<1> QED BY <1>4, <1>5, <1>6, <1>7, <1>11, <1>12, <1>13, <1>14, <1>15, <1>16, <1>17, <1>18,
           <1>19, <1>9 DEF Next
-----------------------------------------------------------------------------
\* The theorems.

\* The properties are parts of IInv, or follow from it.
LEMMA IInvImplies ==
    IInv => /\ TypeOK /\ RegistryAgreement /\ NoRegistryException
            /\ UpMeansBestIsUp /\ UpRoutesUseNeighbours /\ HeardSinceUp
<1> SUFFICES ASSUME IInv
             PROVE  /\ TypeOK /\ RegistryAgreement /\ NoRegistryException
                    /\ UpMeansBestIsUp /\ UpRoutesUseNeighbours /\ HeardSinceUp
  OBVIOUS
<1>1. dp # NoPeer => /\ dp \in Records /\ dp.best \in DOMAIN dp.routes \cup {None}
                     /\ BestFits(dp) \/ Blank(dp)
                     /\ UpVia(dp, nbrs)
  BY BlankStays DEF IInv, Well, Blank, BestFits
<1>2. TypeOK
  <2>1. dp # NoPeer => IsDVPeer(dp)
    BY <1>1, DVPeerForms
  <2> QED BY <2>1 DEF IInv, TypeOK
<1>3. RegistryAgreement /\ NoRegistryException
  BY DEF IInv, RegistryAgreement, NoRegistryException
<1>4. UpMeansBestIsUp
  BY <1>1, Bounds DEF UpMeansBestIsUp, BestFits, Blank
<1>5. UpRoutesUseNeighbours /\ HeardSinceUp
  BY <1>1 DEF UpRoutesUseNeighbours, HeardSinceUp, UpVia
<1> QED BY <1>2, <1>3, <1>4, <1>5

\* The inductive invariant holds after every handler, timer and call.
THEOREM Invariance == Spec => []IInv
<1>1. Init => IInv
  BY InitIInv
<1>2. IInv /\ [Next]_vars => IInv'
  BY NextIInv
<1> QED BY <1>1, <1>2, PTL DEF Spec

\* A DVPeer stays a DVPeer: in particular its best route, when it has one, is one of
\* the routes it holds, and no timer runs past its end.
THEOREM TypeCorrect == Spec => []TypeOK
BY Invariance, IInvImplies, PTL

\* The calls that DVPeer makes of addPeer and removePeer keep the registry in step
\* with the router, for any sequence of updates, breaks and timeouts.
THEOREM RouterAndRegistryAgree == Spec => []RegistryAgreement
BY Invariance, IInvImplies, PTL

\* So neither addPeer nor removePeer throws, as long as nothing but the router's own
\* handlers changes the registry (AirTube.clearAll is left out of Spec).
THEOREM RegistryNeverThrows == Spec => []NoRegistryException
BY Invariance, IInvImplies, PTL

\* The state UP of a peer and the state UP of its best route go together, for all but a
\* peer that was never heard of, which an exception left without a route.
THEOREM UpIsBestUp == Spec => []UpMeansBestIsUp
BY Invariance, IInvImplies, PTL

\* No route that is UP, best or backup, has a next hop that is not a neighbour now.
THEOREM NextHopsAreNeighbours == Spec => []UpRoutesUseNeighbours
BY Invariance, IInvImplies, PTL

\* The peer was heard of after, or with, the last refreshing of each UP route.
THEOREM HeardWithRoutes == Spec => []HeardSinceUp
BY Invariance, IInvImplies, PTL

\* Of two pieces of information at most one supersedes the other, however sequence
\* numbers wrap and ages differ; of two of about one age with different numbers, exactly
\* one does.  It is no order: of three, each can supersede the next.
THEOREM OneIsNewer ==
    ASSUME NEW s1 \in SeqNos, NEW s2 \in SeqNos, NEW a1 \in Nat, NEW a2 \in Nat
    PROVE  /\ ~(seqNoGreater(s1, s2, a1, a2) /\ seqNoGreater(s2, s1, a2, a1))
           /\ s1 # s2 /\ a1 - a2 <= AgeTolerance /\ a2 - a1 <= AgeTolerance =>
                seqNoGreater(s1, s2, a1, a2) \/ seqNoGreater(s2, s1, a2, a1)
<1>1. SeqNoMod \in Nat /\ AgeTolerance \in Nat /\ s1 \in Int /\ s2 \in Int
  BY SeqNoAssumption DEF SeqNos
<1>2. SeqWindow \in Int
  BY <1>1 DEF SeqWindow
<1> QED
  BY <1>1, <1>2 DEF seqNoGreater

=============================================================================
