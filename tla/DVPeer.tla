------------------------------- MODULE DVPeer -------------------------------
(***************************************************************************)
(* The life of one DVPeer: what the distance vector module of a node Me    *)
(* knows about one other device, Dst.  The state is the DVPeer object      *)
(* (candidate routes keyed by last hop, the selected one, the peer state,  *)
(* the queue of packets waiting for a route), the entry of its Peer in the *)
(* AirTubeRegistry (but not its services), and the neighbours the          *)
(* NeighbourManager holds official, with and without a best link.  The     *)
(* actions are the handlers of DistanceVectorRouting that reach DVPeer,    *)
(* the timers, and the API thread that sends data.  What they make of the  *)
(* DVPeer is in DVRoutes.                                                  *)
(***************************************************************************)
EXTENDS DVRoutes

CONSTANTS
    Me,             \* this device
    Proxied,        \* neighbours over proxy links, which can lose their best link
    Metrics,        \* finite metrics that neighbours advertise
    LinkMetrics,    \* metrics of the links to neighbours
    Ages,           \* ages of advertised routes
    MaxAcceptedAge  \* DV_MAX_ACCEPTED_AGE

ASSUME DVPeerAssumption ==
    /\ Me # Dst /\ Me \notin Nbrs /\ Proxied \subseteq Nbrs
    /\ Dst \in Nbrs => Me \in LastHops
    /\ Metrics \subseteq Nat /\ LinkMetrics \subseteq Nat /\ LinkMetrics # {}
    /\ Ages \subseteq Nat /\ MaxAcceptedAge \in Nat

VARIABLES
    dp,            \* the DVPeer in DistanceVectorRouting.peers, or NoPeer
    registered,    \* is its Peer in AirTubeRegistry.peers?
    thrown,        \* has the registry thrown a RuntimeException about it?
    nbrs,          \* the official neighbours
    unlinked,      \* those of them whose bestLink is null (see module Neighbours)
    linkMetric,    \* current metric of the link to Dst, if Dst is a neighbour
    sending        \* an API thread found no next hop and is about to queue its packet

vars == <<dp, registered, thrown, nbrs, unlinked, linkMetric, sending>>

-----------------------------------------------------------------------------
\* The handlers.

\* Dst is not known yet; other devices can be neighbours already.
Init ==
    /\ dp = NoPeer
    /\ registered = FALSE
    /\ thrown = FALSE
    /\ nbrs \in SUBSET (Nbrs \ {Dst})
    /\ unlinked = {}
    /\ linkMetric \in LinkMetrics
    /\ sending = FALSE

\* What a handler finds outside: is there an active flow to Dst, and how many queued
\* packets are kept back, by closed channels or a missing link, if the queue is flushed?
\* A handler that ends with an immediate update (sent) clears the flag the active flow
\* would set.
Circumstances(sent) ==
    (IF sent THEN {FALSE} ELSE BOOLEAN) \X (IF dp = NoPeer THEN {0} ELSE 0 .. dp.queue)

\* DistanceVectorRouting.updatePeer past its validity checks, and addNbr: a DVPeer is
\* created if there is none, which registers its Peer, and the update is passed to it;
\* sent says if the handler ends with an immediate update, should one be due.
\* registry.addPeer throws when the Peer is registered already, and the exception ends
\* the handler.  n has a best link.
updatePeer(n, metric, seq, h, age, sent) ==
    \E c \in Circumstances(sent) :
        LET p  == IF dp = NoPeer THEN newDVPeer ELSE dp
            ok == accepts(p.routes, n, metric, seq, h, age, linkMetric)
            q  == IF ok THEN updateRoute(p, n, metric, seq, h, age, linkMetric, c[1], c[2]) ELSE p
        IN  IF dp = NoPeer /\ registered
            THEN thrown' = TRUE /\ UNCHANGED <<dp, registered>>
            ELSE /\ dp' = [q EXCEPT !.flag = @ /\ ~sent]
                 /\ thrown' = (thrown \/ (readds(p, q) /\ registered))
                 /\ registered' = (registered \/ dp = NoPeer \/ readds(p, q))

\* updatePeer when the neighbour Dst has no best link: "NBR link should not be null!" is
\* thrown by updateRoute, when a DVPeer has been created and is in peers already.  The
\* exception ends the handler, before an immediate update.
updatePeerThrows ==
    /\ dp' = IF dp = NoPeer /\ ~registered THEN newDVPeer ELSE dp
    /\ thrown' = (thrown \/ (dp = NoPeer /\ registered))
    /\ registered' = (registered \/ dp = NoPeer)

\* The direct route to the neighbour Dst: last hop Me, age 0, the link's metric.
updateDirect(seq, sent) == updatePeer(Dst, linkMetric, seq, Me, 0, sent)

\* NeighbourManager.makeNbrOfficial, of a neighbour whose best link was just selected,
\* and DistanceVectorRouting.addNbr.
AddNbr(n) ==
    /\ n \notin nbrs
    /\ nbrs' = nbrs \cup {n}
    /\ IF n = Dst THEN \E seq \in SeqNos : updateDirect(seq, FALSE)
                  ELSE UNCHANGED <<dp, registered, thrown>>
    /\ UNCHANGED <<unlinked, linkMetric, sending>>

\* A HELLO of the official neighbour Dst: DistanceVectorRouting.updateNbr, which
\* throws (and changes nothing) if there is no DVPeer, and is not called if there is
\* no best link.
UpdateNbr ==
    /\ Dst \in nbrs \ unlinked /\ dp # NoPeer
    /\ \E seq \in SeqNos : updateDirect(seq, FALSE)
    /\ UNCHANGED <<nbrs, unlinked, linkMetric, sending>>

\* NeighbourManager.timeout finds n silent: DistanceVectorRouting.removeNbr, which
\* ends with sendImmediateUpdate.
RemoveNbr(n) ==
    /\ n \in nbrs
    /\ nbrs' = nbrs \ {n} /\ unlinked' = unlinked \ {n}
    /\ IF dp = NoPeer
       THEN UNCHANGED <<dp, registered, thrown>>
       ELSE \E c \in Circumstances(TRUE) :
                LET q == nbrRoutesDown(dp, n, linkMetric, c[1], c[2])
                IN  /\ dp' = [q EXCEPT !.flag = FALSE]
                    /\ thrown' = (thrown \/ (readds(dp, q) /\ registered))
                    /\ registered' = (registered \/ readds(dp, q))
    /\ UNCHANGED <<linkMetric, sending>>

\* The proxy interface of n is closed or replaced, or a HELLO selects a link again
\* (NbrPeer.removeLink, update).
LoseBestLink(n) ==
    /\ n \in (nbrs \cap Proxied) \ unlinked
    /\ unlinked' = unlinked \cup {n}
    /\ UNCHANGED <<dp, registered, thrown, nbrs, linkMetric, sending>>

GetBestLink(n) ==
    /\ n \in unlinked
    /\ unlinked' = unlinked \ {n}
    /\ UNCHANGED <<dp, registered, thrown, nbrs, linkMetric, sending>>

\* DistanceVectorRouting.receive, a packet of the neighbour Dst: the direct route.
\* OnDemandDV.updateRelayNodesRoutes does the same for the first relay.
ReceiveFromDst ==
    /\ Dst \in nbrs
    /\ IF Dst \in unlinked THEN updatePeerThrows
                           ELSE \E seq \in SeqNos : updateDirect(seq, TRUE)
    /\ UNCHANGED <<nbrs, unlinked, linkMetric, sending>>

AcceptedAges == {age \in Ages : age <= MaxAcceptedAge}

\* DistanceVectorRouting.receive, a packet of another neighbour that lists Dst; also
\* the updatePeer of OnDemandDV.updateRelayNodesRoutes.  An entry that is too old,
\* or that has this device as last hop, is ignored.  If n has no best link, the packet
\* ends with the DVPeer of n itself, which comes first.
ReceiveFromNbr(n) ==
    /\ n \in nbrs \ (unlinked \cup {Dst})
    /\ \E metric \in Metrics \cup {Infinite}, link \in LinkMetrics, seq \in SeqNos,
          h \in LastHops \ {Me}, age \in AcceptedAges :
            updatePeer(n, plusLink(metric, link), seq, h, age, TRUE)
    /\ UNCHANGED <<nbrs, unlinked, linkMetric, sending>>

IgnoreFromNbr(n) ==
    /\ n \in nbrs \ (unlinked \cup {Dst})
    /\ Me \in LastHops \/ Ages # AcceptedAges
    /\ dp # NoPeer
    /\ dp' = [dp EXCEPT !.flag = FALSE]
    /\ UNCHANGED <<registered, thrown, nbrs, unlinked, linkMetric, sending>>

\* DistanceVectorRouting.timeout: DVPeer.timeout, then a DVPeer that has timed out
\* and has no routes left is dropped, then an immediate update if one is due.
\* registry.removePeer throws when the Peer is not registered.
Timeout ==
    /\ dp # NoPeer
    /\ \E c \in Circumstances(FALSE) :
       \E p \in {expireRoutes(dp, linkMetric, c[1], c[2])} :
       \E q \in {expireProbation(p, c[1])} :
        LET r == expirePeer(q)
            inRegistry == registered \/ readds(dp, p)
            throws == timesOut(q) /\ ~inRegistry
        IN  /\ dp' = IF r.state = "TIMED_OUT" /\ DOMAIN r.routes = {} /\ ~throws
                     THEN NoPeer ELSE [r EXCEPT !.flag = @ /\ throws]
            /\ registered' = (inRegistry /\ ~timesOut(q))
            /\ thrown' = (thrown \/ throws \/ (readds(dp, p) /\ registered))
    /\ UNCHANGED <<nbrs, unlinked, linkMetric, sending>>

\* The ETT of the link to Dst changes, in the object the direct route shares.
LinkMetricChanges ==
    /\ linkMetric' \in LinkMetrics \ {linkMetric}
    /\ UNCHANGED <<dp, registered, thrown, nbrs, unlinked, sending>>

\* OnDemandDV.routeExplore sets the probation of a DOWN_PENDING peer anew.
SetDownPendingExpireTime ==
    /\ dp # NoPeer /\ dp.state = "DOWN_PENDING"
    /\ \E ticks \in 0 .. ProbationTicks : dp' = [dp EXCEPT !.probation = ticks]
    /\ UNCHANGED <<registered, thrown, nbrs, unlinked, linkMetric, sending>>

hasNextHop == dp # NoPeer /\ dp.best # None /\ dp.routes[dp.best].up
                /\ dp.routes[dp.best].next \in nbrs \ unlinked

\* DataTransmit.send on an API thread, in two steps that any handler can come
\* between: getNextHopCC returns null, then queueToSendLater.
SendFindsNoNextHop ==
    /\ ~sending /\ ~hasNextHop
    /\ sending' = TRUE
    /\ UNCHANGED <<dp, registered, thrown, nbrs, unlinked, linkMetric>>

QueueToSendLater ==
    /\ sending
    /\ sending' = FALSE
    /\ dp' = IF dp # NoPeer /\ dp.queue < MaxQueue
             THEN [dp EXCEPT !.queue = @ + 1] ELSE dp
    /\ UNCHANGED <<registered, thrown, nbrs, unlinked, linkMetric>>

\* A tick.  DataTransmit.run calls the timeouts every DT_TIMEOUT_MS or so, which is
\* much less than a tick: none passes while a route is overdue for removal.
Tick ==
    /\ dp # NoPeer
    /\ \A h \in DOMAIN dp.routes : dp.routes[h].idle <= RemovalTicks
    /\ dp' = olderPeer(dp)
    /\ UNCHANGED <<registered, thrown, nbrs, unlinked, linkMetric, sending>>

Next ==
    \/ Timeout \/ Tick
    \/ UpdateNbr \/ ReceiveFromDst
    \/ \E n \in Nbrs : \/ AddNbr(n) \/ RemoveNbr(n) \/ LoseBestLink(n) \/ GetBestLink(n)
                      \/ ReceiveFromNbr(n) \/ IgnoreFromNbr(n)
    \/ LinkMetricChanges \/ SetDownPendingExpireTime
    \/ SendFindsNoNextHop \/ QueueToSendLater

Spec == Init /\ [][Next]_vars

\* DataTransmit.run calls the timeouts again and again, time passes, and a call of
\* DataTransmit.send goes on.  Nothing makes a neighbour send or stay.
Fairness == WF_vars(Timeout) /\ WF_vars(Tick) /\ WF_vars(QueueToSendLater)

FairSpec == Spec /\ Fairness

-----------------------------------------------------------------------------
\* What a DVPeer promises.

TypeOK ==
    /\ dp = NoPeer \/ IsDVPeer(dp)
    /\ registered \in BOOLEAN /\ thrown \in BOOLEAN
    /\ nbrs \subseteq Nbrs /\ unlinked \subseteq nbrs \cap Proxied
    /\ linkMetric \in LinkMetrics
    /\ sending \in BOOLEAN

\* The router and the registry agree on who is there: the Peer is registered exactly
\* while its DVPeer exists and has not timed out.  addPeer and removePeer are called
\* from the constructor, selectBestRoute and timeout of DVPeer, never together.
RegistryAgreement ==
    registered <=> (dp # NoPeer /\ dp.state # "TIMED_OUT")

\* addPeer and removePeer never throw ("already registered!", "is not registered!").
NoRegistryException == ~thrown

\* A DVPeer is UP exactly when it has a best route and that route is UP, whichever
\* order routes come, expire, break and are replaced in, but for one that updateRoute
\* threw about when it was created: that one is UP without a route, and was never heard
\* of, so that the next timeout removes it.
UpMeansBestIsUp ==
    dp # NoPeer =>
        \/ dp.state = "UP" <=> dp.best # None /\ dp.routes[dp.best].up
        \/ dp.state = "UP" /\ DOMAIN dp.routes = {} /\ dp.heard > PeerTicks

\* No route that is UP, best or backup, goes through a device that has ceased to be
\* a neighbour.
UpRoutesUseNeighbours ==
    dp # NoPeer => \A h \in DOMAIN dp.routes : dp.routes[h].up => dp.routes[h].next \in nbrs

\* A peer has been heard of since each of its UP routes was refreshed, so that it cannot
\* time out while one of them is fresh, however its routes replace each other: lastTime
\* of DVPeer and lastTime of each Route are set in different places.
HeardSinceUp ==
    dp # NoPeer => \A h \in DOMAIN dp.routes :
        dp.routes[h].up => dp.heard <= dp.routes[h].idle

\* "it was not removed and kept for later" (DVPeer.sendQueuedPackets): a packet waits
\* in the queue until it is sent, or there is no route, or the DVPeer is dropped.  It
\* does not wait for ever behind a route that is UP.
QueuedPacketsAreSent ==
    (dp # NoPeer /\ dp.queue > 0) ~> (dp = NoPeer \/ dp.queue = 0 \/ dp.state # "UP")
=============================================================================
