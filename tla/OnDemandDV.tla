----------------------------- MODULE OnDemandDV -----------------------------
(***************************************************************************)
(* The on-demand part of the routing protocol: a device Src explores the   *)
(* route to Dst with a request (RREQ) that the others forward, and Dst     *)
(* answers with a reply (RREP) that travels back hop by hop.  What the     *)
(* messages do to the routing tables is the operator told; the tables      *)
(* themselves, which DistanceVectorRouting changes all the time, are       *)
(* choices: whether a device has a valid route to Dst, and through which   *)
(* neighbour it sends a reply.                                             *)
(*                                                                         *)
(* A tick is one round of DataTransmit.run, which calls the timer.  A      *)
(* message is received within a tick or is lost.                           *)
(***************************************************************************)
EXTENDS Integers, Sequences, FiniteSets

CONSTANTS
    Nodes, Src, Dst,
    Cost,          \* per pair of neighbours: metric, at the first, of the link to the second
    InitTtl,       \* SEND_RREQ_INIT_TTL
    MaxRetry,      \* SEND_RREQ_MAX_RETRY_CNT
    HopsPerTick,   \* a tick, in units of ROUND_TRIP_TIME_PER_HOP
    MinTicks,      \* SEND_RREQ_MIN_INTERVAL
    HistoryTicks,  \* BCAST_TBL_EXPIRE_MS
    MaxRequests,   \* bound: requests that Src sends
    MaxOnAir       \* bound: messages on air; what is more is lost

Links == DOMAIN Cost

ASSUME OnDemandAssumption ==
    /\ Src \in Nodes /\ Dst \in Nodes /\ Src # Dst
    /\ Links \subseteq Nodes \X Nodes /\ Cost \in [Links -> Nat]
    /\ \A l \in Links : l[1] # l[2] /\ <<l[2], l[1]>> \in Links
    /\ InitTtl \in Nat \ {0} /\ MaxRetry \in Nat \ {0} /\ HopsPerTick \in Nat \ {0}
    /\ MinTicks \in Nat /\ HistoryTicks \in Nat /\ MaxRequests \in Nat
    /\ MaxOnAir \in Nat

VARIABLES
    bcastId,     \* of Src
    srh,         \* the SendRequestHistory of Src for Dst
    exploring,   \* ttl of a request that an API thread of Src has sent, but not recorded; or 0
    history,     \* at the others, the ReceiveRequestHistory for Src
    air,         \* the messages that may still be received
    tries        \* history: requests of the present exploration

vars == <<bcastId, srh, exploring, history, air, tries>>

-----------------------------------------------------------------------------

nbrs(n) == {m \in Nodes : <<n, m>> \in Links}

\* A message on its way to one receiver.  path are the devices it comes from, the
\* originator first; metrics what each of them but the first recorded of the link it
\* got the message over.  A reply has no id.
message(kind, id, ttl, path, metrics, to) ==
    [kind |-> kind, id |-> id, ttl |-> ttl, path |-> path, metrics |-> metrics,
     to |-> to, late |-> FALSE]

\* sendRequest: the broadcast.
request(id, ttl) == {message("RREQ", id, ttl, <<Src>>, <<>>, m) : m \in nbrs(Src)}

\* The messages sent reach the air, or are lost, each for itself.
sends(sent, others) ==
    \E got \in SUBSET sent :
        /\ Cardinality(others \cup got) <= MaxOnAir
        /\ air' = others \cup got

\* The last device that passed p on.
sender(p) == p.path[Len(p.path)]

visited(p, n) == \E i \in DOMAIN p.path : p.path[i] = n

\* A fault: the metric is left out.
relayed_withoutMetric(p, n, m) ==
    message(p.kind, p.id, p.ttl, Append(p.path, n), p.metrics, m)

\* addMyselfToRelayNodes: device n adds itself and the metric of its link to the sender.
\* The rest is copied, the ttl as it came.
relayed(p, n, m) ==
    message(p.kind, p.id, p.ttl, Append(p.path, n),
            Append(p.metrics, Cost[<<n, sender(p)>>]), m)

-----------------------------------------------------------------------------
\* updateRelayNodesRoutes: the metric that message p gives its receiver of the devices on
\* its path.  One object is passed for all of them, which updateRoute adds the link to and
\* the loop the metric of each hop: in the end they all hold the sum.

\* Added up one by one.
total(numbers) ==
    LET sum[i \in 0 .. Len(numbers)] == IF i = 0 THEN 0 ELSE sum[i - 1] + numbers[i]
    IN  sum[Len(numbers)]

\* A fault: what the relays recorded is not added.
told_linkOnly(p) == Len(p.path) * Cost[<<p.to, sender(p)>>]

told(p) == Len(p.path) * Cost[<<p.to, sender(p)>>] + total(p.metrics)

-----------------------------------------------------------------------------
\* Src.  The router's lock is held while an API thread explores, so that neither another
\* exploration nor the timer comes between; messages are received without it.

\* The ttl of a first request: without a route, with one that is DOWN, while the DVPeer
\* is DOWN_PENDING, and with one that has come UP meanwhile.
firstTtl == {IF srh.ttlForReply > 0 THEN srh.ttlForReply + 1 ELSE InitTtl,
             IF srh.ttlSuccess > 0 THEN srh.ttlSuccess + 1 ELSE InitTtl, 1, 2}

\* routeExplore, up to the broadcast in sendRequest.
RouteExplore ==
    /\ exploring = 0
    /\ srh.ago >= MinTicks /\ ~srh.waitReply
    /\ bcastId + MaxRetry <= MaxRequests
    /\ bcastId' = bcastId + 1
    /\ \E ttl \in firstTtl :
        /\ exploring' = ttl
        /\ sends(request(bcastId', ttl), air)
    /\ tries' = 1
    /\ UNCHANGED <<srh, history>>

\* The rest of sendRequest: the reply may have come already.
RecordRequest ==
    /\ exploring > 0
    /\ srh' = [srh EXCEPT !.ago = 0, !.ttl = exploring, !.waitReply = TRUE]
    /\ exploring' = 0
    /\ UNCHANGED <<bcastId, history, air, tries>>

\* What the timer makes of srh: time has passed, and each call counts as a retry.
counted == [srh EXCEPT !.ago = @ + 1, !.retryCnt = @ + 1]

isDue == counted.ago * HopsPerTick > srh.ttl

\* A fault: waitReply stays set.
GiveUp_waits ==
    /\ srh.waitReply /\ isDue /\ counted.retryCnt >= MaxRetry
    /\ \E pause \in {2, 5} :
        srh' = [srh EXCEPT !.retryCnt = 0, !.ttl = 0, !.ago = -(pause * MinTicks)]
    /\ UNCHANGED <<bcastId, tries>>

\* resetByRetryFailure and suspendToSend: longer, if there never was a route.
GiveUp ==
    /\ srh.waitReply /\ isDue /\ counted.retryCnt >= MaxRetry
    /\ \E pause \in {2, 5} :
        srh' = [srh EXCEPT !.waitReply = FALSE, !.retryCnt = 0, !.ttl = 0,
                           !.ago = -(pause * MinTicks)]
    /\ UNCHANGED <<bcastId, tries>>

wider == IF srh.ttl + 2 > srh.ttlForReply THEN srh.ttl + 2 ELSE srh.ttlForReply

\* A fault: a retry begins the count again.
Retry_uncounted ==
    /\ srh.waitReply /\ isDue /\ srh.retryCnt < MaxRetry
    /\ bcastId < MaxRequests
    /\ bcastId' = bcastId + 1
    /\ srh' = [srh EXCEPT !.ago = 0, !.ttl = wider, !.retryCnt = 0]
    /\ tries' = tries + 1

Retry ==
    /\ srh.waitReply /\ isDue /\ counted.retryCnt < MaxRetry
    /\ bcastId < MaxRequests
    /\ bcastId' = bcastId + 1
    /\ srh' = [counted EXCEPT !.ago = 0, !.ttl = wider]
    /\ tries' = tries + 1

NotDue ==
    /\ srh.waitReply /\ ~isDue
    /\ srh' = counted
    /\ UNCHANGED <<bcastId, tries>>

NotWaiting ==
    /\ ~srh.waitReply
    /\ srh' = [srh EXCEPT !.ago = IF @ < MinTicks THEN @ + 1 ELSE @]
    /\ UNCHANGED <<bcastId, tries>>

stillInTheAir == {[p EXCEPT !.late = TRUE] : p \in {q \in air : ~q.late}}

\* A tick: time passes and the timer is called (timeout).
Timeout ==
    /\ exploring = 0
    /\ NotWaiting \/ NotDue \/ Retry \/ GiveUp
    /\ sends(IF bcastId' > bcastId THEN request(bcastId', srh'.ttl) ELSE {}, stillInTheAir)
    /\ history' = [n \in Nodes |->
                    [history[n] EXCEPT !.ago = IF @ < HistoryTicks THEN @ + 1 ELSE @]]
    /\ UNCHANGED exploring

-----------------------------------------------------------------------------
\* receiveRequest.

\* A fault: what has come last may come again.
seen_older(p) ==
    p.id < history[p.to].id /\ history[p.to].ago < HistoryTicks

seen(p) ==
    p.id <= history[p.to].id /\ history[p.to].ago < HistoryTicks

DropRequest(p) ==
    /\ p.to = Src \/ seen(p)
    /\ air' = air \ {p}
    /\ UNCHANGED history

\* A request is recorded before it is known whether anything will be done with it.
record(p) == history' = [history EXCEPT ![p.to] = [id |-> p.id, ago |-> 0]]

accepts(p) == p.to # Src /\ ~seen(p)

\* It has been here, or comes from a device that is no official neighbour.
SwallowRequest(p) ==
    /\ accepts(p)
    /\ record(p)
    /\ air' = air \ {p}

\* sendReply, by unicast: through the neighbour that the routing table says.
ReplyToRequest(p) ==
    /\ accepts(p) /\ ~visited(p, Dst) /\ p.to = Dst
    /\ record(p)
    /\ \E m \in nbrs(Dst) : sends({message("RREP", 0, 1, <<Dst>>, <<>>, m)}, air \ {p})

\* forwardRequest.  A device with a valid route that Src is not on does not decrement
\* ttl, the others do, a copy of it: the one in the message stays what it is.
ForwardRequest(p) ==
    /\ accepts(p) /\ ~visited(p, p.to) /\ p.to # Dst
    /\ record(p)
    /\ \E hop \in 0 .. 1 :
        IF p.ttl - hop > 0
        THEN sends({relayed(p, p.to, m) : m \in nbrs(p.to)}, air \ {p})
        ELSE air' = air \ {p}

ReceiveRequest(p) ==
    /\ p.kind = "RREQ"
    /\ DropRequest(p) \/ SwallowRequest(p) \/ ReplyToRequest(p) \/ ForwardRequest(p)
    /\ UNCHANGED <<bcastId, srh, exploring, tries>>

-----------------------------------------------------------------------------
\* receiveReply.

\* It has been here, or comes from a device that is no official neighbour.
DropReply(p) ==
    /\ air' = air \ {p}
    /\ UNCHANGED srh

\* The exploration has succeeded.
TakeReply(p) ==
    /\ p.to = Src /\ ~visited(p, Src)
    /\ srh' = [srh EXCEPT !.waitReply = FALSE, !.retryCnt = 0,
                          !.ttlForReply = Len(p.path), !.ttlSuccess = srh.ttl - p.ttl]
    /\ air' = air \ {p}

\* A fault: nobody looks if the reply has been here before.
ForwardReply_circles(p) ==
    /\ p.to # Src
    /\ \E m \in nbrs(p.to) : sends({relayed(p, p.to, m)}, air \ {p})
    /\ UNCHANGED srh

ForwardReply(p) ==
    /\ p.to # Src /\ ~visited(p, p.to)
    /\ \E m \in nbrs(p.to) : sends({relayed(p, p.to, m)}, air \ {p})
    /\ UNCHANGED srh

ReceiveReply(p) ==
    /\ p.kind = "RREP"
    /\ DropReply(p) \/ TakeReply(p) \/ ForwardReply(p)
    /\ UNCHANGED <<bcastId, exploring, history, tries>>

-----------------------------------------------------------------------------

Init ==
    /\ bcastId = 0 /\ exploring = 0 /\ tries = 0 /\ air = {}
    /\ srh = [waitReply |-> FALSE, retryCnt |-> 0, ago |-> MinTicks, ttl |-> 0,
              ttlForReply |-> 0, ttlSuccess |-> 0]
    /\ history = [n \in Nodes |-> [id |-> 0, ago |-> HistoryTicks]]

Next ==
    \/ RouteExplore \/ RecordRequest \/ Timeout
    \/ \E p \in air : ReceiveRequest(p) \/ ReceiveReply(p)

Spec == Init /\ [][Next]_vars

\* DataTransmit.run calls the timer again and again, and an exploration that has begun
\* goes on.
Fairness == WF_vars(Timeout) /\ WF_vars(RecordRequest)

FairSpec == Spec /\ Fairness

-----------------------------------------------------------------------------

Message ==
    [kind : {"RREQ", "RREP"}, id : 0 .. MaxRequests, ttl : Nat, path : Seq(Nodes),
     metrics : Seq(Nat), to : Nodes, late : BOOLEAN]

IsMessage(p) == p \in Message /\ p.path # <<>> /\ Len(p.metrics) = Len(p.path) - 1

SendRequestHistory ==
    [waitReply : BOOLEAN, retryCnt : Nat, ago : Int, ttl : Nat, ttlForReply : Nat,
     ttlSuccess : Int]

TypeOK ==
    /\ bcastId \in 0 .. MaxRequests
    /\ exploring \in Nat /\ tries \in Nat
    /\ srh \in SendRequestHistory
    /\ history \in [Nodes -> [id : 0 .. MaxRequests, ago : 0 .. HistoryTicks]]
    /\ \A p \in air : IsMessage(p)

\* A device passes on, or answers, only a request that is newer than all it had of Src
\* before, however requests circle among neighbours and are overtaken by the retries of
\* Src, and although a device forgets after a while (receiveRequest): the ttl does not end
\* the flood, only the histories do.
OnlyNewerRequests ==
    [][\A n \in Nodes : history'[n] # history[n] =>
        \/ history'[n].id > history[n].id
        \/ history'[n].id = history[n].id /\ history'[n].ago > history[n].ago]_vars

\* From the originator, along links, and through no device twice.
IsSimple(p) ==
    /\ p.path[1] = IF p.kind = "RREQ" THEN Src ELSE Dst
    /\ \A i, j \in 1 .. Len(p.path) : i # j => p.path[i] # p.path[j]
    /\ \A i \in 1 .. Len(p.path) - 1 : <<p.path[i], p.path[i + 1]>> \in Links
    /\ <<sender(p), p.to>> \in Links

\* A message comes along existing links from its originator, and no device twice, although
\* replies are sent after routes that change under them (readRelayNodes, "routing loop
\* detected"): the last hops that it tells form no circle.
PathsAreSimple == \A p \in air : IsSimple(p)

\* From the receiver of p back along its path: the j-th link.
hopBack(p, j) ==
    IF j = 1 THEN <<p.to, sender(p)>>
             ELSE <<p.path[Len(p.path) + 2 - j], p.path[Len(p.path) + 1 - j]>>

\* The cost, at the receiver of p, of the path back to the i-th device before it.
costBack(p, i) == total([j \in 1 .. i |-> Cost[hopBack(p, j)]])

\* No route is told to be better than the path it stands for, although all routes of a
\* message share one metric object that each of them changes: a device that believed in too
\* good a metric would advertise it, and others would follow it into a loop.
NeverUnderstated ==
    \A p \in {q \in air : ~visited(q, q.to)} :
        \A i \in 1 .. Len(p.path) : told(p) >= costBack(p, i)

\* An exploration sends at most SEND_RREQ_MAX_RETRY_CNT requests, whatever answers come
\* late, or before the request is recorded (timeout, sendRequest, receiveReply).
RetriesAreBounded == tries <= MaxRetry

\* Src does not wait for a reply for ever: while it does, it explores no more (routeExplore).
WaitingEnds == srh.waitReply ~> ~srh.waitReply
=============================================================================
