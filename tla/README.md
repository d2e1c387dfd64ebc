# AirTube in TLA+

TLA+ modules of the mesh network library AirTube, configurations that check small
instances of them with TLC, and proofs that TLAPS checks for all instances.
Paths below are relative to `src/AirTube/src/com/thinktube/airtube/` or, for `net/nio`,
`audio` and `util`, to `src/JavaLibrary/src/com/thinktube/`.

## The system

A device runs one AirTube instance. Three kinds of threads meet in it:

* **API threads** of applications (`AirTube.java`): register services and clients,
  subscribe, send data.
* the **DataTransmit thread** (`DataTransmit.run`): takes received packets from a bounded
  queue, handles them one by one, and calls the timers about once per `DT_TIMEOUT_MS`.
* the **selector thread** of the non-blocking I/O in `JavaLibrary`.

An application that plays audio adds the threads of `AudioPlayer`. Nearly all state of the
network library is in concurrent maps, without locks that span two of them. So handlers
are atomic with respect to each other, but an API call can have a handler in its middle.

### Inventory

| Component | State | Operations | What is hard | What makes it correct |
|---|---|---|---|---|
| `routing/dv/DVPeer`, `routing/Route` | candidate routes by last hop, best route, UP / DOWN_PENDING / DOWN / TIMED_OUT, times, send queue, flag | updateRoute, selectBestRoute, nbrRoutesDown, timeout, addToSendQueue | six places change routes; three timeouts race with updates; age decides before sequence number | state fits the best route; the registry fits the state; no UP route through a lost neighbour; dead peers go |
| `routing/dv/DistanceVectorRouting` | the DVPeers | receive, updatePeer, add/update/removeNbr, timeout, sendPacket | packets delayed, lost and overtaken by broken links and timers | no loops, no counting to infinity |
| `routing/RoutingModuleCommon` | own sequence number | seqNoGreater, getNextHopCC, clear | wrap-around | newer information wins |
| `routing/dv/OnDemandDV` | request histories, numbers of requests | routeExplore, timeout, request, reply | floods, retries, late answers, relayed metrics | floods and explorations end, paths do not circle, no route is told too good |
| `routing/nbr/*`, `ProxyManager` | neighbours, their links, proxy links | HELLO, timeout, data as evidence of a link | links that work one way, connections closed at one end, restarts | official neighbours can be sent to; both sides find and forget each other |
| `AirTubeRegistry`, `Peer` | local services and clients, Peers, remote services and clients | add, remove, clearAll | two threads; throws on what should not happen | Peers registered as the router says |
| `SubscriptionManager`, `AService`, `AClient`, subclasses | pending requests; clients of services, services of clients | SUBSCRIBE, UNSUBSCRIBE, results, retry | loss, reordering, late answers, both sides coming and going | both sides agree; requests end; no data for nobody |
| `DataTransmit`, `IpConnectionCache` | receive queue, connections | receive loop, send, retry | full queue, closed channels | packets are sent or reported |
| `net/nio` | connections, send queues, interest operations | read, write, connect, reconnect | partial reads and writes, reconnection, two threads | framing survives, what is queued is sent |
| `audio` jitter buffers, `util/CircularPriorityQueueBuffer` | a pool of buffers, a queue by sequence number | receive, getPlayBuffer, reset | frames decoded outside the lock, late frames, new streams, restarted players | a buffer has one owner; play order |
| Android glue, apps, GUI, codecs, JSON | | | | not modelled: I/O, presentation or third-party code |

`NeighbourManager` tells the router about neighbours; the router creates DVPeers, which
register their `Peer`; routing packets bring services, which are put into the Peer and
found by clients; subscriptions are messages over the routes. When a DVPeer times out its
Peer is emptied and unregistered, which ends subscriptions on both devices. When a route is
missing, `OnDemandDV` explores it, and feeds what it hears to the DVPeers. Everything that
goes over a proxy link goes through a `TCPConnection`.

## Modules

| Module | Models |
|---|---|
| `SeqNo` | `RoutingModuleCommon.seqNoGreater`, `incrementSeqNo` |
| `DVRoutes` | `DVPeer` and `Route` as data: what their methods make of the routes to one destination |
| `DVPeer` | the life of one DVPeer among its handlers and timers, its Peer in the registry, the official neighbours, an API thread that queues a packet |
| `DVNet` | several devices, each with its routes to one destination, and the packets between them |
| `DVNetNode` | any one device of `DVNet`, seen as a `DVPeer` |
| `OnDemandDV` | one device that explores the route to another, the relays, requests and replies |
| `Neighbours` | two devices, their links, the proxy link between them and its connections |
| `Subscription` | a service on one device, clients on another, the messages between them |
| `PacketChannel` | the abstract specification of a connection: a channel of packets |
| `TCPConnection` | both ends of a connection, with their selector threads |
| `JitterBuffer` | a `JitterBuffer3` between the receiving thread and the players |

`MC`*module* instantiates a module for TLC, *module*`_proofs` has the theorems about it.
Operators and actions have the names of the methods they model; an action is a whole
handler. A definition named `f_word`, marked as a fault, is a plausible bug of `f`: the
properties are checked to notice it.

### DVRoutes and DVPeer

`DVRoutes` has the methods of `DVPeer` and `Route` as pure operators, which `DVPeer` and
`DVNet` share; `DVPeer` has the state and the handlers. `dp` is the DVPeer object as a
record (`routes` is `allRoutes`, `best` the last hop of `bestRoute`), `registered` says if
`AirTubeRegistry.peers` has its Peer, `nbrs` are the official neighbours. `thrown` records
that the registry threw. Operators with the names of the methods (`updateRoute`,
`selectBestRoute`, `nbrRoutesDown`, ...) take a DVPeer and return it changed; actions are
the handlers that call them, with the immediate update many of them end with. Times are in
ticks since an event instead of time stamps of it, and a tick is longer than the period of
the timers. The iteration order of the `HashMap` decides ties between routes: it is the
constant `HashOrder`. A direct route shares the metric object of the link, so that it
changes with `LinkMetricChanges` without an update. `DataTransmit.send` of an API thread is
two steps: it finds no next hop, then queues.

`unlinked` are the official neighbours without a best link, which a neighbour behind a
proxy (`Proxied`) is while its link is closed or replaced (see `Neighbours`). A packet from
one makes `updateRoute` throw (`DVPeer.java:248-250`): if there was no DVPeer, it has been
created by then, registered and stored (`updatePeerThrows`). It stays UP with no route
until another packet or the next timeout, and `UpMeansBestIsUp` names this state, and no
other, as the exception.

Metrics are natural numbers (ETT is a floating point value; only its order and sums
matter). Whether a flow is active and how many queued packets a closed channel keeps
back are choices (`Circumstances`). The tie-break of equal metrics is that of
`isBetterThan`. A RuntimeException of the registry ends the handler. An update relayed by
an on-demand message is taken for one of a routing packet, although its metric object is
shared with the other routes of that message (see `OnDemandDV`) and rises once more after
the update.

### DVNet

`dps[n]` is the DVPeer of node `n`, and what changes it are the operators of `DVRoutes`.
`DVNet` adds what connects nodes: what `sendPacket` puts into a packet, and what `receive`
and `updatePeer` do with it, neighbours that come and go on each side at its own time, the
timers of all nodes on one clock, and the destination, which runs, counts its sequence
number, sends, and may die. A packet is on the air for less than a tick and may get lost;
split horizon (leaving entries out of packets on wired interfaces) is contained in that.

`NodeIsDVPeer` of `DVNetNode` is the refinement: for any node `Me`, with `dp <- dps[Me]`,
`nbrs <- nbrs[Me]` and the Peer registered while the DVPeer exists and has not timed out,
the network implements the specification of `DVPeer`. So what is proved of `DVPeer` among
arbitrary packets holds of every node.

`Tick` is the time that passes: its guard holds it back until all timers and neighbour
timeouts that are due have run. One tick stands for about 30 s, so that 30 s, 60 s, 64 s
and 150 s become 0, 1, 1 and 2. Nodes do not restart, and each official neighbour has its
best link: the links are radio links (`Proxied` is empty in the refinement).

### OnDemandDV

`srh` is the `SendRequestHistory` of the exploring device, `history` the
`ReceiveRequestHistory` of the others, and `air` the messages on their way, a broadcast as
one message for each neighbour. `exploring` is the moment between the broadcast of a
request by an API thread and its recording: the router's lock excludes the timer and other
explorations, but not the DataTransmit thread that receives the answer. `told` is the metric
that a message gives of the devices on its path: `updateRelayNodesRoutes` passes one object
for all of them, which `updateRoute` adds the link to each time. `tries` is not in the
code. Which routes a device has is a choice: it decides which neighbour a reply goes to,
and if a relay decrements the ttl. A tick is one round of the DataTransmit loop, about
200 ms, as `RoutingModuleCommon.checkTimer` never sets `lastTimeoutTime` and thus calls the
timer each time (:49); a message arrives within two rounds or not at all. Replies of a
proxy are left out: every request forbids them (`RREQ_FLAG_D` is always set).

### Neighbours

A link is the interface it goes through: the radio (broadcasts, which get lost) or a proxy
link. `Upstream` is the proxy link that `setProxy` made on the client; on the server each
accepted connection is a proxy link of its own, and all of them are equal as keys of a map,
as `NbrLink.equals` has it. `nbr` is the `NbrPeer` that each device has of the other,
`bidirectional` the flags of links, `dial`, `closed` and `tagged` the connections as each
end sees them. Devices crash and start again, connections break with or without the other
end noticing, and are made anew. `Tick` is guarded as in `DVNet`: each device sends its
HELLOs and runs its timeouts in every tick, which is some seconds.

Metrics are left out, so that any bidirectional link may be the best one. Two assumptions
are about time: no packet waits in the client's receive queue for the 10 s that its
neighbour timeout is long, and what was sent over a connection has arrived or is lost when
the next one is made (`Connect`). The HELLO that goes out every second on proxy links only,
`setProxy` at run time and mobile data interfaces are left out.

### Subscription

`local` follows a client through its life and through the steps of `subscribeService`,
`unsubscribeService` and `unregisterClient`: an answer may come between the send of an
UNSUBSCRIBE (`RemoteService.java:61`) and the removal of the subscription that follows it
(:62). The look-up of `unsubscribeService` and its send are one step. `pending` is
`pendingSubs`; `subscribed` is the list of clients of the RemoteService. On the other device
`clients` is the list of the LocalService that the registry has, and `remote` gives for each
RemoteClient of the Peer which service it holds: none, the present one, or one that the
registry has removed. The last two are equal objects in the code (equality is by id), but a
removal through one does not reach the other. `subscribing` is the call of
`LocalService.subscribe` that `SubscriptionManager.receive` makes after its reply. `wanted`
is not in the code: it is what the application asked for last. `net` counts the copies in
flight of each message; the network loses and reorders, and only retries duplicate.

Operations on `pendingSubs`, a `HashSet` that two threads use, are taken to be atomic.
`unsubscribeAllClients` is one step: each client is visited at some moment of it, and no
operation relates two clients.

### PacketChannel and TCPConnection

The bytes of each end's stream are numbered: the frame of packet `i` (two bytes of length,
then data) are the bytes `Start[e][i] + 1 .. Start[e][i + 1]`, and what is under way are
those between `taken[e]` and `written[e]`. `reader` is the state of `handleRead`
(`readExpectedLen` and the two buffers), `ops` the interest of the selection key, `queued`
the length of `sendQueue`. Reads and writes take any number of bytes that are there or fit.

Packets are of any size: `send` does not look at it. The length that it writes is narrowed
to a short (`asShort`), and `handleRead` has its own way with a length that it has no use
for: after 0 it takes the next two bytes for a length, after a negative one it reads no
more, and after one above the capacity (`MaxData`) it reads until the buffer is full. Once
the reader is out of step, any two bytes may be any length (`lengths`).

`send`, which any thread calls, goes through four steps (`calling`): the offer to the
queue, the question if the channel is connected, and the change request or the reconnection
that follows from the answer, however old it is. `requests` is the queue of change requests
of the selector thread: a `CHANGEOPS` outlives the channel it was made for, and may replace
`OP_CONNECT` in the key of the next one (`ChangeOps`). `Register` connects a new channel;
`RegisterThrows` is a `connect` that throws in `processChangeRequests`, which schedules no
retry, unlike `connectFails`.

When a connection is lost each end finds out at its own time, or never, and may first read
what has arrived. The client reconnects, with the reader and the queue that it had; the
server gets a new connection from `accept`, and may go on reading one that it has not found
to be lost (`old`).

`PacketChannel` is what a user may expect: packets are accepted, delivered in order and
whole, and none is missing, until a connection is lost or the next packet is one that does
not fit; afterwards packets may be missing, damaged or out of order, but none is delivered
twice. `ImplementsChannel` is the refinement. The other properties make the same exception
(`Spoiled`), for each direction of its own.

### JitterBuffer

A frame is its sequence number. Any frame may arrive at any time: lost, late, twice, or
from a stream that has begun anew. `getPlayBuffer` is synchronized, but the frame is decoded
afterwards without the lock (`playing`, at `"playing"`) and the buffer returned after that.
`AudioPlayer.stop` only sets a flag that the thread sees later, and `start` makes another
thread: so there may be two. `stop` and the `reset` that follows it are two steps.

`fec`, the flag that tells a frame to be played from one that is only looked at, is a field
of the buffer. It is written under the lock and read after it (`looksAtFec`,
`AudioReceiver.java:77`). So with two players one may be shown a frame, the other take the
same buffer as its next frame, and both then play it and return it. The model goes on from
there as the code does: the buffer is twice in the free list, may be filled while it is
queued, and the heap is out of order then (`disordered`: any element may be its head).
`races`, which is not in the code, counts these moments. Hand-out order and `TypeOK` hold in
spite of them; the other properties hold until the first (`races = 0`), and without that
condition TLC finds each of them violated. With one player there is none
(`OnePlayerIsSafe`).

## Runs

All cfgs have `CHECK_DEADLOCK FALSE`: the systems may fall silent when no neighbour is
left, no application calls, or a bound is reached.

| Run | Checks | Result |
|---|---|---|
| `MCDVPeer` | types; registry and router agree; the registry never throws; UP means the best route is; UP routes use neighbours; a peer is heard of as long as its routes are | holds |
| `MCDVPeerQueue` | queued packets are sent once the route is UP | violated: only the transition to UP flushes |
| `MCDVNet` | types; next hops form no loop; each next hop knows better; each node is a DVPeer; a dead destination is forgotten by all | holds |
| `MCDVNetLoop` | no loops, when metrics of links change | violated: a direct route gets worse without a new number |
| `MCOnDemandDV` | types; paths do not circle; no metric is told too good; an exploration is bounded; only newer requests are passed on; waiting ends | holds |
| `MCNeighbours` | types; a best link can be used; links have interfaces; devices that run find each other; a silent one is forgotten | holds |
| `MCNeighboursBest` | an official neighbour has a best link | violated: not while its proxy link is closed or replaced |
| `MCSubscription` | types; both lists agree; no RemoteClient without service; no SUBSCRIBE of a gone client is retried; requests end; data for nobody ends | holds |
| `MCSubscriptionUnsubscribed` | who unsubscribed stays unsubscribed | violated: a late answer subscribes |
| `MCTCPConnection` | types; readers stay in step; queued packets are attended to while a connection is up; refines `PacketChannel`; accepted packets that fit are delivered | holds |
| `MCTCPConnectionLoss` | only whole packets are delivered | violated: a half sent packet is continued on the next connection |
| `MCJitterBuffer` | types; frames are handed out in order; until a buffer is taken that another player was shown: one owner, free buffers have old numbers, a frame being played is kept, none is played twice | holds |

`PROJECT.json` has the lines of each definition, the mutant that breaks each passing
property, and what each violation means.

### Bounds

* `MCDVPeer`: the destination is a neighbour itself, and there are two other neighbours, so
  that a backup can exist, break and be selected; two last hops, because candidate routes
  are keyed by last hop; three sequence numbers, the least with which the window is
  circular; ages 0 and 2 around the accepted age 1; timeouts of 0, 1 and 2 ticks, in the
  order of the code (30 s, 60 s, 150 s). The other two neighbours are symmetric; the
  destination can lose its best link, as a proxy. The accepted age is below the removal time
  in the code (64 s) as it is here.
* `MCDVPeerQueue` has the destination and one more neighbour, as TLC can use no symmetry
  there, and `MaxQueue` 1: with one packet each flush either sends it or keeps it. In
  `MCDVPeer`, where no property is about the queue, it is 0.
* `MCDVNet`: a triangle of which one node hears the destination, the smallest network where
  a loop of three can close; the links destination–x and x–y break and come back; one new
  sequence number, one packet on the air (164 256 states). Metrics of links are 1 here; in
  `MCDVNetLoop`, a ring, they are 1, 2 or 5. `Metrics`, those that are advertised, end with
  the length of the longest path without a circle: with larger ones there are no more states
  in `MCDVNet`.
* `MCOnDemandDV`: two relays that hear each other and the originator, and the destination
  behind one of them: a request comes twice to each relay, and a reply may go round. The
  first link is cheaper than the others, as an error in the sum shows only then. Four
  requests, so that an exploration may use all its retries (2) and another may begin after
  a short one; two messages on the air; a history lives for 4 ticks, one for
  each device, which is what `RequestsAreNotRepeated` asks for (616 364 states).
* `MCNeighbours`: two connections, so that one can replace the other, one crash and one
  break, two packets on the way, a timeout of one tick (524 174 states).
* `MCSubscription`: one client. Clients share only the service, the Peer and the thread
  that handles one message at a time, and no operation relates two of them. One retry
  instead of twelve: there is a first, a last and one more. One copy of each message in
  flight, while all six kinds can be under way together. The safety invariants were
  also checked with two copies (1.1 million states).
* `MCTCPConnection`: the client sends packets of 2 and 1 bytes of data, which fit; its
  window of 5 bytes holds a frame and part of the next one. The server sends one packet of
  5 bytes, above both the capacity of the buffer (2) and the largest short (3), so that
  its length is negative; its window holds it whole. So `AcceptedIsDelivered` is about the
  client's packets beside a direction that is stuck. A queue of two, one loss (150 008
  states). In `MCTCPConnectionLoss` the packets of both ends fit.
* `MCJitterBuffer`: three buffers, two players, four sequence numbers: more frames than
  buffers, late ones and overwritten ones; one exception of `receive` and one buffer that is
  taken after it was shown; buffers and players are symmetric (2 302 976 states).

### Fairness

* `DVPeer`: weak fairness of `Timeout` and `Tick` (the DataTransmit thread calls the timers
  for ever, catching every exception) and of the second half of `send`. Nothing makes a
  neighbour send, stay, or leave.
* `DVNet`, `Neighbours`: `[]<><<Tick>>_vars`, time passes. By the guard of `Tick` timers,
  HELLOs and neighbour timeouts happen in time. Nothing is assumed of packets, links,
  connections. `GoneIsForgotten` and `SilentIsForgotten` are about a device that stays away;
  `NeighboursMeet` assumes in its own statement that both stay up and that packets get
  through.
* `OnDemandDV`: weak fairness of the timer and of the rest of an exploration that has begun.
* `Subscription`: weak fairness of the timer and of the rest of a handler that has begun
  (`DoSubscribe`); the service sends again while it has clients; strong fairness of
  receiving each kind of message (of what is sent again and again something arrives). None
  of what applications do: a call may stop halfway. `OrphansEnd` assumes in its own
  statement that the devices know each other from some time on.
* `TCPConnection`: weak fairness of the steps of the selector threads and of the rest of
  `send` on a connection that is up. None of reconnecting: it is tried only after another
  key was selected (`NIOSelectorThread.java:164`), which nothing guarantees.

## Proofs

Each module below has a strengthened invariant `IInv`, the conjunction of its safety
invariants with what makes them inductive; a lemma for each action says that it keeps it,
and the theorems follow. They hold for every value of the constants that satisfies the
assumption of the module. Lemmas go by operator where actions share one.
Where a proof needs induction over positions, it is that of a set of natural numbers which
contains 0 and, with each, the next (`Induction`), as no operator can be a parameter.

* `DVPeer_proofs`: all safety invariants of `MCDVPeer`. `UpMeansBestIsUp` and
  `RegistryAgreement` are not inductive: a peer that times out while its best route is UP
  would break the first, and what excludes it is that the peer was heard of since each of
  its UP routes was (`HeardSinceUp`), together with the order of the timeouts (`DownTicks <
  PeerTicks`): by the time the peer expires, `expireRoutes` in the same call has put all
  routes DOWN. `UpRoutesUseNeighbours` is needed because a route that is accepted comes from
  a neighbour. `Blank` is the DVPeer that an exception left without a route: it was never
  heard of, so that it breaks none of the others. The lemmas are those of `DVRoutes_proofs`.
  `OneIsNewer` is about `seqNoGreater` alone: of two numbers at most one supersedes the
  other, and with ages that agree exactly one, wherever the numbers wrap.
* `Subscription_proofs`: the four invariants of `MCSubscription`, for any set of clients.
  They need `NoneOfRemovedService`: while no service is registered, there are no clients,
  no RemoteClient holds the present service and no call is about it, so that the next one
  starts afresh. Actions of one device leave the variables of the other alone
  (`ClientSide`, `ServiceSide`), which halves the work.
* `TCPConnection_proofs`: the three invariants and the refinement of `PacketChannel`, for
  packets of any size, also those that do not fit, any windows and any number of losses.
  `IInv` ties the cursors to the reader: until a direction is spoiled what a reader holds is
  the part of a frame that ends at `taken` (`InStep`); in any case what was handed over ends
  before `taken` (`GotBefore`), and what connections kept by the server may still read is
  apart from each other and from that (`OldApart`), so that nothing comes twice.
  `ChannelSane` has what control (`calling`, `requests`, `ops`, `chan`) must keep for
  `QueuedIsAttended`: a connection that is up has a key for reading or writing.
* `JitterBuffer_proofs`: the three invariants and both action properties, up to the first
  race, and that one player never gets there. That a player plays only what it was handed
  out to play needs `FlagsAgree`, which is what a race breaks. That `receive` tells an
  evicted frame from a free buffer by its number needs `NoneFreeAtStart`: until the first
  frame is handed out no buffer is free or held. `HistoryOK` relates `lastPlayed` to the
  code's `lastPlayedSeq`, which loss moves on as well.
* `Neighbours_proofs`: the three invariants, which are inductive together: that a best link
  is one of the neighbour's needs the removal of a link to follow the interface.
* `OnDemandDV_proofs`: all five safety properties, for networks of any shape. `CountOK` is
  needed for `RetriesAreBounded`: while a request waits there were at most as many as calls
  of the timer, and one; and a request that is not recorded is the first, so that a late
  reply that resets the counter cannot begin it again. `NeverUnderstated` compares two sums
  along a path, what is told of it and what it costs: each relay has told what its link to
  the one before costs (`TellsCosts`), so that the partial sums of the one, from its end,
  and of the other, from its start, always add up to the same (`CostIsTold`).
  `OnlyNewerRequests` rests on `Remembered`: a device that has had a request still
  remembers it when a copy arrives that went round, since the copy has been through a
  different device in each hop (`PathsAreSimple`), at most a tick each. Hence the
  hypothesis `Cardinality(Nodes) <= HistoryTicks`: 10 s (`BCAST_TBL_EXPIRE_MS`) are some 50
  rounds of the timer, so that the promise is one for networks of up to 50 devices.
* `DVRoutes_proofs`: what each method of `DVPeer` does to a DVPeer, stated once for
  `DVPeer` and `DVNet`: which routes it adds, changes, puts DOWN or removes, and when the
  state, the registration and the best route follow. The loop of `selectBestRoute` over the
  map is a function of the position (`scan`); that it ends with a route that supersedes
  every other is proved for any number of routes in any order of iteration, provided that
  `supersedes` orders them (`ScanIsTop`).
* `DVNet_proofs`: the three invariants of `MCDVNet` and the refinement of `DVPeer`, for any
  number of nodes, any links, metrics, timeouts, age tolerance and packets on the air.

### Why routes do not loop

`NoLoops` is the statement of `DVPeer.java:115-116`, "this algorithm is correct to avoid
looping". The argument, in the order of `DVNet_proofs`:

1. *A clock of numbers.* There is a function `A` from sequence numbers to ages such that
   every route and every packet with number `s` has age `A[s]`, wherever it is, and newer
   numbers are no older (`IsClock`, `OnTime`). So ages and numbers never disagree, and
   `seqNoGreater`, which is no order on its own (`OneIsNewer`), decides as the lexicographic
   order of (number, metric): `ahead` and `beyond` (`SupersedesIsAhead`).
2. *The best route is the best* (`Top`): no candidate of a device is ahead of it, so that
   what a device tells is the best it knows.
3. *No device gets worse while it is believed* (`Keeps`): each step of a device leaves it
   with a best route as good as before, unless that one is older than `RemovalTicks`.
   It is here that a DOWN route is kept and supersedes others of its number, and that
   `MaxAcceptedAge + DownTicks < RemovalTicks` is needed (64 s + 30 s < 150 s): a route that
   goes was taken over by nobody whose copy is still UP.
4. *What is told is backed* (`TellsTrue` of packets, `Told` of routes): who sent a packet, or
   is the next hop of an UP route, has a best route as good as the one that was told, and
   the receiver has added a link to it, which is more than 0. Steps 2 and 3 keep this.
5. So each next hop is `beyond` the device that uses it (`BetterNextHops`), `beyond` is well
   founded on the finitely many numbers and the natural metrics, and in each set of devices
   the one that no other is beyond has its next hop outside (`NoLoops`).

The theorem says what it needs of the code and its surroundings: metrics of links to the
destination do not change (with that, `MCDVNetLoop` has a loop), hops cost more than 0,
the destination uses no more than `SeqWindow` numbers (16383; numbers that wrap while old
ones are still about are compared by `OneIsNewer` alone), clocks run alike, and a packet is
on the air for less than a tick.

`NodesAreDVPeers`: the steps of a node are mapped one by one (`HeardIsUpdatePeer`,
`RemoveNbrIsNodes`, `TimeoutIsNodes`, ...), and those of others are stutters. As nobody sends
data, no flag is set and nothing queued (`AllQuiet`), so the choices of `DVPeer` about flows
and queues are the trivial ones; that the registry is never asked twice follows from how
methods bring a DVPeer back (`Revives`).

### Only model-checked

Liveness (`PendingEnds`, `OrphansEnd`, `AcceptedIsDelivered`, `GoneIsForgotten`,
`NeighboursMeet`, `SilentIsForgotten`, `WaitingEnds`), which is out of reach of the prover,
and everything that is violated. Every safety property of a passing run is a theorem.

## Known gaps of the code, without a run

Found while modelling, and not part of a run:

* A retraction that is accepted for a timed-out peer brings services back to a Peer that is
  not registered (`DistanceVectorRouting.java:317`).
* DOWN_PENDING goes on waiting after the backup it waits for has gone (`DVPeer.java:177`).
* `clearAll` clears the registry, then the router; a timer or an update in between makes the
  registry throw (`AirTube.java:360`).
* A SUBSCRIBE that meets `unregisterService` leaves a RemoteClient of a removed service
  (`SubscriptionManager.java:119`).
* Two players of one stream may take the same buffer for a frame to play, as `be.fec` is read
  outside of the lock (`AudioReceiver.java:77`): the frame is played twice and its buffer
  returned twice.
* A frame that is looked at for FEC stays queued, and `receive` may evict and overwrite it
  while it is decoded (`AudioReceiver.java:87`, `JitterBuffer3.java:66-77`), with one player,
  too.
* `TCPConnection.send` accepts packets of any size (`TCPConnection.java:143-160`): one that
  is empty, longer than the buffer of the reader or longer than a short is queued and sent,
  and nothing sent after it arrives whole, with no connection lost.
* `connect` may throw when a connection is made anew (`NIOSelectorThread.java:208`): the
  exception is only logged (:88), `nextConnectRetryTime` is 0 (`TCPConnection.java:238`),
  and packets that are queued wait until `send` is called again. The same when a late
  `OP_WRITE` takes the place of `OP_CONNECT` in the key (`NIOSelectorThread.java:188`): the
  channel stays pending, unless there is something to write, which then fails.
* When both windows of a TCP connection are full, both ends wait to write and neither reads
  (`NIOSelectorThread.java:195`).
* A server that has not noticed that a connection is lost still delivers what it has got over
  it, after packets of the next one.
* Data over unicast UDP, or over accepted connections of another class than VOICE, has no
  interface: `NbrPeer.java:153` throws a NullPointerException, though
  `DataTransmit.java:170-178` means to handle the case.
* The flag of a link that works only one way is not cleared before 10 s of silence
  (`NeighbourManager.java:59`, `:138`).
* The buffer of a duplicate of a queued frame is lost to the pool (`JitterBuffer3.java:81`):
  `CircularPriorityQueueBuffer.put` refuses it though its comment (`:53-54`) says "this will
  always succeed". The queue is then never full again, so that after an underrun nothing is
  played any more; after as many duplicates as there are buffers `receive` throws.
* `SpeexAEC.resetBuffers` is never called, though its comment says when.
* A relay decrements a copy of the ttl of a request, which it then forwards as it came
  (`OnDemandDV.java:495`), though the comments say "forward request if (ttl - 1 > 0)"
  (`:475`) and "let's decrement ttl" (`:482`): a first request of ttl 2 floods the whole
  network.
* A reply carries the sequence number from before the increment that is to make it fresh,
  as the argument is evaluated first (`OnDemandDV.java:461`, `:362`).
* All relays of a message get the same metric, the sum of all, too high for the near ones
  (`OnDemandDV.java:605`); `NeverUnderstated` shows that it errs only this way.
* `retryCnt` counts calls of the timer and not requests (`OnDemandDV.java:172`), so that
  there are fewer requests than `SEND_RREQ_MAX_RETRY_CNT`.
* A reply that comes before its request is recorded leaves `waitReply` set, and the request
  is repeated (`OnDemandDV.java:354`).
* A request is recorded before the neighbour check, so that a copy that comes from an
  unknown device first uses it up (`OnDemandDV.java:424`, `:440`).

## Not modelled

* Of the routing: restarts of nodes in `DVNet` and of the originator in `OnDemandDV` (whose
  requests the others then drop for 10 s); `clearAll`; splitting of packets; replies of a
  proxy; active flows other than as a choice; traceroute, which changes nothing.
* Of neighbours: see above.
* Of the registry and the API: service interest (`registerServiceInterest` against
  `serviceAddedCallback`), monitors, starting and stopping.
* Of connections: `UDPConnection` (the same queue without framing); a send right after
  `create` on a channel that has not connected; two threads in `send` at the same time;
  `close`; the cancelled key of a channel that `reconnect` has left open; the cache of
  connections by type and class; the receive queue as such (its overflow is a lost packet).
* Byte formats, the measurement of ETT, interfaces of the operating system, JSON, Android
  glue and apps: I/O, presentation or floating point arithmetic.
* The C code under `src/AndroidLibrary/jni`: opus, speex and their echo canceller are
  vendored signal processing code without state that is shared or goes wrong in an order,
  and the `*_jni_wrapper.c` files pass arrays to it. It makes up most of the lines of the
  repository and none of AirTube's own logic, which is in Java.

Of these the restart of a node in `DVNet`, which begins its sequence numbers anew, and
service interest would be the next to model.
