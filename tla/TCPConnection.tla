---------------------------- MODULE TCPConnection ----------------------------
(***************************************************************************)
(* A TCP connection between two devices: on each end a TCPConnection, the   *)
(* NIOSelectorThread that serves it, and a thread that sends packets.  The  *)
(* client has connected and reconnects when the connection is lost; the     *)
(* server got its end from accept, a new one for each connection.           *)
(*                                                                         *)
(* Packets of an end are numbered, and so are the bytes of its stream: the  *)
(* frame of packet i (two bytes of length, then data, of any size) are the  *)
(* bytes Start[e][i] + 1 .. Start[e][i + 1].  What is under way in the      *)
(* direction away from e are the bytes taken[e] + 1 .. written[e].          *)
(***************************************************************************)
EXTENDS Integers, Sequences

CONSTANTS
    Client, Server,
    Start,        \* per end and packet: the bytes of the stream before its frame
    MaxData,      \* capacity of readBufData
    MaxShort,     \* the largest short
    Window,       \* per end: bytes that fit between its write and the other's read
    MaxQueue,     \* MAX_QUEUE_LENGTH
    MaxPackets,   \* bound, per end: packets that it sends
    MaxLosses     \* bound: connections that are lost

Ends == {Client, Server}

ASSUME TCPAssumption ==
    /\ Client # Server
    /\ MaxData \in Nat /\ MaxShort \in Nat /\ MaxData <= MaxShort
    /\ MaxQueue \in Nat /\ MaxPackets \in [Ends -> Nat] /\ MaxLosses \in Nat
    /\ Window \in [Ends -> Nat \ {0}]
    /\ DOMAIN Start = Ends
    /\ \A e \in Ends :
        /\ Start[e] \in [1 .. MaxPackets[e] + 1 -> Nat] /\ Start[e][1] = 0
        /\ \A i, j \in 1 .. MaxPackets[e] + 1 : i < j => Start[e][i] + 2 <= Start[e][j]

VARIABLES
    accepted,    \* per end: packets that send() has queued so far
    queued,      \* length of sendQueue: it holds the last ones accepted
    written,     \* last byte written to a socket
    calling,     \* how far a call of send is after its offer
    requests,    \* requestQueue: a CHANGEOPS to OP_WRITE, a REGISTER for OP_CONNECT
    ops,         \* interest of the key of the channel; NONE: it has no key
    writing,     \* the selector thread is in the loop of handleWrite
    chan,        \* the socket channel
    retry,       \* nextConnectRetryTime of the client is set
    taken,       \* last byte of an end that the other has read, or that was lost
    reader,      \* readExpectedLen, readBufLen, readBufData for the bytes of an end
    old,         \* connections the server has not found to be lost when the next came
    got,         \* what the callback was given of an end
    losses       \* connections lost so far

sender   == <<accepted, queued, written>>
selector == <<calling, requests, ops, writing>>
sockets  == <<chan, retry, losses>>
receiver == <<taken, reader, old, got>>
vars     == <<sender, selector, sockets, receiver>>

-----------------------------------------------------------------------------

other(e) == IF e = Client THEN Server ELSE Client

dataLen(e, i) == Start[e][i + 1] - Start[e][i] - 2

\* len, a short, to which send adds what a packet is long.
asShort(n) == ((n + MaxShort + 1) % (2 * MaxShort + 2)) - MaxShort - 1

shorts == -MaxShort - 1 .. MaxShort

\* A packet that handleRead can hand over, with a length that it can read.
fits(e, i) == dataLen(e, i) \in 1 .. MaxData

\* expected is readExpectedLen, half the first byte of a length while the second is
\* missing (0: none), first and count the data in readBufData so far.
emptyReader == [expected |-> 0, half |-> 0, first |-> 0, count |-> 0]

\* What the callback gets when it gets the data of packet i, whole and nothing else.
payload(e, i) ==
    [first |-> Start[e][i] + 3, last |-> Start[e][i + 1], count |-> dataLen(e, i)]

Chunk == [first : Nat, last : Nat, count : Nat]

\* What a call of handleRead has handed over that hands over nothing.
nothing == [first |-> 0, last |-> 0, count |-> 0]

headPacket(e) == accepted[e] - queued[e] + 1

lesser(m, n) == IF m < n THEN m ELSE n

-----------------------------------------------------------------------------
\* send: the offer to sendQueue, and then what makes the selector thread write.

\* A packet for a full queue is dropped and one for a closed end of the server is
\* refused: both return without a change.  Nothing looks at the size of a packet.
Send(e) ==
    /\ calling[e] = "idle" /\ accepted[e] < MaxPackets[e]
    /\ chan[e] # "closed" \/ e = Client
    /\ queued[e] < MaxQueue
    /\ accepted' = [accepted EXCEPT ![e] = @ + 1]
    /\ queued' = [queued EXCEPT ![e] = @ + 1]
    /\ calling' = [calling EXCEPT ![e] = "queued"]
    /\ UNCHANGED <<written, requests, ops, writing, sockets, receiver>>

\* A channel that was connected stays so until it is closed.
isConnected(e) == chan[e] \in {"connected", "lost"}

AskConnected(e) ==
    /\ calling[e] = "queued"
    /\ calling' = [calling EXCEPT ![e] = IF isConnected(e) THEN "connected" ELSE "unconnected"]
    /\ UNCHANGED <<sender, requests, ops, writing, sockets, receiver>>

\* requestOps, whatever has become of the channel.
SendRequestsWrite(e) ==
    /\ calling[e] = "connected"
    /\ calling' = [calling EXCEPT ![e] = "idle"]
    /\ requests' = [requests EXCEPT ![e] = Append(@, "WRITE")]
    /\ UNCHANGED <<sender, ops, writing, sockets, receiver>>

\* isConnectionPending: queueing was enough.
SendWaits(e) ==
    /\ calling[e] = "unconnected" /\ chan[e] = "connecting"
    /\ calling' = [calling EXCEPT ![e] = "idle"]
    /\ UNCHANGED <<sender, requests, ops, writing, sockets, receiver>>

\* reconnect: a new channel without a key, and a REGISTER that will connect it.  One
\* that is connected by now is left behind, and the other end is alone with it.
newChannel(e) ==
    /\ chan' = [d \in Ends |-> IF d = e THEN "opened"
                               ELSE IF chan[d] = "connected" THEN "lost" ELSE chan[d]]
    /\ ops' = [ops EXCEPT ![e] = "NONE"]
    /\ requests' = [requests EXCEPT ![e] = Append(@, "CONNECT")]
    /\ retry' = (retry /\ e # Client)

SendReconnects(e) ==
    /\ calling[e] = "unconnected" /\ chan[e] # "connecting"
    /\ newChannel(e)
    /\ calling' = [calling EXCEPT ![e] = "idle"]
    /\ UNCHANGED <<sender, writing, losses, receiver>>

-----------------------------------------------------------------------------
\* The selector thread: processChangeRequests, read, write.

nextRequest(e, r) ==
    /\ ~writing[e] /\ requests[e] # <<>> /\ Head(requests[e]) = r
    /\ requests' = [requests EXCEPT ![e] = Tail(@)]

\* A CHANGEOPS for a channel that is not registered is dropped; any other replaces the
\* interest of the key, in OP_CONNECT too.
ChangeOps(e) ==
    /\ nextRequest(e, "WRITE")
    /\ ops' = [ops EXCEPT ![e] = IF @ = "NONE" THEN @ ELSE "WRITE"]
    /\ UNCHANGED <<sender, calling, writing, sockets, receiver>>

\* REGISTER: connect is called and the channel registered.
Register ==
    /\ nextRequest(Client, "CONNECT") /\ chan[Client] = "opened"
    /\ chan' = [chan EXCEPT ![Client] = "connecting"]
    /\ ops' = [ops EXCEPT ![Client] = "CONNECT"]
    /\ UNCHANGED <<sender, calling, writing, retry, losses, receiver>>

\* connect throws: the run loop catches that, the channel is closed and no retry is
\* scheduled.  On the server's end there is no address to connect to, and a second
\* REGISTER for a channel finds it pending, connected or closed: nothing changes.
RegisterThrows(e) ==
    /\ nextRequest(e, "CONNECT")
    /\ chan' = IF e = Client /\ chan[e] = "opened" THEN [chan EXCEPT ![e] = "closed"] ELSE chan
    /\ UNCHANGED <<sender, calling, ops, writing, retry, losses, receiver>>

\* What getShort may return: the length if these are the two bytes of a length, and
\* anything if they are not.
lengths(s, b1, b2) ==
    LET frames == {i \in 1 .. MaxPackets[s] : b1 = Start[s][i] + 1 /\ b2 = Start[s][i] + 2}
    IN  IF frames # {} THEN {asShort(dataLen(s, i)) : i \in frames} ELSE shorts

\* What a call of handleRead makes of a reader r that has read until byte t.
outcome(t, r, chunk) == [taken |-> t, reader |-> r, chunk |-> chunk]

withData(r, first, count) ==
    [expected |-> r.expected, half |-> 0, first |-> first, count |-> count]

\* A fault: readExpectedLen is not reset after a packet.
readData_keepsLength(t, r, n) ==
    LET first == IF r.count = 0 THEN t + 1 ELSE r.first
        count == r.count + n
    IN  IF n > 0 /\ count = r.expected
        THEN outcome(t + n, [emptyReader EXCEPT !.expected = r.expected],
                     [first |-> first, last |-> t + n, count |-> count])
        ELSE outcome(t + n, withData(r, IF count = 0 THEN 0 ELSE first, count), nothing)

\* chan.read(readBufData) puts n more bytes into reader r; a complete packet goes to
\* the callback.
readData(t, r, n) ==
    LET first == IF r.count = 0 THEN t + 1 ELSE r.first
        count == r.count + n
    IN  IF n > 0 /\ count = r.expected
        THEN outcome(t + n, emptyReader, [first |-> first, last |-> t + n, count |-> count])
        ELSE outcome(t + n, withData(r, IF count = 0 THEN 0 ELSE first, count), nothing)

\* A fault: the first byte of a length is forgotten when it comes alone.
readHalf_forgotten(t, r) ==
    IF r.expected = 0 /\ r.half = 0 THEN {outcome(t + 1, r, nothing)} ELSE {}

\* The first byte of a length alone.
readHalf(t, r) ==
    IF r.expected = 0 /\ r.half = 0
    THEN {outcome(t + 1, [emptyReader EXCEPT !.half = t + 1], nothing)} ELSE {}

\* The length of a packet is there at t, and in the same call what there is of its data
\* until byte w.  With any other length the call returns; a zero is forgotten at once.
readWithLength(t, w, len) ==
    LET r == [emptyReader EXCEPT !.expected = len]
    IN  IF len \in 1 .. MaxData
        THEN {readData(t, r, n) : n \in 0 .. lesser(len, w - t)}
        ELSE {outcome(t, r, nothing)}

\* The rest of a length.
readLength(s, t, w, r) ==
    LET b1  == IF r.half = 0 THEN t + 1 ELSE r.half
        b2  == IF r.half = 0 THEN t + 2 ELSE t + 1
    IN  IF r.expected = 0 /\ b2 <= w
        THEN UNION {readWithLength(b2, w, len) : len \in lengths(s, b1, b2)} ELSE {}

\* After a negative length nothing is read any more; a length above the capacity of the
\* buffer still reads until that is full, and never hands it over.
readMore(t, w, r) ==
    {readData(t, r, n) : n \in 1 .. lesser(lesser(r.expected, MaxData) - r.count, w - t)}

reads(s, t, w, r) ==
    IF t < w THEN readHalf(t, r) \cup readLength(s, t, w, r) \cup readMore(t, w, r) ELSE {}

handOver(s, chunk) ==
    got' = IF chunk = nothing THEN got ELSE [got EXCEPT ![s] = Append(@, chunk)]

handleRead(e) ==
    /\ ~writing[e] /\ ops[e] = "READ" /\ isConnected(e)
    /\ \E o \in reads(other(e), taken[other(e)], written[other(e)], reader[other(e)]) :
        /\ taken' = [taken EXCEPT ![other(e)] = o.taken]
        /\ reader' = [reader EXCEPT ![other(e)] = o.reader]
        /\ handOver(other(e), o.chunk)
    /\ UNCHANGED <<sender, selector, sockets, old>>

\* The key is writable: the loop of handleWrite begins.
write(e) ==
    /\ ~writing[e] /\ ops[e] = "WRITE"
    /\ chan[e] = "connected" => written[e] - taken[e] < Window[e]
    /\ writing' = [writing EXCEPT ![e] = TRUE]
    /\ UNCHANGED <<sender, calling, requests, ops, sockets, receiver>>

\* A fault: the size of the window is ignored.
handleWrite_ignoresWindow(e) ==
    /\ writing[e] /\ queued[e] > 0 /\ chan[e] = "connected"
    /\ written' = [written EXCEPT ![e] = Start[e][headPacket(e) + 1]]
    /\ queued' = [queued EXCEPT ![e] = @ - 1]
    /\ UNCHANGED <<accepted, selector, sockets, receiver>>

\* A fault: a write that was cut short counts as finished.
handleWrite_claimsFinished(e) ==
    LET rest == Start[e][headPacket(e) + 1] - written[e]
        n    == lesser(rest, Window[e] - (written[e] - taken[e]))
    IN  /\ writing[e] /\ queued[e] > 0 /\ chan[e] = "connected"
        /\ written' = [written EXCEPT ![e] = @ + n]
        /\ queued' = [queued EXCEPT ![e] = IF n = rest THEN @ - 1 ELSE @]
        /\ writing' = [writing EXCEPT ![e] = (n = rest)]
        /\ ops' = [ops EXCEPT ![e] = IF n = rest THEN @ ELSE "READ"]
        /\ UNCHANGED <<accepted, calling, requests, sockets, receiver>>

\* One chan.write: the rest of the head packet, or what the window takes of it.
handleWrite(e) ==
    LET rest == Start[e][headPacket(e) + 1] - written[e]
        n    == lesser(rest, Window[e] - (written[e] - taken[e]))
    IN  /\ writing[e] /\ queued[e] > 0 /\ chan[e] = "connected"
        /\ written' = [written EXCEPT ![e] = @ + n]
        /\ queued' = [queued EXCEPT ![e] = IF n = rest THEN @ - 1 ELSE @]
        /\ writing' = [writing EXCEPT ![e] = (n = rest)]
        /\ UNCHANGED <<accepted, calling, requests, ops, sockets, receiver>>

\* A fault: the interest stays OP_WRITE.
returnsTrue_keepsWriting(e) ==
    /\ writing' = [writing EXCEPT ![e] = FALSE]
    /\ ops' = ops

\* handleWrite returns true; a channel that is new since has no key yet.
returnsTrue(e) ==
    /\ writing' = [writing EXCEPT ![e] = FALSE]
    /\ ops' = [ops EXCEPT ![e] = IF @ = "NONE" THEN @ ELSE "READ"]

\* The queue is empty.
writeFinished(e) ==
    /\ writing[e] /\ queued[e] = 0
    /\ returnsTrue(e)
    /\ UNCHANGED <<sender, calling, requests, sockets, receiver>>

-----------------------------------------------------------------------------
\* The connection is lost, both ends find out, and the client connects again.

\* Until they find out they may read what has arrived; whatever is written is lost.
Loss ==
    /\ losses < MaxLosses
    /\ chan = [e \in Ends |-> "connected"]
    /\ chan' = [e \in Ends |-> "lost"]
    /\ losses' = losses + 1
    /\ UNCHANGED <<sender, selector, retry, receiver>>

\* Only the client has a remote address to reconnect to, and does it if data waits.
scheduleReconnect(e) == retry' = (retry \/ (e = Client /\ queued[e] > 0))

\* handleRead: an exception leaves the channel open, end of file closes it, and its key
\* is cancelled.  A reader that does not read any more does not find out.
readFails(e) ==
    /\ ~writing[e] /\ ops[e] = "READ" /\ chan[e] = "lost"
    /\ LET r == reader[other(e)]
       IN  r.expected = 0 \/ (r.expected > 0 /\ r.count < MaxData)
    /\ scheduleReconnect(e)
    /\ \/ UNCHANGED <<chan, ops>>
       \/ /\ chan' = [chan EXCEPT ![e] = "closed"]
          /\ ops' = [ops EXCEPT ![e] = "NONE"]
    /\ UNCHANGED <<sender, calling, requests, writing, losses, receiver>>

\* handleWrite: an exception makes it return true, with the packet in the queue.  The
\* channel may be lost, or may not be connected yet.
writeFails(e) ==
    /\ writing[e] /\ queued[e] > 0 /\ chan[e] # "connected"
    /\ scheduleReconnect(e)
    /\ returnsTrue(e)
    /\ UNCHANGED <<sender, calling, requests, chan, losses, receiver>>

\* doConnectionHouseKeeping finds the channel closed and the time come.
reconnect ==
    /\ chan[Client] = "closed" /\ retry /\ ~writing[Client]
    /\ newChannel(Client)
    /\ UNCHANGED <<sender, calling, writing, losses, receiver>>

\* finishConnect fails; the channel is closed with it.
connectFails ==
    /\ chan[Client] = "connecting" /\ ops[Client] = "CONNECT" /\ ~writing[Client]
    /\ scheduleReconnect(Client)
    /\ chan' = [chan EXCEPT ![Client] = "closed"]
    /\ ops' = [ops EXCEPT ![Client] = "NONE"]
    /\ UNCHANGED <<sender, calling, requests, writing, losses, receiver>>

\* finishConnect and accept.  The server has a new TCPConnection; one that it has not
\* found to be lost is kept beside it.  The client has the one it had: its reader is as
\* it was, and so is the first packet of its queue.  Of the server's bytes those of its
\* old queue are not going to come.
finishConnect ==
    LET skipped == Start[Server][accepted[Server] + 1]
        behind  == [taken |-> taken[Client], end |-> written[Client], reader |-> reader[Client]]
    IN  /\ chan[Client] = "connecting" /\ ops[Client] = "CONNECT" /\ \A e \in Ends : ~writing[e]
        /\ chan' = [e \in Ends |-> "connected"]
        /\ old' = IF chan[Server] = "lost" THEN old \cup {behind} ELSE old
        /\ queued' = [queued EXCEPT ![Server] = 0]
        /\ written' = [written EXCEPT ![Server] = skipped]
        /\ taken' = [e \in Ends |-> IF e = Server THEN skipped ELSE written[e]]
        /\ reader' = [reader EXCEPT ![Client] = emptyReader]
        /\ calling' = [calling EXCEPT ![Server] = "idle"]
        /\ requests' = [requests EXCEPT ![Server] = <<>>]
        /\ ops' = [e \in Ends |-> IF e = Client /\ queued[e] > 0 THEN "WRITE" ELSE "READ"]
        /\ UNCHANGED <<accepted, writing, retry, got, losses>>

\* handleRead of a connection that was kept, until the server finds it to be lost.
readOld ==
    /\ ~writing[Server]
    /\ \E c \in old : \E o \in reads(Client, c.taken, c.end, c.reader) :
        /\ old' = (old \ {c}) \cup {[taken |-> o.taken, end |-> c.end, reader |-> o.reader]}
        /\ handOver(Client, o.chunk)
    /\ UNCHANGED <<sender, selector, sockets, taken, reader>>

closeOld ==
    /\ \E c \in old : old' = old \ {c}
    /\ UNCHANGED <<sender, selector, sockets, taken, reader, got>>

-----------------------------------------------------------------------------

Init ==
    /\ accepted = [e \in Ends |-> 0] /\ queued = [e \in Ends |-> 0]
    /\ written = [e \in Ends |-> 0] /\ taken = [e \in Ends |-> 0]
    /\ calling = [e \in Ends |-> "idle"] /\ requests = [e \in Ends |-> <<>>]
    /\ ops = [e \in Ends |-> "READ"] /\ writing = [e \in Ends |-> FALSE]
    /\ chan = [e \in Ends |-> "connected"] /\ retry = FALSE /\ losses = 0
    /\ reader = [e \in Ends |-> emptyReader] /\ old = {}
    /\ got = [e \in Ends |-> <<>>]

SenderNext(e) ==
    Send(e) \/ AskConnected(e) \/ SendRequestsWrite(e) \/ SendWaits(e) \/ SendReconnects(e)

SelectorNext(e) ==
    \/ ChangeOps(e) \/ RegisterThrows(e) \/ handleRead(e)
    \/ write(e) \/ handleWrite(e) \/ writeFinished(e)
    \/ readFails(e) \/ writeFails(e)

Next ==
    \/ \E e \in Ends : SenderNext(e) \/ SelectorNext(e)
    \/ Loss \/ reconnect \/ Register \/ connectFails \/ finishConnect
    \/ readOld \/ closeOld

Spec == Init /\ [][Next]_vars

\* The selector threads go on, and so does a call of send that has begun.  Nothing is
\* assumed of reconnecting: it waits for an unrelated key to be selected.
Fairness ==
    \A e \in Ends :
        /\ WF_vars(AskConnected(e)) /\ WF_vars(SendRequestsWrite(e))
        /\ WF_vars(ChangeOps(e))
        /\ WF_vars(handleRead(e))
        /\ WF_vars(write(e)) /\ WF_vars(handleWrite(e)) /\ WF_vars(writeFinished(e))

LiveSpec == Spec /\ Fairness

-----------------------------------------------------------------------------

IsReader(r) ==
    /\ r = [expected |-> r.expected, half |-> r.half, first |-> r.first, count |-> r.count]
    /\ r.expected \in Int /\ r.half \in Nat /\ r.first \in Nat /\ r.count \in 0 .. MaxData
    /\ r.expected > 0 => r.half = 0 /\ r.count < r.expected
    /\ r.expected <= 0 => r.count = 0

IsOld(c) ==
    /\ c = [taken |-> c.taken, end |-> c.end, reader |-> c.reader]
    /\ c.taken \in Nat /\ c.end \in Nat /\ c.taken <= c.end
    /\ IsReader(c.reader)

\* Cursors are in order: the head of the queue is the packet that the write cursor is in,
\* and the window is not exceeded.
CursorsOK(e) ==
    /\ queued[e] <= accepted[e] /\ accepted[e] <= MaxPackets[e]
    /\ Start[e][headPacket(e)] <= written[e]
    /\ IF queued[e] = 0 THEN written[e] = Start[e][headPacket(e)]
                        ELSE written[e] < Start[e][headPacket(e) + 1]
    /\ taken[e] <= written[e] /\ written[e] - taken[e] <= Window[e]

\* Types, with the limit of the queue, and the cursors of handleWrite and handleRead.
TypeOK ==
    /\ accepted \in [Ends -> Nat]
    /\ queued \in [Ends -> 0 .. MaxQueue]
    /\ written \in [Ends -> Nat] /\ taken \in [Ends -> Nat]
    /\ calling \in [Ends -> {"idle", "queued", "connected", "unconnected"}]
    /\ requests \in [Ends -> Seq({"WRITE", "CONNECT"})]
    /\ ops \in [Ends -> {"NONE", "READ", "WRITE", "CONNECT"}] /\ writing \in [Ends -> BOOLEAN]
    /\ chan \in [Ends -> {"connected", "lost", "closed", "opened", "connecting"}]
    /\ retry \in BOOLEAN /\ losses \in 0 .. MaxLosses
    /\ DOMAIN reader = Ends /\ \A e \in Ends : IsReader(reader[e])
    /\ \A c \in old : IsOld(c)
    /\ got \in [Ends -> Seq(Chunk)]
    /\ \A e \in Ends : CursorsOK(e)

\* A connection was lost, or a packet of e that handleRead has no use for is the next.
Spoiled(e) ==
    \/ losses > 0
    \/ \E i \in 1 .. accepted[e] : ~fits(e, i) /\ i <= Len(got[e]) + 1

\* Where the reader of e is in the frame of packet i, all of whose bytes until there it
\* has got from this connection.
InFrame(e, i) ==
    LET r == reader[e]
    IN  \/ r = emptyReader /\ taken[e] = Start[e][i]
        \/ /\ r = [emptyReader EXCEPT !.half = Start[e][i] + 1]
           /\ taken[e] = Start[e][i] + 1
        \/ /\ i <= MaxPackets[e] /\ r.expected = dataLen(e, i) /\ r.half = 0
           /\ r.count < r.expected /\ taken[e] = Start[e][i] + 2 + r.count
           /\ r.first = IF r.count = 0 THEN 0 ELSE Start[e][i] + 3

\* As long as no connection was lost and packets fit, both ends agree on where frames
\* begin: handleRead never takes data for a length or the other way round, wherever
\* partial reads and writes cut the stream (TCPConnection.handleRead, handleWrite).
ReaderInStep ==
    \A e \in Ends : ~Spoiled(e) => Len(got[e]) <= accepted[e] /\ InFrame(e, Len(got[e]) + 1)

writeRequested(e) == \E k \in 1 .. Len(requests[e]) : requests[e][k] = "WRITE"

\* While a connection is up and packets wait in its queue somebody is going to write: the
\* sender that queued the last one, a request, or the interest of the key, whatever the
\* order of send, handleWrite, the loss of earlier connections and the making of this
\* one (TCPConnection.send, NIOSelectorThread.write, finishConnect).
QueuedIsAttended ==
    \A e \in Ends : queued[e] > 0 /\ chan[e] = "connected" =>
        calling[e] # "idle" \/ ops[e] = "WRITE" \/ writeRequested(e)

\* What was handed over, as packet numbers.
packetOf(e, c) ==
    LET same == {i \in 1 .. MaxPackets[e] : c = payload(e, i)}
    IN  IF same = {} THEN 0 ELSE CHOOSE i \in same : TRUE

deliveredPackets ==
    [e \in Ends |-> [k \in 1 .. Len(got[e]) |-> packetOf(e, got[e][k])]]

unfitPackets == UNION {{<<e, i>> : i \in {j \in 1 .. MaxPackets[e] : ~fits(e, j)}} : e \in Ends}

Channel == INSTANCE PacketChannel
            WITH Unfit <- unfitPackets, delivered <- deliveredPackets, intact <- (losses = 0)

\* The two ends implement the channel their users count on: what send accepted comes out
\* whole, once and in order until a connection is lost or a packet comes that does not
\* fit, and after that nothing comes twice, although a half sent packet stays in the
\* queue and the server may still read an old connection (TCPConnection.handleWrite).
ImplementsChannel == Channel!ChanSpec

\* What send accepted is handed over in the end while no connection is lost and the packets
\* of that end fit, although those of the other one may not.  One direction has to hold all
\* that is sent in it: with both ends writing and both windows full each would wait for the
\* other to read (NIOSelectorThread.write).
AcceptedIsDelivered ==
    \A e \in Ends : \A n \in 1 .. MaxPackets[e] :
        accepted[e] >= n ~> Len(got[e]) >= n \/ Spoiled(e)

\* The first thing in an element of sendQueue is its length (TCPConnection.java:42), and
\* handleRead takes it for that: what is handed over is a packet that was sent.
OnlyWholePackets ==
    \A e \in Ends : \A k \in 1 .. Len(got[e]) :
        \E i \in 1 .. accepted[e] : got[e][k] = payload(e, i)
=============================================================================
