------------------------- MODULE TCPConnection_proofs -------------------------
(***************************************************************************)
(* Proofs about TCPConnection: its invariants, and that it implements       *)
(* PacketChannel.                                                           *)
(***************************************************************************)
EXTENDS TCPConnection, TLAPS

\* Nothing was handed over that ends after the last byte taken.
GotBefore(e) == \A k \in 1 .. Len(got[e]) : got[e][k].last <= taken[e]

\* As long as the packets of e fit and none was lost, those handed over are those sent,
\* in order.
GotWhole(e) == \A k \in 1 .. Len(got[e]) : got[e][k] = payload(e, k)

InStep(e) == Len(got[e]) <= accepted[e] /\ InFrame(e, Len(got[e]) + 1) /\ GotWhole(e)

\* What two connections that were kept may still read is apart, and apart from what the
\* present one reads and from the last bytes of what was handed over.
OldApart ==
    /\ \A c \in old : c.end <= taken[Client]
    /\ \A c, d \in old : c # d => c.end <= d.taken \/ d.end <= c.taken
    /\ \A c \in old : \A k \in 1 .. Len(got[Client]) :
            got[Client][k].last <= c.taken \/ c.end < got[Client][k].last

\* The states of channels and calls that go with losses, keys and the selector thread.
ChannelSane ==
    /\ losses = 0 => /\ chan = [e \in Ends |-> "connected"] /\ old = {}
                     /\ \A e \in Ends : calling[e] # "unconnected"
    /\ \A e \in Ends : chan[e] = "connected" => ops[e] \in {"READ", "WRITE"}
    /\ \A e \in Ends : chan[e] = "connected" /\ writing[e] => ops[e] = "WRITE"

IInv ==
    /\ TypeOK
    /\ \A e \in Ends : GotBefore(e) /\ (~Spoiled(e) => InStep(e))
    /\ OldApart
    /\ ChannelSane
    /\ QueuedIsAttended

-----------------------------------------------------------------------------
LEMMA Bounds ==
    /\ MaxData \in Nat /\ MaxShort \in Nat /\ MaxData <= MaxShort
    /\ MaxQueue \in Nat /\ MaxLosses \in Nat
    /\ Client # Server
    /\ \A e \in Ends : Window[e] \in Nat /\ Window[e] > 0 /\ MaxPackets[e] \in Nat
BY TCPAssumption

\* Frames follow each other: a later one begins after the end of an earlier one.
LEMMA Frames ==
    ASSUME NEW e \in Ends
    PROVE  /\ \A i \in 1 .. MaxPackets[e] + 1 : Start[e][i] \in Nat
           /\ \A i, j \in 1 .. MaxPackets[e] + 1 :
                /\ i < j => Start[e][i] < Start[e][j]
                /\ Start[e][i] < Start[e][j] => i < j
                /\ Start[e][i] = Start[e][j] => i = j
           /\ \A i \in 1 .. MaxPackets[e] :
                /\ dataLen(e, i) \in Nat
                /\ Start[e][i + 1] = Start[e][i] + 2 + dataLen(e, i)
           /\ Start[e][1] = 0 /\ MaxPackets[e] \in Nat
<1>1. MaxPackets[e] \in Nat /\ Start[e] \in [1 .. MaxPackets[e] + 1 -> Nat]
  BY TCPAssumption
<1>2. \A i \in 1 .. MaxPackets[e] + 1 : Start[e][i] \in Nat
  BY <1>1
<1>3. \A i, j \in 1 .. MaxPackets[e] + 1 : i < j => Start[e][i] + 2 <= Start[e][j]
  BY TCPAssumption
<1>4. \A i, j \in 1 .. MaxPackets[e] + 1 : i < j => Start[e][i] < Start[e][j]
  BY <1>2, <1>3
<1>5. \A i \in 1 .. MaxPackets[e] :
        i \in 1 .. MaxPackets[e] + 1 /\ i + 1 \in 1 .. MaxPackets[e] + 1
  BY <1>1
<1>6. ASSUME NEW i \in 1 .. MaxPackets[e] + 1, NEW j \in 1 .. MaxPackets[e] + 1
      PROVE  /\ Start[e][i] < Start[e][j] => i < j
             /\ Start[e][i] = Start[e][j] => i = j
  <2>1. i < j \/ i = j \/ j < i
    BY <1>1
  <2>2. Start[e][i] \in Nat /\ Start[e][j] \in Nat
    BY <1>2
  <2>3. j < i => Start[e][j] < Start[e][i]
    BY <1>4
  <2>4. i < j => Start[e][i] < Start[e][j]
    BY <1>4
  <2> QED BY <2>1, <2>2, <2>3, <2>4, <1>1
<1>7. \A i \in 1 .. MaxPackets[e] :
        /\ dataLen(e, i) \in Nat
        /\ Start[e][i + 1] = Start[e][i] + 2 + dataLen(e, i)
  <2> SUFFICES ASSUME NEW i \in 1 .. MaxPackets[e]
               PROVE  /\ dataLen(e, i) \in Nat
                      /\ Start[e][i + 1] = Start[e][i] + 2 + dataLen(e, i)
    OBVIOUS
  <2>1. Start[e][i] \in Nat /\ Start[e][i + 1] \in Nat
    BY <1>2, <1>5
  <2>2. Start[e][i] + 2 <= Start[e][i + 1]
    BY <1>1, <1>3, <1>5
  <2> QED BY <2>1, <2>2 DEF dataLen
<1>8. Start[e][1] = 0
  BY TCPAssumption
<1> QED BY <1>1, <1>2, <1>4, <1>6, <1>7, <1>8

\* A length that fits is read as it was.
LEMMA FittingLength ==
    ASSUME NEW n \in 1 .. MaxData
    PROVE  asShort(n) = n
<1>1. n + MaxShort + 1 \in 0 .. (2 * MaxShort + 2) - 1
  BY Bounds
<1>2. \A m \in Nat \ {0} : \A a \in 0 .. m - 1 : a % m = a
  OBVIOUS
<1>3. (n + MaxShort + 1) % (2 * MaxShort + 2) = n + MaxShort + 1
  <2>1. 2 * MaxShort + 2 \in Nat \ {0}
    BY Bounds
  <2> QED BY <1>1, <1>2, <2>1
<1> QED BY <1>3, Bounds DEF asShort

LEMMA ShortIsInt ==
    ASSUME NEW n \in Nat
    PROVE  asShort(n) \in Int
<1>1. \A m \in Nat \ {0}, a \in Nat : a % m \in Int
  OBVIOUS
<1>2. 2 * MaxShort + 2 \in Nat \ {0} /\ n + MaxShort + 1 \in Nat
  BY Bounds
<1>3. (n + MaxShort + 1) % (2 * MaxShort + 2) \in Int
  BY <1>1, <1>2
<1> QED BY <1>3, Bounds DEF asShort

\* A packet is told from another by what is handed over of it.
LEMMA PacketOfPayload ==
    ASSUME NEW e \in Ends, NEW i \in 1 .. MaxPackets[e]
    PROVE  packetOf(e, payload(e, i)) = i
<1>1. \A j \in 1 .. MaxPackets[e] : payload(e, j) = payload(e, i) => j = i
  <2> SUFFICES ASSUME NEW j \in 1 .. MaxPackets[e], payload(e, j) = payload(e, i)
               PROVE  j = i
    OBVIOUS
  <2>1. payload(e, j).last = payload(e, i).last
    OBVIOUS
  <2>2. Start[e][j + 1] = Start[e][i + 1]
    BY <2>1 DEF payload
  <2>3. i + 1 \in 1 .. MaxPackets[e] + 1 /\ j + 1 \in 1 .. MaxPackets[e] + 1
    BY TCPAssumption
  <2> QED BY <2>2, <2>3, Frames
<1>2. {j \in 1 .. MaxPackets[e] : payload(e, i) = payload(e, j)} = {i}
  BY <1>1
<1> QED BY <1>2 DEF packetOf

\* What packetOf says is no packet, or the packet whose last byte is last.
LEMMA PacketOfChunk ==
    ASSUME NEW e \in Ends, NEW c
    PROVE  /\ packetOf(e, c) \in 0 .. MaxPackets[e]
           /\ packetOf(e, c) # 0 => c.last = Start[e][packetOf(e, c) + 1]
<1> DEFINE same == {i \in 1 .. MaxPackets[e] : c = payload(e, i)}
<1>1. CASE same = {}
  BY <1>1, TCPAssumption DEF packetOf
<1>2. CASE same # {}
  <2>1. packetOf(e, c) \in same
    BY <1>2 DEF packetOf
  <2>2. packetOf(e, c) \in 1 .. MaxPackets[e] /\ c = payload(e, packetOf(e, c))
    BY <2>1
  <2> QED BY <2>2 DEF payload
<1> QED BY <1>1, <1>2

-----------------------------------------------------------------------------
\* Reading.

\* What a read makes of a reader at byte t, with bytes until w: bytes are taken, and there
\* is at most one packet, which ends with the last of them.
IsOutcome(t, w, o) ==
    /\ o.taken \in Nat /\ t < o.taken /\ o.taken <= w
    /\ IsReader(o.reader)
    /\ o.chunk # nothing => o.chunk \in Chunk /\ o.chunk.last = o.taken

LEMMA EmptyIsReader == IsReader(emptyReader)
BY Bounds DEF IsReader, emptyReader

LEMMA ReadDataOutcome ==
    ASSUME NEW t \in Nat, NEW r, IsReader(r), r.expected > 0,
           NEW n \in Nat, n <= r.expected - r.count, n <= MaxData - r.count
    PROVE  /\ readData(t, r, n).taken = t + n
           /\ IsReader(readData(t, r, n).reader)
           /\ LET c == readData(t, r, n).chunk
              IN  c # nothing => c \in Chunk /\ c.last = t + n
<1> DEFINE first == IF r.count = 0 THEN t + 1 ELSE r.first
           count == r.count + n
           c     == [first |-> first, last |-> t + n, count |-> count]
           more  == withData(r, IF count = 0 THEN 0 ELSE first, count)
<1>1. /\ r = [expected |-> r.expected, half |-> r.half, first |-> r.first, count |-> r.count]
      /\ r.expected \in Int /\ r.half = 0 /\ r.first \in Nat /\ r.count \in Nat
      /\ r.count < r.expected /\ MaxData \in Nat
  BY Bounds DEF IsReader
<1>2. first \in Nat /\ count \in 0 .. MaxData /\ count <= r.expected /\ t + n \in Nat
  BY <1>1
<1>3. CASE n > 0 /\ count = r.expected
  <2>1. readData(t, r, n) = outcome(t + n, emptyReader, c)
    BY <1>3 DEF readData
  <2>2. c \in Chunk /\ c.last = t + n
    BY <1>2 DEF Chunk
  <2> HIDE DEF c
  <2> QED BY <2>1, <2>2, EmptyIsReader DEF outcome
<1>4. CASE ~(n > 0 /\ count = r.expected)
  <2>1. readData(t, r, n) = outcome(t + n, more, nothing)
    BY <1>4 DEF readData
  <2>2. count < r.expected
    BY <1>1, <1>2, <1>4
  <2>3. more = [expected |-> r.expected, half |-> 0,
                first |-> IF count = 0 THEN 0 ELSE first, count |-> count]
    BY DEF withData
  <2>4. IsReader(more)
    <3>1. /\ more.expected = r.expected /\ more.half = 0 /\ more.count = count
          /\ more.first \in Nat
          /\ more = [expected |-> more.expected, half |-> more.half,
                     first |-> more.first, count |-> more.count]
      BY <2>3, <1>2
    <3> HIDE DEF more, count
    <3> QED BY <3>1, <2>2, <1>1, <1>2 DEF IsReader
  <2> HIDE DEF more
  <2> QED BY <2>1, <2>4 DEF outcome
<1> QED BY <1>3, <1>4

\* The length in a header is some number.
LEMMA Lengths ==
    ASSUME NEW s \in Ends, NEW b1, NEW b2, NEW len \in lengths(s, b1, b2)
    PROVE  len \in Int
BY Frames, ShortIsInt, Bounds DEF lengths, shorts

LEMMA ReadOutcomes ==
    ASSUME NEW s \in Ends, NEW t \in Nat, NEW w \in Nat, NEW r, IsReader(r),
           NEW o \in reads(s, t, w, r)
    PROVE  IsOutcome(t, w, o)
<1>1. t < w /\ o \in readHalf(t, r) \cup readLength(s, t, w, r) \cup readMore(t, w, r)
  BY DEF reads
<1>2. /\ r.expected \in Int /\ r.count \in Nat /\ r.count <= MaxData /\ MaxData \in Nat
  BY Bounds DEF IsReader
<1>3. CASE o \in readHalf(t, r)
  <2> DEFINE q == [emptyReader EXCEPT !.half = t + 1]
  <2>1. o = outcome(t + 1, q, nothing)
    BY <1>3 DEF readHalf
  <2>2. IsReader(q)
    BY Bounds DEF IsReader, emptyReader
  <2> HIDE DEF q
  <2> QED BY <1>1, <2>1, <2>2 DEF outcome, IsOutcome
<1>4. CASE o \in readLength(s, t, w, r)
  <2> DEFINE b1 == IF r.half = 0 THEN t + 1 ELSE r.half
             b2 == IF r.half = 0 THEN t + 2 ELSE t + 1
  <2>1. b2 <= w /\ o \in UNION {readWithLength(b2, w, len) : len \in lengths(s, b1, b2)}
    BY <1>4 DEF readLength
  <2>2. b2 \in Nat /\ t < b2
    OBVIOUS
  <2> HIDE DEF b1, b2
  <2>3. PICK len \in lengths(s, b1, b2) : o \in readWithLength(b2, w, len)
    BY <2>1
  <2> DEFINE q == [emptyReader EXCEPT !.expected = len]
  <2>4. len \in Int
    BY Lengths
  <2>5. q = [expected |-> len, half |-> 0, first |-> 0, count |-> 0]
    BY DEF emptyReader
  <2>6. IsReader(q) /\ q.expected = len /\ q.count = 0
    BY <2>4, <2>5, Bounds DEF IsReader
  <2>7. CASE len \in 1 .. MaxData
    <3>1. PICK n \in 0 .. lesser(len, w - b2) : o = readData(b2, q, n)
      BY <2>3, <2>7 DEF readWithLength
    <3>2. n \in Nat /\ n <= len /\ n <= w - b2
      BY <2>2, <2>4, <2>7 DEF lesser
    <3> HIDE DEF q
    <3>3. q.expected > 0 /\ n <= q.expected - q.count /\ n <= MaxData - q.count
      BY <2>6, <2>7, <3>2, <1>2
    <3>4. /\ o.taken = b2 + n /\ IsReader(o.reader)
          /\ o.chunk # nothing => o.chunk \in Chunk /\ o.chunk.last = b2 + n
      BY <3>1, <3>2, <3>3, <2>2, <2>6, ReadDataOutcome
    <3> QED BY <3>2, <3>4, <2>2 DEF IsOutcome
  <2>8. CASE len \notin 1 .. MaxData
    <3>1. o = outcome(b2, q, nothing)
      BY <2>3, <2>8 DEF readWithLength
    <3> HIDE DEF q
    <3> QED BY <3>1, <2>1, <2>2, <2>6 DEF outcome, IsOutcome
  <2> QED BY <2>7, <2>8
<1>5. CASE o \in readMore(t, w, r)
  <2>1. PICK n \in 1 .. lesser(lesser(r.expected, MaxData) - r.count, w - t) :
            o = readData(t, r, n)
    BY <1>5 DEF readMore
  <2>2. /\ lesser(r.expected, MaxData) \in Int
        /\ lesser(r.expected, MaxData) <= r.expected /\ lesser(r.expected, MaxData) <= MaxData
    BY <1>2 DEF lesser
  <2>3. /\ n \in Nat /\ n > 0 /\ n <= lesser(r.expected, MaxData) - r.count /\ n <= w - t
    BY <1>2, <2>1, <2>2 DEF lesser
  <2>4. n <= r.expected - r.count /\ n <= MaxData - r.count /\ r.expected > 0
    BY <1>2, <2>2, <2>3
  <2>5. /\ o.taken = t + n /\ IsReader(o.reader)
        /\ o.chunk # nothing => o.chunk \in Chunk /\ o.chunk.last = t + n
    BY <2>1, <2>3, <2>4, ReadDataOutcome
  <2> QED BY <2>3, <2>5 DEF IsOutcome
<1> QED BY <1>1, <1>3, <1>4, <1>5

-----------------------------------------------------------------------------
\* Framing.

\* Only frames of accepted packets are written.
LEMMA WrittenIsAccepted ==
    ASSUME TypeOK, NEW e \in Ends
    PROVE  /\ accepted[e] \in Nat /\ queued[e] \in Nat /\ accepted[e] <= MaxPackets[e]
           /\ headPacket(e) \in 1 .. MaxPackets[e] + 1
           /\ queued[e] > 0 => headPacket(e) \in 1 .. MaxPackets[e]
           /\ written[e] <= Start[e][accepted[e] + 1]
<1>1. /\ accepted[e] \in Nat /\ queued[e] \in Nat /\ queued[e] <= accepted[e]
      /\ accepted[e] <= MaxPackets[e] /\ written[e] \in Nat
      /\ IF queued[e] = 0 THEN written[e] = Start[e][headPacket(e)]
                          ELSE written[e] < Start[e][headPacket(e) + 1]
  BY Bounds DEF TypeOK, CursorsOK
<1>2. /\ headPacket(e) \in 1 .. MaxPackets[e] + 1
      /\ queued[e] > 0 => headPacket(e) \in 1 .. MaxPackets[e]
  BY <1>1, Bounds DEF headPacket
<1>3. CASE queued[e] = 0
  <2>1. headPacket(e) = accepted[e] + 1
    BY <1>1, <1>3 DEF headPacket
  <2>2. written[e] = Start[e][accepted[e] + 1]
    BY <1>1, <1>3, <2>1
  <2> QED BY <1>1, <1>2, <2>2, Bounds
<1>4. CASE queued[e] # 0
  <2> DEFINE h == headPacket(e) + 1
             a == accepted[e] + 1
  <2>1. h \in 1 .. MaxPackets[e] + 1 /\ a \in 1 .. MaxPackets[e] + 1 /\ h <= a
    <3>1. queued[e] >= 1
      BY <1>1, <1>4
    <3>2. h = accepted[e] - queued[e] + 2
      BY <1>1 DEF headPacket
    <3> HIDE DEF h
    <3> QED BY <1>1, <3>1, <3>2, Bounds
  <2>2. Start[e][h] \in Nat /\ Start[e][a] \in Nat
    BY <2>1, Frames
  <2>3. h < a => Start[e][h] < Start[e][a]
    BY <2>1, Frames
  <2>4. h = a \/ h < a
    BY <2>1
  <2>5. Start[e][h] <= Start[e][a]
    BY <2>2, <2>3, <2>4
  <2>6. written[e] < Start[e][h]
    BY <1>1, <1>4
  <2> HIDE DEF h
  <2> QED BY <1>1, <1>2, <2>2, <2>5, <2>6, Bounds
<1> QED BY <1>3, <1>4

\* If there is something to read, it belongs to a packet that was accepted.
LEMMA NextIsAccepted ==
    ASSUME TypeOK, NEW s \in Ends, InStep(s), taken[s] < written[s]
    PROVE  Len(got[s]) + 1 \in 1 .. accepted[s] /\ Len(got[s]) + 1 \in 1 .. MaxPackets[s]
<1> DEFINE i == Len(got[s]) + 1
<1>1. /\ Len(got[s]) \in Nat /\ taken[s] \in Nat /\ written[s] \in Nat
      /\ accepted[s] \in Nat /\ accepted[s] <= MaxPackets[s]
      /\ written[s] <= Start[s][accepted[s] + 1] /\ Len(got[s]) <= accepted[s]
  BY WrittenIsAccepted DEF TypeOK, CursorsOK, InStep
<1>2. i \in 1 .. MaxPackets[s] + 1 /\ accepted[s] + 1 \in 1 .. MaxPackets[s] + 1
  BY <1>1, Bounds
<1>3. Start[s][i] \in Nat /\ Start[s][accepted[s] + 1] \in Nat
  BY <1>2, Frames
<1>4. Start[s][i] <= taken[s]
  <2>1. InFrame(s, i)
    BY DEF InStep
  <2>2. CASE reader[s] = emptyReader /\ taken[s] = Start[s][i]
    BY <2>2, <1>3
  <2>3. CASE taken[s] = Start[s][i] + 1
    BY <2>3, <1>3
  <2>4. CASE taken[s] = Start[s][i] + 2 + reader[s].count
    <3>1. reader[s].count \in Nat
      BY Bounds DEF TypeOK, CursorsOK, IsReader
    <3> HIDE DEF i
    <3> QED BY <2>4, <3>1, <1>3
  <2> HIDE DEF i
  <2> QED BY <2>1, <2>2, <2>3, <2>4 DEF InFrame
<1>5. Start[s][i] < Start[s][accepted[s] + 1]
  BY <1>1, <1>3, <1>4
<1>6. i < accepted[s] + 1
  BY <1>2, <1>5, Frames
<1>7. i \in Nat /\ i >= 1
  BY <1>1
<1> HIDE DEF i
<1>8. i \in 1 .. accepted[s] /\ i \in 1 .. MaxPackets[s]
  BY <1>1, <1>6, <1>7, Bounds
<1> QED BY <1>8 DEF i

\* What a step makes of the side of the receiver of the bytes of s.
Receives(s, o) ==
    /\ taken'[s] = o.taken /\ reader'[s] = o.reader
    /\ got'[s] = IF o.chunk = nothing THEN got[s] ELSE Append(got[s], o.chunk)

LEMMA ReadDataInStep ==
    ASSUME TypeOK, NEW s \in Ends, InStep(s), accepted' = accepted,
           NEW i, i = Len(got[s]) + 1, i \in 1 .. accepted[s],
           NEW r, r.count \in Nat, r.expected = dataLen(s, i), r.count < r.expected,
           r.first = IF r.count = 0 THEN 0 ELSE Start[s][i] + 3,
           NEW t \in Nat, t = Start[s][i] + 2 + r.count,
           NEW n \in Nat, n <= r.expected - r.count, Receives(s, readData(t, r, n))
    PROVE  InStep(s)'
<1> DEFINE first == IF r.count = 0 THEN t + 1 ELSE r.first
           last  == t + n
           count == r.count + n
           c     == [first |-> first, last |-> last, count |-> count]
<1>1. /\ got \in [Ends -> Seq(Chunk)] /\ accepted[s] \in 0 .. MaxPackets[s]
  BY Bounds DEF TypeOK, CursorsOK
<1>2. i \in 1 .. MaxPackets[s] /\ i + 1 \in 1 .. MaxPackets[s] + 1 /\ i \in 1 .. MaxPackets[s] + 1
  BY <1>1, Bounds
<1>3. /\ dataLen(s, i) \in Nat /\ Start[s][i] \in Nat
      /\ Start[s][i + 1] = Start[s][i] + 2 + dataLen(s, i)
  BY <1>2, Frames
<1>5. first = Start[s][i] + 3 \/ r.count + n = 0
  <2>1. CASE r.count = 0
    <3>1. t + 1 = Start[s][i] + 3
      <4>1. \A a \in Nat : (a + 2 + 0) + 1 = a + 3
        OBVIOUS
      <4>2. t = Start[s][i] + 2 + 0
        BY <2>1
      <4> QED BY <1>3, <4>1, <4>2
    <3> QED BY <2>1, <3>1
  <2>2. CASE r.count # 0
    BY <2>2
  <2> QED BY <2>1, <2>2
<1>6. last = Start[s][i] + 2 + count /\ count \in Nat /\ count <= dataLen(s, i)
  <2>2. count \in Nat /\ count <= dataLen(s, i)
    BY <1>3
  <2>5. t + n = Start[s][i] + 2 + count
    <3>1. \A a, b, d \in Nat : (a + 2 + b) + d = a + 2 + (b + d)
      OBVIOUS
    <3>2. PICK a, b \in Nat : a = Start[s][i] /\ b = r.count
      BY <1>3
    <3>3. t = a + 2 + b
      BY <3>2
    <3>4. t + n = a + 2 + (b + n)
      BY <3>1, <3>3
    <3> QED BY <3>2, <3>4
  <2> QED BY <2>2, <2>5
<1>7. CASE n > 0 /\ count = r.expected
  <2>a. readData(t, r, n) = outcome(last, emptyReader, c)
    BY <1>7 DEF readData
  <2>b. c # nothing
    <3>1. c.count # 0
      BY <1>7
    <3> HIDE DEF c
    <3> QED BY <3>1 DEF nothing
  <2>1. reader'[s] = emptyReader /\ got'[s] = Append(got[s], c) /\ taken'[s] = last
    <3> HIDE DEF c, last
    <3>1. /\ readData(t, r, n).taken = last /\ readData(t, r, n).reader = emptyReader
          /\ readData(t, r, n).chunk = c
      BY <2>a DEF outcome
    <3> QED BY <2>b, <3>1 DEF Receives
  <2>2. c = payload(s, i)
    <3>1. first = Start[s][i] + 3 /\ last = Start[s][i + 1] /\ count = dataLen(s, i)
      BY <1>3, <1>5, <1>6, <1>7
    <3> HIDE DEF first, last, count
    <3> QED BY <3>1 DEF payload
  <2>3. Len(got'[s]) = i
    BY <2>1, <1>1
  <2>4. \A k \in 1 .. i : got'[s][k] = payload(s, k)
    <3>1. \A k \in 1 .. Len(got[s]) : got[s][k] = payload(s, k)
      BY DEF InStep, GotWhole
    <3>2. Len(got[s]) = i - 1 /\ Len(got[s]) \in Nat /\ got[s] \in Seq(Chunk)
      BY <1>1
    <3>3. /\ \A k \in 1 .. i - 1 : got'[s][k] = got[s][k]
          /\ got'[s][i] = c
      BY <2>1, <3>2
    <3> HIDE DEF c
    <3>4. ASSUME NEW k \in 1 .. i PROVE k = i \/ k \in 1 .. i - 1
      BY <1>2
    <3>5. \A k \in 1 .. i - 1 : got[s][k] = payload(s, k)
      BY <3>1, <3>2
    <3> QED BY <2>2, <3>3, <3>4, <3>5, Zenon
  <2>5. GotWhole(s)'
    BY <2>3, <2>4 DEF GotWhole, payload, dataLen
  <2>6. taken'[s] = Start[s][i + 1]
    BY <1>3, <1>6, <1>7, <2>1
  <2>7. InFrame(s, i + 1)'
    BY <2>1, <2>6 DEF InFrame
  <2> QED BY <2>3, <2>5, <2>7 DEF InStep
<1>8. CASE ~(n > 0 /\ count = r.expected)
  <2> DEFINE q == withData(r, IF count = 0 THEN 0 ELSE first, count)
  <2>a. readData(t, r, n) = outcome(last, q, nothing)
    BY <1>8 DEF readData
  <2>1. reader'[s] = q /\ got'[s] = got[s] /\ taken'[s] = last
    <3> HIDE DEF q, last
    <3> QED BY <2>a DEF Receives, outcome
  <2>2. count < dataLen(s, i)
    BY <1>3, <1>6, <1>8
  <2>3. i <= MaxPackets[s]
    BY <1>2, Bounds
  <2>4. InFrame(s, i)'
    BY <1>5, <1>6, <2>1, <2>2, <2>3 DEF InFrame, dataLen, withData
  <2>5. GotWhole(s)'
    BY <2>1 DEF InStep, GotWhole, payload, dataLen
  <2> QED BY <2>1, <2>4, <2>5 DEF InStep
<1> QED BY <1>7, <1>8

\* The two bytes of the length of a packet that fits are taken for just that.
LEMMA HeaderLength ==
    ASSUME NEW s \in Ends, NEW i \in 1 .. MaxPackets[s], fits(s, i)
    PROVE  lengths(s, Start[s][i] + 1, Start[s][i] + 2) = {dataLen(s, i)}
<1> DEFINE frames == {j \in 1 .. MaxPackets[s] : /\ Start[s][i] + 1 = Start[s][j] + 1
                                                 /\ Start[s][i] + 2 = Start[s][j] + 2}
<1>1. /\ i \in 1 .. MaxPackets[s] + 1
      /\ \A j \in 1 .. MaxPackets[s] : j \in 1 .. MaxPackets[s] + 1
  BY Bounds
<1>2. ASSUME NEW j \in 1 .. MaxPackets[s], Start[s][i] + 1 = Start[s][j] + 1
      PROVE  j = i
  <2>1. Start[s][i] \in Nat /\ Start[s][j] \in Nat
    BY <1>1, Frames
  <2>2. Start[s][i] = Start[s][j]
    BY <2>1, <1>2
  <2> QED BY <1>1, <2>2, Frames
<1>3. frames = {i}
  BY <1>2
<1>4. {asShort(dataLen(s, j)) : j \in frames} = {asShort(dataLen(s, i))}
  BY <1>3
<1>5. asShort(dataLen(s, i)) = dataLen(s, i)
  BY FittingLength DEF fits
<1> QED BY <1>3, <1>4, <1>5 DEF lengths

LEMMA ReadInStep ==
    ASSUME TypeOK, NEW s \in Ends, InStep(s), accepted' = accepted,
           fits(s, Len(got[s]) + 1),
           NEW o \in reads(s, taken[s], written[s], reader[s]), Receives(s, o)
    PROVE  InStep(s)'
<1> DEFINE r == reader[s]
           t == taken[s]
           w == written[s]
<1>a. t < w /\ o \in readHalf(t, r) \cup readLength(s, t, w, r) \cup readMore(t, w, r)
  BY DEF reads
<1>0. PICK i : i = Len(got[s]) + 1
  OBVIOUS
<1>1. i \in 1 .. accepted[s] /\ i \in 1 .. MaxPackets[s] /\ i \in 1 .. MaxPackets[s] + 1
  BY <1>0, <1>a, NextIsAccepted, Bounds
<1>2. t \in Nat /\ w \in Nat /\ IsReader(r)
  BY DEF TypeOK, CursorsOK
<1>3. /\ dataLen(s, i) \in 1 .. MaxData /\ Start[s][i] \in Nat
      /\ Start[s][i + 1] = Start[s][i] + 2 + dataLen(s, i)
  BY <1>0, <1>1, Frames DEF fits
<1>4. InFrame(s, i) /\ GotWhole(s) /\ Len(got[s]) <= accepted[s]
  BY <1>0 DEF InStep
<1>5. CASE o \in readHalf(t, r)
  <2> DEFINE q == [emptyReader EXCEPT !.half = t + 1]
  <2>1. o = outcome(t + 1, q, nothing) /\ r.expected = 0 /\ r.half = 0
    BY <1>5 DEF readHalf
  <2>2. r = emptyReader /\ t = Start[s][i]
    BY <2>1, <1>3, <1>4 DEF InFrame, emptyReader
  <2>3. reader'[s] = q /\ taken'[s] = t + 1 /\ got'[s] = got[s]
    <3> HIDE DEF q
    <3> QED BY <2>1 DEF Receives, outcome
  <2>5. InFrame(s, i)'
    BY <2>2, <2>3 DEF InFrame
  <2> QED BY <2>3, <2>5, <1>0, <1>4 DEF InStep, GotWhole, payload, dataLen
<1>6. CASE o \in readLength(s, t, w, r)
  <2> DEFINE b1 == IF r.half = 0 THEN t + 1 ELSE r.half
             b2 == IF r.half = 0 THEN t + 2 ELSE t + 1
  <2>1. /\ r.expected = 0 /\ b2 <= w
        /\ o \in UNION {readWithLength(b2, w, len) : len \in lengths(s, b1, b2)}
    BY <1>6 DEF readLength
  <2>2. b1 = Start[s][i] + 1 /\ b2 = Start[s][i] + 2
    <3>1. CASE r = emptyReader /\ t = Start[s][i]
      BY <3>1 DEF emptyReader
    <3>2. CASE /\ r = [emptyReader EXCEPT !.half = Start[s][i] + 1]
               /\ t = Start[s][i] + 1
      BY <3>2, <1>3 DEF emptyReader
    <3> QED BY <2>1, <3>1, <3>2, <1>3, <1>4 DEF InFrame
  <2> HIDE DEF b1, b2
  <2>3. lengths(s, b1, b2) = {dataLen(s, i)}
    BY <2>2, <1>0, <1>1, HeaderLength
  <2>4. o \in readWithLength(b2, w, dataLen(s, i))
    BY <2>1, <2>3
  <2> DEFINE q == [emptyReader EXCEPT !.expected = dataLen(s, i)]
  <2>5. q.expected = dataLen(s, i) /\ q.count = 0 /\ q.first = 0
    BY DEF emptyReader
  <2>6. PICK n \in 0 .. lesser(dataLen(s, i), w - b2) : o = readData(b2, q, n)
    BY <2>4, <1>3 DEF readWithLength
  <2>7. b2 \in Nat /\ n \in Nat /\ n <= dataLen(s, i)
    <3>1. b2 \in Nat
      BY <2>2, <1>3
    <3>2. PICK m \in Nat : m = dataLen(s, i)
      BY <1>3
    <3>3. n \in 0 .. lesser(m, w - b2)
      BY <3>2
    <3> HIDE DEF w, t, r
    <3>4. n \in Nat /\ n <= m
      BY <3>1, <3>3, <1>2 DEF lesser
    <3> QED BY <3>1, <3>2, <3>4
  <2> HIDE DEF q
  <2>8. n <= q.expected - q.count /\ q.count < q.expected /\ q.count \in Nat
    BY <2>5, <2>7, <1>3
  <2>9. b2 = Start[s][i] + 2 + q.count
    BY <2>2, <2>5, <1>3
  <2>10. q.first = IF q.count = 0 THEN 0 ELSE Start[s][i] + 3
    BY <2>5
  <2>11. i = Len(got[s]) + 1 /\ Receives(s, readData(b2, q, n))
    BY <1>0, <2>6
  <2> QED BY <1>1, <2>5, <2>7, <2>8, <2>9, <2>10, <2>11, ReadDataInStep
<1>7. CASE o \in readMore(t, w, r)
  <2>1. PICK n \in 1 .. lesser(lesser(r.expected, MaxData) - r.count, w - t) :
            o = readData(t, r, n)
    BY <1>7 DEF readMore
  <2>2. /\ r.expected \in Int /\ r.count \in Nat /\ MaxData \in Nat
    BY <1>2, Bounds DEF IsReader
  <2>3. n \in Nat /\ n <= r.expected - r.count /\ r.expected > 0
    <3>1. PICK x \in Int, c \in Nat : x = r.expected /\ c = r.count
      BY <2>2
    <3>2. n \in 1 .. lesser(lesser(x, MaxData) - c, w - t)
      BY <3>1
    <3>3. t \in Nat /\ w \in Nat
      BY <1>2
    <3> HIDE DEF w, t, r
    <3>4. n \in Nat /\ n <= x - c /\ x > 0
      BY <2>2, <3>2, <3>3 DEF lesser
    <3> QED BY <3>1, <3>4
  <2>4. /\ r.expected = dataLen(s, i) /\ r.count < r.expected
        /\ t = Start[s][i] + 2 + r.count
        /\ r.first = IF r.count = 0 THEN 0 ELSE Start[s][i] + 3
    BY <2>3, <1>4 DEF InFrame, emptyReader
  <2>5. i = Len(got[s]) + 1 /\ Receives(s, readData(t, r, n))
    BY <1>0, <2>1
  <2> QED BY <1>1, <1>2, <2>2, <2>3, <2>4, <2>5, ReadDataInStep
<1> QED BY <1>a, <1>5, <1>6, <1>7
-----------------------------------------------------------------------------
\* The invariant.

LEMMA BothEnds == /\ Client \in Ends /\ Server \in Ends /\ Client # Server
                  /\ \A e \in Ends : e = Client \/ e = Server
BY TCPAssumption DEF Ends

LEMMA InitInv == Init => IInv
<1> SUFFICES ASSUME Init PROVE IInv
  OBVIOUS
<1>1. \A e \in Ends : /\ accepted[e] = 0 /\ queued[e] = 0 /\ written[e] = 0 /\ taken[e] = 0
                      /\ reader[e] = emptyReader /\ got[e] = <<>>
  BY DEF Init
<1>2. \A e \in Ends : headPacket(e) = 1 /\ Start[e][1] = 0
  BY <1>1, TCPAssumption DEF headPacket
<1>3. \A e \in Ends : CursorsOK(e)
  BY <1>1, <1>2, Bounds DEF CursorsOK
<1>4. \A e \in Ends : IsReader(reader[e])
  BY <1>1, EmptyIsReader
<1>5. TypeOK
  <2>1. got \in [Ends -> Seq(Chunk)]
    BY DEF Init
  <2>2. losses \in 0 .. MaxLosses
    BY Bounds DEF Init
  <2>3. accepted \in [Ends -> Nat] /\ queued \in [Ends -> 0 .. MaxQueue]
    BY Bounds DEF Init
  <2>4. written \in [Ends -> Nat] /\ taken \in [Ends -> Nat] /\ DOMAIN reader = Ends
    BY DEF Init
  <2>5. /\ calling \in [Ends -> {"idle", "queued", "connected", "unconnected"}]
        /\ ops \in [Ends -> {"NONE", "READ", "WRITE", "CONNECT"}] /\ writing \in [Ends -> BOOLEAN]
        /\ chan \in [Ends -> {"connected", "lost", "closed", "opened", "connecting"}]
        /\ retry \in BOOLEAN /\ \A c \in old : IsOld(c)
    BY DEF Init
  <2>6. requests \in [Ends -> Seq({"WRITE", "CONNECT"})]
    BY DEF Init
  <2> QED BY <1>3, <1>4, <2>6, <2>1, <2>2, <2>3, <2>4, <2>5 DEF TypeOK
<1>6. \A e \in Ends : GotBefore(e) /\ GotWhole(e)
  BY <1>1 DEF GotBefore, GotWhole
<1>7. \A e \in Ends : InStep(e)
  BY <1>1, <1>2, <1>6 DEF InStep, InFrame
<1>8. ChannelSane /\ QueuedIsAttended /\ OldApart
  BY <1>1 DEF ChannelSane, QueuedIsAttended, OldApart, Init
<1> QED BY <1>5, <1>6, <1>7, <1>8 DEF IInv

\* What concerns packets and bytes, which most steps leave alone.
DataInv ==
    /\ accepted \in [Ends -> Nat]
    /\ queued \in [Ends -> 0 .. MaxQueue]
    /\ written \in [Ends -> Nat] /\ taken \in [Ends -> Nat]
    /\ DOMAIN reader = Ends /\ \A e \in Ends : IsReader(reader[e])
    /\ got \in [Ends -> Seq(Chunk)]
    /\ \A c \in old : IsOld(c)
    /\ \A e \in Ends : CursorsOK(e) /\ GotBefore(e) /\ (~Spoiled(e) => InStep(e))
    /\ OldApart

\* What concerns threads and channels.
ControlInv ==
    /\ calling \in [Ends -> {"idle", "queued", "connected", "unconnected"}]
    /\ requests \in [Ends -> Seq({"WRITE", "CONNECT"})]
    /\ ops \in [Ends -> {"NONE", "READ", "WRITE", "CONNECT"}] /\ writing \in [Ends -> BOOLEAN]
    /\ chan \in [Ends -> {"connected", "lost", "closed", "opened", "connecting"}]
    /\ retry \in BOOLEAN /\ losses \in 0 .. MaxLosses
    /\ ChannelSane /\ QueuedIsAttended

LEMMA Parts == /\ IInv <=> DataInv /\ ControlInv
               /\ DataInv' /\ ControlInv' => IInv'
BY DEF IInv, DataInv, ControlInv, TypeOK

\* Once packets do not come out as they went in they never will again.
LEMMA SpoiledStays ==
    ASSUME NEW e \in Ends, accepted[e] \in Nat, accepted'[e] \in Nat, accepted[e] <= accepted'[e],
           Len(got[e]) \in Nat, Len(got'[e]) \in Nat, Len(got[e]) <= Len(got'[e]),
           losses \in Nat, losses' \in Nat, losses <= losses', Spoiled(e)
    PROVE  Spoiled(e)'
<1>1. CASE losses > 0
  BY <1>1 DEF Spoiled
<1>2. CASE \E i \in 1 .. accepted[e] : ~fits(e, i) /\ i <= Len(got[e]) + 1
  <2>1. PICK i \in 1 .. accepted[e] : ~fits(e, i) /\ i <= Len(got[e]) + 1
    BY <1>2
  <2>2. i \in 1 .. accepted'[e] /\ i <= Len(got'[e]) + 1
    BY <2>1
  <2> QED BY <2>1, <2>2 DEF Spoiled, fits, dataLen
<1> QED BY <1>1, <1>2 DEF Spoiled

LEMMA DataUnchanged ==
    ASSUME DataInv, UNCHANGED <<sender, receiver>>, losses' = losses
    PROVE  DataInv'
<1> USE DEF sender, receiver
<1>1. \A e \in Ends : CursorsOK(e)'
  BY DEF DataInv, CursorsOK, headPacket
<1>2. /\ \A e \in Ends : GotBefore(e)' /\ IsReader(reader[e])'
      /\ \A c \in old' : IsOld(c)
  BY DEF DataInv, GotBefore
<1>3. \A e \in Ends : Spoiled(e)' <=> Spoiled(e)
  BY DEF Spoiled, fits, dataLen
<1>4. \A e \in Ends : InStep(e) => InStep(e)'
  BY DEF InStep, InFrame, GotWhole, dataLen, payload
<1>5. OldApart'
  BY DEF DataInv, OldApart
<1>6. \A e \in Ends : ~Spoiled(e)' => InStep(e)'
  BY <1>3, <1>4 DEF DataInv
<1> QED BY <1>1, <1>2, <1>5, <1>6 DEF DataInv

LEMMA RequestAdded ==
    ASSUME NEW q \in Seq({"WRITE", "CONNECT"}), NEW r \in {"WRITE", "CONNECT"}
    PROVE  /\ Append(q, r) \in Seq({"WRITE", "CONNECT"})
           /\ Append(q, r)[Len(q) + 1] = r /\ Len(q) + 1 \in 1 .. Len(Append(q, r))
           /\ \A k \in 1 .. Len(q) : k \in 1 .. Len(Append(q, r)) /\ Append(q, r)[k] = q[k]
OBVIOUS

LEMMA RequestTaken ==
    ASSUME NEW q \in Seq({"WRITE", "CONNECT"}), q # <<>>
    PROVE  /\ Tail(q) \in Seq({"WRITE", "CONNECT"})
           /\ Head(q) # "WRITE" /\ (\E k \in 1 .. Len(q) : q[k] = "WRITE")
                => \E k \in 1 .. Len(Tail(q)) : Tail(q)[k] = "WRITE"
<1>1. Len(q) \in Nat /\ Len(q) > 0 /\ Len(Tail(q)) = Len(q) - 1 /\ Head(q) = q[1]
  OBVIOUS
<1>2. \A k \in 1 .. Len(q) - 1 : Tail(q)[k] = q[k + 1]
  OBVIOUS
<1>3. ASSUME Head(q) # "WRITE", NEW k \in 1 .. Len(q), q[k] = "WRITE"
      PROVE  \E j \in 1 .. Len(Tail(q)) : Tail(q)[j] = "WRITE"
  <2>1. k - 1 \in 1 .. Len(q) - 1 /\ (k - 1) + 1 = k
    BY <1>1, <1>3
  <2>2. Tail(q)[k - 1] = "WRITE"
    BY <1>2, <1>3, <2>1
  <2> QED BY <1>1, <2>1, <2>2
<1>4. Tail(q) \in Seq({"WRITE", "CONNECT"})
  OBVIOUS
<1> QED BY <1>3, <1>4
\* A new channel leaves none that is connected.
LEMMA NewChannelControl ==
    ASSUME ControlInv, NEW e \in Ends, newChannel(e), losses # 0, losses' = losses,
           writing' = writing,
           calling' \in [Ends -> {"idle", "queued", "connected", "unconnected"}]
    PROVE  ControlInv'
<1>1. /\ chan' = [d \in Ends |-> IF d = e THEN "opened"
                                ELSE IF chan[d] = "connected" THEN "lost" ELSE chan[d]]
      /\ ops' = [ops EXCEPT ![e] = "NONE"]
      /\ requests' = [requests EXCEPT ![e] = Append(@, "CONNECT")]
      /\ retry' = (retry /\ e # Client)
  BY DEF newChannel
<1>2. \A d \in Ends : chan'[d] # "connected"
  BY <1>1
<1>3. requests' \in [Ends -> Seq({"WRITE", "CONNECT"})]
  <2>1. requests \in [Ends -> Seq({"WRITE", "CONNECT"})]
    BY DEF ControlInv
  <2>2. Append(requests[e], "CONNECT") \in Seq({"WRITE", "CONNECT"})
    BY <2>1, RequestAdded
  <2> QED BY <1>1, <2>1, <2>2
<1>4. /\ ops' \in [Ends -> {"NONE", "READ", "WRITE", "CONNECT"}]
      /\ chan' \in [Ends -> {"connected", "lost", "closed", "opened", "connecting"}]
  BY <1>1 DEF ControlInv
<1>5. retry' \in BOOLEAN
  BY <1>1
<1>6. ChannelSane' /\ QueuedIsAttended'
  BY <1>2 DEF ChannelSane, QueuedIsAttended
<1> QED BY <1>3, <1>4, <1>5, <1>6 DEF ControlInv

\* What a call of send does after its offer.
LEMMA CallingInv ==
    ASSUME IInv, NEW e \in Ends,
           \/ AskConnected(e) \/ SendRequestsWrite(e) \/ SendWaits(e) \/ SendReconnects(e)
    PROVE  IInv'
<1>1. UNCHANGED <<sender, receiver, losses>> /\ writing' = writing
  BY DEF AskConnected, SendRequestsWrite, SendWaits, SendReconnects, sockets
<1>2. DataInv'
  BY <1>1, Parts, DataUnchanged
<1>3. ControlInv
  BY Parts
<1>4. queued' = queued /\ losses' = losses
  BY <1>1 DEF sender
<1>5. calling[e] = "unconnected" => losses # 0
  BY <1>3 DEF ControlInv, ChannelSane
<1>6. CASE AskConnected(e)
  <2>1. /\ calling' = [calling EXCEPT ![e] = IF isConnected(e) THEN "connected" ELSE "unconnected"]
        /\ UNCHANGED <<requests, ops, writing, chan, retry, losses, old>>
    BY <1>6 DEF AskConnected, sockets, receiver
  <2>2. calling' \in [Ends -> {"idle", "queued", "connected", "unconnected"}]
    BY <2>1, <1>3 DEF ControlInv
  <2>3. ChannelSane'
    BY <2>1, <1>3 DEF ControlInv, ChannelSane, isConnected
  <2>4. QueuedIsAttended'
    BY <2>1, <1>3, <1>4 DEF ControlInv, QueuedIsAttended, writeRequested
  <2> QED BY <2>1, <2>2, <2>3, <2>4, <1>2, <1>3, Parts DEF ControlInv
<1>7. CASE SendRequestsWrite(e)
  <2>1. /\ calling' = [calling EXCEPT ![e] = "idle"]
        /\ requests' = [requests EXCEPT ![e] = Append(@, "WRITE")]
        /\ UNCHANGED <<ops, writing, chan, retry, losses, old>>
    BY <1>7 DEF SendRequestsWrite, sockets, receiver
  <2>2. calling' \in [Ends -> {"idle", "queued", "connected", "unconnected"}]
    BY <2>1, <1>3 DEF ControlInv
  <2>3. /\ requests' \in [Ends -> Seq({"WRITE", "CONNECT"})]
        /\ writeRequested(e)'
        /\ \A d \in Ends \ {e} : requests'[d] = requests[d]
    <3>1. requests \in [Ends -> Seq({"WRITE", "CONNECT"})] /\ requests[e] \in Seq({"WRITE", "CONNECT"})
      BY <1>3 DEF ControlInv
    <3>2. /\ Append(requests[e], "WRITE") \in Seq({"WRITE", "CONNECT"})
          /\ Append(requests[e], "WRITE")[Len(requests[e]) + 1] = "WRITE"
          /\ Len(requests[e]) + 1 \in 1 .. Len(Append(requests[e], "WRITE"))
      BY <3>1, RequestAdded
    <3>3. requests'[e] = Append(requests[e], "WRITE")
      BY <2>1, <3>1
    <3> QED BY <2>1, <3>1, <3>2, <3>3 DEF writeRequested
  <2>4. ChannelSane'
    BY <2>1, <1>3 DEF ControlInv, ChannelSane
  <2>5. QueuedIsAttended'
    BY <2>1, <2>3, <1>3, <1>4 DEF ControlInv, QueuedIsAttended, writeRequested
  <2> QED BY <2>1, <2>2, <2>3, <2>4, <2>5, <1>2, <1>3, Parts DEF ControlInv
<1>8. CASE SendWaits(e)
  <2>1. /\ calling' = [calling EXCEPT ![e] = "idle"] /\ chan[e] = "connecting"
        /\ UNCHANGED <<requests, ops, writing, chan, retry, losses, old>>
    BY <1>8 DEF SendWaits, sockets, receiver
  <2>2. calling' \in [Ends -> {"idle", "queued", "connected", "unconnected"}]
    BY <2>1, <1>3 DEF ControlInv
  <2>3. ChannelSane'
    BY <2>1, <1>3 DEF ControlInv, ChannelSane
  <2>4. QueuedIsAttended'
    BY <2>1, <1>3, <1>4 DEF ControlInv, QueuedIsAttended, writeRequested
  <2> QED BY <2>1, <2>2, <2>3, <2>4, <1>2, <1>3, Parts DEF ControlInv
<1>9. CASE SendReconnects(e)
  <2>1. newChannel(e) /\ calling' = [calling EXCEPT ![e] = "idle"] /\ losses # 0
    BY <1>5, <1>9 DEF SendReconnects
  <2>2. calling' \in [Ends -> {"idle", "queued", "connected", "unconnected"}]
    BY <2>1, <1>3 DEF ControlInv
  <2> QED BY <2>1, <2>2, <1>1, <1>2, <1>3, <1>4, NewChannelControl, Parts
<1> QED BY <1>6, <1>7, <1>8, <1>9

\* The next request: what it does to interest and channel is for its action.
LEMMA NextRequest ==
    ASSUME ControlInv, NEW e \in Ends, NEW r, nextRequest(e, r)
    PROVE  /\ requests' \in [Ends -> Seq({"WRITE", "CONNECT"})]
           /\ \A d \in Ends : writeRequested(d) => writeRequested(d)' \/ (d = e /\ r = "WRITE")
           /\ ~writing[e]
<1>1. /\ requests \in [Ends -> Seq({"WRITE", "CONNECT"})]
      /\ requests[e] \in Seq({"WRITE", "CONNECT"}) /\ requests[e] # <<>> /\ Head(requests[e]) = r
      /\ requests' = [requests EXCEPT ![e] = Tail(@)]
  BY DEF ControlInv, nextRequest
<1>2. requests'[e] = Tail(requests[e]) /\ \A d \in Ends \ {e} : requests'[d] = requests[d]
  BY <1>1
<1>3. Tail(requests[e]) \in Seq({"WRITE", "CONNECT"})
  BY <1>1, RequestTaken
<1>4. requests' \in [Ends -> Seq({"WRITE", "CONNECT"})]
  BY <1>1, <1>3
<1>5. ASSUME writeRequested(e), r # "WRITE" PROVE writeRequested(e)'
  <2>1. \E k \in 1 .. Len(Tail(requests[e])) : Tail(requests[e])[k] = "WRITE"
    BY <1>1, <1>5, RequestTaken DEF writeRequested
  <2> QED BY <1>2, <2>1 DEF writeRequested
<1>6. ASSUME NEW d \in Ends \ {e}, writeRequested(d) PROVE writeRequested(d)'
  BY <1>2, <1>6 DEF writeRequested
<1> QED BY <1>4, <1>5, <1>6 DEF nextRequest

LEMMA RequestsInv ==
    ASSUME IInv, NEW e \in Ends, ChangeOps(e) \/ Register \/ RegisterThrows(e)
    PROVE  IInv'
<1>1. UNCHANGED <<sender, receiver, losses>>
  BY DEF ChangeOps, Register, RegisterThrows, sockets
<1>2. DataInv'
  BY <1>1, Parts, DataUnchanged
<1>3. ControlInv
  BY Parts
<1>4. queued' = queued /\ losses' = losses /\ old' = old
  BY <1>1 DEF sender, receiver
<1>5. CASE ChangeOps(e)
  <2>1. /\ nextRequest(e, "WRITE")
        /\ ops' = [ops EXCEPT ![e] = IF @ = "NONE" THEN @ ELSE "WRITE"]
        /\ UNCHANGED <<calling, writing, chan, retry>>
    BY <1>5 DEF ChangeOps, sockets
  <2>2. /\ requests' \in [Ends -> Seq({"WRITE", "CONNECT"})]
        /\ \A d \in Ends \ {e} : writeRequested(d) => writeRequested(d)'
    BY <2>1, <1>3, NextRequest
  <2>3. /\ ops' \in [Ends -> {"NONE", "READ", "WRITE", "CONNECT"}]
        /\ chan[e] = "connected" => ops'[e] = "WRITE"
        /\ \A d \in Ends \ {e} : ops'[d] = ops[d]
    BY <2>1, <1>3 DEF ControlInv, ChannelSane
  <2>4. ChannelSane'
    BY <2>1, <2>3, <1>3, <1>4 DEF ControlInv, ChannelSane
  <2>5. QueuedIsAttended'
    BY <2>1, <2>2, <2>3, <1>3, <1>4 DEF ControlInv, QueuedIsAttended
  <2> QED BY <2>1, <2>2, <2>3, <2>4, <2>5, <1>2, <1>3, <1>4, Parts DEF ControlInv
<1>6. CASE Register
  <2>1. /\ nextRequest(Client, "CONNECT") /\ chan[Client] = "opened"
        /\ chan' = [chan EXCEPT ![Client] = "connecting"]
        /\ ops' = [ops EXCEPT ![Client] = "CONNECT"]
        /\ UNCHANGED <<calling, writing, retry>>
    BY <1>6 DEF Register
  <2>2. /\ requests' \in [Ends -> Seq({"WRITE", "CONNECT"})]
        /\ \A d \in Ends : writeRequested(d) => writeRequested(d)'
    BY <2>1, <1>3, BothEnds, NextRequest
  <2>3. /\ ops' \in [Ends -> {"NONE", "READ", "WRITE", "CONNECT"}]
        /\ chan' \in [Ends -> {"connected", "lost", "closed", "opened", "connecting"}]
        /\ chan'[Client] = "connecting"
        /\ \A d \in Ends \ {Client} : ops'[d] = ops[d] /\ chan'[d] = chan[d]
    BY <2>1, <1>3, BothEnds DEF ControlInv
  <2>4. losses # 0
    BY <2>1, <1>3, BothEnds DEF ControlInv, ChannelSane
  <2>5. ChannelSane'
    BY <2>1, <2>3, <2>4, <1>3, <1>4 DEF ControlInv, ChannelSane
  <2>6. QueuedIsAttended'
    BY <2>1, <2>2, <2>3, <1>3, <1>4 DEF ControlInv, QueuedIsAttended
  <2> QED BY <2>1, <2>2, <2>3, <2>5, <2>6, <1>2, <1>3, <1>4, Parts DEF ControlInv
<1>7. CASE RegisterThrows(e)
  <2>1. /\ nextRequest(e, "CONNECT")
        /\ \/ chan' = chan
           \/ chan[Client] = "opened" /\ chan' = [chan EXCEPT ![Client] = "closed"]
        /\ UNCHANGED <<calling, ops, writing, retry>>
    BY <1>7 DEF RegisterThrows
  <2>2. /\ requests' \in [Ends -> Seq({"WRITE", "CONNECT"})]
        /\ \A d \in Ends : writeRequested(d) => writeRequested(d)'
    BY <2>1, <1>3, NextRequest
  <2>3. CASE chan' = chan
    <3>1. ChannelSane'
      BY <2>1, <2>3, <1>3, <1>4 DEF ControlInv, ChannelSane
    <3>2. QueuedIsAttended'
      BY <2>1, <2>2, <2>3, <1>3, <1>4 DEF ControlInv, QueuedIsAttended
    <3> QED BY <2>1, <2>2, <2>3, <3>1, <3>2, <1>2, <1>3, <1>4, Parts DEF ControlInv
  <2>4. CASE chan[Client] = "opened" /\ chan' = [chan EXCEPT ![Client] = "closed"]
    <3>1. /\ chan' \in [Ends -> {"connected", "lost", "closed", "opened", "connecting"}]
          /\ chan'[Client] = "closed" /\ \A d \in Ends \ {Client} : chan'[d] = chan[d]
      BY <2>4, <1>3, BothEnds DEF ControlInv
    <3>2. losses # 0
      BY <2>4, <1>3, BothEnds DEF ControlInv, ChannelSane
    <3>3. ChannelSane'
      BY <2>1, <3>1, <3>2, <1>3, <1>4 DEF ControlInv, ChannelSane
    <3>4. QueuedIsAttended'
      BY <2>1, <2>2, <3>1, <1>3, <1>4 DEF ControlInv, QueuedIsAttended
    <3> QED BY <2>1, <2>2, <3>1, <3>3, <3>4, <1>2, <1>3, <1>4, Parts DEF ControlInv
  <2> QED BY <2>1, <2>3, <2>4
<1> QED BY <1>5, <1>6, <1>7
\* The other steps of threads and channels alone.
LEMMA SelectorInv ==
    ASSUME IInv, NEW e \in Ends,
           \/ write(e) \/ writeFinished(e) \/ readFails(e) \/ writeFails(e)
           \/ reconnect \/ connectFails
    PROVE  IInv'
<1>1. UNCHANGED <<sender, receiver, losses, calling>>
  BY DEF write, writeFinished, readFails, writeFails, reconnect, connectFails, sockets
<1>2. DataInv'
  BY <1>1, Parts, DataUnchanged
<1>3. ControlInv
  BY Parts
<1>4. queued' = queued /\ losses' = losses /\ old' = old
  BY <1>1 DEF sender, receiver
<1>5. CASE write(e)
  <2>1. /\ ops[e] = "WRITE" /\ writing' = [writing EXCEPT ![e] = TRUE]
        /\ UNCHANGED <<requests, ops, chan, retry>>
    BY <1>5 DEF write, sockets
  <2>2. ChannelSane'
    BY <2>1, <1>1, <1>3, <1>4 DEF ControlInv, ChannelSane
  <2>3. QueuedIsAttended'
    BY <2>1, <1>1, <1>3, <1>4 DEF ControlInv, QueuedIsAttended, writeRequested
  <2> QED BY <2>1, <2>2, <2>3, <1>1, <1>2, <1>3, <1>4, Parts DEF ControlInv
<1>6. CASE writeFinished(e) \/ writeFails(e)
  <2>1. /\ returnsTrue(e) /\ (queued[e] = 0 \/ chan[e] # "connected")
        /\ UNCHANGED <<requests, chan>> /\ retry' \in BOOLEAN
    <3>1. queued[e] \in Nat /\ retry \in BOOLEAN
      BY <1>3, Parts, Bounds DEF DataInv, ControlInv
    <3>2. CASE writeFinished(e)
      BY <3>1, <3>2 DEF writeFinished, sockets
    <3>3. CASE writeFails(e)
      BY <3>1, <3>3 DEF writeFails, scheduleReconnect
    <3> QED BY <1>6, <3>2, <3>3
  <2>2. /\ writing' = [writing EXCEPT ![e] = FALSE]
        /\ ops' = [ops EXCEPT ![e] = IF @ = "NONE" THEN @ ELSE "READ"]
    BY <2>1 DEF returnsTrue
  <2>3. /\ ops' \in [Ends -> {"NONE", "READ", "WRITE", "CONNECT"}]
        /\ writing' \in [Ends -> BOOLEAN] /\ ~writing'[e]
        /\ ops'[e] \in {"NONE", "READ"} /\ (ops[e] # "NONE" => ops'[e] = "READ")
        /\ \A d \in Ends \ {e} : ops'[d] = ops[d] /\ writing'[d] = writing[d]
    BY <2>2, <1>3 DEF ControlInv
  <2>4. ChannelSane'
    BY <2>1, <2>3, <1>1, <1>3, <1>4 DEF ControlInv, ChannelSane
  <2>5. QueuedIsAttended'
    <3> SUFFICES ASSUME NEW d \in Ends, queued[d] > 0, chan[d] = "connected"
                 PROVE  calling[d] # "idle" \/ ops'[d] = "WRITE" \/ writeRequested(d)'
      BY <2>1, <1>1, <1>4 DEF QueuedIsAttended
    <3>1. d # e
      BY <2>1
    <3>2. calling[d] # "idle" \/ ops[d] = "WRITE" \/ writeRequested(d)
      BY <1>3 DEF ControlInv, QueuedIsAttended
    <3> QED BY <3>1, <3>2, <2>1, <2>3 DEF writeRequested
  <2> QED BY <2>1, <2>3, <2>4, <2>5, <1>1, <1>2, <1>3, <1>4, Parts DEF ControlInv
<1>7. ASSUME NEW d \in Ends, chan[d] # "connected",
             \/ UNCHANGED <<chan, ops>>
             \/ /\ chan' = [chan EXCEPT ![d] = "closed"]
                /\ ops' = [ops EXCEPT ![d] = "NONE"],
             UNCHANGED <<requests, writing>>, retry' \in BOOLEAN
      PROVE  IInv'
  <2>1. /\ chan' \in [Ends -> {"connected", "lost", "closed", "opened", "connecting"}]
        /\ ops' \in [Ends -> {"NONE", "READ", "WRITE", "CONNECT"}]
        /\ chan'[d] # "connected"
        /\ \A c \in Ends \ {d} : ops'[c] = ops[c] /\ chan'[c] = chan[c]
    BY <1>3, <1>7 DEF ControlInv
  <2>2. losses # 0
    BY <1>3, <1>7 DEF ControlInv, ChannelSane
  <2>3. ChannelSane'
    BY <2>1, <2>2, <1>1, <1>3, <1>4, <1>7 DEF ControlInv, ChannelSane
  <2>4. QueuedIsAttended'
    BY <2>1, <1>1, <1>3, <1>4, <1>7 DEF ControlInv, QueuedIsAttended, writeRequested
  <2> QED BY <2>1, <2>3, <2>4, <1>1, <1>2, <1>3, <1>4, <1>7, Parts DEF ControlInv
<1>8. CASE readFails(e)
  BY <1>3, <1>7, <1>8 DEF readFails, scheduleReconnect, ControlInv
<1>9. CASE reconnect
  <2>1. newChannel(Client) /\ chan[Client] = "closed" /\ writing' = writing
    BY <1>9 DEF reconnect
  <2>2. losses # 0
    BY <2>1, <1>3, BothEnds DEF ControlInv, ChannelSane
  <2>3. calling' \in [Ends -> {"idle", "queued", "connected", "unconnected"}]
    BY <1>1, <1>3 DEF ControlInv
  <2> QED BY <2>1, <2>2, <2>3, <1>2, <1>3, <1>4, BothEnds, NewChannelControl, Parts
<1>10. CASE connectFails
  BY <1>3, <1>7, <1>10, BothEnds DEF connectFails, scheduleReconnect, ControlInv
<1> QED BY <1>5, <1>6, <1>8, <1>9, <1>10

LEMMA OtherEnd == \A e \in Ends : other(e) \in Ends
BY DEF other, Ends

\* Packets that were handed over keep their place when another one follows.
LEMMA HandedOver ==
    ASSUME got \in [Ends -> Seq(Chunk)], NEW s \in Ends, NEW c, c # nothing => c \in Chunk,
           handOver(s, c)
    PROVE  /\ got' \in [Ends -> Seq(Chunk)]
           /\ got'[s] = IF c = nothing THEN got[s] ELSE Append(got[s], c)
           /\ \A d \in Ends \ {s} : got'[d] = got[d]
           /\ Len(got[s]) \in Nat /\ Len(got'[s]) \in Nat /\ Len(got[s]) <= Len(got'[s])
           /\ \A k \in 1 .. Len(got'[s]) :
                \/ k \in 1 .. Len(got[s]) /\ got'[s][k] = got[s][k]
                \/ c # nothing /\ got'[s][k] = c
           /\ \A k \in 1 .. Len(got'[s]) : got'[s][k].last \in Nat
<1>1. got[s] \in Seq(Chunk)
  OBVIOUS
<1>2. \A x \in Chunk : x.last \in Nat
  BY DEF Chunk
<1>3. \A q \in Seq(Chunk) : \A k \in 1 .. Len(q) : q[k].last \in Nat
  BY <1>2
<1>4. CASE c = nothing
  <2>1. got' = got
    BY <1>4 DEF handOver
  <2> QED BY <2>1, <1>1, <1>3, <1>4
<1>5. CASE c # nothing
  <2>1. got' = [got EXCEPT ![s] = Append(@, c)] /\ c \in Chunk
    BY <1>5 DEF handOver
  <2>2. /\ got'[s] = Append(got[s], c) /\ Append(got[s], c) \in Seq(Chunk)
        /\ \A d \in Ends \ {s} : got'[d] = got[d]
    BY <2>1, <1>1
  <2>3. got' \in [Ends -> Seq(Chunk)]
    BY <2>1, <2>2
  <2>4. /\ Len(got'[s]) = Len(got[s]) + 1 /\ Len(got[s]) \in Nat
        /\ \A k \in 1 .. Len(got[s]) : got'[s][k] = got[s][k]
        /\ got'[s][Len(got[s]) + 1] = c
    BY <2>1, <2>2, <1>1
  <2>5. \A k \in 1 .. Len(got'[s]) : k \in 1 .. Len(got[s]) \/ k = Len(got[s]) + 1
    BY <2>4
  <2>6. \A k \in 1 .. Len(got'[s]) : got'[s][k].last \in Nat
    BY <2>3, <1>3
  <2> QED BY <2>2, <2>3, <2>4, <2>5, <2>6, <1>5
<1> QED BY <1>4, <1>5
LEMMA HandleReadInv ==
    ASSUME IInv, NEW e \in Ends, handleRead(e)
    PROVE  IInv'
<1>1. PICK s \in Ends : s = other(e)
  BY OtherEnd
<1>2. PICK o \in reads(s, taken[s], written[s], reader[s]) :
        /\ taken' = [taken EXCEPT ![s] = o.taken]
        /\ reader' = [reader EXCEPT ![s] = o.reader]
        /\ handOver(s, o.chunk)
  BY <1>1 DEF handleRead
<1>a. UNCHANGED <<sender, selector, sockets, old>>
  BY DEF handleRead
<1>3. DataInv /\ TypeOK /\ ControlInv
  BY Parts DEF IInv
<1>b. taken[s] \in Nat /\ written[s] \in Nat /\ IsReader(reader[s])
  BY <1>3 DEF DataInv
<1>4. IsOutcome(taken[s], written[s], o)
  BY <1>b, ReadOutcomes
<1>c. /\ o.taken \in Nat /\ taken[s] < o.taken /\ o.taken <= written[s] /\ IsReader(o.reader)
      /\ o.chunk # nothing => o.chunk \in Chunk /\ o.chunk.last = o.taken
  BY <1>4 DEF IsOutcome
<1>5. /\ accepted' = accepted /\ queued' = queued /\ written' = written /\ losses' = losses
      /\ old' = old
  BY <1>a DEF sender, sockets
<1>6. /\ taken'[s] = o.taken /\ reader'[s] = o.reader
      /\ \A d \in Ends \ {s} : taken'[d] = taken[d] /\ reader'[d] = reader[d]
      /\ taken' \in [Ends -> Nat] /\ DOMAIN reader' = Ends
  BY <1>2, <1>3, <1>c DEF DataInv
<1>7. /\ got' \in [Ends -> Seq(Chunk)]
      /\ got'[s] = IF o.chunk = nothing THEN got[s] ELSE Append(got[s], o.chunk)
      /\ \A d \in Ends \ {s} : got'[d] = got[d]
      /\ Len(got[s]) \in Nat /\ Len(got'[s]) \in Nat /\ Len(got[s]) <= Len(got'[s])
      /\ \A k \in 1 .. Len(got'[s]) :
            \/ k \in 1 .. Len(got[s]) /\ got'[s][k] = got[s][k]
            \/ o.chunk # nothing /\ got'[s][k] = o.chunk
      /\ \A k \in 1 .. Len(got'[s]) : got'[s][k].last \in Nat
  <2>1. got \in [Ends -> Seq(Chunk)]
    BY <1>3 DEF DataInv
  <2> QED BY <1>2, <1>c, <2>1, HandedOver
<1>8. \A d \in Ends : IsReader(reader'[d])
  BY <1>3, <1>6, <1>c DEF DataInv
<1>9. \A k \in 1 .. Len(got'[s]) :
        \/ k \in 1 .. Len(got[s]) /\ got'[s][k].last = got[s][k].last /\ got[s][k].last <= taken[s]
        \/ got'[s][k].last = o.taken
  <2>1. \A k \in 1 .. Len(got[s]) : got[s][k].last <= taken[s]
    BY <1>3 DEF DataInv, GotBefore
  <2> QED BY <2>1, <1>7, <1>c
<1>10. ASSUME NEW d \in Ends PROVE CursorsOK(d)' /\ GotBefore(d)'
  <2>0. CursorsOK(d) /\ GotBefore(d)
    BY <1>3 DEF DataInv
  <2>1. CASE d # s
    BY <2>0, <2>1, <1>5, <1>6, <1>7 DEF CursorsOK, GotBefore, headPacket
  <2>2. CASE d = s
    <3>1. Window[s] \in Nat /\ written[s] - o.taken <= Window[s]
      BY <2>0, <2>2, <1>b, <1>c, Bounds DEF CursorsOK
    <3>2. CursorsOK(s)'
      BY <3>1, <2>0, <2>2, <1>5, <1>6, <1>c DEF CursorsOK, headPacket
    <3>3. ASSUME NEW k \in 1 .. Len(got'[s]) PROVE got'[s][k].last <= o.taken
      <4>1. got'[s][k].last \in Nat
        BY <1>7
      <4>2. got'[s][k].last <= taken[s] \/ got'[s][k].last = o.taken
        BY <1>9
      <4> QED BY <4>1, <4>2, <1>b, <1>c
    <3> QED BY <2>2, <3>2, <3>3, <1>6 DEF GotBefore
  <2> QED BY <2>1, <2>2
<1>11. ASSUME NEW d \in Ends, ~Spoiled(d)' PROVE InStep(d)'
  <2>1. ~Spoiled(d)
    <3>0. got[d] \in Seq(Chunk) /\ got'[d] \in Seq(Chunk)
      BY <1>3, <1>7 DEF DataInv
    <3>1. accepted[d] \in Nat /\ losses \in Nat
      BY <1>3, Bounds DEF DataInv, ControlInv
    <3>4. Len(got[d]) \in Nat /\ Len(got'[d]) \in Nat
      BY <3>0
    <3>2. Len(got[d]) <= Len(got'[d])
      <4>1. CASE d = s
        BY <4>1, <1>7
      <4>2. CASE d # s
        BY <4>2, <3>4, <1>7
      <4> QED BY <4>1, <4>2
    <3>3. accepted'[d] = accepted[d] /\ losses' = losses
      BY <1>5
    <3> QED BY <3>1, <3>2, <3>3, <3>4, <1>11, SpoiledStays
  <2>2. InStep(d)
    BY <2>1, <1>3 DEF DataInv
  <2>3. CASE d # s
    BY <2>2, <2>3, <1>5, <1>6, <1>7 DEF InStep, InFrame, GotWhole, payload, dataLen
  <2>4. CASE d = s
    <3>1. taken[s] < written[s]
      BY <1>2 DEF reads
    <3>2. Len(got[s]) + 1 \in 1 .. accepted[s]
      BY <2>2, <2>4, <3>1, <1>3, NextIsAccepted
    <3>3. fits(s, Len(got[s]) + 1)
      BY <2>1, <2>4, <3>2 DEF Spoiled
    <3>4. Receives(s, o)
      BY <1>6, <1>7 DEF Receives
    <3> QED BY <2>2, <2>4, <3>3, <3>4, <1>3, <1>5, ReadInStep
  <2> QED BY <2>3, <2>4
<1>12. OldApart'
  <2>1. OldApart /\ \A c \in old : IsOld(c)
    BY <1>3 DEF DataInv
  <2>2. CASE s # Client
    BY <2>1, <2>2, <1>5, <1>6, <1>7, BothEnds DEF OldApart
  <2>3. CASE s = Client
    <3>1. ASSUME NEW c \in old PROVE c.end <= taken'[Client]
      <4>1. c.end \in Nat /\ c.end <= taken[Client]
        BY <2>1 DEF OldApart, IsOld
      <4> QED BY <4>1, <2>3, <1>6, <1>b, <1>c
    <3>2. ASSUME NEW c \in old, NEW k \in 1 .. Len(got'[Client])
          PROVE  got'[Client][k].last <= c.taken \/ c.end < got'[Client][k].last
      <4>1. CASE k \in 1 .. Len(got[Client]) /\ got'[Client][k].last = got[Client][k].last
        BY <4>1, <2>1 DEF OldApart
      <4>2. CASE got'[Client][k].last = o.taken
        <5>1. c.end \in Nat /\ c.end <= taken[Client]
          BY <2>1 DEF OldApart, IsOld
        <5> QED BY <5>1, <4>2, <2>3, <1>b, <1>c
      <4> QED BY <4>1, <4>2, <2>3, <1>9
    <3> QED BY <3>1, <3>2, <2>1, <1>5 DEF OldApart
  <2> QED BY <2>2, <2>3
<1>13. DataInv'
  BY <1>3, <1>5, <1>6, <1>7, <1>8, <1>10, <1>11, <1>12 DEF DataInv
<1>14. ControlInv'
  BY <1>a, <1>3, <1>5 DEF ControlInv, ChannelSane, QueuedIsAttended, writeRequested,
                          selector, sockets
<1> QED BY <1>13, <1>14, Parts

\* Reading a connection that was kept takes nothing that another one reads.
LEMMA ReadOldInv ==
    ASSUME IInv, readOld
    PROVE  IInv'
<1>1. PICK c \in old : \E o \in reads(Client, c.taken, c.end, c.reader) :
        /\ old' = (old \ {c}) \cup {[taken |-> o.taken, end |-> c.end, reader |-> o.reader]}
        /\ handOver(Client, o.chunk)
  BY DEF readOld
<1>2. PICK o \in reads(Client, c.taken, c.end, c.reader) :
        /\ old' = (old \ {c}) \cup {[taken |-> o.taken, end |-> c.end, reader |-> o.reader]}
        /\ handOver(Client, o.chunk)
  BY <1>1
<1> DEFINE new == [taken |-> o.taken, end |-> c.end, reader |-> o.reader]
<1>3. DataInv /\ TypeOK /\ ControlInv
  BY Parts DEF IInv
<1>4. IsOld(c) /\ Client \in Ends /\ OldApart
  BY <1>3, BothEnds DEF DataInv
<1>5. c.taken \in Nat /\ c.end \in Nat /\ c.taken <= c.end /\ IsReader(c.reader)
  BY <1>4 DEF IsOld
<1>6. IsOutcome(c.taken, c.end, o)
  BY <1>4, <1>5, ReadOutcomes
<1>7. /\ o.taken \in Nat /\ c.taken < o.taken /\ o.taken <= c.end /\ IsReader(o.reader)
      /\ o.chunk # nothing => o.chunk \in Chunk /\ o.chunk.last = o.taken
  BY <1>6 DEF IsOutcome
<1>8. new.taken = o.taken /\ new.end = c.end /\ IsOld(new)
  BY <1>5, <1>7 DEF IsOld
<1>9. /\ UNCHANGED <<accepted, queued, written, taken, reader, calling, requests, ops, writing,
                     chan, retry, losses>>
      /\ old' = (old \ {c}) \cup {new}
  BY <1>2 DEF readOld, sender, selector, sockets
<1> HIDE DEF new
<1>10. /\ got' \in [Ends -> Seq(Chunk)]
       /\ \A d \in Ends \ {Client} : got'[d] = got[d]
       /\ Len(got[Client]) \in Nat /\ Len(got'[Client]) \in Nat
       /\ Len(got[Client]) <= Len(got'[Client])
       /\ \A k \in 1 .. Len(got'[Client]) :
            \/ k \in 1 .. Len(got[Client]) /\ got'[Client][k] = got[Client][k]
            \/ o.chunk # nothing /\ got'[Client][k] = o.chunk
       /\ \A k \in 1 .. Len(got'[Client]) : got'[Client][k].last \in Nat
  <2>1. got \in [Ends -> Seq(Chunk)]
    BY <1>3 DEF DataInv
  <2> QED BY <1>2, <1>4, <1>7, <2>1, HandedOver
<1>11. /\ c.end <= taken[Client] /\ taken[Client] \in Nat
       /\ \A k \in 1 .. Len(got[Client]) :
            /\ got[Client][k].last <= taken[Client]
            /\ got[Client][k].last <= c.taken \/ c.end < got[Client][k].last
  BY <1>3, <1>4 DEF DataInv, OldApart, GotBefore
<1>12. \A k \in 1 .. Len(got'[Client]) :
        \/ /\ k \in 1 .. Len(got[Client]) /\ got'[Client][k].last = got[Client][k].last
        \/ got'[Client][k].last = o.taken
  BY <1>7, <1>10
<1>13. ASSUME NEW d \in Ends PROVE CursorsOK(d)' /\ GotBefore(d)'
  <2>0. CursorsOK(d) /\ GotBefore(d)
    BY <1>3 DEF DataInv
  <2>1. CursorsOK(d)'
    BY <2>0, <1>9 DEF CursorsOK, headPacket
  <2>2. CASE d # Client
    BY <2>0, <2>1, <2>2, <1>9, <1>10 DEF GotBefore
  <2>3. CASE d = Client
    <3>1. \A k \in 1 .. Len(got'[Client]) : got'[Client][k].last <= taken[Client]
      BY <1>5, <1>7, <1>10, <1>11, <1>12
    <3> QED BY <2>1, <2>3, <3>1, <1>9 DEF GotBefore
  <2> QED BY <2>2, <2>3
<1>14. losses # 0 /\ losses \in Nat
  BY <1>3, Bounds DEF ControlInv, ChannelSane
<1>15. \A d \in Ends : Spoiled(d)'
  BY <1>9, <1>14 DEF Spoiled
<1>16. OldApart'
  <2>1. ASSUME NEW d \in old' PROVE d.end <= taken'[Client]
    BY <2>1, <1>4, <1>8, <1>9, <1>11 DEF OldApart
  <2>2. ASSUME NEW d \in old, d # c
        PROVE  new.end <= d.taken \/ d.end <= new.taken
    <3>1. c.end <= d.taken \/ d.end <= c.taken
      BY <2>2, <1>4 DEF OldApart
    <3>2. d.end \in Nat /\ d.taken \in Nat
      BY <1>3 DEF DataInv, IsOld
    <3> QED BY <3>1, <3>2, <1>5, <1>7, <1>8
  <2>3. ASSUME NEW a \in old', NEW b \in old', a # b
        PROVE  a.end <= b.taken \/ b.end <= a.taken
    <3>1. CASE a = new
      <4>1. b \in old /\ b # c
        BY <3>1, <2>3, <1>9
      <4> QED BY <3>1, <4>1, <2>2
    <3>2. CASE b = new
      <4>1. a \in old /\ a # c
        BY <3>2, <2>3, <1>9
      <4> QED BY <3>2, <4>1, <2>2
    <3>3. CASE a # new /\ b # new
      BY <3>3, <2>3, <1>4, <1>9 DEF OldApart
    <3> QED BY <3>1, <3>2, <3>3
  <2>4. ASSUME NEW d \in old', NEW k \in 1 .. Len(got'[Client])
        PROVE  got'[Client][k].last <= d.taken \/ d.end < got'[Client][k].last
    <3>1. CASE d = new
      <4>1. got'[Client][k].last \in Nat
        BY <1>10
      <4> QED BY <3>1, <4>1, <1>5, <1>7, <1>8, <1>11, <1>12
    <3>2. CASE d # new
      <4>1. d \in old /\ d # c
        BY <3>2, <1>9
      <4>2. CASE k \in 1 .. Len(got[Client]) /\ got'[Client][k].last = got[Client][k].last
        BY <4>1, <4>2, <1>4 DEF OldApart
      <4>3. CASE got'[Client][k].last = o.taken
        <5>1. c.end <= d.taken \/ d.end <= c.taken
          BY <4>1, <1>4 DEF OldApart
        <5>2. d.end \in Nat /\ d.taken \in Nat
          BY <4>1, <1>3 DEF DataInv, IsOld
        <5> QED BY <4>3, <5>1, <5>2, <1>5, <1>7
      <4> QED BY <4>2, <4>3, <1>12
    <3> QED BY <3>1, <3>2
  <2> QED BY <2>1, <2>3, <2>4 DEF OldApart
<1>17. \A d \in old' : IsOld(d)
  BY <1>3, <1>8, <1>9 DEF DataInv
<1>18. DataInv'
  BY <1>3, <1>9, <1>10, <1>13, <1>15, <1>16, <1>17 DEF DataInv
<1>19. ControlInv'
  BY <1>3, <1>9, <1>14 DEF ControlInv, ChannelSane, QueuedIsAttended, writeRequested
<1> QED BY <1>18, <1>19, Parts

LEMMA CloseOldInv ==
    ASSUME IInv, closeOld
    PROVE  IInv'
<1>1. DataInv /\ ControlInv
  BY Parts
<1>2. /\ UNCHANGED <<accepted, queued, written, taken, reader, calling, requests, ops, writing,
                     chan, retry, losses, got>>
      /\ old' \subseteq old
  BY DEF closeOld, sender, selector, sockets
<1>3. \A d \in Ends : CursorsOK(d)' /\ GotBefore(d)'
  BY <1>1, <1>2 DEF DataInv, CursorsOK, headPacket, GotBefore
<1>4. \A d \in Ends : ~Spoiled(d)' => InStep(d)'
  <2>1. \A d \in Ends : Spoiled(d)' <=> Spoiled(d)
    BY <1>2 DEF Spoiled, fits, dataLen
  <2>2. \A d \in Ends : InStep(d) => InStep(d)'
    BY <1>2 DEF InStep, InFrame, GotWhole, dataLen, payload
  <2> QED BY <2>1, <2>2, <1>1 DEF DataInv
<1>5. OldApart'
  BY <1>1, <1>2 DEF DataInv, OldApart
<1>6. DataInv'
  BY <1>1, <1>2, <1>3, <1>4, <1>5 DEF DataInv
<1>7. ControlInv'
  BY <1>1, <1>2 DEF ControlInv, ChannelSane, QueuedIsAttended, writeRequested
<1> QED BY <1>6, <1>7, Parts

LEMMA SendInv ==
    ASSUME IInv, NEW e \in Ends, Send(e)
    PROVE  IInv'
<1>1. DataInv /\ TypeOK /\ ControlInv
  BY Parts DEF IInv
<1>2. /\ accepted' = [accepted EXCEPT ![e] = @ + 1]
      /\ queued' = [queued EXCEPT ![e] = @ + 1]
      /\ calling' = [calling EXCEPT ![e] = "queued"]
      /\ accepted[e] < MaxPackets[e] /\ queued[e] < MaxQueue
      /\ UNCHANGED <<written, requests, ops, writing, chan, retry, losses, taken, reader, old,
                     got>>
  BY DEF Send, sockets, receiver
<1>3. /\ accepted[e] \in Nat /\ queued[e] \in 0 .. MaxQueue
      /\ accepted'[e] = accepted[e] + 1 /\ queued'[e] = queued[e] + 1
      /\ \A d \in Ends \ {e} : accepted'[d] = accepted[d] /\ queued'[d] = queued[d]
  BY <1>1, <1>2 DEF DataInv
<1>4. accepted' \in [Ends -> Nat] /\ queued' \in [Ends -> 0 .. MaxQueue]
  BY <1>1, <1>2, <1>3, Bounds DEF DataInv
<1>5. ASSUME NEW d \in Ends PROVE CursorsOK(d)'
  <2>1. CursorsOK(d)
    BY <1>1 DEF DataInv
  <2>2. CASE d # e
    BY <2>1, <2>2, <1>2, <1>3 DEF CursorsOK, headPacket
  <2>3. CASE d = e
    <3>1. headPacket(e)' = headPacket(e)
      BY <1>3 DEF headPacket
    <3>2. /\ headPacket(e) \in 1 .. MaxPackets[e] /\ written[e] \in Nat
          /\ Start[e][headPacket(e)] \in Nat
      <4>1. /\ headPacket(e) \in 1 .. MaxPackets[e] + 1
            /\ accepted[e] \in Nat /\ queued[e] \in Nat
        BY <1>1, WrittenIsAccepted
      <4>2. headPacket(e) <= accepted[e] + 1
        BY <4>1 DEF headPacket
      <4>3. headPacket(e) \in 1 .. MaxPackets[e]
        BY <4>1, <4>2, <1>2, Bounds
      <4> QED BY <4>1, <4>3, <1>1, Frames DEF DataInv
    <3>3. Start[e][headPacket(e) + 1] = Start[e][headPacket(e)] + 2 + dataLen(e, headPacket(e))
          /\ dataLen(e, headPacket(e)) \in Nat
      BY <3>2, Frames
    <3>4. written[e] < Start[e][headPacket(e) + 1]
      BY <2>1, <2>3, <3>2, <3>3 DEF CursorsOK
    <3>5. /\ queued'[e] # 0 /\ queued'[e] <= accepted'[e]
          /\ accepted'[e] <= MaxPackets[e]
      BY <2>1, <2>3, <1>2, <1>3, Bounds DEF CursorsOK
    <3>6. /\ Start[e][headPacket(e)'] <= written'[e] /\ written'[e] < Start[e][headPacket(e)' + 1]
          /\ taken'[e] <= written'[e] /\ written'[e] - taken'[e] <= Window[e]
      BY <2>1, <2>3, <3>1, <3>4, <1>2 DEF CursorsOK
    <3> HIDE <3>1
    <3> QED BY <2>3, <3>5, <3>6 DEF CursorsOK
  <2> QED BY <2>2, <2>3
<1>6. \A d \in Ends : GotBefore(d)' /\ IsReader(reader'[d])
  BY <1>1, <1>2 DEF DataInv, GotBefore
<1>a. \A d \in Ends : /\ accepted[d] \in Nat /\ accepted'[d] \in Nat /\ accepted[d] <= accepted'[d]
                      /\ Len(got[d]) \in Nat
  <2>1. \A d \in Ends : got[d] \in Seq(Chunk)
    BY <1>1 DEF DataInv
  <2>2. \A d \in Ends : Len(got[d]) \in Nat
    BY <2>1
  <2>3. \A d \in Ends : accepted[d] \in Nat /\ (accepted'[d] = accepted[d] \/ accepted'[d] = accepted[d] + 1)
    BY <1>1, <1>3 DEF DataInv
  <2> QED BY <2>2, <2>3
<1>7. ASSUME NEW d \in Ends, ~Spoiled(d)' PROVE InStep(d)'
  <2>0. ~Spoiled(d)
    <3>1. losses \in Nat
      BY <1>1, Bounds DEF ControlInv
    <3>2. /\ Len(got'[d]) = Len(got[d]) /\ losses' = losses
      BY <1>2
    <3>3. Len(got'[d]) \in Nat /\ Len(got[d]) <= Len(got'[d]) /\ losses <= losses'
      BY <3>1, <3>2, <1>a
    <3> QED BY <3>1, <3>2, <3>3, <1>a, <1>7, SpoiledStays
  <2>1. InStep(d)
    BY <2>0, <1>1 DEF DataInv
  <2>2. Len(got[d]) <= accepted'[d]
    BY <2>1, <1>a DEF InStep
  <2> QED BY <2>1, <2>2, <1>2 DEF InStep, InFrame, GotWhole, payload, dataLen
<1>8. DataInv'
  <2>1. OldApart' /\ (\A c \in old' : IsOld(c)) /\ written' \in [Ends -> Nat]
        /\ taken' \in [Ends -> Nat] /\ DOMAIN reader' = Ends /\ got' \in [Ends -> Seq(Chunk)]
    BY <1>1, <1>2 DEF DataInv, OldApart
  <2> QED BY <2>1, <1>4, <1>5, <1>6, <1>7 DEF DataInv
<1>9. ControlInv'
  <2>1. calling' \in [Ends -> {"idle", "queued", "connected", "unconnected"}]
    BY <1>1, <1>2 DEF ControlInv
  <2>2. \A d \in Ends : calling'[d] = calling[d] \/ calling'[d] = "queued"
    BY <1>1, <1>2 DEF ControlInv
  <2>3. ChannelSane'
    BY <2>2, <1>1, <1>2 DEF ControlInv, ChannelSane
  <2>4. ASSUME NEW d \in Ends, queued'[d] > 0, chan'[d] = "connected"
        PROVE  calling'[d] # "idle" \/ ops'[d] = "WRITE" \/ writeRequested(d)'
    <3>1. CASE d = e
      BY <3>1, <1>1, <1>2 DEF ControlInv
    <3>2. CASE d # e
      <4>1. calling'[d] = calling[d] /\ queued'[d] = queued[d]
        BY <3>2, <1>1, <1>2, <1>3 DEF ControlInv
      <4>2. calling[d] # "idle" \/ ops[d] = "WRITE" \/ writeRequested(d)
        BY <4>1, <2>4, <1>1, <1>2 DEF ControlInv, QueuedIsAttended
      <4> QED BY <4>1, <4>2, <1>2 DEF writeRequested
    <3> QED BY <3>1, <3>2
  <2>5. QueuedIsAttended'
    BY <2>4 DEF QueuedIsAttended
  <2> QED BY <2>1, <2>3, <2>5, <1>1, <1>2 DEF ControlInv
<1> QED BY <1>8, <1>9, Parts

LEMMA HandleWriteInv ==
    ASSUME IInv, NEW e \in Ends, handleWrite(e)
    PROVE  IInv'
<1> DEFINE h    == headPacket(e)
           rest == Start[e][h + 1] - written[e]
           n    == lesser(rest, Window[e] - (written[e] - taken[e]))
<1>1. DataInv /\ TypeOK /\ ControlInv
  BY Parts DEF IInv
<1>2. /\ written' = [written EXCEPT ![e] = @ + n]
      /\ queued' = [queued EXCEPT ![e] = IF n = rest THEN @ - 1 ELSE @]
      /\ writing' = [writing EXCEPT ![e] = (n = rest)]
      /\ queued[e] > 0 /\ writing[e]
      /\ UNCHANGED <<accepted, calling, requests, ops, chan, retry, losses, taken, reader, old,
                     got>>
  BY DEF handleWrite, sockets, receiver
<1>3. /\ queued[e] \in 1 .. MaxQueue /\ accepted[e] \in Nat /\ written[e] \in Nat
      /\ taken[e] \in Nat /\ Window[e] \in Nat /\ h \in 1 .. MaxPackets[e]
      /\ MaxPackets[e] \in Nat
  BY <1>1, <1>2, WrittenIsAccepted, Bounds DEF DataInv
<1>4. /\ h + 1 \in 1 .. MaxPackets[e] + 1 /\ Start[e][h] \in Nat /\ Start[e][h + 1] \in Nat
      /\ Start[e][h] < Start[e][h + 1]
  <2>1. h \in 1 .. MaxPackets[e] + 1 /\ h + 1 \in 1 .. MaxPackets[e] + 1 /\ h < h + 1
    BY <1>3
  <2> HIDE DEF h
  <2> QED BY <2>1, Frames
<1>5. /\ written[e] < Start[e][h + 1] /\ Start[e][h] <= written[e]
      /\ taken[e] <= written[e] /\ written[e] - taken[e] <= Window[e]
      /\ queued[e] <= accepted[e] /\ accepted[e] <= MaxPackets[e]
  BY <1>1, <1>3 DEF DataInv, CursorsOK
<1> HIDE DEF h
<1>6. /\ rest \in Nat /\ n \in Nat /\ n <= rest
      /\ n <= Window[e] - (written[e] - taken[e])
  BY <1>3, <1>4, <1>5 DEF lesser
<1> HIDE DEF n, rest
<1>7. /\ written'[e] = written[e] + n
      /\ queued'[e] = IF n = rest THEN queued[e] - 1 ELSE queued[e]
      /\ \A d \in Ends \ {e} : written'[d] = written[d] /\ queued'[d] = queued[d]
      /\ accepted' = accepted /\ taken' = taken
  BY <1>1, <1>2 DEF DataInv
<1>8. written' \in [Ends -> Nat]
  BY <1>1, <1>2, <1>3, <1>6 DEF DataInv
<1>9. queued' \in [Ends -> 0 .. MaxQueue]
  <2>1. queued[e] - 1 \in 0 .. MaxQueue /\ queued[e] \in 0 .. MaxQueue
    BY <1>3, Bounds
  <2> QED BY <1>1, <1>2, <2>1 DEF DataInv
<1>10. ASSUME NEW d \in Ends PROVE CursorsOK(d)'
  <2>1. CursorsOK(d)
    BY <1>1 DEF DataInv
  <2>2. CASE d # e
    BY <2>1, <2>2, <1>7 DEF CursorsOK, headPacket
  <2>3. CASE d = e
    <3>1. taken[e] <= written[e] + n /\ (written[e] + n) - taken[e] <= Window[e]
      BY <1>3, <1>5, <1>6
    <3>2. CASE n = rest
      <4>1. queued'[e] = queued[e] - 1
        BY <1>7, <3>2
      <4>2. accepted'[e] - queued'[e] + 1 = h + 1
        BY <1>3, <1>7, <4>1 DEF h, headPacket
      <4>3. written'[e] = Start[e][h + 1]
        BY <1>3, <1>4, <1>7, <3>2 DEF rest
      <4>4. queued'[e] # 0 => accepted'[e] - queued'[e] + 2 \in 1 .. MaxPackets[e] + 1
        BY <1>3, <1>5, <1>7, <4>1
      <4>5. queued'[e] # 0 => Start[e][h + 1] < Start[e][h + 2]
        <5>1. SUFFICES ASSUME queued'[e] # 0 PROVE Start[e][h + 1] < Start[e][h + 2]
          OBVIOUS
        <5>2. h + 2 = accepted'[e] - queued'[e] + 2
          BY <1>3, <1>7, <4>2, <4>1
        <5>3. h + 2 \in 1 .. MaxPackets[e] + 1 /\ h + 1 < h + 2
          BY <4>4, <5>1, <5>2, <1>3
        <5> QED BY <5>3, <1>4, Frames
      <4>6. headPacket(e)' = h + 1
        BY <4>2 DEF headPacket
      <4>7. headPacket(e)' + 1 = h + 2
        BY <4>6, <1>3
      <4>8. queued'[e] <= accepted'[e] /\ accepted'[e] <= MaxPackets[e]
        BY <1>3, <1>5, <1>7, <4>1
      <4>9. Start[e][headPacket(e)'] <= written'[e]
        BY <4>3, <4>6, <1>4
      <4>10. IF queued'[e] = 0 THEN written'[e] = Start[e][headPacket(e)']
                               ELSE written'[e] < Start[e][headPacket(e)' + 1]
        BY <4>3, <4>5, <4>6, <4>7
      <4>11. taken'[e] <= written'[e] /\ written'[e] - taken'[e] <= Window[e]
        BY <3>1, <1>7
      <4> HIDE <4>6, <4>7
      <4> QED BY <2>3, <4>8, <4>9, <4>10, <4>11 DEF CursorsOK
    <3>3. CASE n # rest
      <4>1. queued'[e] = queued[e] /\ headPacket(e)' = h
        BY <1>7, <3>3 DEF h, headPacket
      <4>2. written'[e] < Start[e][h + 1] /\ Start[e][h] <= written'[e]
        <5>1. n < rest
          BY <1>6, <3>3
        <5> QED BY <5>1, <1>3, <1>4, <1>5, <1>6, <1>7 DEF rest
      <4>3. queued'[e] # 0 /\ queued'[e] <= accepted'[e] /\ accepted'[e] <= MaxPackets[e]
        BY <4>1, <1>3, <1>5, <1>7
      <4>4. taken'[e] <= written'[e] /\ written'[e] - taken'[e] <= Window[e]
        BY <3>1, <1>7
      <4> QED BY <2>3, <4>1, <4>2, <4>3, <4>4 DEF CursorsOK
    <3> QED BY <3>2, <3>3
  <2> QED BY <2>2, <2>3
<1>11. DataInv'
  <2>1. \A d \in Ends : GotBefore(d)' /\ IsReader(reader[d])'
    BY <1>1, <1>2 DEF DataInv, GotBefore
  <2>2. \A d \in Ends : ~Spoiled(d)' => InStep(d)'
    <3>1. \A d \in Ends : Spoiled(d)' <=> Spoiled(d)
      BY <1>2 DEF Spoiled, fits, dataLen
    <3>2. \A d \in Ends : InStep(d) => InStep(d)'
      BY <1>2 DEF InStep, InFrame, GotWhole, dataLen, payload
    <3> QED BY <3>1, <3>2, <1>1 DEF DataInv
  <2>3. /\ accepted' \in [Ends -> Nat] /\ taken' \in [Ends -> Nat]
        /\ DOMAIN reader' = Ends /\ got' \in [Ends -> Seq(Chunk)]
        /\ OldApart' /\ \A c \in old' : IsOld(c)
    BY <1>1, <1>2 DEF DataInv, OldApart
  <2> QED BY <1>8, <1>9, <1>10, <2>1, <2>2, <2>3 DEF DataInv
<1>12. ControlInv'
  <2>2. chan[e] = "connected"
    BY DEF handleWrite
  <2>1. ops[e] = "WRITE"
    BY <2>2, <1>1, <1>2 DEF ControlInv, ChannelSane
  <2>3. (n = rest) \in BOOLEAN
    OBVIOUS
  <2>4. writing' \in [Ends -> BOOLEAN] /\ \A d \in Ends : writing'[d] => writing[d]
    BY <1>1, <1>2, <2>3 DEF ControlInv
  <2>5. ASSUME NEW d \in Ends, queued'[d] > 0, chan'[d] = "connected"
        PROVE  calling'[d] # "idle" \/ ops'[d] = "WRITE" \/ writeRequested(d)'
    <3>1. CASE d = e
      BY <3>1, <1>2, <2>1
    <3>2. CASE d # e
      <4>1. queued[d] > 0 /\ chan[d] = "connected"
        BY <2>5, <3>2, <1>2, <1>7
      <4>2. calling[d] # "idle" \/ ops[d] = "WRITE" \/ writeRequested(d)
        BY <4>1, <1>1 DEF ControlInv, QueuedIsAttended
      <4> QED BY <4>2, <1>2 DEF writeRequested
    <3> QED BY <3>1, <3>2
  <2>6. ChannelSane' /\ QueuedIsAttended'
    BY <1>1, <1>2, <2>4, <2>5 DEF ControlInv, ChannelSane, QueuedIsAttended
  <2> QED BY <1>1, <1>2, <2>4, <2>6 DEF ControlInv
<1> QED BY <1>11, <1>12, Parts

LEMMA LossInv ==
    ASSUME IInv, Loss
    PROVE  IInv'
<1>1. DataInv /\ TypeOK /\ ControlInv
  BY Parts DEF IInv
<1>2. /\ losses < MaxLosses /\ losses' = losses + 1
      /\ chan' = [e \in Ends |-> "lost"]
      /\ UNCHANGED <<accepted, queued, written, calling, requests, ops, writing,
                     retry, taken, reader, old, got>>
  BY DEF Loss, sender, selector, receiver
<1>3. losses \in 0 .. MaxLosses
  BY <1>1 DEF ControlInv
<1>4. losses' \in 0 .. MaxLosses /\ losses' > 0
  BY <1>2, <1>3, Bounds
<1>5. \A e \in Ends : CursorsOK(e)' /\ GotBefore(e)'
  BY <1>1, <1>2 DEF DataInv, CursorsOK, headPacket, GotBefore
<1>6. \A e \in Ends : Spoiled(e)'
  BY <1>4 DEF Spoiled
<1>7. DataInv'
  BY <1>1, <1>2, <1>5, <1>6 DEF DataInv, OldApart
<1>8. ControlInv'
  BY <1>1, <1>2, <1>4 DEF ControlInv, ChannelSane, QueuedIsAttended
<1> QED BY <1>7, <1>8, Parts

\* A new connection reads nothing that one the server keeps may still read.
LEMMA FinishConnectInv ==
    ASSUME IInv, finishConnect
    PROVE  IInv'
<1> DEFINE skipped == Start[Server][accepted[Server] + 1]
           behind  == [taken |-> taken[Client], end |-> written[Client],
                       reader |-> reader[Client]]
<1>1. DataInv /\ TypeOK /\ ControlInv
  BY Parts DEF IInv
<1>2. /\ chan[Client] = "connecting" /\ \A e \in Ends : ~writing[e]
      /\ chan' = [e \in Ends |-> "connected"]
      /\ old' = IF chan[Server] = "lost" THEN old \cup {behind} ELSE old
      /\ queued' = [queued EXCEPT ![Server] = 0]
      /\ written' = [written EXCEPT ![Server] = skipped]
      /\ taken' = [e \in Ends |-> IF e = Server THEN skipped ELSE written[e]]
      /\ reader' = [reader EXCEPT ![Client] = emptyReader]
      /\ calling' = [calling EXCEPT ![Server] = "idle"]
      /\ requests' = [requests EXCEPT ![Server] = <<>>]
      /\ ops' = [e \in Ends |-> IF e = Client /\ queued[e] > 0 THEN "WRITE" ELSE "READ"]
      /\ UNCHANGED <<accepted, writing, retry, got, losses>>
  BY DEF finishConnect
<1>3. losses > 0 /\ losses \in Nat
  <2>1. losses \in Nat
    BY <1>1, Bounds DEF ControlInv
  <2>2. losses # 0
    BY <1>1, <1>2, BothEnds DEF ControlInv, ChannelSane
  <2> QED BY <2>1, <2>2
<1>4. \A e \in Ends : Spoiled(e)'
  BY <1>2, <1>3 DEF Spoiled
<1>5. /\ accepted[Server] \in Nat /\ accepted[Server] <= MaxPackets[Server]
      /\ written[Server] \in Nat /\ written[Server] <= skipped
      /\ taken[Server] \in Nat /\ taken[Server] <= written[Server]
  BY <1>1, BothEnds, WrittenIsAccepted DEF DataInv, CursorsOK
<1>6. skipped \in Nat
  <2>1. accepted[Server] + 1 \in 1 .. MaxPackets[Server] + 1
    BY <1>5, BothEnds, Bounds
  <2> QED BY <2>1, BothEnds, Frames
<1> HIDE DEF skipped
<1>7. /\ taken[Client] \in Nat /\ written[Client] \in Nat /\ taken[Client] <= written[Client]
      /\ IsReader(reader[Client]) /\ Window[Client] \in Nat /\ Window[Server] \in Nat
  BY <1>1, BothEnds, Bounds DEF DataInv, CursorsOK
<1>8. behind.taken = taken[Client] /\ behind.end = written[Client] /\ IsOld(behind)
  BY <1>7 DEF IsOld
<1> HIDE DEF behind
<1>9. /\ written' \in [Ends -> Nat] /\ taken' \in [Ends -> Nat]
      /\ queued' \in [Ends -> 0 .. MaxQueue]
      /\ taken'[Client] = written[Client] /\ written'[Client] = written[Client]
      /\ taken'[Server] = skipped /\ written'[Server] = skipped
      /\ queued'[Client] = queued[Client] /\ queued'[Server] = 0
  <2>1. 0 \in 0 .. MaxQueue
    BY Bounds
  <2> QED BY <1>1, <1>2, <1>6, <2>1, BothEnds DEF DataInv
<1>10. DOMAIN reader' = Ends /\ \A e \in Ends : IsReader(reader'[e])
  BY <1>1, <1>2, BothEnds, EmptyIsReader DEF DataInv
<1>11. \A e \in Ends : \A k \in 1 .. Len(got[e]) :
            got[e][k].last \in Nat /\ got[e][k].last <= taken[e]
  <2>1. \A e \in Ends : \A k \in 1 .. Len(got[e]) : got[e][k] \in Chunk
    BY <1>1 DEF DataInv
  <2>2. \A c \in Chunk : c.last \in Nat
    BY DEF Chunk
  <2> QED BY <2>1, <2>2, <1>1 DEF DataInv, GotBefore
<1>12. CursorsOK(Client)' /\ GotBefore(Client)'
  <2>1. CursorsOK(Client) /\ Client \in Ends
    BY <1>1, BothEnds DEF DataInv
  <2>2. written[Client] - written[Client] <= Window[Client] /\ written[Client] <= written[Client]
    BY <1>7
  <2>3. CursorsOK(Client)'
    BY <2>1, <2>2, <1>2, <1>9 DEF CursorsOK, headPacket
  <2>4. \A k \in 1 .. Len(got[Client]) : got[Client][k].last <= written[Client]
    BY <2>1, <1>7, <1>11
  <2> QED BY <2>3, <2>4, <1>2, <1>9 DEF GotBefore
<1>13. CursorsOK(Server)' /\ GotBefore(Server)'
  <2>1. accepted'[Server] = accepted[Server] /\ got' = got /\ Server \in Ends
    BY <1>2, BothEnds
  <2>2. accepted'[Server] - queued'[Server] + 1 = accepted[Server] + 1
    BY <2>1, <1>5, <1>9
  <2>3. Start[Server][accepted'[Server] - queued'[Server] + 1] = skipped
    BY <2>2 DEF skipped
  <2>4. skipped - skipped <= Window[Server] /\ skipped <= skipped
    BY <1>6, <1>7
  <2>5. CursorsOK(Server)'
    BY <2>1, <2>3, <2>4, <1>5, <1>9 DEF CursorsOK, headPacket
  <2>6. \A k \in 1 .. Len(got[Server]) : got[Server][k].last <= skipped
    BY <2>1, <1>5, <1>6, <1>11
  <2> QED BY <2>1, <2>5, <2>6, <1>9 DEF GotBefore
<1>14. OldApart'
  <2>1. OldApart /\ \A c \in old : IsOld(c)
    BY <1>1 DEF DataInv
  <2>2. \A c \in old : /\ c.end \in Nat /\ c.taken \in Nat
                       /\ c.end <= taken[Client]
                       /\ \A k \in 1 .. Len(got[Client]) :
                            got[Client][k].last <= c.taken \/ c.end < got[Client][k].last
    BY <2>1 DEF OldApart, IsOld
  <2>3. ASSUME NEW c \in old' PROVE c \in old \/ c = behind
    BY <1>2, <2>3
  <2>4. ASSUME NEW c \in old' PROVE c.end <= taken'[Client]
    <3>1. CASE c \in old
      BY <3>1, <2>2, <1>7, <1>9
    <3>2. CASE c = behind
      BY <3>2, <1>7, <1>8, <1>9
    <3> QED BY <2>3, <3>1, <3>2
  <2>5. ASSUME NEW c \in old', NEW d \in old', c # d
        PROVE  c.end <= d.taken \/ d.end <= c.taken
    <3>1. CASE c \in old /\ d \in old
      BY <3>1, <2>1, <2>5 DEF OldApart
    <3>2. CASE c = behind
      <4>1. d \in old
        BY <2>3, <2>5, <3>2
      <4> QED BY <3>2, <4>1, <2>2, <1>8
    <3>3. CASE d = behind
      <4>1. c \in old
        BY <2>3, <2>5, <3>3
      <4> QED BY <3>3, <4>1, <2>2, <1>8
    <3> QED BY <2>3, <3>1, <3>2, <3>3
  <2>6. ASSUME NEW c \in old', NEW k \in 1 .. Len(got'[Client])
        PROVE  got'[Client][k].last <= c.taken \/ c.end < got'[Client][k].last
    <3>1. CASE c \in old
      BY <3>1, <2>2, <1>2
    <3>2. CASE c = behind
      BY <3>2, <1>2, <1>8, <1>11, BothEnds
    <3> QED BY <2>3, <3>1, <3>2
  <2> QED BY <2>4, <2>5, <2>6 DEF OldApart
<1>15. \A c \in old' : IsOld(c)
  BY <1>1, <1>2, <1>8 DEF DataInv
<1>16. DataInv'
  <2>1. \A e \in Ends : CursorsOK(e)' /\ GotBefore(e)'
    BY <1>12, <1>13, BothEnds
  <2> QED BY <2>1, <1>1, <1>2, <1>4, <1>9, <1>10, <1>14, <1>15 DEF DataInv
<1>17. ControlInv'
  <2>1. /\ calling' \in [Ends -> {"idle", "queued", "connected", "unconnected"}]
        /\ ops' \in [Ends -> {"NONE", "READ", "WRITE", "CONNECT"}] /\ writing' \in [Ends -> BOOLEAN]
        /\ chan' \in [Ends -> {"connected", "lost", "closed", "opened", "connecting"}]
        /\ retry' \in BOOLEAN /\ losses' \in 0 .. MaxLosses
    BY <1>1, <1>2 DEF ControlInv
  <2>2. requests' \in [Ends -> Seq({"WRITE", "CONNECT"})]
    <3>1. <<>> \in Seq({"WRITE", "CONNECT"})
      OBVIOUS
    <3> QED BY <3>1, <1>1, <1>2 DEF ControlInv
  <2>3. ChannelSane'
    BY <1>2, <1>3 DEF ChannelSane
  <2>4. QueuedIsAttended'
    BY <1>2, <1>9, BothEnds DEF QueuedIsAttended
  <2> QED BY <2>1, <2>2, <2>3, <2>4 DEF ControlInv
<1> QED BY <1>16, <1>17, Parts

LEMMA NextInv == IInv /\ [Next]_vars => IInv'
<1> SUFFICES ASSUME IInv, [Next]_vars PROVE IInv'
  OBVIOUS
<1>1. CASE UNCHANGED vars
  <2>1. DataInv'
    BY <1>1, Parts, DataUnchanged DEF vars, sockets
  <2>2. ControlInv'
    BY <1>1, Parts DEF vars, sender, selector, sockets, receiver, ControlInv, ChannelSane,
                       QueuedIsAttended, writeRequested
  <2> QED BY <2>1, <2>2, Parts
<1>2. ASSUME NEW e \in Ends, SenderNext(e) PROVE IInv'
  BY <1>2, SendInv, CallingInv DEF SenderNext
<1>3. ASSUME NEW e \in Ends, SelectorNext(e) PROVE IInv'
  BY <1>3, RequestsInv, HandleReadInv, HandleWriteInv, SelectorInv DEF SelectorNext
<1>4. CASE Loss
  BY <1>4, LossInv
<1>5. CASE reconnect \/ connectFails
  BY <1>5, BothEnds, SelectorInv
<1>6. CASE Register
  BY <1>6, BothEnds, RequestsInv
<1>7. CASE finishConnect
  BY <1>7, FinishConnectInv
<1>8. CASE readOld \/ closeOld
  BY <1>8, ReadOldInv, CloseOldInv
<1> QED BY <1>1, <1>2, <1>3, <1>4, <1>5, <1>6, <1>7, <1>8 DEF Next

\* The inductive invariant of a connection and its two selector threads
\* (TCPConnection, NIOSelectorThread) holds in every state, whatever is sent.
THEOREM Invariance == Spec => []IInv
BY InitInv, NextInv, PTL DEF Spec

\* Cursors stay in order, the queue and the window within bounds (TCPConnection.handleWrite).
THEOREM TypeCorrect == Spec => []TypeOK
<1>1. IInv => TypeOK
  BY DEF IInv
<1> QED BY <1>1, Invariance, PTL

\* Whatever send accepts, readers keep track of where frames begin until a connection is
\* lost or a packet that does not fit is the next (TCPConnection.handleRead).
THEOREM ReadersStayInStep == Spec => []ReaderInStep
<1>1. IInv => ReaderInStep
  BY DEF IInv, ReaderInStep, InStep
<1> QED BY <1>1, Invariance, PTL

\* No packet is stranded in the queue of a connection that is up, between send and the
\* selector thread (TCPConnection.send, NIOSelectorThread.processChangeRequests, write).
THEOREM QueuedPacketsAreAttended == Spec => []QueuedIsAttended
<1>1. IInv => QueuedIsAttended
  BY DEF IInv
<1> QED BY <1>1, Invariance, PTL

-----------------------------------------------------------------------------
\* The refinement.

\* Packets that were handed over keep their number when another one follows.
LEMMA DeliveredGrows ==
    ASSUME IInv, NEW s \in Ends, NEW c \in Chunk, got' = [got EXCEPT ![s] = Append(@, c)]
    PROVE  deliveredPackets' =
               [deliveredPackets EXCEPT ![s] = Append(@, packetOf(s, c))]
<1>1. got \in [Ends -> Seq(Chunk)]
  BY DEF IInv, TypeOK
<1>2. /\ Len(got'[s]) = Len(got[s]) + 1 /\ Len(got[s]) \in Nat
      /\ got'[s][Len(got[s]) + 1] = c
      /\ \A k \in 1 .. Len(got[s]) : got'[s][k] = got[s][k]
      /\ \A e \in Ends \ {s} : got'[e] = got[e]
  BY <1>1
<1>3. deliveredPackets' = [e \in Ends |-> [k \in 1 .. Len(got'[e]) |-> packetOf(e, got'[e][k])]]
  BY DEF deliveredPackets, packetOf, payload, dataLen
<1>4. deliveredPackets[s] \in Seq(0 .. MaxPackets[s])
  <2>1. \A k \in 1 .. Len(got[s]) : packetOf(s, got[s][k]) \in 0 .. MaxPackets[s]
    BY PacketOfChunk
  <2> QED BY <2>1, <1>2 DEF deliveredPackets
<1>5. Len(deliveredPackets[s]) = Len(got[s])
  BY <1>2 DEF deliveredPackets
<1>6. Append(deliveredPackets[s], packetOf(s, c))
        = [k \in 1 .. Len(got[s]) + 1 |->
              IF k = Len(got[s]) + 1 THEN packetOf(s, c) ELSE packetOf(s, got[s][k])]
  <2>1. packetOf(s, c) \in 0 .. MaxPackets[s]
    BY PacketOfChunk
  <2>3. \A k \in 1 .. Len(got[s]) : deliveredPackets[s][k] = packetOf(s, got[s][k])
    BY DEF deliveredPackets
  <2>4. Append(deliveredPackets[s], packetOf(s, c))
          = [k \in 1 .. Len(got[s]) + 1 |->
                IF k = Len(got[s]) + 1 THEN packetOf(s, c) ELSE deliveredPackets[s][k]]
    BY <2>1, <1>2, <1>4, <1>5
  <2>5. \A k \in 1 .. Len(got[s]) + 1 : k = Len(got[s]) + 1 \/ k \in 1 .. Len(got[s])
    BY <1>2
  <2> QED BY <2>3, <2>4, <2>5
<1>7. [k \in 1 .. Len(got'[s]) |-> packetOf(s, got'[s][k])]
        = Append(deliveredPackets[s], packetOf(s, c))
  <2> DEFINE m == Len(got[s]) + 1
  <2>1. \A k \in 1 .. m : packetOf(s, got'[s][k])
            = IF k = m THEN packetOf(s, c) ELSE packetOf(s, got[s][k])
    BY <1>2
  <2>2. Len(got'[s]) = m
    BY <1>2
  <2> HIDE DEF m
  <2>3. [k \in 1 .. m |-> packetOf(s, got'[s][k])]
            = [k \in 1 .. m |-> IF k = m THEN packetOf(s, c) ELSE packetOf(s, got[s][k])]
    BY <2>1
  <2> QED BY <2>2, <2>3, <1>6 DEF m
<1>8. \A e \in Ends \ {s} : deliveredPackets'[e] = deliveredPackets[e]
  BY <1>2, <1>3 DEF deliveredPackets
<1>9. deliveredPackets'[s] = Append(deliveredPackets[s], packetOf(s, c))
  BY <1>3, <1>7
<1>10. /\ deliveredPackets' = [e \in Ends |-> deliveredPackets'[e]]
       /\ deliveredPackets = [e \in Ends |-> deliveredPackets[e]]
  BY <1>3 DEF deliveredPackets
<1> QED BY <1>8, <1>9, <1>10

LEMMA DeliveredStays ==
    ASSUME got' = got
    PROVE  deliveredPackets' = deliveredPackets
BY DEF deliveredPackets, packetOf, payload, dataLen

\* The channel is unsound in a direction when the connection is spoiled in it.
LEMMA SoundIsUnspoiled ==
    ASSUME IInv, NEW e \in Ends
    PROVE  Channel!Sound(e) <=> ~Spoiled(e)
<1>1. accepted[e] \in Nat /\ accepted[e] <= MaxPackets[e] /\ MaxPackets[e] \in Nat
  BY WrittenIsAccepted, Bounds DEF IInv
<1>2. Len(deliveredPackets[e]) = Len(got[e]) /\ losses \in Nat
  <2>1. got[e] \in Seq(Chunk)
    BY DEF IInv, TypeOK
  <2>2. Len(got[e]) \in Nat
    BY <2>1
  <2> QED BY <2>2, Bounds DEF IInv, TypeOK, deliveredPackets
<1>3. \A i \in 1 .. accepted[e] : <<e, i>> \in unfitPackets <=> ~fits(e, i)
  <2>1. \A i \in 1 .. accepted[e] : i \in 1 .. MaxPackets[e]
    BY <1>1
  <2>2. ASSUME NEW i \in 1 .. accepted[e], <<e, i>> \in unfitPackets PROVE ~fits(e, i)
    <3>1. PICK d \in Ends : <<e, i>> \in {<<d, n>> : n \in {j \in 1 .. MaxPackets[d] : ~fits(d, j)}}
      BY <2>2 DEF unfitPackets
    <3>2. PICK n \in {j \in 1 .. MaxPackets[d] : ~fits(d, j)} : <<e, i>> = <<d, n>>
      BY <3>1
    <3> QED BY <3>2
  <2>3. ASSUME NEW i \in 1 .. accepted[e], ~fits(e, i) PROVE <<e, i>> \in unfitPackets
    BY <2>1, <2>3 DEF unfitPackets
  <2> QED BY <2>2, <2>3
<1>4. Channel!Sound(e) <=>
        /\ losses = 0
        /\ \A i \in 1 .. accepted[e] : i <= Len(got[e]) + 1 => fits(e, i)
  BY <1>2, <1>3 DEF Channel!Sound
<1> QED BY <1>2, <1>4 DEF Spoiled

\* While something may be missing, a packet that was not handed over yet may be.
LEMMA UnsoundDelivery ==
    ASSUME IInv, NEW s \in Ends, Spoiled(s), NEW c \in Chunk,
           got' = [got EXCEPT ![s] = Append(@, c)], accepted' = accepted, losses' = losses,
           c.last <= written[s],
           \A k \in 1 .. Len(got[s]) : got[s][k].last # c.last
    PROVE  Channel!ChanNext
<1> DEFINE i == packetOf(s, c)
<1>1. deliveredPackets' = [deliveredPackets EXCEPT ![s] = Append(@, i)]
  BY DeliveredGrows
<1>2. i \in 0 .. MaxPackets[s] /\ (i # 0 => c.last = Start[s][i + 1])
  BY PacketOfChunk
<1> HIDE DEF i
<1>3. /\ accepted[s] \in Nat /\ accepted[s] <= MaxPackets[s] /\ MaxPackets[s] \in Nat
      /\ written[s] \in Nat /\ written[s] <= Start[s][accepted[s] + 1]
  BY WrittenIsAccepted, Bounds DEF IInv, TypeOK
<1>4. ASSUME i # 0 PROVE i <= accepted[s]
  <2>1. i + 1 \in 1 .. MaxPackets[s] + 1 /\ accepted[s] + 1 \in 1 .. MaxPackets[s] + 1
    BY <1>2, <1>3
  <2>2. Start[s][i + 1] \in Nat /\ Start[s][accepted[s] + 1] \in Nat
    BY <2>1, Frames
  <2>3. \/ Start[s][i + 1] < Start[s][accepted[s] + 1]
        \/ Start[s][i + 1] = Start[s][accepted[s] + 1]
    BY <1>2, <1>3, <1>4, <2>2
  <2>4. i + 1 < accepted[s] + 1 \/ i + 1 = accepted[s] + 1
    BY <2>1, <2>3, Frames
  <2> QED BY <2>4, <1>2, <1>3
<1>5. i \in 0 .. accepted[s]
  BY <1>2, <1>3, <1>4
<1>6. \A k \in 1 .. Len(deliveredPackets[s]) : i # 0 => deliveredPackets[s][k] # i
  <2>1. got[s] \in Seq(Chunk) /\ Len(got[s]) \in Nat
    <3>1. got[s] \in Seq(Chunk)
      BY DEF IInv, TypeOK
    <3> QED BY <3>1
  <2>2. /\ Len(deliveredPackets[s]) = Len(got[s])
        /\ \A k \in 1 .. Len(got[s]) : deliveredPackets[s][k] = packetOf(s, got[s][k])
    BY <2>1 DEF deliveredPackets
  <2>3. ASSUME NEW k \in 1 .. Len(got[s]), i # 0, deliveredPackets[s][k] = i PROVE FALSE
    <3>1. packetOf(s, got[s][k]) = i
      BY <2>2, <2>3
    <3>2. got[s][k].last = Start[s][i + 1]
      BY <2>3, <3>1, PacketOfChunk
    <3> QED BY <3>2, <2>3, <1>2
  <2> QED BY <2>2, <2>3
<1>7. ~Channel!Sound(s)
  BY SoundIsUnspoiled
<1>8. Channel!DeliverUnsound(s)
  BY <1>1, <1>5, <1>6, <1>7 DEF Channel!DeliverUnsound
<1> QED BY <1>8 DEF Channel!ChanNext

LEMMA ReadImplements ==
    ASSUME IInv, NEW e \in Ends, handleRead(e)
    PROVE  Channel!ChanNext \/ UNCHANGED Channel!chanVars
<1>1. PICK s \in Ends : s = other(e)
  BY OtherEnd
<1>2. PICK o \in reads(s, taken[s], written[s], reader[s]) :
        /\ taken' = [taken EXCEPT ![s] = o.taken]
        /\ reader' = [reader EXCEPT ![s] = o.reader]
        /\ handOver(s, o.chunk)
  BY <1>1 DEF handleRead
<1>3. DataInv /\ TypeOK
  BY Parts DEF IInv
<1>4. taken[s] \in Nat /\ written[s] \in Nat /\ IsReader(reader[s]) /\ taken[s] < written[s]
  BY <1>2, <1>3 DEF DataInv, reads
<1>5. /\ o.taken \in Nat /\ taken[s] < o.taken /\ o.taken <= written[s]
      /\ o.chunk # nothing => o.chunk \in Chunk /\ o.chunk.last = o.taken
  <2>1. IsOutcome(taken[s], written[s], o)
    BY <1>4, ReadOutcomes
  <2> QED BY <2>1 DEF IsOutcome
<1>6. accepted' = accepted /\ losses' = losses
  BY DEF handleRead, sender, sockets
<1>7. CASE o.chunk = nothing
  <2>1. got' = got
    BY <1>2, <1>7 DEF handOver
  <2> QED BY <2>1, <1>6, DeliveredStays DEF Channel!chanVars
<1>8. CASE o.chunk # nothing
  <2> DEFINE c == o.chunk
  <2>1. /\ c \in Chunk /\ c.last = o.taken
        /\ got' = [got EXCEPT ![s] = Append(@, c)]
    BY <1>2, <1>5, <1>8 DEF handOver
  <2>2. /\ got[s] \in Seq(Chunk) /\ Len(got[s]) \in Nat
        /\ got'[s] = Append(got[s], c)
        /\ Len(got'[s]) = Len(got[s]) + 1 /\ got'[s][Len(got[s]) + 1] = c
    <3>1. got[s] \in Seq(Chunk) /\ got'[s] = Append(got[s], c)
      BY <2>1, <1>3 DEF DataInv
    <3> HIDE DEF c
    <3> QED BY <3>1, <2>1
  <2>3. CASE ~Spoiled(s)
    <3>1. InStep(s)
      BY <2>3, <1>3 DEF DataInv
    <3>2. Len(got[s]) + 1 \in 1 .. accepted[s] /\ Len(got[s]) + 1 \in 1 .. MaxPackets[s]
      BY <3>1, <1>3, <1>4, NextIsAccepted
    <3>3. fits(s, Len(got[s]) + 1)
      BY <2>3, <3>2 DEF Spoiled
    <3>4. Receives(s, o)
      BY <2>2, <1>2, <1>3, <1>8 DEF Receives, DataInv
    <3>5. InStep(s)'
      BY <3>1, <3>3, <3>4, <1>2, <1>3, <1>6, ReadInStep
    <3>6. c = payload(s, Len(got[s]) + 1)
      <4>1. \A k \in 1 .. Len(got'[s]) : got'[s][k] = payload(s, k)
        BY <3>5 DEF InStep, GotWhole, payload, dataLen
      <4>2. Len(got[s]) + 1 \in 1 .. Len(got'[s])
        BY <2>2
      <4> QED BY <4>1, <4>2, <2>2
    <3>7. Len(deliveredPackets[s]) = Len(got[s])
      BY <2>2 DEF deliveredPackets
    <3>8. packetOf(s, c) = Len(deliveredPackets[s]) + 1
      BY <3>2, <3>6, <3>7, PacketOfPayload
    <3>9. Len(deliveredPackets[s]) < accepted[s]
      BY <3>2, <3>7, <2>2, <1>3, WrittenIsAccepted
    <3>10. deliveredPackets' = [deliveredPackets EXCEPT ![s] = Append(@, packetOf(s, c))]
      BY <2>1, DeliveredGrows
    <3>11. Channel!Deliver(s)
      BY <2>3, <3>8, <3>9, <3>10, <1>6, SoundIsUnspoiled DEF Channel!Deliver
    <3> QED BY <3>11 DEF Channel!ChanNext
  <2>4. CASE Spoiled(s)
    <3>1. \A k \in 1 .. Len(got[s]) : got[s][k].last # c.last
      <4>1. \A k \in 1 .. Len(got[s]) : got[s][k].last <= taken[s]
        BY <1>3 DEF DataInv, GotBefore
      <4> QED BY <4>1, <2>1, <1>4, <1>5
    <3> QED BY <2>1, <2>4, <3>1, <1>5, <1>6, UnsoundDelivery
  <2> QED BY <2>3, <2>4
<1> QED BY <1>7, <1>8

LEMMA ReadOldImplements ==
    ASSUME IInv, readOld
    PROVE  Channel!ChanNext \/ UNCHANGED Channel!chanVars
<1>1. PICK c \in old : \E o \in reads(Client, c.taken, c.end, c.reader) :
        handOver(Client, o.chunk)
  BY DEF readOld
<1>2. PICK o \in reads(Client, c.taken, c.end, c.reader) : handOver(Client, o.chunk)
  BY <1>1
<1>3. DataInv /\ TypeOK /\ ControlInv /\ Client \in Ends
  BY Parts, BothEnds DEF IInv
<1>4. c.taken \in Nat /\ c.end \in Nat /\ IsReader(c.reader)
  BY <1>3 DEF DataInv, IsOld
<1>5. /\ o.taken \in Nat /\ c.taken < o.taken /\ o.taken <= c.end
      /\ o.chunk # nothing => o.chunk \in Chunk /\ o.chunk.last = o.taken
  <2>1. IsOutcome(c.taken, c.end, o)
    BY <1>3, <1>4, ReadOutcomes
  <2> QED BY <2>1 DEF IsOutcome
<1>6. accepted' = accepted /\ losses' = losses
  BY DEF readOld, sender, sockets
<1>7. CASE o.chunk = nothing
  <2>1. got' = got
    BY <1>2, <1>7 DEF handOver
  <2> QED BY <2>1, <1>6, DeliveredStays DEF Channel!chanVars
<1>8. CASE o.chunk # nothing
  <2>1. /\ o.chunk \in Chunk /\ o.chunk.last = o.taken
        /\ got' = [got EXCEPT ![Client] = Append(@, o.chunk)]
    BY <1>2, <1>5, <1>8 DEF handOver
  <2>2. Spoiled(Client)
    <3>1. losses \in Nat /\ losses # 0
      BY <1>3, Bounds DEF ControlInv, ChannelSane
    <3> QED BY <3>1 DEF Spoiled
  <2>3. o.taken <= written[Client]
    <3>1. c.end <= taken[Client] /\ taken[Client] <= written[Client]
      BY <1>3 DEF DataInv, OldApart, CursorsOK
    <3>2. taken[Client] \in Nat /\ written[Client] \in Nat
      BY <1>3 DEF DataInv
    <3> QED BY <3>1, <3>2, <1>4, <1>5
  <2>4. \A k \in 1 .. Len(got[Client]) : got[Client][k].last # o.taken
    <3>1. \A k \in 1 .. Len(got[Client]) :
            got[Client][k].last <= c.taken \/ c.end < got[Client][k].last
      BY <1>3 DEF DataInv, OldApart
    <3> QED BY <3>1, <1>4, <1>5
  <2> QED BY <2>1, <2>2, <2>3, <2>4, <1>3, <1>6, UnsoundDelivery
<1> QED BY <1>7, <1>8

LEMMA SendImplements ==
    ASSUME NEW e \in Ends, Send(e)
    PROVE  Channel!ChanNext
<1>1. /\ accepted' = [accepted EXCEPT ![e] = @ + 1]
      /\ UNCHANGED <<got, losses>>
  BY DEF Send, sockets, receiver
<1>2. Channel!Accept(e)
  BY <1>1, DeliveredStays DEF Channel!Accept
<1> QED BY <1>2 DEF Channel!ChanNext

LEMMA LossImplements ==
    ASSUME IInv, Loss
    PROVE  Channel!ChanNext
<1>1. accepted' = accepted /\ got' = got /\ losses' = losses + 1
  BY DEF Loss, sender, receiver
<1>2. losses' # 0
  BY <1>1, Bounds DEF IInv, TypeOK
<1>3. (losses = 0)' = FALSE
  BY <1>2
<1>4. Channel!Lose
  BY <1>1, <1>3, DeliveredStays DEF Channel!Lose
<1> QED BY <1>4 DEF Channel!ChanNext

\* The other steps stutter.
LEMMA OthersStutter ==
    ASSUME [Next]_vars
    PROVE  \/ \E e \in Ends : Send(e) \/ handleRead(e)
           \/ Loss \/ readOld
           \/ UNCHANGED Channel!chanVars
<1>1. ASSUME UNCHANGED <<accepted, got, losses>> PROVE UNCHANGED Channel!chanVars
  BY <1>1, DeliveredStays DEF Channel!chanVars
<1>2. CASE UNCHANGED vars
  BY <1>1, <1>2 DEF vars, sender, receiver, sockets
<1>3. ASSUME NEW e \in Ends,
             \/ AskConnected(e) \/ SendRequestsWrite(e) \/ SendWaits(e) \/ SendReconnects(e)
      PROVE  UNCHANGED <<accepted, got, losses>>
  BY <1>3 DEF AskConnected, SendRequestsWrite, SendWaits, SendReconnects,
              sender, receiver, sockets
<1>4. ASSUME NEW e \in Ends,
             \/ ChangeOps(e) \/ RegisterThrows(e) \/ write(e) \/ handleWrite(e)
             \/ writeFinished(e) \/ readFails(e) \/ writeFails(e)
      PROVE  UNCHANGED <<accepted, got, losses>>
  BY <1>4 DEF ChangeOps, RegisterThrows, write, handleWrite, writeFinished, readFails,
              writeFails, sender, receiver, sockets
<1>5. CASE reconnect \/ Register \/ connectFails \/ finishConnect \/ closeOld
  BY <1>1, <1>5 DEF reconnect, Register, connectFails, finishConnect, closeOld,
                    sender, receiver, sockets
<1> QED BY <1>1, <1>2, <1>3, <1>4, <1>5 DEF Next, SenderNext, SelectorNext

\* The two ends implement the packet channel that their users count on, whatever partial
\* reads and writes there are and whatever send accepts: packets come out whole, once and
\* in order until a connection is lost or a packet comes that does not fit, and after that
\* none comes twice (TCPConnection.handleRead, handleWrite).
THEOREM ConnectionImplementsChannel == Spec => ImplementsChannel
<1>1. Init => Channel!ChanInit
  <2> SUFFICES ASSUME Init PROVE Channel!ChanInit
    OBVIOUS
  <2>1. accepted = [e \in Ends |-> 0] /\ got = [e \in Ends |-> <<>>] /\ losses = 0
    BY DEF Init
  <2>2. \A e \in Ends : [k \in 1 .. Len(got[e]) |-> packetOf(e, got[e][k])] = <<>>
    BY <2>1
  <2>3. deliveredPackets = [e \in Ends |-> <<>>]
    BY <2>2 DEF deliveredPackets
  <2> QED BY <2>1, <2>3 DEF Channel!ChanInit
<1>2. IInv /\ [Next]_vars => [Channel!ChanNext]_(Channel!chanVars)
  <2> SUFFICES ASSUME IInv, [Next]_vars
               PROVE  Channel!ChanNext \/ UNCHANGED Channel!chanVars
    OBVIOUS
  <2>1. ASSUME NEW e \in Ends, Send(e) PROVE Channel!ChanNext
    BY <2>1, SendImplements
  <2>2. ASSUME NEW e \in Ends, handleRead(e)
        PROVE  Channel!ChanNext \/ UNCHANGED Channel!chanVars
    BY <2>2, ReadImplements
  <2> QED BY <2>1, <2>2, ReadOldImplements, LossImplements, OthersStutter
<1> QED BY <1>1, <1>2, Invariance, PTL DEF Spec, ImplementsChannel, Channel!ChanSpec
=============================================================================
