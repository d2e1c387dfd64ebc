------------------------- MODULE JitterBuffer_proofs -------------------------
(***************************************************************************)
(* Theorems about JitterBuffer, for any number of buffers and players.     *)
(***************************************************************************)
EXTENDS JitterBuffer, FiniteSetTheorems, TLAPS

\* Playing begins with a full queue: until the first frame is handed out all buffers are
\* in the queue or lost.
NoneFreeAtStart ==
    races = 0 /\ ~fillBuffers /\ lastPlayedSeq = NoSeq => free = <<>> /\ Held = {}

\* The flag of a buffer says what it was handed out for.
FlagsAgree ==
    races = 0 => \A p \in Players :
        /\ at[p] = "shown" => fec[playing[p]] = TRUE
        /\ at[p] = "given" => fec[playing[p]] = FALSE

HistoryOK == lastPlayed <= lastPlayedSeq

\* Two players are needed to take a buffer that another one was shown.
Alone == \A p, q \in Players : p = q
NoRaceAlone == Alone => races = 0

IInv ==
    /\ TypeOK
    /\ OwnedOnce /\ FreeBuffersAreOld /\ NoneFreeAtStart /\ FlagsAgree
    /\ HistoryOK /\ NoRaceAlone

Places == {"ended", "loop", "given", "shown", "playing", "preview"}

-----------------------------------------------------------------------------
\* What changes.

\* The queue is finite, and taking a buffer out of it or putting one in counts one.
LEMMA Counting ==
    ASSUME NEW q, q \subseteq Buffers, NEW b \in Buffers
    PROVE  /\ IsFiniteSet(q) /\ Cardinality(q) \in Nat /\ Cardinality(q) <= maxSize
           /\ maxSize \in Nat
           /\ Cardinality(q) = maxSize => q = Buffers
           /\ b \in q => Cardinality(q \ {b}) = Cardinality(q) - 1
           /\ b \notin q => q \ {b} = q /\ Cardinality(q \cup {b}) = Cardinality(q) + 1
<1>1. IsFiniteSet(Buffers)
  BY JitterBufferAssumption
<1>2. IsFiniteSet(q) /\ Cardinality(q) <= maxSize /\ (Cardinality(q) = maxSize => q = Buffers)
  BY <1>1, FS_Subset DEF maxSize
<1>3. Cardinality(q) \in Nat /\ maxSize \in Nat
  BY <1>1, <1>2, FS_CardinalityType DEF maxSize
<1>4. b \in q => Cardinality(q \ {b}) = Cardinality(q) - 1
  BY <1>2, FS_RemoveElement
<1>5. b \notin q => q \ {b} = q /\ Cardinality(q \cup {b}) = Cardinality(q) + 1
  BY <1>2, FS_AddElement
<1> QED BY <1>2, <1>3, <1>4, <1>5

\* What a thread does that neither gets nor returns a buffer leaves the others theirs.
LEMMA SamePlayers ==
    ASSUME TypeOK, NEW p \in Players, NEW v, at' = [at EXCEPT ![p] = v],
           NEW c, playing' = [playing EXCEPT ![p] = c],
           v \in {"given", "playing"} <=> Holding(p),
           Holding(p) => c = playing[p]
    PROVE  /\ Held' = Held
           /\ \A q \in Players : Holding(q)' <=> Holding(q)
           /\ \A q \in Players : Holding(q) => playing'[q] = playing[q]
<1>1. \A q \in Players : Holding(q)' <=> Holding(q)
  BY DEF TypeOK, Holding
<1>2. \A q \in Players : Holding(q) => playing'[q] = playing[q]
  BY DEF TypeOK
<1> QED BY <1>1, <1>2 DEF Held

\* A thread that gets a buffer to play holds it from then on.
LEMMA OneMorePlayer ==
    ASSUME TypeOK, NEW p \in Players, ~Holding(p), NEW b \in Buffers,
           at' = [at EXCEPT ![p] = "given"], playing' = [playing EXCEPT ![p] = b]
    PROVE  /\ Held' = Held \cup {b}
           /\ playing'[p] = b
           /\ \A q \in Players : q # p =>
                /\ at'[q] = at[q] /\ playing'[q] = playing[q]
           /\ \A q \in Players : Holding(q) => playing[q] \in Held
<1>1. at'[p] = "given" /\ playing'[p] = b
  BY DEF TypeOK
<1>2. \A q \in Players : q # p => at'[q] = at[q] /\ playing'[q] = playing[q]
  BY DEF TypeOK
<1> QED BY <1>1, <1>2 DEF Held, Holding

\* What is held is a buffer.
LEMMA HeldAreBuffers ==
    ASSUME TypeOK
    PROVE  Held \subseteq Buffers
<1> SUFFICES ASSUME NEW p \in Players, Holding(p) PROVE playing[p] \in Buffers
  BY DEF Held
<1> QED BY DEF TypeOK, Holding

\* The buffer that receive takes is nobody else's.
LEMMA NextFreeIsOwned ==
    ASSUME TypeOK, OwnedOnce, races = 0, NEW b \in Buffers, IsNextFree(b)
    PROVE  /\ b \notin Held
           /\ free # <<>> => b \notin queue
           /\ free = <<>> => b \in queue
           /\ \A i \in 1 .. Len(free) : i # 1 => free[i] # b
<1>1. CASE free = <<>>
  BY <1>1 DEF IsNextFree, IsHead, OwnedOnce
<1>2. CASE free # <<>>
  <2>1. b = free[1] /\ 1 \in 1 .. Len(free)
    BY <1>2 DEF IsNextFree, TypeOK
  <2> QED BY <2>1, <1>2 DEF OwnedOnce
<1> QED BY <1>1, <1>2

-----------------------------------------------------------------------------
LEMMA InitIInv == Init => IInv
<1> SUFFICES ASSUME Init PROVE IInv
  OBVIOUS
<1>1. maxSize \in Nat /\ Cardinality({}) = 0 /\ MaxSeq \in Nat /\ MaxThrown \in Nat
      /\ MaxRaces \in Nat
  BY JitterBufferAssumption, FS_CardinalityType, FS_EmptySet DEF maxSize
<1>2. Held = {}
  BY DEF Init, Held, Holding
<1>3. free \in Seq(Buffers) /\ Len(free) = maxSize
  BY <1>1 DEF Init
<1>4. TypeOK
  <2>1. numQueued = Cardinality(queue) - thrown
    BY <1>1 DEF Init
  <2>2. NoSeq \in NoSeq .. MaxSeq /\ thrown \in 0 .. MaxThrown /\ races \in 0 .. MaxRaces
    BY <1>1 DEF Init, NoSeq
  <2>3. seqNo \in [Buffers -> NoSeq .. MaxSeq] /\ queue = {} /\ fec \in [Buffers -> BOOLEAN]
    BY <2>2 DEF Init
  <2>4. at \in [Players -> Places] /\ \A p \in Players : at[p] = "ended"
    BY DEF Init, Places
  <2>5. playing \in [Players -> Buffers \cup {NoBuffer}]
    BY DEF Init
  <2> QED BY <1>3, <2>1, <2>2, <2>3, <2>4, <2>5 DEF Init, TypeOK, Places
<1>5. OwnedOnce
  BY <1>2, <1>3 DEF Init, OwnedOnce, Holding
<1>6. FlagsAgree /\ NoRaceAlone
  BY DEF Init, FlagsAgree, NoRaceAlone
<1> QED BY <1>2, <1>4, <1>5, <1>6
        DEF Init, IInv, FreeBuffersAreOld, NoneFreeAtStart, HistoryOK, NoSeq

\* Steps that touch neither the pool nor what players hold, except that filling may begin
\* and that a frame may be taken for lost.
LEMMA QuietStep ==
    ASSUME IInv, TypeOK',
           UNCHANGED <<seqNo, queue, free, history>>,
           Held' = Held, fillBuffers' \in {fillBuffers, TRUE},
           \A q \in Players : Holding(q)' <=> Holding(q),
           \A q \in Players : Holding(q) => playing'[q] = playing[q],
           lastPlayedSeq' = lastPlayedSeq
             \/ (lastPlayedSeq # NoSeq /\ lastPlayedSeq' = lastPlayedSeq + 1),
           FlagsAgree'
    PROVE  IInv'
<1> USE DEF NoSeq
<1>1. OwnedOnce'
  BY DEF IInv, OwnedOnce, history
<1>2. TypeOK /\ lastPlayedSeq \in -1 .. MaxSeq /\ MaxSeq \in Nat
      /\ races' = races /\ lastPlayed' = lastPlayed
  BY JitterBufferAssumption DEF IInv, TypeOK, history
<1>3. lastPlayedSeq' >= lastPlayedSeq /\ lastPlayedSeq' \in Int /\ lastPlayedSeq \in Int
      /\ (lastPlayedSeq' = -1 <=> lastPlayedSeq = -1)
  BY <1>2
<1>4. FreeBuffersAreOld'
  <2>1. /\ \A i \in 1 .. Len(free) : seqNo[free[i]] \in Int
        /\ \A b \in Held : seqNo[b] \in Int
    BY <1>2, HeldAreBuffers DEF TypeOK
  <2> QED BY <1>2, <1>3, <2>1 DEF IInv, FreeBuffersAreOld
<1>5. NoneFreeAtStart'
  BY <1>2, <1>3 DEF IInv, NoneFreeAtStart, TypeOK
<1>6. HistoryOK' /\ NoRaceAlone'
  <2>1. lastPlayed \in Int /\ lastPlayed <= lastPlayedSeq
    BY <1>2 DEF IInv, HistoryOK, TypeOK
  <2> QED BY <1>2, <1>3, <2>1 DEF IInv, HistoryOK, NoRaceAlone, Alone
<1> QED BY <1>1, <1>4, <1>5, <1>6 DEF IInv

\* What receive does to the pool, whoever has the buffer besides.
LEMMA Filled ==
    ASSUME TypeOK, NEW n \in 0 .. MaxSeq, NEW b \in Buffers, IsNextFree(b), filled(b, n)
    PROVE  /\ seqNo' \in [Buffers -> NoSeq .. MaxSeq] /\ seqNo'[b] = n
           /\ \A c \in Buffers : c # b => seqNo'[c] = seqNo[c]
           /\ queue' \subseteq queue \cup {b}
           /\ \A c \in queue' : seqNo'[c] # NoSeq
           /\ numQueued' = Cardinality(queue') - thrown
           /\ disordered' \in BOOLEAN /\ fillBuffers' \in BOOLEAN
           /\ fillBuffers' => fillBuffers
           /\ fillBuffers /\ ~fillBuffers' => numQueued' = maxSize
           /\ free' \in Seq(Buffers)
           /\ free = <<>> => free' = <<>> /\ b \in queue
           /\ free # <<>> => b = free[1] /\ 1 \in 1 .. Len(free)
           /\ \A i \in 1 .. Len(free') : i + 1 \in 1 .. Len(free) /\ free'[i] = free[i + 1]
<1> USE DEF NoSeq
<1> DEFINE taken == IF free = <<>> THEN queue \ {b} ELSE queue
           count == IF free = <<>> THEN numQueued - 1 ELSE numQueued
           put   == b \notin taken /\ ~Holds(taken, n) /\ count < maxSize
<1>1. /\ seqNo' = [seqNo EXCEPT ![b] = n]
      /\ free' = IF free = <<>> THEN free ELSE Tail(free)
      /\ queue' = IF put THEN taken \cup {b} ELSE taken
      /\ numQueued' = IF put THEN count + 1 ELSE count
      /\ disordered' = (staysDisordered(taken) \/ b \in taken)
      /\ fillBuffers' = (fillBuffers /\ numQueued' # maxSize)
  BY DEF filled
<1>2. free = <<>> => b \in queue
  BY DEF IsNextFree, IsHead
<1>3. /\ seqNo' \in [Buffers -> NoSeq .. MaxSeq] /\ seqNo'[b] = n
      /\ \A c \in Buffers : c # b => seqNo'[c] = seqNo[c]
  BY <1>1, JitterBufferAssumption DEF TypeOK
<1>4. queue' \subseteq queue \cup {b} /\ queue \subseteq Buffers
  BY <1>1 DEF TypeOK
<1>5. \A c \in queue' : seqNo'[c] # NoSeq
  BY <1>3, <1>4 DEF TypeOK
<1>6. numQueued' = Cardinality(queue') - thrown
  <2>1. taken \subseteq Buffers
    BY <1>4
  <2>2. numQueued = Cardinality(queue) - thrown /\ thrown \in Nat
    BY JitterBufferAssumption DEF TypeOK
  <2>3. Cardinality(taken) = IF free = <<>> THEN Cardinality(queue) - 1 ELSE Cardinality(queue)
    BY <1>2, <1>4, Counting
  <2>4. Cardinality(taken) \in Nat /\ Cardinality(queue) \in Nat
    BY <1>4, <2>1, Counting
  <2>5. b \notin taken => Cardinality(taken \cup {b}) = Cardinality(taken) + 1
    BY <2>1, Counting
  <2>6. count = Cardinality(taken) - thrown
    BY <2>2, <2>3, <2>4
  <2>7. put => b \notin taken
    OBVIOUS
  <2> HIDE DEF taken, count, put
  <2> QED BY <1>1, <2>2, <2>4, <2>5, <2>6, <2>7
<1>7. disordered' \in BOOLEAN /\ fillBuffers' \in BOOLEAN /\ (fillBuffers' => fillBuffers)
      /\ (fillBuffers /\ ~fillBuffers' => numQueued' = maxSize)
  BY <1>1
<1>8. /\ free' \in Seq(Buffers)
      /\ free = <<>> => free' = <<>>
      /\ \A i \in 1 .. Len(free') : i + 1 \in 1 .. Len(free) /\ free'[i] = free[i + 1]
  <2>1. CASE free = <<>>
    BY <2>1, <1>1 DEF TypeOK
  <2>2. CASE free # <<>>
    <3>1. free' = Tail(free) /\ free \in Seq(Buffers)
      BY <2>2, <1>1 DEF TypeOK
    <3>2. /\ free' \in Seq(Buffers) /\ Len(free') = Len(free) - 1 /\ Len(free') \in Nat
          /\ \A i \in 1 .. Len(free') : i + 1 \in 1 .. Len(free) /\ free'[i] = free[i + 1]
      BY <2>2, <3>1
    <3> QED BY <3>2, <2>2
  <2> QED BY <2>1, <2>2
<1>9. free # <<>> => b = free[1] /\ 1 \in 1 .. Len(free)
  BY DEF IsNextFree, TypeOK
<1> QED BY <1>2, <1>3, <1>4, <1>5, <1>6, <1>7, <1>8, <1>9

LEMMA ReceiveStep ==
    ASSUME IInv, NEW n \in 0 .. MaxSeq, receive(n)
    PROVE  IInv'
<1> USE DEF NoSeq
<1>1. PICK b \in Buffers :
        /\ IsNextFree(b)
        /\ lastPlayedSeq' = IF lastPlayedSeq # NoSeq /\ seqNo[b] > lastPlayedSeq
                            THEN seqNo[b] ELSE lastPlayedSeq
        /\ filled(b, n)
  BY DEF receive
<1>2. TypeOK /\ OwnedOnce
  BY DEF IInv
<1>3. /\ seqNo' \in [Buffers -> NoSeq .. MaxSeq]
      /\ \A c \in Buffers : c # b => seqNo'[c] = seqNo[c]
      /\ queue' \subseteq queue \cup {b} /\ queue \subseteq Buffers
      /\ \A c \in queue' : seqNo'[c] # NoSeq
      /\ numQueued' = Cardinality(queue') - thrown
      /\ disordered' \in BOOLEAN /\ fillBuffers' \in BOOLEAN
      /\ fillBuffers' => fillBuffers
      /\ fillBuffers /\ ~fillBuffers' => numQueued' = maxSize
      /\ free' \in Seq(Buffers)
      /\ free = <<>> => free' = <<>>
      /\ \A i \in 1 .. Len(free') : i + 1 \in 1 .. Len(free) /\ free'[i] = free[i + 1]
  BY <1>1, <1>2, Filled DEF TypeOK
<1>4. /\ UNCHANGED <<fec, thrown, running, stopping, at, playing, lastPlayed, races>>
      /\ Held' = Held /\ \A q \in Players : Holding(q)' <=> Holding(q)
  BY DEF receive, control, threads, history, Held, Holding
<1>5. /\ lastPlayedSeq' \in NoSeq .. MaxSeq /\ lastPlayedSeq' >= lastPlayedSeq
      /\ lastPlayedSeq = NoSeq <=> lastPlayedSeq' = NoSeq
  BY <1>1, <1>2, JitterBufferAssumption DEF TypeOK
<1>6. TypeOK'
  <2>1. queue' \subseteq Buffers
    BY <1>3
  <2> QED BY <1>2, <1>3, <1>4, <1>5, <2>1 DEF TypeOK
<1>7. races = 0 =>
        /\ b \notin Held
        /\ free # <<>> => b \notin queue
        /\ \A i \in 1 .. Len(free') : free'[i] # b
  <2>1. races = 0 =>
          /\ b \notin Held
          /\ free # <<>> => b \notin queue
          /\ \A i \in 1 .. Len(free) : i # 1 => free[i] # b
    BY <1>1, <1>2, NextFreeIsOwned
  <2>2. \A i \in 1 .. Len(free') : i + 1 # 1
    OBVIOUS
  <2> QED BY <1>3, <2>1, <2>2
<1>8. OwnedOnce'
  <2> SUFFICES ASSUME races = 0
               PROVE  /\ \A i, j \in 1 .. Len(free') : i # j => free'[i] # free'[j]
                      /\ \A i \in 1 .. Len(free') : free'[i] \notin queue' \cup Held'
                      /\ queue' \cap Held' = {}
                      /\ \A p, q \in Players :
                           p # q /\ Holding(p)' /\ Holding(q)' => playing'[p] # playing'[q]
    BY <1>4 DEF OwnedOnce
  <2>1. \A i, j \in 1 .. Len(free') : i # j => free'[i] # free'[j]
    BY <1>2, <1>3 DEF OwnedOnce
  <2>2. \A i \in 1 .. Len(free') : free'[i] \notin queue' \cup Held'
    BY <1>2, <1>3, <1>4, <1>7 DEF OwnedOnce
  <2>3. queue' \cap Held' = {}
    BY <1>2, <1>3, <1>4, <1>7 DEF OwnedOnce
  <2> QED BY <1>2, <1>4, <2>1, <2>2, <2>3 DEF OwnedOnce
<1>9. FreeBuffersAreOld'
  <2> SUFFICES ASSUME races = 0, lastPlayedSeq' # NoSeq
               PROVE  /\ \A i \in 1 .. Len(free') : seqNo'[free'[i]] <= lastPlayedSeq'
                      /\ \A c \in Held' : seqNo'[c] <= lastPlayedSeq'
    BY <1>4 DEF FreeBuffersAreOld
  <2>1. lastPlayedSeq # NoSeq /\ FreeBuffersAreOld
    BY <1>5 DEF IInv
  <2>2. Held \subseteq Buffers /\ b \notin Held
    BY <1>2, <1>7, HeldAreBuffers
  <2>3. \A c \in Held' : seqNo'[c] <= lastPlayedSeq'
    <3>1. ASSUME NEW c \in Held PROVE seqNo'[c] <= lastPlayedSeq'
      <4>1. seqNo'[c] = seqNo[c] /\ seqNo[c] \in Int /\ lastPlayedSeq \in Int
        BY <1>2, <1>3, <2>2 DEF TypeOK
      <4>2. seqNo[c] <= lastPlayedSeq
        BY <2>1 DEF FreeBuffersAreOld
      <4> QED BY <1>5, <4>1, <4>2
    <3> QED BY <1>4, <3>1
  <2>4. ASSUME NEW i \in 1 .. Len(free') PROVE seqNo'[free'[i]] <= lastPlayedSeq'
    <3>1. free'[i] \in Buffers /\ free'[i] # b /\ free'[i] = free[i + 1] /\ i + 1 \in 1 .. Len(free)
      BY <1>3, <1>7
    <3>2. seqNo'[free'[i]] = seqNo[free[i + 1]]
      BY <1>3, <3>1
    <3>3. seqNo[free[i + 1]] <= lastPlayedSeq /\ seqNo[free[i + 1]] \in Int
      BY <1>2, <2>1, <3>1 DEF FreeBuffersAreOld, TypeOK
    <3>4. lastPlayedSeq \in Int /\ lastPlayedSeq' \in Int
      BY <1>2, <1>5 DEF TypeOK
    <3> QED BY <1>5, <3>2, <3>3, <3>4
  <2> QED BY <2>3, <2>4
<1>10. NoneFreeAtStart'
  <2> SUFFICES ASSUME races = 0, ~fillBuffers', lastPlayedSeq' = NoSeq
               PROVE  free' = <<>> /\ Held' = {}
    BY <1>4 DEF NoneFreeAtStart
  <2>1. CASE ~fillBuffers
    BY <2>1, <1>3, <1>4, <1>5 DEF IInv, NoneFreeAtStart
  <2>2. CASE fillBuffers
    <3>1. numQueued' = maxSize
      BY <2>2, <1>3
    <3>2. /\ queue' \subseteq Buffers /\ thrown \in Nat
          /\ Held' \subseteq Buffers /\ free' \in Seq(Buffers)
      <4>1. queue' \subseteq Buffers
        BY <1>6 DEF TypeOK
      <4>2. thrown \in Nat
        BY <1>2, JitterBufferAssumption DEF TypeOK
      <4>3. Held' \subseteq Buffers
        BY <1>2, <1>4, HeldAreBuffers
      <4> QED BY <1>3, <4>1, <4>2, <4>3
    <3>3. /\ Cardinality(queue') \in Nat /\ Cardinality(queue') <= maxSize /\ maxSize \in Nat
          /\ Cardinality(queue') = maxSize => queue' = Buffers
      BY <3>2, Counting
    <3>4. queue' = Buffers
      BY <1>3, <3>1, <3>2, <3>3
    <3>5. Held' = {} /\ \A i \in 1 .. Len(free') : FALSE
      BY <1>4, <1>8, <3>2, <3>4 DEF OwnedOnce
    <3>6. free' = <<>>
      BY <3>2, <3>5
    <3> QED BY <3>5, <3>6
  <2> QED BY <2>1, <2>2, <1>2 DEF TypeOK
<1>11. FlagsAgree' /\ NoRaceAlone'
  BY <1>4 DEF IInv, FlagsAgree, NoRaceAlone, Alone
<1>12. HistoryOK'
  BY <1>2, <1>4, <1>5 DEF IInv, HistoryOK, TypeOK
<1> QED BY <1>6, <1>8, <1>9, <1>10, <1>11, <1>12 DEF IInv

LEMMA ReceiveThrowsStep ==
    ASSUME IInv, NEW n \in 0 .. MaxSeq, receiveThrows(n)
    PROVE  IInv'
<1>1. /\ UNCHANGED <<seqNo, fec, queue, disordered, free, fillBuffers, lastPlayedSeq,
                     running, stopping, at, playing, lastPlayed, races>>
      /\ UNCHANGED history
      /\ thrown' = thrown + 1 /\ numQueued' = numQueued - 1 /\ thrown < MaxThrown
      /\ queue = {}
  BY DEF receiveThrows, control, threads, history
<1>2. TypeOK'
  <2>1. thrown' \in 0 .. MaxThrown /\ numQueued' = Cardinality(queue') - thrown'
    <3>1. numQueued = 0 - thrown /\ thrown \in Nat /\ MaxThrown \in Nat
      BY <1>1, JitterBufferAssumption, FS_EmptySet DEF IInv, TypeOK
    <3>2. Cardinality(queue') = 0
      BY <1>1, FS_EmptySet
    <3> QED BY <1>1, <3>1, <3>2
  <2> QED BY <1>1, <2>1 DEF IInv, TypeOK
<1>3. FlagsAgree' /\ Held' = Held /\ \A q \in Players : Holding(q)' <=> Holding(q)
  BY <1>1 DEF IInv, FlagsAgree, Held, Holding
<1> QED BY <1>1, <1>2, <1>3, QuietStep

\* Steps of a thread that leave the pool alone, as a whole.
LEMMA ThreadStep ==
    ASSUME IInv, NEW p \in Players,
           NEW v \in Places, at' = [at EXCEPT ![p] = v],
           NEW c \in Buffers \cup {NoBuffer}, playing' = [playing EXCEPT ![p] = c],
           v \in {"given", "shown", "playing", "preview"} => c # NoBuffer,
           races = 0 => (v \in {"given", "playing"} <=> Holding(p)),
           races = 0 => (Holding(p) => c = playing[p]),
           UNCHANGED <<pool, fillBuffers, history, stopping>>,
           fec' \in [Buffers -> BOOLEAN],
           \/ lastPlayedSeq' = lastPlayedSeq
           \/ (lastPlayedSeq # NoSeq /\ lastPlayedSeq' = lastPlayedSeq + 1
               /\ lastPlayedSeq' \in 0 .. MaxSeq),
           running' \in BOOLEAN,
           races = 0 => FlagsAgree'
    PROVE  IInv'
<1> USE DEF NoSeq
<1>1. TypeOK /\ MaxSeq \in Nat /\ MaxRaces \in Nat
  BY JitterBufferAssumption DEF IInv
<1>2. UNCHANGED <<seqNo, queue, disordered, free, numQueued, thrown, lastPlayed, races>>
  BY DEF pool, history
<1>3. TypeOK'
  <2>1. at' \in [Players -> Places]
    BY <1>1 DEF TypeOK, Places
  <2>2. playing' \in [Players -> Buffers \cup {NoBuffer}]
    BY <1>1 DEF TypeOK
  <2>3. \A q \in Players :
          at'[q] \in {"given", "shown", "playing", "preview"} => playing'[q] # NoBuffer
    BY <1>1 DEF TypeOK
  <2>4. lastPlayedSeq' \in NoSeq .. MaxSeq
    BY <1>1 DEF TypeOK
  <2> QED BY <1>1, <1>2, <2>1, <2>2, <2>3, <2>4 DEF TypeOK, Places
<1>4. CASE races = 0
  <2>1. /\ Held' = Held
        /\ \A q \in Players : Holding(q)' <=> Holding(q)
        /\ \A q \in Players : Holding(q) => playing'[q] = playing[q]
    BY <1>1, <1>4, SamePlayers
  <2> QED BY <1>2, <1>3, <1>4, <2>1, QuietStep DEF history
<1>5. CASE races # 0
  <2>1. HistoryOK' /\ NoRaceAlone'
    <3>1. /\ lastPlayed \in Int /\ lastPlayed <= lastPlayedSeq
          /\ lastPlayedSeq' >= lastPlayedSeq /\ lastPlayedSeq' \in Int /\ lastPlayedSeq \in Int
      BY <1>1, <1>3 DEF IInv, HistoryOK, TypeOK
    <3> QED BY <1>2, <3>1 DEF IInv, HistoryOK, NoRaceAlone, Alone
  <2> QED BY <1>2, <1>3, <1>5, <2>1
          DEF IInv, OwnedOnce, FreeBuffersAreOld, NoneFreeAtStart, FlagsAgree
<1> QED BY <1>4, <1>5

\* What taking the head out of the queue does to its length.
LEMMA Polled ==
    ASSUME TypeOK, NEW b \in Buffers, IsHead(b), poll(b)
    PROVE  /\ b \in queue /\ queue' = queue \ {b}
           /\ numQueued' = Cardinality(queue') - thrown
           /\ disordered' \in BOOLEAN
           /\ seqNo[b] \in 0 .. MaxSeq
           /\ UNCHANGED <<seqNo, free, thrown>>
<1>1. /\ b \in queue /\ queue' = queue \ {b} /\ queue \subseteq Buffers
      /\ numQueued' = numQueued - 1 /\ UNCHANGED <<seqNo, free, thrown>>
  BY DEF IsHead, poll, TypeOK
<1>2. Cardinality(queue') = Cardinality(queue) - 1 /\ Cardinality(queue) \in Nat
  BY <1>1, Counting
<1>3. seqNo[b] \in 0 .. MaxSeq
  BY <1>1 DEF TypeOK, NoSeq
<1>4. thrown \in Nat /\ numQueued = Cardinality(queue) - thrown
  BY JitterBufferAssumption DEF TypeOK
<1>5. disordered' \in BOOLEAN
  BY DEF poll, staysDisordered, TypeOK
<1> QED BY <1>1, <1>2, <1>3, <1>4, <1>5

LEMMA PlayNextStep ==
    ASSUME IInv, NEW p \in Players, NEW b \in Buffers, mayPlay(p), IsHead(b), playNext(p, b),
           UNCHANGED <<fillBuffers, control>>
    PROVE  IInv'
<1> USE DEF NoSeq
<1>1. TypeOK /\ at[p] = "loop" /\ ~fillBuffers /\ ~Holding(p)
  BY DEF IInv, mayPlay, Holding
<1>2. /\ b \in queue /\ queue' = queue \ {b} /\ disordered' \in BOOLEAN
      /\ numQueued' = Cardinality(queue') - thrown /\ seqNo[b] \in 0 .. MaxSeq
      /\ UNCHANGED <<seqNo, free, thrown>>
  BY <1>1, Polled DEF playNext
<1>3. /\ Held' = Held \cup {b} /\ playing'[p] = b
      /\ \A q \in Players : q # p => at'[q] = at[q] /\ playing'[q] = playing[q]
      /\ \A q \in Players : Holding(q) => playing[q] \in Held
  BY <1>1, OneMorePlayer DEF playNext, handedOut
<1>4. /\ races \in Nat /\ MaxRaces \in Nat
      /\ races' = (IF isShown(b) THEN races + 1 ELSE races) /\ races' <= MaxRaces
  BY <1>1, JitterBufferAssumption DEF playNext, TypeOK
<1>5. races' = 0 => races = 0 /\ ~isShown(b)
  BY <1>4
<1>6. TypeOK'
  <2>1. at' \in [Players -> Places] /\ at'[p] = "given"
    BY <1>1 DEF TypeOK, playNext, handedOut, Places
  <2>2. /\ playing' \in [Players -> Buffers \cup {NoBuffer}]
        /\ fec' \in [Buffers -> BOOLEAN]
    BY <1>1 DEF TypeOK, playNext, handedOut
  <2>3. \A q \in Players :
          at'[q] \in {"given", "shown", "playing", "preview"} => playing'[q] # NoBuffer
    <3>1. b # NoBuffer
      BY JitterBufferAssumption
    <3> QED BY <1>1, <1>3, <3>1 DEF TypeOK
  <2>4. races' \in 0 .. MaxRaces
    BY <1>4
  <2>5. lastPlayedSeq' = seqNo[b] /\ lastPlayed' = seqNo[b]
        /\ seqNo[b] \in NoSeq .. MaxSeq
    BY <1>2 DEF playNext
  <2> QED BY <1>1, <1>2, <2>1, <2>2, <2>3, <2>4, <2>5 DEF TypeOK, control, Places
<1>7. OwnedOnce'
  <2> SUFFICES ASSUME races' = 0
               PROVE  /\ \A i, j \in 1 .. Len(free') : i # j => free'[i] # free'[j]
                      /\ \A i \in 1 .. Len(free') : free'[i] \notin queue' \cup Held'
                      /\ queue' \cap Held' = {}
                      /\ \A q, r \in Players :
                           q # r /\ Holding(q)' /\ Holding(r)' => playing'[q] # playing'[r]
    BY DEF OwnedOnce
  <2>1. OwnedOnce /\ races = 0
    BY <1>5 DEF IInv
  <2>2. \A q \in Players : q # p => (Holding(q)' <=> Holding(q))
    BY <1>3 DEF Holding
  <2>3. b \notin Held
    BY <1>2, <2>1 DEF OwnedOnce
  <2>4. \A q, r \in Players :
          q # r /\ Holding(q)' /\ Holding(r)' => playing'[q] # playing'[r]
    <3> SUFFICES ASSUME NEW q \in Players, NEW r \in Players,
                        q # r, Holding(q)', Holding(r)'
                 PROVE  playing'[q] # playing'[r]
      OBVIOUS
    <3>1. CASE q = p
      BY <1>3, <2>2, <2>3, <3>1
    <3>2. CASE r = p
      BY <1>3, <2>2, <2>3, <3>2
    <3>3. CASE q # p /\ r # p
      BY <1>3, <2>1, <2>2, <3>3 DEF OwnedOnce
    <3> QED BY <3>1, <3>2, <3>3
  <2> QED BY <1>2, <1>3, <2>1, <2>4 DEF OwnedOnce
<1>8. FreeBuffersAreOld'
  <2>1. CASE races' # 0
    BY <2>1 DEF FreeBuffersAreOld
  <2>2. CASE races' = 0 /\ lastPlayedSeq = NoSeq
    <3>1. free = <<>> /\ Held = {}
      BY <1>1, <1>5, <2>2 DEF IInv, NoneFreeAtStart
    <3> QED BY <1>2, <1>3, <3>1 DEF FreeBuffersAreOld, playNext
  <2>3. CASE races' = 0 /\ lastPlayedSeq # NoSeq
    <3>1. /\ lastPlayedSeq' = lastPlayedSeq + 1 /\ lastPlayedSeq' = seqNo[b]
          /\ lastPlayedSeq \in Int /\ races = 0
      BY <1>1, <1>5, <2>3 DEF playNext, TypeOK
    <3>2. /\ \A i \in 1 .. Len(free) : seqNo[free[i]] \in Int
          /\ \A c \in Held : seqNo[c] \in Int
      BY <1>1, HeldAreBuffers DEF TypeOK
    <3>3. \A i \in 1 .. Len(free) : seqNo[free[i]] <= lastPlayedSeq'
      BY <2>3, <3>1, <3>2 DEF IInv, FreeBuffersAreOld
    <3>4. \A c \in Held : seqNo[c] <= lastPlayedSeq'
      BY <2>3, <3>1, <3>2 DEF IInv, FreeBuffersAreOld
    <3>5. seqNo[b] <= lastPlayedSeq'
      BY <1>2, <3>1
    <3> QED BY <1>2, <1>3, <3>3, <3>4, <3>5 DEF FreeBuffersAreOld
  <2> QED BY <2>1, <2>2, <2>3
<1>9. NoneFreeAtStart' /\ HistoryOK'
  BY <1>2 DEF playNext, NoneFreeAtStart, HistoryOK
<1>10. FlagsAgree'
  <2> SUFFICES ASSUME races' = 0, NEW q \in Players
               PROVE  /\ at'[q] = "shown" => fec'[playing'[q]] = TRUE
                      /\ at'[q] = "given" => fec'[playing'[q]] = FALSE
    BY DEF FlagsAgree
  <2>1. /\ races = 0 /\ ~isShown(b) /\ OwnedOnce
        /\ fec' = [fec EXCEPT ![b] = FALSE] /\ fec \in [Buffers -> BOOLEAN]
    BY <1>1, <1>5 DEF IInv, playNext, handedOut, TypeOK
  <2>2. CASE q = p
    <3>1. at'[p] = "given"
      BY <1>1 DEF playNext, handedOut, TypeOK
    <3> QED BY <1>3, <2>1, <2>2, <3>1
  <2>3. CASE q # p
    <3>1. at'[q] = at[q] /\ playing'[q] = playing[q]
      BY <1>3, <2>3
    <3>2. CASE at[q] = "shown"
      <4>1. playing[q] # b
        BY <2>1, <3>2 DEF isShown
      <4>2. fec[playing[q]] = TRUE
        BY <2>1, <3>2 DEF IInv, FlagsAgree
      <4>3. playing[q] \in Buffers
        BY <1>1, <3>2 DEF TypeOK
      <4> QED BY <2>1, <3>1, <3>2, <4>1, <4>2, <4>3
    <3>3. CASE at[q] = "given"
      <4>1. fec[playing[q]] = FALSE /\ playing[q] \in Buffers
        BY <1>1, <2>1, <3>3 DEF IInv, FlagsAgree, TypeOK
      <4> QED BY <2>1, <3>1, <3>3, <4>1
    <3> QED BY <3>1, <3>2, <3>3
  <2> QED BY <2>2, <2>3
<1>11. NoRaceAlone'
  <2>1. Alone => ~isShown(b)
    BY <1>1 DEF Alone, isShown
  <2> QED BY <1>4, <2>1 DEF IInv, NoRaceAlone, Alone
<1> QED BY <1>6, <1>7, <1>8, <1>9, <1>10, <1>11 DEF IInv

LEMMA DiscardStep ==
    ASSUME IInv, NEW b \in Buffers, IsHead(b), discardLate(b),
           UNCHANGED <<fillBuffers, control>>
    PROVE  IInv'
<1>1. TypeOK
  BY DEF IInv
<1>2. /\ b \in queue /\ queue' = queue \ {b} /\ disordered' \in BOOLEAN
      /\ numQueued' = Cardinality(queue') - thrown
      /\ UNCHANGED <<seqNo, fec, free, thrown, lastPlayedSeq, at, playing, lastPlayed, races>>
  BY <1>1, Polled DEF discardLate, threads, history
<1>3. Held' = Held /\ \A q \in Players : Holding(q)' <=> Holding(q)
  BY <1>2 DEF Held, Holding
<1>4. TypeOK'
  BY <1>1, <1>2 DEF TypeOK, control
<1>5. OwnedOnce'
  BY <1>2, <1>3 DEF IInv, OwnedOnce
<1> QED BY <1>2, <1>3, <1>4, <1>5
        DEF IInv, FreeBuffersAreOld, NoneFreeAtStart, HistoryOK, FlagsAgree, NoRaceAlone, Alone

LEMMA GetPlayBufferStep ==
    ASSUME IInv, NEW p \in Players, getPlayBuffer(p)
    PROVE  IInv'
<1> USE DEF NoSeq
<1>1. PICK b \in Buffers :
        /\ IsHead(b)
        /\ playNext(p, b) \/ previewNext(p, b) \/ skipLost(b) \/ discardLate(b)
  BY DEF getPlayBuffer
<1>2. UNCHANGED <<fillBuffers, control>> /\ mayPlay(p) /\ at[p] = "loop" /\ TypeOK
      /\ ~Holding(p)
  BY DEF getPlayBuffer, mayPlay, IInv, Holding
<1>3. /\ seqNo[b] \in 0 .. MaxSeq /\ lastPlayedSeq \in NoSeq .. MaxSeq /\ running \in BOOLEAN
      /\ MaxSeq \in Nat /\ b \in queue /\ b # NoBuffer
      /\ fec \in [Buffers -> BOOLEAN]
  BY <1>1, <1>2, JitterBufferAssumption DEF TypeOK, IsHead
<1>4. CASE playNext(p, b)
  BY <1>1, <1>2, <1>4, PlayNextStep
<1>5. CASE previewNext(p, b)
  <2>1. lastPlayedSeq # NoSeq /\ lastPlayedSeq' = lastPlayedSeq + 1
        /\ lastPlayedSeq' \in 0 .. MaxSeq
    BY <1>3, <1>5 DEF previewNext
  <2>2. /\ at' = [at EXCEPT ![p] = "shown"] /\ playing' = [playing EXCEPT ![p] = b]
        /\ fec' = [fec EXCEPT ![b] = TRUE]
        /\ UNCHANGED <<pool, fillBuffers, history, stopping>> /\ running' \in BOOLEAN
    BY <1>2, <1>3, <1>5 DEF previewNext, handedOut, control
  <2>3. "shown" \in Places /\ "shown" \notin {"given", "playing"}
    BY DEF Places
  <2>4. fec' \in [Buffers -> BOOLEAN]
    BY <1>3, <2>2
  <2>5. races = 0 => FlagsAgree'
    <3> SUFFICES ASSUME races = 0, NEW q \in Players
                 PROVE  /\ at'[q] = "shown" => fec'[playing'[q]] = TRUE
                        /\ at'[q] = "given" => fec'[playing'[q]] = FALSE
      BY DEF FlagsAgree
    <3>1. CASE q = p
      <4>1. at'[q] = "shown" /\ playing'[q] = b
        BY <1>2, <2>2, <3>1 DEF TypeOK
      <4> QED BY <1>3, <2>2, <4>1
    <3>2. CASE q # p
      <4>1. at'[q] = at[q] /\ playing'[q] = playing[q]
        BY <1>2, <2>2, <3>2 DEF TypeOK
      <4>2. CASE at[q] = "shown"
        <5>1. fec[playing[q]] = TRUE /\ playing[q] \in Buffers
          BY <1>2, <4>2 DEF IInv, FlagsAgree, TypeOK
        <5> QED BY <1>3, <2>2, <4>1, <4>2, <5>1
      <4>3. CASE at[q] = "given"
        <5>1. fec[playing[q]] = FALSE /\ playing[q] \in Buffers /\ playing[q] \in Held
          BY <1>2, <4>3 DEF IInv, FlagsAgree, TypeOK, Held, Holding
        <5>2. playing[q] # b
          BY <1>3, <5>1 DEF IInv, OwnedOnce
        <5> QED BY <2>2, <4>1, <4>3, <5>1, <5>2
      <4> QED BY <4>1, <4>2, <4>3
    <3> QED BY <3>1, <3>2
  <2> QED BY <1>2, <1>3, <2>1, <2>2, <2>3, <2>4, <2>5, ThreadStep
<1>6. CASE skipLost(b)
  <2>1. lastPlayedSeq # NoSeq /\ lastPlayedSeq' = lastPlayedSeq + 1
        /\ lastPlayedSeq' \in 0 .. MaxSeq
    BY <1>3, <1>6 DEF skipLost
  <2>2. UNCHANGED <<pool, seqNo, queue, free, numQueued, disordered, thrown, fec, fillBuffers,
                    history, lastPlayed, races, control, running, stopping, at, playing>>
    BY <1>2, <1>6 DEF skipLost, pool, history, control, threads
  <2>3. TypeOK'
    BY <1>2, <2>1, <2>2 DEF TypeOK
  <2>4. Held' = Held /\ FlagsAgree' /\ \A q \in Players : Holding(q)' <=> Holding(q)
    BY <2>2 DEF Held, Holding, FlagsAgree, IInv
  <2> QED BY <2>1, <2>2, <2>3, <2>4, QuietStep
<1>7. CASE discardLate(b)
  BY <1>1, <1>2, <1>7, DiscardStep
<1> QED BY <1>1, <1>4, <1>5, <1>6, <1>7

\* As long as flags agree, the branch is the one the buffer was handed out for.
LEMMA LooksAtFecStep ==
    ASSUME IInv, NEW p \in Players, looksAtFec(p)
    PROVE  IInv' /\ (races = 0 /\ at'[p] = "playing" => at[p] = "given")
<1> DEFINE v == IF fec[playing[p]] THEN "preview" ELSE "playing"
<1>1. TypeOK /\ fec \in [Buffers -> BOOLEAN] /\ running \in BOOLEAN
  BY DEF IInv, TypeOK
<1>2. /\ at[p] \in {"given", "shown"} /\ at' = [at EXCEPT ![p] = v]
      /\ UNCHANGED <<pool, fec, fillBuffers, lastPlayedSeq, control, running, stopping,
                     playing, history, lastPlayed, races>>
  BY DEF looksAtFec, control, history
<1>3. /\ playing[p] \in Buffers /\ playing[p] # NoBuffer
      /\ playing' = [playing EXCEPT ![p] = playing[p]]
  BY <1>1, <1>2, JitterBufferAssumption DEF TypeOK
<1>4. v \in Places /\ at'[p] = v
  BY <1>1, <1>2 DEF Places, TypeOK
<1>5. races = 0 => (v = "playing" <=> at[p] = "given")
  BY <1>2 DEF IInv, FlagsAgree
<1>6. races = 0 => FlagsAgree'
  <2>1. \A q \in Players : at'[q] \in {"given", "shown"} => at'[q] = at[q]
    BY <1>1, <1>2 DEF TypeOK
  <2> QED BY <1>2, <2>1 DEF IInv, FlagsAgree
<1>7. v # "given" /\ (Holding(p) <=> at[p] = "given")
  BY <1>2 DEF Holding
<1> HIDE DEF v
<1>8. races = 0 => (v \in {"given", "playing"} <=> Holding(p))
  BY <1>5, <1>7
<1>9. IInv'
  BY <1>1, <1>2, <1>3, <1>4, <1>6, <1>8, ThreadStep
<1> QED BY <1>4, <1>5, <1>9

\* Back to the loop, or out of it, with nothing to return.
LEMMA LeavesStep ==
    ASSUME IInv, NEW p \in Players, ~Holding(p),
           NEW v \in {"loop", "ended"}, at' = [at EXCEPT ![p] = v],
           NEW c \in Buffers \cup {NoBuffer}, playing' = [playing EXCEPT ![p] = c],
           UNCHANGED <<pool, fec, fillBuffers, lastPlayedSeq, history, stopping>>,
           running' \in BOOLEAN
    PROVE  IInv'
<1>1. TypeOK /\ fec' \in [Buffers -> BOOLEAN]
  BY DEF IInv, TypeOK
<1>2. v \in Places /\ v \notin {"given", "shown", "playing", "preview"}
  BY DEF Places
<1>3. races = 0 => FlagsAgree'
  <2>1. \A q \in Players :
          at'[q] \in {"given", "shown"} => at'[q] = at[q] /\ playing'[q] = playing[q]
    BY <1>1, <1>2 DEF TypeOK
  <2> QED BY <2>1 DEF IInv, FlagsAgree
<1>4. UNCHANGED <<pool, fillBuffers, history, stopping>> /\ lastPlayedSeq' = lastPlayedSeq
  OBVIOUS
<1> QED BY <1>1, <1>2, <1>3, <1>4, ThreadStep

LEMMA ReturnStep ==
    ASSUME IInv, NEW p \in Players, returnPlayBuffer(p)
    PROVE  IInv'
<1>1. TypeOK /\ OwnedOnce
  BY DEF IInv
<1> DEFINE b == playing[p]
<1>2. /\ at[p] = "playing" /\ free' = Append(free, b)
      /\ at' = [at EXCEPT ![p] = "loop"] /\ playing' = [playing EXCEPT ![p] = NoBuffer]
      /\ UNCHANGED <<seqNo, fec, queue, disordered, numQueued, thrown, fillBuffers,
                     lastPlayedSeq, running, stopping, lastPlayed, races>>
  BY DEF returnPlayBuffer, leaves, control, history
<1>3. b \in Held /\ b \in Buffers
  BY <1>1, <1>2 DEF Held, Holding, TypeOK
<1>4. /\ \A q \in Players : q # p => at'[q] = at[q] /\ playing'[q] = playing[q]
      /\ at'[p] = "loop"
      /\ at' \in [Players -> Places]
      /\ playing' \in [Players -> Buffers \cup {NoBuffer}]
  BY <1>1, <1>2 DEF TypeOK, Places
<1>5. races = 0 => Held' = Held \ {b}
  <2> SUFFICES ASSUME races = 0 PROVE Held' = Held \ {b}
    OBVIOUS
  <2>1. Holding(p) /\ ~Holding(p)' /\ \A q \in Players : q # p => (Holding(q)' <=> Holding(q))
    BY <1>2, <1>4 DEF Holding
  <2> QED BY <1>1, <1>4, <2>1 DEF Held, OwnedOnce
<1>6. /\ free' \in Seq(Buffers) /\ Len(free') = Len(free) + 1 /\ Len(free) \in Nat
      /\ \A i \in 1 .. Len(free) : free'[i] = free[i]
      /\ free'[Len(free) + 1] = b
  BY <1>1, <1>2, <1>3 DEF TypeOK
<1>7. TypeOK'
  BY <1>1, <1>2, <1>4, <1>6 DEF TypeOK, Places
<1>8. OwnedOnce'
  <2> SUFFICES ASSUME races = 0
               PROVE  /\ \A i, j \in 1 .. Len(free') : i # j => free'[i] # free'[j]
                      /\ \A i \in 1 .. Len(free') : free'[i] \notin queue' \cup Held'
                      /\ queue' \cap Held' = {}
                      /\ \A q, r \in Players :
                           q # r /\ Holding(q)' /\ Holding(r)' => playing'[q] # playing'[r]
    BY <1>2 DEF OwnedOnce
  <2>1. \A i \in 1 .. Len(free) : free[i] # b
    BY <1>1, <1>3 DEF OwnedOnce
  <2>2. \A i, j \in 1 .. Len(free') : i # j => free'[i] # free'[j]
    BY <1>1, <1>6, <2>1 DEF OwnedOnce
  <2>3. b \notin queue
    BY <1>1, <1>3 DEF OwnedOnce
  <2>4. \A i \in 1 .. Len(free') : free'[i] \notin queue' \cup Held'
    BY <1>1, <1>2, <1>5, <1>6, <2>3 DEF OwnedOnce
  <2>5. \A q \in Players : Holding(q)' => q # p /\ Holding(q)
    BY <1>4 DEF Holding
  <2> QED BY <1>1, <1>2, <1>4, <1>5, <2>2, <2>4, <2>5 DEF OwnedOnce
<1>9. FreeBuffersAreOld'
  BY <1>2, <1>3, <1>5, <1>6 DEF IInv, FreeBuffersAreOld
<1>10. NoneFreeAtStart' /\ HistoryOK' /\ NoRaceAlone'
  BY <1>2, <1>3 DEF IInv, NoneFreeAtStart, HistoryOK, NoRaceAlone, Alone
<1>11. FlagsAgree'
  BY <1>2, <1>4 DEF IInv, FlagsAgree
<1> QED BY <1>7, <1>8, <1>9, <1>10, <1>11 DEF IInv

\* What a concatenation is, place by place.
LEMMA Joined ==
    ASSUME NEW T, NEW a \in Seq(T), NEW b \in Seq(T), NEW c, c = a \o b
    PROVE  /\ c \in Seq(T) /\ Len(a) \in Nat /\ Len(b) \in Nat /\ Len(c) = Len(a) + Len(b)
           /\ \A i \in 1 .. Len(a) : c[i] = a[i]
           /\ \A i \in Len(a) + 1 .. Len(c) :
                 i - Len(a) \in 1 .. Len(b) /\ c[i] = b[i - Len(a)]
<1>1. c \in Seq(T) /\ Len(a) \in Nat /\ Len(b) \in Nat /\ Len(c) = Len(a) + Len(b)
  OBVIOUS
<1>2. \A i \in 1 .. Len(a) + Len(b) : c[i] = IF i <= Len(a) THEN a[i] ELSE b[i - Len(a)]
  OBVIOUS
<1>3. \A i \in 1 .. Len(a) : c[i] = a[i]
  BY <1>1, <1>2
<1>4. ASSUME NEW i \in Len(a) + 1 .. Len(c)
      PROVE  i - Len(a) \in 1 .. Len(b) /\ c[i] = b[i - Len(a)]
  BY <1>1, <1>2
<1> QED BY <1>1, <1>3, <1>4

LEMMA ResetStep ==
    ASSUME IInv, reset
    PROVE  IInv'
<1>1. TypeOK /\ OwnedOnce
  BY DEF IInv
<1>2. PICK s \in polled : free' = free \o s
  BY DEF reset
<1>3. /\ queue' = {} /\ disordered' = FALSE
      /\ numQueued' = numQueued - Cardinality(queue) /\ fillBuffers' = TRUE
      /\ lastPlayedSeq' = NoSeq /\ lastPlayed' = NoSeq /\ stopping' = FALSE
      /\ UNCHANGED <<seqNo, fec, thrown, running, at, playing, races>>
  BY DEF reset, threads
<1>4. Held' = Held /\ \A q \in Players : Holding(q)' <=> Holding(q)
  BY <1>3 DEF Held, Holding
<1>5. Cardinality(queue) \in Nat /\ queue \subseteq Buffers
  BY <1>1, JitterBufferAssumption, FS_Subset, FS_CardinalityType DEF TypeOK
<1>6. /\ s \in Seq(queue) /\ Len(s) = Cardinality(queue)
      /\ \A i, j \in 1 .. Len(s) : i < j => s[i] # s[j]
  BY <1>5 DEF polled
<1>7. \A i, j \in 1 .. Len(s) : i # j => s[i] # s[j]
  BY <1>5, <1>6
<1>8. /\ free' \in Seq(Buffers) /\ Len(free') = Len(free) + Len(s)
      /\ Len(free) \in Nat /\ Len(s) \in Nat
      /\ \A i \in 1 .. Len(free) : free'[i] = free[i]
      /\ \A i \in Len(free) + 1 .. Len(free') :
            i - Len(free) \in 1 .. Len(s) /\ free'[i] = s[i - Len(free)]
  <2>1. s \in Seq(Buffers) /\ free \in Seq(Buffers)
    BY <1>1, <1>5, <1>6 DEF TypeOK
  <2> QED BY <1>2, <2>1, Joined
<1>9. TypeOK'
  <2>1. numQueued' = 0 - thrown
    BY <1>1, <1>3, <1>5, JitterBufferAssumption DEF TypeOK
  <2>2. numQueued' = Cardinality(queue') - thrown'
    BY <1>3, <2>1, FS_EmptySet
  <2>3. NoSeq \in NoSeq .. MaxSeq
    BY JitterBufferAssumption DEF NoSeq
  <2> QED BY <1>1, <1>3, <1>8, <2>2, <2>3 DEF TypeOK
<1>10. OwnedOnce'
  <2> SUFFICES ASSUME races = 0
               PROVE  /\ \A i, j \in 1 .. Len(free') : i # j => free'[i] # free'[j]
                      /\ \A i \in 1 .. Len(free') : free'[i] \notin queue' \cup Held'
                      /\ queue' \cap Held' = {}
                      /\ \A q, r \in Players :
                           q # r /\ Holding(q)' /\ Holding(r)' => playing'[q] # playing'[r]
    BY <1>3 DEF OwnedOnce
  <2>1. \A i \in Len(free) + 1 .. Len(free') : free'[i] \in queue
    BY <1>6, <1>8
  <2>2. ASSUME NEW i \in 1 .. Len(free'), NEW j \in 1 .. Len(free'), i # j
        PROVE  free'[i] # free'[j]
    <3>1. CASE i <= Len(free) /\ j <= Len(free)
      BY <1>1, <1>8, <2>2, <3>1 DEF OwnedOnce
    <3>2. CASE i <= Len(free) /\ j > Len(free)
      BY <1>1, <1>8, <2>1, <3>2 DEF OwnedOnce
    <3>3. CASE i > Len(free) /\ j <= Len(free)
      BY <1>1, <1>8, <2>1, <3>3 DEF OwnedOnce
    <3>4. CASE i > Len(free) /\ j > Len(free)
      <4>1. /\ i - Len(free) \in 1 .. Len(s) /\ free'[i] = s[i - Len(free)]
            /\ j - Len(free) \in 1 .. Len(s) /\ free'[j] = s[j - Len(free)]
        BY <1>8, <3>4
      <4>2. i - Len(free) # j - Len(free)
        BY <1>8, <2>2
      <4> QED BY <1>7, <4>1, <4>2
    <3> QED BY <1>8, <3>1, <3>2, <3>3, <3>4
  <2>3. ASSUME NEW i \in 1 .. Len(free') PROVE free'[i] \notin Held
    <3>1. CASE i <= Len(free)
      BY <1>1, <1>8, <3>1 DEF OwnedOnce
    <3>2. CASE i > Len(free)
      BY <1>1, <1>8, <2>1, <3>2 DEF OwnedOnce
    <3> QED BY <1>8, <3>1, <3>2
  <2> QED BY <1>1, <1>3, <1>4, <2>2, <2>3 DEF OwnedOnce
<1>11. FlagsAgree' /\ NoRaceAlone'
  BY <1>3 DEF IInv, FlagsAgree, NoRaceAlone, Alone
<1> QED BY <1>3, <1>9, <1>10, <1>11
        DEF IInv, FreeBuffersAreOld, NoneFreeAtStart, HistoryOK, NoSeq

-----------------------------------------------------------------------------
LEMMA NextIInv == IInv /\ [Next]_vars => IInv'
<1> SUFFICES ASSUME IInv, [Next]_vars PROVE IInv'
  OBVIOUS
<1>0. /\ TypeOK /\ running \in BOOLEAN /\ NoBuffer \in Buffers \cup {NoBuffer}
      /\ \A p \in Players : playing[p] \in Buffers \cup {NoBuffer}
      /\ \A p \in Players : playing = [playing EXCEPT ![p] = playing[p]]
  BY DEF IInv, TypeOK
<1>1. ASSUME NEW n \in 0 .. MaxSeq, receive(n) PROVE IInv'
  BY <1>1, ReceiveStep
<1>2. ASSUME NEW n \in 0 .. MaxSeq, receiveThrows(n) PROVE IInv'
  BY <1>2, ReceiveThrowsStep
<1>3. ASSUME NEW p \in Players, underrun(p) PROVE IInv'
  <2>1. /\ UNCHANGED <<pool, seqNo, queue, disordered, free, numQueued, thrown, fec,
                       lastPlayedSeq, running, stopping, at, playing, history, lastPlayed, races>>
        /\ fillBuffers' = TRUE
    BY <1>3 DEF underrun, pool, control, threads, history
  <2>2. TypeOK'
    BY <1>0, <2>1 DEF TypeOK
  <2>3. Held' = Held /\ FlagsAgree' /\ \A q \in Players : Holding(q)' <=> Holding(q)
    BY <2>1 DEF Held, Holding, FlagsAgree, IInv
  <2> QED BY <2>1, <2>2, <2>3, QuietStep
<1>4. ASSUME NEW p \in Players, getPlayBuffer(p) PROVE IInv'
  BY <1>4, GetPlayBufferStep
<1>5. ASSUME NEW p \in Players, returnPlayBuffer(p) PROVE IInv'
  BY <1>5, ReturnStep
<1>6. ASSUME NEW p \in Players, looksAtFec(p) PROVE IInv'
  BY <1>6, LooksAtFecStep
<1>7. ASSUME NEW p \in Players, previewDecoded(p) PROVE IInv'
  <2>1. /\ ~Holding(p) /\ at' = [at EXCEPT ![p] = "loop"]
        /\ playing' = [playing EXCEPT ![p] = NoBuffer]
        /\ UNCHANGED <<pool, fec, fillBuffers, lastPlayedSeq, history, stopping>>
        /\ running' \in BOOLEAN
    BY <1>0, <1>7 DEF previewDecoded, leaves, control, Holding
  <2> QED BY <1>0, <2>1, LeavesStep
<1>8. ASSUME NEW p \in Players, threadEnds(p) PROVE IInv'
  <2>1. /\ ~Holding(p) /\ at' = [at EXCEPT ![p] = "ended"]
        /\ playing' = [playing EXCEPT ![p] = playing[p]]
        /\ UNCHANGED <<pool, fec, fillBuffers, lastPlayedSeq, history, stopping>>
        /\ running' \in BOOLEAN
    BY <1>0, <1>8 DEF threadEnds, control, Holding
  <2> QED BY <1>0, <2>1, LeavesStep
<1>9. ASSUME NEW p \in Players, start(p) PROVE IInv'
  <2>1. /\ ~Holding(p) /\ at' = [at EXCEPT ![p] = "loop"]
        /\ playing' = [playing EXCEPT ![p] = playing[p]]
        /\ UNCHANGED <<pool, fec, fillBuffers, lastPlayedSeq, history, stopping>>
        /\ running' \in BOOLEAN
    BY <1>0, <1>9 DEF start, Holding
  <2> QED BY <1>0, <2>1, LeavesStep
<1>10. CASE stop \/ UNCHANGED vars
  <2>1. /\ UNCHANGED <<pool, seqNo, queue, disordered, free, numQueued, thrown, fec,
                       fillBuffers, lastPlayedSeq, at, playing, history, lastPlayed, races>>
        /\ running' \in BOOLEAN /\ stopping' \in BOOLEAN
    BY <1>0, <1>10 DEF stop, vars, pool, control, threads, history, TypeOK
  <2>2. TypeOK'
    BY <1>0, <2>1 DEF TypeOK
  <2>3. Held' = Held /\ FlagsAgree' /\ \A q \in Players : Holding(q)' <=> Holding(q)
    BY <2>1 DEF Held, Holding, FlagsAgree, IInv
  <2> QED BY <2>1, <2>2, <2>3, QuietStep
<1>11. CASE reset
  BY <1>11, ResetStep
<1> QED BY <1>1, <1>2, <1>3, <1>4, <1>5, <1>6, <1>7, <1>8, <1>9, <1>10, <1>11 DEF Next

\* The strengthened invariant holds in every state.
THEOREM Invariance == Spec => []IInv
<1> QED BY InitIInv, NextIInv, PTL DEF Spec

\* Types, and the length of the queue (CircularPriorityQueueBuffer), races or none.
THEOREM TypeCorrect == Spec => []TypeOK
<1>1. IInv => TypeOK
  BY DEF IInv
<1> QED BY <1>1, Invariance, PTL

\* No buffer is at two places (getNextFree, poll, returnFree, clear) before a player takes
\* one that another was shown.
THEOREM BuffersAreOwnedOnce == Spec => []OwnedOnce
<1>1. IInv => OwnedOnce
  BY DEF IInv
<1> QED BY <1>1, Invariance, PTL

\* Numbers that free buffers keep are never above lastPlayedSeq (receive), as long.
THEOREM FreeBuffersHaveOldNumbers == Spec => []FreeBuffersAreOld
<1>1. IInv => FreeBuffersAreOld
  BY DEF IInv
<1> QED BY <1>1, Invariance, PTL

\* With one player thread nobody ever takes a buffer that another was shown: all that is
\* said of the time before it holds for good.
THEOREM OnePlayerIsSafe == Spec => [](Alone => races = 0)
<1>1. IInv => (Alone => races = 0)
  BY DEF IInv, NoRaceAlone
<1> QED BY <1>1, Invariance, PTL

\* The receiver leaves the frame alone that a player has got to play (getAudioFrame).
THEOREM DecodingIsUndisturbed == Spec => DecodedFrameIsKept
<1>1. ASSUME IInv, [Next]_vars
      PROVE  [races = 0 =>
                \A p \in Players : Holding(p) /\ Holding(p)' =>
                    seqNo'[playing[p]] = seqNo[playing[p]]]_vars
  <2> SUFFICES ASSUME Next, races = 0, NEW p \in Players, Holding(p)
               PROVE  seqNo'[playing[p]] = seqNo[playing[p]]
    BY <1>1
  <2>1. TypeOK /\ OwnedOnce /\ playing[p] \in Held
    BY <1>1 DEF IInv, Held
  <2>2. ASSUME NEW n \in 0 .. MaxSeq, receive(n) PROVE seqNo'[playing[p]] = seqNo[playing[p]]
    <3>1. PICK b \in Buffers : IsNextFree(b) /\ filled(b, n)
      BY <2>2 DEF receive
    <3>2. b # playing[p] /\ playing[p] \in Buffers
      BY <2>1, <3>1, NextFreeIsOwned, HeldAreBuffers
    <3> QED BY <2>1, <3>1, <3>2, Filled
  <2>3. ASSUME NEW q \in Players, getPlayBuffer(q) PROVE seqNo' = seqNo
    BY <2>3 DEF getPlayBuffer, playNext, previewNext, skipLost, discardLate, poll, pool
  <2>4. ASSUME NEW q \in Players,
               \/ underrun(q) \/ looksAtFec(q) \/ returnPlayBuffer(q)
               \/ previewDecoded(q) \/ threadEnds(q) \/ start(q)
        PROVE seqNo' = seqNo
    BY <2>4 DEF underrun, looksAtFec, returnPlayBuffer, previewDecoded, threadEnds, start, pool
  <2>5. ASSUME NEW n \in 0 .. MaxSeq, receiveThrows(n) PROVE seqNo' = seqNo
    BY <2>5 DEF receiveThrows
  <2>6. ASSUME stop \/ reset PROVE seqNo' = seqNo
    BY <2>6 DEF stop, reset, pool
  <2> QED BY <2>2, <2>3, <2>4, <2>5, <2>6 DEF Next
<1> QED BY <1>1, Invariance, PTL DEF Spec, DecodedFrameIsKept

\* Frames are handed out in order, none twice (getPlayBuffer), and only those are played
\* that were handed out for it (getAudioFrame), before a player takes one that another was
\* shown.
THEOREM FramesArePlayedInOrder == Spec => PlayedInOrder
<1> DEFINE InOrder(p) ==
      /\ at[p] = "loop" /\ at'[p] = "given" => seqNo[playing'[p]] > lastPlayed
      /\ races = 0 /\ at[p] # "playing" /\ at'[p] = "playing" => at[p] = "given"
<1>1. ASSUME IInv, [Next]_vars
      PROVE  [\A p \in Players : InOrder(p)]_vars
  <2> SUFFICES ASSUME Next, NEW p \in Players PROVE InOrder(p)
    BY <1>1
  <2>1. TypeOK /\ HistoryOK
    BY <1>1 DEF IInv
  <2>2. ASSUME NEW q \in Players, getPlayBuffer(q) PROVE InOrder(p)
    <3>1. PICK b \in Buffers :
            /\ IsHead(b)
            /\ playNext(q, b) \/ previewNext(q, b) \/ skipLost(b) \/ discardLate(b)
      BY <2>2 DEF getPlayBuffer
    <3>2. at'[p] = "playing" => at[p] = "playing"
      BY <2>1, <3>1 DEF playNext, previewNext, skipLost, discardLate, handedOut, threads, TypeOK
    <3>3. ASSUME at[p] = "loop", at'[p] = "given" PROVE seqNo[playing'[p]] > lastPlayed
      <4>1. playNext(q, b) /\ q = p
        BY <2>1, <3>1, <3>3
           DEF playNext, previewNext, skipLost, discardLate, handedOut, threads, TypeOK
      <4>2. playing'[p] = b /\ seqNo[b] \in 0 .. MaxSeq
        BY <2>1, <3>1, <4>1 DEF playNext, handedOut, TypeOK, IsHead, NoSeq
      <4>3. lastPlayed <= lastPlayedSeq /\ lastPlayed \in Int /\ lastPlayedSeq \in Int
        BY <2>1 DEF HistoryOK, TypeOK
      <4>4. lastPlayedSeq < seqNo[b]
        BY <4>1, <4>2, <4>3 DEF playNext, NoSeq
      <4> QED BY <4>2, <4>3, <4>4
    <3> QED BY <3>2, <3>3
  <2>3. ASSUME NEW q \in Players, looksAtFec(q) PROVE InOrder(p)
    <3>1. at'[p] # "given" \/ at[p] # "loop"
      BY <2>1, <2>3 DEF looksAtFec, TypeOK
    <3>2. q # p => at'[p] = at[p]
      BY <2>1, <2>3 DEF looksAtFec, TypeOK
    <3>3. races = 0 /\ at'[q] = "playing" => at[q] = "given"
      BY <1>1, <2>3, LooksAtFecStep
    <3> QED BY <3>1, <3>2, <3>3
  <2>4. ASSUME NEW q \in Players,
               \/ underrun(q) \/ returnPlayBuffer(q)
               \/ previewDecoded(q) \/ threadEnds(q) \/ start(q)
        PROVE InOrder(p)
    <3>1. at'[p] \in {at[p], "loop", "ended"}
      BY <2>1, <2>4
         DEF underrun, returnPlayBuffer, previewDecoded, threadEnds, start, leaves, threads, TypeOK
    <3> QED BY <3>1
  <2>5. ASSUME NEW n \in 0 .. MaxSeq, receive(n) \/ receiveThrows(n) PROVE InOrder(p)
    BY <2>5 DEF receive, receiveThrows, threads
  <2>6. ASSUME stop \/ reset PROVE InOrder(p)
    BY <2>6 DEF stop, reset, threads
  <2> QED BY <2>2, <2>3, <2>4, <2>5, <2>6 DEF Next
<1> QED BY <1>1, Invariance, PTL DEF Spec, PlayedInOrder
=============================================================================
