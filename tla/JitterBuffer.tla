----------------------------- MODULE JitterBuffer -----------------------------
(***************************************************************************)
(* A JitterBuffer3 with its CircularPriorityQueueBuffer, between the thread *)
(* that receives packets of a stream and the AudioPlayer threads that play  *)
(* it through AudioReceiver.getAudioFrame.  Packets may be lost, reordered  *)
(* and duplicated, and a stream may begin anew: any frame may arrive at any *)
(* time.  A frame is its sequence number.  Whether a frame was handed out   *)
(* to be played or only to be looked at is written into the buffer and read *)
(* after the lock is released: with two player threads the answer may       *)
(* change in between.                                                       *)
(***************************************************************************)
EXTENDS Integers, Sequences, FiniteSets

CONSTANTS
    Buffers,     \* the pre-allocated BufferEntry objects
    NoBuffer,    \* null
    Players,     \* threads that AudioPlayer.start may create
    MaxSeq,      \* bound: last sequence number of a stream
    MaxThrown,   \* bound: NullPointerExceptions of receive
    MaxRaces     \* bound: times a buffer is taken from the queue that another player was shown

ASSUME JitterBufferAssumption ==
    /\ IsFiniteSet(Buffers) /\ NoBuffer \notin Buffers
    /\ MaxSeq \in Nat /\ MaxThrown \in Nat /\ MaxRaces \in Nat

VARIABLES
    seqNo,          \* per buffer: number of the frame that was last put into it
    fec,            \* per buffer: it was handed out last to be looked at only
    queue,          \* the buffers in the priority queue
    disordered,     \* a queued buffer got another number in its place in the heap
    free,           \* the list of free buffers
    numQueued,
    fillBuffers,
    lastPlayedSeq,
    thrown,         \* exceptions so far
    running,        \* AudioPlayer.running
    stopping,       \* AudioReceiver.stop has stopped the player, reset is next
    at,             \* where each player thread is
    playing,        \* the buffer that each of them has got, in getAudioFrame
    lastPlayed,     \* history: last frame handed out to be played since the last reset
    races           \* history: times MaxRaces is about

pool    == <<seqNo, queue, disordered, free, numQueued, thrown>>
control == <<running, stopping>>
threads == <<at, playing>>
history == <<lastPlayed, races>>
vars    == <<pool, fec, fillBuffers, lastPlayedSeq, control, threads, history>>

NoSeq == -1

-----------------------------------------------------------------------------
\* CircularPriorityQueueBuffer

maxSize == Cardinality(Buffers)

\* peek: the least one.  Of a heap whose numbers were changed it may be any.
IsHead(b) == b \in queue /\ \A c \in queue : seqNo[b] <= seqNo[c] \/ disordered

\* getNextFree: a free buffer, else the head of the queue.
IsNextFree(b) == IF free # <<>> THEN b = Head(free) ELSE IsHead(b)

Holds(q, n) == \E c \in q : seqNo[c] = n

\* A heap of one element is in order.
staysDisordered(q) == disordered /\ Cardinality(q) > 1

-----------------------------------------------------------------------------
\* The receiving thread.

\* Buffer b gets the number n and is put, unless it or its like is queued or there is no
\* room.  A buffer that was returned twice may be queued when it is taken as a free one.
filled(b, n) ==
    LET evicts == free = <<>>
        taken  == IF evicts THEN queue \ {b} ELSE queue
        count  == IF evicts THEN numQueued - 1 ELSE numQueued
        put    == b \notin taken /\ ~Holds(taken, n) /\ count < maxSize
    IN  /\ seqNo' = [seqNo EXCEPT ![b] = n]
        /\ free' = IF evicts THEN free ELSE Tail(free)
        /\ queue' = IF put THEN taken \cup {b} ELSE taken
        /\ numQueued' = IF put THEN count + 1 ELSE count
        /\ disordered' = (staysDisordered(taken) \/ b \in taken)
        /\ fillBuffers' = (fillBuffers /\ numQueued' # maxSize)

\* A fault: the number of any buffer is taken for one that was removed from the head.
receive_takesAnyNumber(n) ==
    /\ n > lastPlayedSeq
    /\ \E b \in Buffers :
        /\ IsNextFree(b)
        /\ lastPlayedSeq' = IF lastPlayedSeq # NoSeq THEN seqNo[b] ELSE lastPlayedSeq
        /\ filled(b, n)
    /\ UNCHANGED <<fec, thrown, control, threads, history>>

\* receive of frame n, which is not late, into the next free buffer.  Nobody keeps the
\* buffer if the frame turns out to be a duplicate.
receive(n) ==
    /\ n > lastPlayedSeq
    /\ \E b \in Buffers :
        /\ IsNextFree(b)
        /\ lastPlayedSeq' = IF lastPlayedSeq # NoSeq /\ seqNo[b] > lastPlayedSeq
                            THEN seqNo[b] ELSE lastPlayedSeq
        /\ filled(b, n)
    /\ UNCHANGED <<fec, thrown, control, threads, history>>

\* There is neither a free buffer nor a queued one: poll counts nevertheless.
receiveThrows(n) ==
    /\ n > lastPlayedSeq /\ free = <<>> /\ queue = {}
    /\ thrown < MaxThrown
    /\ thrown' = thrown + 1
    /\ numQueued' = numQueued - 1
    /\ UNCHANGED <<seqNo, fec, queue, disordered, free, fillBuffers, lastPlayedSeq, control,
                   threads, history>>

-----------------------------------------------------------------------------
\* A player thread: getPlayBuffer, decoding, returnPlayBuffer.

\* In the fill phase getPlayBuffer returns null and nothing changes.
mayPlay(p) == at[p] = "loop" /\ ~fillBuffers

underrun(p) ==
    /\ mayPlay(p) /\ queue = {}
    /\ fillBuffers' = TRUE
    /\ UNCHANGED <<pool, fec, lastPlayedSeq, control, threads, history>>

\* A fault: numQueued is left alone.
poll_uncounted(b) ==
    /\ queue' = queue \ {b} /\ disordered' = staysDisordered(queue')
    /\ UNCHANGED <<seqNo, free, numQueued, thrown>>

poll(b) ==
    /\ queue' = queue \ {b} /\ disordered' = staysDisordered(queue')
    /\ numQueued' = numQueued - 1
    /\ UNCHANGED <<seqNo, free, thrown>>

\* Thread p gets buffer b out of getPlayBuffer, which has set the flag of it.
handedOut(p, b, flag, place) ==
    /\ fec' = [fec EXCEPT ![b] = flag]
    /\ at' = [at EXCEPT ![p] = place] /\ playing' = [playing EXCEPT ![p] = b]

\* Somebody was shown b and has not looked at its flag yet.
isShown(b) == \E p \in Players : at[p] = "shown" /\ playing[p] = b

\* A fault: the frame is only looked at.
playNext_peeks(p, b) ==
    /\ lastPlayedSeq = NoSeq \/ seqNo[b] = lastPlayedSeq + 1
    /\ handedOut(p, b, FALSE, "given")
    /\ lastPlayedSeq' = seqNo[b] /\ lastPlayed' = seqNo[b]
    /\ UNCHANGED <<pool, races>>

\* The first frame, or the next one.
playNext(p, b) ==
    /\ lastPlayedSeq = NoSeq \/ seqNo[b] = lastPlayedSeq + 1
    /\ poll(b)
    /\ handedOut(p, b, FALSE, "given")
    /\ lastPlayedSeq' = seqNo[b] /\ lastPlayed' = seqNo[b]
    /\ races' = (IF isShown(b) THEN races + 1 ELSE races) /\ races' <= MaxRaces

\* A fault: the flag is not set.
previewNext_keepsFlag(p, b) ==
    /\ lastPlayedSeq # NoSeq /\ seqNo[b] = lastPlayedSeq + 2
    /\ handedOut(p, b, fec[b], "shown")
    /\ lastPlayedSeq' = lastPlayedSeq + 1
    /\ UNCHANGED <<pool, history>>

\* The next frame is lost: the one after it stays queued and is looked at for FEC.
previewNext(p, b) ==
    /\ lastPlayedSeq # NoSeq /\ seqNo[b] = lastPlayedSeq + 2
    /\ handedOut(p, b, TRUE, "shown")
    /\ lastPlayedSeq' = lastPlayedSeq + 1
    /\ UNCHANGED <<pool, history>>

skipLost(b) ==
    /\ lastPlayedSeq # NoSeq /\ seqNo[b] > lastPlayedSeq + 2
    /\ lastPlayedSeq' = lastPlayedSeq + 1
    /\ UNCHANGED <<pool, fec, threads, history>>

\* "Should not happen": the frame is late, and its buffer is dropped with it.
discardLate(b) ==
    /\ lastPlayedSeq # NoSeq /\ seqNo[b] < lastPlayedSeq + 1
    /\ poll(b)
    /\ UNCHANGED <<fec, lastPlayedSeq, threads, history>>

getPlayBuffer(p) ==
    /\ mayPlay(p)
    /\ \E b \in Buffers :
        /\ IsHead(b)
        /\ playNext(p, b) \/ previewNext(p, b) \/ skipLost(b) \/ discardLate(b)
    /\ UNCHANGED <<fillBuffers, control>>

\* The lock has been released: the branch is that of the flag as it is now, whatever the
\* buffer was handed out for.
looksAtFec(p) ==
    /\ at[p] \in {"given", "shown"}
    /\ at' = [at EXCEPT ![p] = IF fec[playing[p]] THEN "preview" ELSE "playing"]
    /\ UNCHANGED <<pool, fec, fillBuffers, lastPlayedSeq, control, playing, history>>

\* getAudioFrame ends, and with it the variable be.
leaves(p) == at' = [at EXCEPT ![p] = "loop"] /\ playing' = [playing EXCEPT ![p] = NoBuffer]

\* The frame has been decoded outside of the lock.
returnPlayBuffer(p) ==
    /\ at[p] = "playing"
    /\ free' = Append(free, playing[p])
    /\ leaves(p)
    /\ UNCHANGED <<seqNo, fec, queue, disordered, numQueued, thrown, fillBuffers, lastPlayedSeq,
                   control, history>>

previewDecoded(p) ==
    /\ at[p] = "preview"
    /\ leaves(p)
    /\ UNCHANGED <<pool, fec, fillBuffers, lastPlayedSeq, control, history>>

\* run looks at running between two frames.
threadEnds(p) ==
    /\ at[p] = "loop" /\ ~running
    /\ at' = [at EXCEPT ![p] = "ended"]
    /\ UNCHANGED <<pool, fec, fillBuffers, lastPlayedSeq, control, playing, history>>

-----------------------------------------------------------------------------
\* The application: a start may come before the thread of the last one has seen stop.

start(p) ==
    /\ ~stopping /\ at[p] = "ended"
    /\ running' = TRUE
    /\ at' = [at EXCEPT ![p] = "loop"]
    /\ UNCHANGED <<pool, fec, fillBuffers, lastPlayedSeq, stopping, playing, history>>

stop ==
    /\ ~stopping
    /\ running' = FALSE /\ stopping' = TRUE
    /\ UNCHANGED <<pool, fec, fillBuffers, lastPlayedSeq, threads, history>>

\* The order in which clear polls the queue.
polled == {s \in [1 .. Cardinality(queue) -> queue] :
             \A i, j \in DOMAIN s : i < j => s[i] # s[j]
                                          /\ (seqNo[s[i]] <= seqNo[s[j]] \/ disordered)}

\* A fault: playing goes on without a fill phase.
reset_keepsPlaying ==
    /\ stopping
    /\ \E s \in polled : free' = free \o s
    /\ queue' = {} /\ disordered' = FALSE /\ numQueued' = numQueued - Cardinality(queue)
    /\ lastPlayedSeq' = NoSeq /\ lastPlayed' = NoSeq
    /\ stopping' = FALSE
    /\ UNCHANGED <<seqNo, fec, thrown, fillBuffers, running, threads, races>>

\* stop's reset.
reset ==
    /\ stopping
    /\ \E s \in polled : free' = free \o s
    /\ queue' = {} /\ disordered' = FALSE /\ numQueued' = numQueued - Cardinality(queue)
    /\ fillBuffers' = TRUE
    /\ lastPlayedSeq' = NoSeq /\ lastPlayed' = NoSeq
    /\ stopping' = FALSE
    /\ UNCHANGED <<seqNo, fec, thrown, running, threads, races>>

-----------------------------------------------------------------------------

Init ==
    /\ seqNo = [b \in Buffers |-> NoSeq]
    /\ fec = [b \in Buffers |-> FALSE]
    /\ queue = {} /\ disordered = FALSE /\ numQueued = 0 /\ thrown = 0 /\ races = 0
    /\ free \in [1 .. maxSize -> Buffers]
    /\ \A i, j \in 1 .. maxSize : i # j => free[i] # free[j]
    /\ fillBuffers = TRUE /\ lastPlayedSeq = NoSeq /\ lastPlayed = NoSeq
    /\ running = TRUE /\ stopping = FALSE
    /\ at = [p \in Players |-> "ended"]
    /\ playing = [p \in Players |-> NoBuffer]

Next ==
    \/ \E n \in 0 .. MaxSeq : receive(n) \/ receiveThrows(n)
    \/ \E p \in Players : \/ underrun(p) \/ getPlayBuffer(p) \/ returnPlayBuffer(p)
                          \/ looksAtFec(p) \/ previewDecoded(p) \/ threadEnds(p) \/ start(p)
    \/ stop \/ reset

Spec == Init /\ [][Next]_vars

-----------------------------------------------------------------------------

\* Thread p has a buffer that it will return.
Holding(p) == at[p] \in {"given", "playing"}

Held == {playing[p] : p \in {q \in Players : Holding(q)}}

\* Types, and numQueued is the length of the queue, as long as receive did not throw, also
\* when a buffer has been returned twice (CircularPriorityQueueBuffer.put, poll, clear).
TypeOK ==
    /\ seqNo \in [Buffers -> NoSeq .. MaxSeq] /\ fec \in [Buffers -> BOOLEAN]
    /\ queue \subseteq Buffers /\ \A b \in queue : seqNo[b] # NoSeq
    /\ disordered \in BOOLEAN
    /\ free \in Seq(Buffers)
    /\ thrown \in 0 .. MaxThrown
    /\ numQueued = Cardinality(queue) - thrown
    /\ fillBuffers \in BOOLEAN /\ running \in BOOLEAN /\ stopping \in BOOLEAN
    /\ lastPlayedSeq \in NoSeq .. MaxSeq /\ lastPlayed \in NoSeq .. MaxSeq
    /\ at \in [Players -> {"ended", "loop", "given", "shown", "playing", "preview"}]
    /\ playing \in [Players -> Buffers \cup {NoBuffer}]
    /\ \A p \in Players : at[p] \in {"given", "shown", "playing", "preview"} => playing[p] # NoBuffer
    /\ races \in 0 .. MaxRaces

\* Until a player takes a buffer from the queue that another one was shown, and so changes
\* the flag under it, a buffer is in the queue, in the free list, with one player, or lost:
\* never at two places, although the receiver takes buffers from the queue that players
\* look at, reset empties it under players that are decoding, and the flag is read after
\* the lock is released (getNextFree, returnFree, AudioReceiver.java:77).
OwnedOnce ==
    races = 0 =>
        /\ \A i, j \in 1 .. Len(free) : i # j => free[i] # free[j]
        /\ \A i \in 1 .. Len(free) : free[i] \notin queue \cup Held
        /\ queue \cap Held = {}
        /\ \A p, q \in Players :
            p # q /\ Holding(p) /\ Holding(q) => playing[p] # playing[q]

\* As long, the receiver never writes into a frame that a player has got to play and
\* decodes without the lock (AudioReceiver.java:95).  It says nothing of a frame that is
\* only looked at, which stays queued and may be evicted and overwritten.
DecodedFrameIsKept ==
    [][races = 0 =>
        \A p \in Players : Holding(p) /\ Holding(p)' =>
            seqNo'[playing[p]] = seqNo[playing[p]]]_vars

\* receive takes a number above lastPlayedSeq for the sign of a buffer "removed from
\* head" (JitterBuffer3.java:68): no free buffer, and none that is about to be returned,
\* has one, although buffers keep their numbers and a new stream begins at a low one,
\* until a buffer is taken that another player was shown.
FreeBuffersAreOld ==
    races = 0 /\ lastPlayedSeq # NoSeq =>
        /\ \A i \in 1 .. Len(free) : seqNo[free[i]] <= lastPlayedSeq
        /\ \A b \in Held : seqNo[b] <= lastPlayedSeq

\* Frames of a stream are handed out in order and none twice, whatever late, duplicate or
\* overwritten packets there were in between; and until a buffer is taken that another
\* player was shown, only frames that were handed out to be played are played, so that
\* none is played twice (getPlayBuffer, receive, AudioReceiver.getAudioFrame).
PlayedInOrder ==
    [][\A p \in Players :
        /\ at[p] = "loop" /\ at'[p] = "given" => seqNo[playing'[p]] > lastPlayed
        /\ races = 0 /\ at[p] # "playing" /\ at'[p] = "playing" => at[p] = "given"]_vars
=============================================================================
