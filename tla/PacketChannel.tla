---------------------------- MODULE PacketChannel ----------------------------
(***************************************************************************)
(* What users of a TCPConnection count on.  Each end accepts packets, which *)
(* are numbered in the order they are accepted, and hands those of the      *)
(* other end to its callback: all of them, whole and in order, as long as   *)
(* no connection was lost and the next packet is one that fits.  After that *)
(* packets may be missing, late or damaged (0 stands for what is no         *)
(* packet), but none is handed over twice.                                  *)
(***************************************************************************)
EXTENDS Naturals, Sequences

CONSTANTS
    Ends,
    Unfit       \* packets, with their end, that are empty or too long

VARIABLES
    accepted,   \* how many packets each end has accepted for sending
    delivered,  \* which packets of each end the other one was given
    intact      \* no connection has been lost

chanVars == <<accepted, delivered, intact>>

\* The packets of e came out as they went in, and so will the next.
Sound(e) ==
    /\ intact
    /\ \A i \in 1 .. accepted[e] : i <= Len(delivered[e]) + 1 => <<e, i>> \notin Unfit

ChanInit ==
    /\ accepted = [e \in Ends |-> 0]
    /\ delivered = [e \in Ends |-> <<>>]
    /\ intact = TRUE

Accept(e) ==
    /\ accepted' = [accepted EXCEPT ![e] = @ + 1]
    /\ UNCHANGED <<delivered, intact>>

Deliver(e) ==
    /\ Sound(e)
    /\ Len(delivered[e]) < accepted[e]
    /\ delivered' = [delivered EXCEPT ![e] = Append(@, Len(@) + 1)]
    /\ UNCHANGED <<accepted, intact>>

DeliverUnsound(e) ==
    /\ ~Sound(e)
    /\ \E i \in 0 .. accepted[e] :
        /\ i # 0 => \A k \in 1 .. Len(delivered[e]) : delivered[e][k] # i
        /\ delivered' = [delivered EXCEPT ![e] = Append(@, i)]
    /\ UNCHANGED <<accepted, intact>>

Lose == /\ intact' = FALSE
        /\ UNCHANGED <<accepted, delivered>>

ChanNext ==
    \/ \E e \in Ends : Accept(e) \/ Deliver(e) \/ DeliverUnsound(e)
    \/ Lose

ChanSpec == ChanInit /\ [][ChanNext]_chanVars
=============================================================================
