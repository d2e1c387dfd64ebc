------------------------------- MODULE SeqNo -------------------------------
(***************************************************************************)
(* The sequence number arithmetic of RoutingModuleCommon: numbers of       *)
(* SeqNoMod values that wrap (2^15 in the code, where incrementSeqNo masks   *)
(* with 0x7fff), compared in a circular window and, first of all, by the   *)
(* age of the information they number.                                     *)
(***************************************************************************)
EXTENDS Integers

CONSTANTS
    SeqNoMod,         \* number of sequence numbers: 0x7fff + 1 in the code
    AgeTolerance      \* DV_AGE_DELAY_TOLERANCE_MS

ASSUME SeqNoAssumption ==
    /\ SeqNoMod \in Nat \ {0}
    /\ AgeTolerance \in Nat

SeqNos == 0 .. SeqNoMod - 1

\* DV_SEQNO_EXP_WINDOW
SeqWindow == (SeqNoMod - 1) \div 2

incrementSeqNo(s) == (s + 1) % SeqNoMod

\* Information numbered s1 of age a1 supersedes information numbered s2 of age
\* a2: a clear difference of age decides alone, otherwise the window does.
seqNoGreater(s1, s2, a1, a2) ==
    \/ a2 - a1 > AgeTolerance
    \/ /\ a1 - a2 <= AgeTolerance
       /\ \/ s1 > s2 /\ s1 - s2 <= SeqWindow
          \/ s2 > s1 /\ s2 - s1 > SeqWindow
=============================================================================
