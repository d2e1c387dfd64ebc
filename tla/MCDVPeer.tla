------------------------------ MODULE MCDVPeer ------------------------------
(***************************************************************************)
(* DVPeer on a device that knows about d.  At times d is a neighbour; b    *)
(* and c are neighbours that know routes to d whose last hop is x.  The    *)
(* direct route and the one over x are the two candidates that allRoutes   *)
(* can hold, in the order in which the HashMap happens to iterate them.    *)
(***************************************************************************)
EXTENDS DVPeer, TLC

CONSTANTS a, b, c, d, x

MCNbrs == {b, c, d}
MCFewNbrs == {b, d}
MCLastHops == {a, x}
MCHashOrder == <<a, x>>

\* b and c differ in nothing but their name.
MCSymmetry == Permutations({b, c})
=============================================================================
