------------------------------ MODULE MCDVNet ------------------------------
(***************************************************************************)
(* A ring: d is in reach of x and z, and y between them.                   *)
(***************************************************************************)
EXTENDS DVNetNode

CONSTANTS d, x, y, z

MCRing == {x, y, z}
MCAll == {d, x, y, z}
MCRingOrder == <<x, y, z>>
MCRingLinks == {<<d, x>>, <<d, z>>, <<x, y>>, <<y, x>>, <<y, z>>, <<z, y>>}

\* Only x reaches d; y and z reach each other as well.
MCTriangleLinks == {<<d, x>>, <<x, y>>, <<y, x>>, <<y, z>>, <<z, y>>, <<x, z>>, <<z, x>>}
MCTriangleBreaks == {<<d, x>>, <<x, y>>}
=============================================================================
