--------------------------- MODULE MCTCPConnection ---------------------------
(***************************************************************************)
(* The client sends packets of two and one bytes; its window takes a frame  *)
(* and a part of the next.  The server sends a packet of five bytes, more   *)
(* than the two that the buffer of the reader holds and more than a short   *)
(* here can say; its window takes all that it sends.  For the run that      *)
(* shows damaged packets the server sends packets of one and two bytes.     *)
(***************************************************************************)
EXTENDS TCPConnection

MCStart == [e \in Ends |-> IF e = Client THEN <<0, 4, 7>> ELSE <<0, 7>>]
MCPackets == [e \in Ends |-> IF e = Client THEN 2 ELSE 1]

MCStartFits == [e \in Ends |-> IF e = Client THEN <<0, 4, 7>> ELSE <<0, 3, 7>>]
MCPacketsFits == [e \in Ends |-> 2]

MCWindow == [e \in Ends |-> IF e = Client THEN 5 ELSE 8]
=============================================================================
