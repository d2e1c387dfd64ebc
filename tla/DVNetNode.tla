----------------------------- MODULE DVNetNode -----------------------------
(***************************************************************************)
(* One of the devices of DVNet, Me, whichever it is, behaves as module     *)
(* DVPeer says, so that all that is shown there of a DVPeer, its queue and *)
(* its registry among arbitrary packets holds of it among the others.      *)
(***************************************************************************)
EXTENDS DVNet

CONSTANT Me

ASSUME DVNetNodeAssumption == Me \in Nodes

\* The Peer is in the registry of Me as RegistryAgreement of DVPeer says.
Node == INSTANCE DVPeer WITH
    Nbrs <- NbrsOf(Me), LastHops <- Nodes, LinkMetrics <- LinkMetrics \cup HopMetrics,
    Ages <- 0 .. MaxAcceptedAge, Proxied <- {}, unlinked <- {},
    dp <- dps[Me], registered <- known(Me) /\ dps[Me].state # "TIMED_OUT", thrown <- FALSE,
    nbrs <- nbrs[Me], linkMetric <- linkMetric[Me], sending <- FALSE

\* What packets, links, timers and the clock of the network make of the DVPeer of Me
\* is what a handler or a timer of DVPeer makes of it, and no addPeer or removePeer
\* throws.
NodeIsDVPeer == Node!Spec
=============================================================================
