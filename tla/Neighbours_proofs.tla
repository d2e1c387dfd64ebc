-------------------------- MODULE Neighbours_proofs --------------------------
(***************************************************************************)
(* The safety invariants of module Neighbours, for any connections and any *)
(* bounds.                                                                 *)
(***************************************************************************)
EXTENDS Neighbours, TLAPS

\* What an action makes of the NbrPeer of a device.
NbrType == [known : BOOLEAN, official : BOOLEAN, idle : 0 .. IdleTicks + 1,
            links : SUBSET Interfaces, best : Interfaces \cup {None}]

DialType == [exists : BOOLEAN, to : Conns \cup {None}, tagged : BOOLEAN, waiting : BOOLEAN]

\* The invariants, for one device.
WellFormed(n, flagged, pif) ==
    /\ n.best \in best(n.links, flagged)
    /\ n.links \cap ProxyLinks \subseteq {pif}

IInv == TypeOK /\ BestLinkIsUsable /\ LinksHaveInterfaces

\* A device without NbrPeer satisfies the invariants.
LEMMA NoNbrFits ==
    /\ NoNbr \in NbrType
    /\ \A flagged, pif : WellFormed(NoNbr, flagged, pif)
  <1>1. NoNbr \in NbrType
    BY NeighboursAssumption DEF NoNbr, NbrType
  <1>2. NoNbr.best = None /\ NoNbr.links = {}
    BY DEF NoNbr
  <1> QED BY <1>1, <1>2 DEF WellFormed, best

LEMMA NoDialType == NoDial \in DialType
  BY DEF NoDial, DialType

\* The two invariants are WellFormed of each device.
LEMMA IInvByDevice ==
    IInv <=> /\ TypeOK
             /\ \A d \in Devices : WellFormed(nbr[d], bidirectional[d], proxyIf[d])
  BY DEF IInv, BestLinkIsUsable, LinksHaveInterfaces, WellFormed

\* What is sent goes to devices that run.
LEMMA SendTypes ==
    ASSUME TypeOK, NEW pkts, \A p \in pkts : p.via \in Interfaces, send(pkts)
    PROVE  \A p \in air' : p.to \in up /\ p.via \in Interfaces
  BY DEF send, TypeOK, DialType

\* A HELLO on a connection, or on the radio, has an interface.
LEMMA HelloVia ==
    ASSUME NEW d, NEW ni, NEW v
    PROVE  hello(d, ni, v).via = v
  BY DEF hello

LEMMA ViaType ==
    ASSUME TypeOK, NEW d \in Devices, carrier(d)
    PROVE  via(d) \in Interfaces
  BY DEF TypeOK, carrier, via, Interfaces, ProxyLinks, DialType

\* Removing the ProxyLink keeps the invariants.
LEMMA CloseProxy ==
    ASSUME IInv, NEW d \in Devices, closeProxy(d)
    PROVE  /\ nbr' \in [Devices -> NbrType]
           /\ proxyIf' \in [Devices -> ProxyLinks \cup {None}]
           /\ \A e \in Devices : WellFormed(nbr'[e], bidirectional[e], proxyIf'[e])
  <1> DEFINE left == nbr[d].links \ ProxyLinks
  <1>0. /\ nbr \in [Devices -> NbrType] /\ proxyIf \in [Devices -> ProxyLinks \cup {None}]
        /\ \A e \in Devices : WellFormed(nbr[e], bidirectional[e], proxyIf[e])
    BY IInvByDevice DEF IInv, TypeOK, NbrType, DialType
  <1>1. PICK b \in best(left, bidirectional[d]) :
            nbr' = [nbr EXCEPT ![d].links = left, ![d].best = IF @ \in ProxyLinks THEN b ELSE @]
    BY DEF closeProxy
  <1>2. proxyIf' = [proxyIf EXCEPT ![d] = None]
    BY DEF closeProxy
  <1>3. b \in Interfaces \cup {None}
    BY <1>0 DEF best, NbrType
  <1>4. nbr' \in [Devices -> NbrType]
    <2> DEFINE n == [nbr[d] EXCEPT !.links = left,
                                   !.best = IF @ \in ProxyLinks THEN b ELSE @]
    <2>1. n \in NbrType
      BY <1>0, <1>3 DEF NbrType
    <2>2. nbr' = [nbr EXCEPT ![d] = n]
      BY <1>0, <1>1
    <2> HIDE DEF n
    <2> QED BY <1>0, <2>1, <2>2
  <1>5. nbr'[d].links = left
        /\ nbr'[d].best = IF nbr[d].best \in ProxyLinks THEN b ELSE nbr[d].best
    BY <1>0, <1>1 DEF NbrType
  <1>6. nbr'[d].best \in best(left, bidirectional[d])
    <2>1. CASE nbr[d].best \in ProxyLinks
      BY <1>5, <2>1
    <2>2. CASE nbr[d].best \notin ProxyLinks
      BY <1>0, <1>5, <2>2, NeighboursAssumption DEF WellFormed, best, ProxyLinks
    <2> QED BY <2>1, <2>2
  <1>7. WellFormed(nbr'[d], bidirectional[d], proxyIf'[d])
    BY <1>5, <1>6 DEF WellFormed
  <1>8. ASSUME NEW e \in Devices, e # d
        PROVE  WellFormed(nbr'[e], bidirectional[e], proxyIf'[e])
    <2>1. nbr'[e] = nbr[e] /\ proxyIf'[e] = proxyIf[e]
      BY <1>0, <1>1, <1>2, <1>8
    <2> QED BY <1>0, <2>1
  <1>9. proxyIf' \in [Devices -> ProxyLinks \cup {None}]
    BY <1>0, <1>2
  <1> QED BY <1>4, <1>7, <1>8, <1>9

\* Sending HELLOs.
LEMMA HelloStep ==
    ASSUME IInv, NEW d \in Devices, Hello(d)
    PROVE  IInv'
  <1>1. \A p \in air' : p.to \in up /\ p.via \in Interfaces
    <2> DEFINE pkts == {hello(d, Radio, Radio)} \cup
                       IF carrier(d) THEN {hello(d, proxyIf[d], via(d))} ELSE {}
    <2>1. \A p \in pkts : p.via \in Interfaces
      BY HelloVia, ViaType DEF IInv, Interfaces
    <2>2. send(pkts)
      BY DEF Hello
    <2> HIDE DEF pkts
    <2> QED BY <2>1, <2>2, SendTypes DEF IInv
  <1>2. /\ nbr' \in [Devices -> NbrType]
        /\ proxyIf' \in [Devices -> ProxyLinks \cup {None}]
        /\ \A e \in Devices : WellFormed(nbr'[e], bidirectional[e], proxyIf'[e])
    <2>1. CASE d = Server /\ proxyIf[d] \in closed
      BY <2>1, CloseProxy DEF Hello
    <2>2. CASE ~(d = Server /\ proxyIf[d] \in closed)
      <3>1. nbr' = nbr /\ proxyIf' = proxyIf
        BY <2>2 DEF Hello
      <3> QED BY <3>1, IInvByDevice DEF IInv, TypeOK, NbrType, DialType
    <2> QED BY <2>1, <2>2
  <1>3. TypeOK'
    BY <1>1, <1>2 DEF IInv, TypeOK, Hello, NbrType, DialType
  <1>4. bidirectional' = bidirectional
    BY DEF Hello
  <1> QED BY <1>2, <1>3, <1>4, IInvByDevice DEF IInv, BestLinkIsUsable, LinksHaveInterfaces, WellFormed

\* Sending data changes only what is on the way.
LEMMA SendDataStep ==
    ASSUME IInv, NEW d \in Devices, SendData(d)
    PROVE  IInv'
  <1>1. \A p \in air' : p.to \in up /\ p.via \in Interfaces
    <2> DEFINE pkts == {[to |-> other(d), via |-> via(d), kind |-> "data", lists |-> TRUE]}
    <2>1. \A p \in pkts : p.via \in Interfaces
      BY ViaType DEF IInv, SendData
    <2>2. send(pkts)
      BY DEF SendData
    <2> HIDE DEF pkts
    <2> QED BY <2>1, <2>2, SendTypes DEF IInv
  <1> QED BY <1>1 DEF IInv, TypeOK, BestLinkIsUsable, LinksHaveInterfaces, SendData, ends, DialType

\* A HELLO: the link it came through is the interface, and the best link is selected.
LEMMA ReceiveHelloStep ==
    ASSUME IInv, NEW d \in Devices, ReceiveHello(d)
    PROVE  IInv'
  <1>0. /\ nbr \in [Devices -> NbrType] /\ proxyIf \in [Devices -> ProxyLinks \cup {None}]
        /\ bidirectional \in [Devices -> SUBSET Interfaces]
        /\ \A e \in Devices : WellFormed(nbr[e], bidirectional[e], proxyIf[e])
    BY IInvByDevice DEF IInv, TypeOK, NbrType, DialType
  <1> DEFINE p == IF nbr[d].known THEN nbr[d] ELSE NewNbr
             found(pkt) == linkOf(pkt, p.links)
             l(pkt) == IF found(pkt) = {} THEN pkt.via ELSE CHOOSE f \in found(pkt) : TRUE
             links(pkt) == (p.links \ linkThru(p.links, l(pkt))) \cup {l(pkt)}
             flagged(pkt) ==
                (IF found(pkt) = {} /\ isNewLink(d, l(pkt)) THEN bidirectional[d] \ {l(pkt)}
                                                           ELSE bidirectional[d])
                \cup (IF pkt.lists THEN {l(pkt)} ELSE {})
             got(pkt, b) == [known |-> TRUE, official |-> p.official \/ pkt.lists, idle |-> 0,
                             links |-> links(pkt), best |-> b]
  <1>1. PICK pkt \in air :
            /\ air' = air \ {pkt}
            /\ IF found(pkt) = {} THEN addLink(d, l(pkt)) ELSE UNCHANGED <<proxyIf, tagged, dial>>
            /\ bidirectional' = [bidirectional EXCEPT ![d] = flagged(pkt)]
            /\ \E b \in best(links(pkt), flagged(pkt)) : nbr' = [nbr EXCEPT ![d] = got(pkt, b)]
            /\ UNCHANGED <<up, closed, helloed, faults>>
    BY Zenon DEF ReceiveHello
  <1>2. PICK b \in best(links(pkt), flagged(pkt)) : nbr' = [nbr EXCEPT ![d] = got(pkt, b)]
    BY <1>1
  <1>3. p.links \subseteq Interfaces /\ p.links \cap ProxyLinks \subseteq {proxyIf[d]}
    <2>1. NewNbr.links = {}
      BY DEF NewNbr, NoNbr
    <2> QED BY <1>0, <2>1 DEF NbrType, WellFormed
  <1>4. found(pkt) \subseteq p.links
    BY DEF linkOf, linkThru
  <1>5. l(pkt) \in Interfaces /\ (found(pkt) # {} => l(pkt) \in p.links)
    BY <1>3, <1>4 DEF IInv, TypeOK, DialType
  <1>6. links(pkt) \subseteq Interfaces /\ flagged(pkt) \subseteq Interfaces
    BY <1>0, <1>3, <1>5
  <1>7. /\ proxyIf' \in [Devices -> ProxyLinks \cup {None}]
        /\ proxyIf'[d] = (IF found(pkt) = {} /\ l(pkt) # Radio THEN l(pkt) ELSE proxyIf[d])
        /\ \A e \in Devices \ {d} : proxyIf'[e] = proxyIf[e]
        /\ tagged' \subseteq Conns
        /\ dial' \in DialType
    <2>1. CASE found(pkt) = {}
      <3>1. addLink(d, l(pkt))
        BY <1>1, <2>1
      <3> HIDE DEF l, found
      <3>2. proxyIf' = IF l(pkt) = Radio THEN proxyIf ELSE [proxyIf EXCEPT ![d] = l(pkt)]
        BY <3>1 DEF addLink
      <3>3. tagged' \subseteq Conns
        BY <3>1 DEF addLink, IInv, TypeOK, DialType
      <3>4. dial' \in DialType
        BY <3>1 DEF addLink, IInv, TypeOK, DialType
      <3>5. l(pkt) # Radio => l(pkt) \in ProxyLinks
        BY <1>5 DEF Interfaces
      <3> QED BY <1>0, <2>1, <3>2, <3>3, <3>4, <3>5
    <2>2. CASE found(pkt) # {}
      BY <1>0, <1>1, <2>2 DEF IInv, TypeOK, DialType
    <2> QED BY <2>1, <2>2
  <1>8. links(pkt) \cap ProxyLinks \subseteq {proxyIf'[d]}
    <2>1. CASE l(pkt) = Radio
      <3>1. links(pkt) \cap ProxyLinks \subseteq p.links \cap ProxyLinks
        BY <2>1, NeighboursAssumption DEF ProxyLinks
      <3> QED BY <1>3, <1>7, <2>1, <3>1
    <2>2. CASE l(pkt) # Radio
      <3>1. links(pkt) \cap ProxyLinks \subseteq {l(pkt)}
        BY <1>3, <2>2, NeighboursAssumption DEF linkThru, ProxyLinks, Interfaces
      <3>2. CASE found(pkt) = {}
        BY <1>7, <2>2, <3>1, <3>2
      <3>3. CASE found(pkt) # {}
        <4>1. l(pkt) \in p.links \cap ProxyLinks
          BY <1>5, <2>2, <3>3 DEF Interfaces
        <4> QED BY <1>3, <1>7, <3>1, <3>3, <4>1
      <3> QED BY <3>2, <3>3
    <2> QED BY <2>1, <2>2
  <1> HIDE DEF links, flagged, l, found
  <1>9. b \in Interfaces \cup {None}
    BY <1>6 DEF best
  <1>10. p.official \in BOOLEAN /\ got(pkt, b).official \in BOOLEAN
    BY <1>0 DEF NbrType, NewNbr, NoNbr
  <1>11. got(pkt, b) \in NbrType
    <2>1. 0 \in 0 .. IdleTicks + 1
      BY NeighboursAssumption
    <2> QED BY <1>6, <1>9, <1>10, <2>1 DEF NbrType
  <1>12. WellFormed(got(pkt, b), flagged(pkt), proxyIf'[d])
    BY <1>2, <1>8 DEF WellFormed
  <1> HIDE DEF got
  <1>13. /\ nbr' \in [Devices -> NbrType]
         /\ bidirectional' \in [Devices -> SUBSET Interfaces]
    BY <1>0, <1>1, <1>2, <1>6, <1>11
  <1>14. ASSUME NEW e \in Devices
         PROVE  WellFormed(nbr'[e], bidirectional'[e], proxyIf'[e])
    <2>1. CASE e = d
      BY <1>0, <1>1, <1>2, <1>12, <2>1
    <2>2. CASE e # d
      BY <1>0, <1>1, <1>2, <1>7, <2>2
    <2> QED BY <2>1, <2>2
  <1>15. TypeOK'
    BY <1>1, <1>7, <1>13 DEF IInv, TypeOK, NbrType, DialType
  <1> QED BY <1>14, <1>15 DEF IInv, BestLinkIsUsable, LinksHaveInterfaces, WellFormed

\* Data sets the flag of its link, and the best link is selected.
LEMMA ReceiveDataStep ==
    ASSUME IInv, NEW d \in Devices, ReceiveData(d)
    PROVE  IInv'
  <1>0. /\ nbr \in [Devices -> NbrType]
        /\ bidirectional \in [Devices -> SUBSET Interfaces]
        /\ \A e \in Devices : WellFormed(nbr[e], bidirectional[e], proxyIf[e])
    BY IInvByDevice DEF IInv, TypeOK, NbrType, DialType
  <1> DEFINE found(pkt) == linkOf(pkt, nbr[d].links)
             flagged(pkt) == bidirectional[d] \cup found(pkt)
  <1>1. PICK pkt \in air :
            /\ air' = air \ {pkt}
            /\ IF found(pkt) = {}
               THEN UNCHANGED <<nbr, bidirectional>>
               ELSE /\ bidirectional' = [bidirectional EXCEPT ![d] = flagged(pkt)]
                    /\ \E b \in best(nbr[d].links, flagged(pkt)) :
                            nbr' = [nbr EXCEPT ![d].official = TRUE, ![d].best = b]
            /\ UNCHANGED <<up, proxyIf, ends, helloed, faults>>
    BY DEF ReceiveData
  <1>2. found(pkt) \subseteq nbr[d].links
    BY DEF linkOf, linkThru
  <1>3. flagged(pkt) \subseteq Interfaces
    BY <1>0, <1>2 DEF NbrType
  <1> HIDE DEF flagged, found
  <1>4. CASE found(pkt) = {}
    BY <1>1, <1>4 DEF IInv, TypeOK, BestLinkIsUsable, LinksHaveInterfaces, ends, DialType
  <1>5. CASE found(pkt) # {}
    <2>1. PICK b \in best(nbr[d].links, flagged(pkt)) :
                nbr' = [nbr EXCEPT ![d].official = TRUE, ![d].best = b]
      BY <1>1, <1>5
    <2>2. b \in Interfaces \cup {None}
      BY <1>3 DEF best
    <2>3. /\ nbr' \in [Devices -> NbrType]
          /\ bidirectional' \in [Devices -> SUBSET Interfaces]
      <3> DEFINE n == [nbr[d] EXCEPT !.official = TRUE, !.best = b]
      <3>1. n \in NbrType
        BY <1>0, <2>2 DEF NbrType
      <3>2. nbr' = [nbr EXCEPT ![d] = n]
        BY <1>0, <2>1
      <3> HIDE DEF n
      <3> QED BY <1>0, <1>1, <1>3, <1>5, <3>1, <3>2
    <2>4. TypeOK'
      BY <1>1, <2>3 DEF IInv, TypeOK, NbrType, ends, DialType
    <2>5. nbr'[d].links = nbr[d].links /\ nbr'[d].best = b
      BY <1>0, <2>1 DEF NbrType
    <2>6. ASSUME NEW e \in Devices
          PROVE  WellFormed(nbr'[e], bidirectional'[e], proxyIf'[e])
      <3>1. CASE e = d
        BY <1>0, <1>1, <1>5, <2>5, <3>1 DEF WellFormed
      <3>2. CASE e # d
        BY <1>0, <1>1, <1>5, <2>1, <3>2
      <3> QED BY <3>1, <3>2
    <2> QED BY <2>4, <2>6 DEF IInv, BestLinkIsUsable, LinksHaveInterfaces, WellFormed
  <1> QED BY <1>4, <1>5

\* A device loses its NbrPeer.
LEMMA ForgetsNbr ==
    ASSUME IInv, NEW d \in Devices, nbr' = [nbr EXCEPT ![d] = NoNbr],
           NEW flags, flags \in [Devices -> SUBSET Interfaces],
           NEW pif, pif \in [Devices -> ProxyLinks \cup {None}],
           \A e \in Devices \ {d} : flags[e] = bidirectional[e] /\ pif[e] = proxyIf[e]
    PROVE  /\ nbr' \in [Devices -> NbrType]
           /\ \A e \in Devices : WellFormed(nbr'[e], flags[e], pif[e])
  <1>1. nbr \in [Devices -> NbrType]
        /\ \A e \in Devices : WellFormed(nbr[e], bidirectional[e], proxyIf[e])
    BY IInvByDevice DEF IInv, TypeOK, NbrType, DialType
  <1>2. nbr' \in [Devices -> NbrType]
    BY <1>1, NoNbrFits
  <1>3. ASSUME NEW e \in Devices
        PROVE  WellFormed(nbr'[e], flags[e], pif[e])
    <2>1. CASE e = d
      BY <1>1, <2>1, NoNbrFits
    <2>2. CASE e # d
      BY <1>1, <2>2
    <2> QED BY <2>1, <2>2
  <1> QED BY <1>2, <1>3

LEMMA TimeoutStep ==
    ASSUME IInv, NEW d \in Devices, Timeout(d)
    PROVE  IInv'
  <1>1. /\ nbr' \in [Devices -> NbrType]
        /\ \A e \in Devices : WellFormed(nbr'[e], bidirectional[e], proxyIf[e])
    BY ForgetsNbr DEF IInv, TypeOK, Timeout, DialType
  <1>2. TypeOK'
    <2>1. dial' \in DialType
      BY NoDialType DEF IInv, TypeOK, Timeout, DialType
    <2>2. air' \subseteq air /\ closed' \subseteq Conns
      BY DEF IInv, TypeOK, Timeout, DialType
    <2> QED BY <1>1, <2>1, <2>2 DEF IInv, TypeOK, Timeout, NbrType, DialType
  <1>3. bidirectional' = bidirectional /\ proxyIf' = proxyIf
    BY DEF Timeout
  <1> QED BY <1>1, <1>2, <1>3 DEF IInv, BestLinkIsUsable, LinksHaveInterfaces, WellFormed

LEMMA CrashStep ==
    ASSUME IInv, NEW d \in Devices, Crash(d)
    PROVE  IInv'
  <1>1. /\ bidirectional' \in [Devices -> SUBSET Interfaces]
        /\ proxyIf' \in [Devices -> ProxyLinks \cup {None}]
        /\ \A e \in Devices \ {d} : bidirectional'[e] = bidirectional[e] /\ proxyIf'[e] = proxyIf[e]
    BY DEF IInv, TypeOK, Crash, Devices, DialType
  <1>2. nbr' = [nbr EXCEPT ![d] = NoNbr]
    BY DEF Crash
  <1>3. /\ nbr' \in [Devices -> NbrType]
        /\ \A e \in Devices : WellFormed(nbr'[e], bidirectional'[e], proxyIf'[e])
    BY <1>1, <1>2, ForgetsNbr
  <1>4. TypeOK'
    <2>1. /\ dial' \in DialType
          /\ closed' \subseteq Conns /\ tagged' \subseteq Conns
      BY NoDialType DEF IInv, TypeOK, Crash, DialType
    <2>2. \A p \in air' : p.to \in up' /\ p.via \in Interfaces
      BY DEF IInv, TypeOK, Crash, DialType
    <2>3. up' \subseteq Devices /\ helloed' \subseteq Devices
      BY DEF IInv, TypeOK, Crash, DialType
    <2> QED BY <1>1, <1>3, <2>1, <2>2, <2>3 DEF IInv, TypeOK, NbrType, DialType
  <1> QED BY <1>3, <1>4 DEF IInv, BestLinkIsUsable, LinksHaveInterfaces, WellFormed

LEMMA ConnectStep ==
    ASSUME IInv, Connect
    PROVE  IInv'
  <1>1. PICK c \in Conns :
            /\ dial' = [dial EXCEPT !.to = c, !.waiting = FALSE]
            /\ closed' = closed \ {c} /\ tagged' = tagged \ {c}
            /\ send({hello(Client, Upstream, c)})
    <2>1. unused # {} /\ unused \subseteq Conns
      BY DEF Connect, canConnect, unused
    <2> QED BY <2>1 DEF Connect
  <1>2. \A p \in air' : p.to \in up /\ p.via \in Interfaces
    <2> DEFINE pkts == {hello(Client, Upstream, c)}
    <2>1. \A p \in pkts : p.via \in Interfaces
      BY HelloVia DEF Interfaces, ProxyLinks
    <2>2. send(pkts)
      BY <1>1
    <2> HIDE DEF pkts
    <2> QED BY <2>1, <2>2, SendTypes DEF IInv
  <1>3. UNCHANGED <<up, nbr, bidirectional, proxyIf, helloed, faults>>
    BY DEF Connect
  <1>4. dial' \in DialType
    BY <1>1 DEF IInv, TypeOK, DialType
  <1> QED BY <1>1, <1>2, <1>3, <1>4 DEF IInv, TypeOK, BestLinkIsUsable, LinksHaveInterfaces, DialType

\* Only idle times change.
LEMMA TickStep ==
    ASSUME IInv, Tick
    PROVE  IInv'
  <1>0. nbr \in [Devices -> NbrType]
    BY DEF IInv, TypeOK, NbrType, DialType
  <1>1. ASSUME NEW d \in Devices
        PROVE  /\ nbr'[d] \in NbrType
               /\ nbr'[d].links = nbr[d].links /\ nbr'[d].best = nbr[d].best
    <2> DEFINE i == IF nbr[d].known THEN nbr[d].idle + 1 ELSE 0
    <2>1. nbr'[d] = [nbr[d] EXCEPT !.idle = i]
      BY DEF Tick
    <2>2. i \in 0 .. IdleTicks + 1
      BY <1>0, NeighboursAssumption DEF Tick, expired, NbrType
    <2> HIDE DEF i
    <2> QED BY <1>0, <2>1, <2>2 DEF NbrType
  <1>2. nbr' \in [Devices -> NbrType]
    <2>1. nbr' = [d \in Devices |-> nbr'[d]]
      BY DEF Tick
    <2> QED BY <1>1, <2>1
  <1>3. TypeOK'
    BY <1>2 DEF IInv, TypeOK, Tick, NbrType, ends, DialType
  <1> QED BY <1>1, <1>3 DEF IInv, BestLinkIsUsable, LinksHaveInterfaces, Tick

\* The steps that concern neither links nor interfaces.
LEMMA OtherSteps ==
    ASSUME IInv,
           \/ \E d \in Devices : Start(d)
           \/ \E c \in Conns : ServerReadsEof(c)
           \/ ClientReadsEof \/ Break \/ RadioLoses
           \/ UNCHANGED vars
    PROVE  IInv'
  <1>1. UNCHANGED <<nbr, bidirectional, proxyIf>>
    BY DEF Start, ServerReadsEof, ClientReadsEof, Break, RadioLoses, vars, ends
  <1>2. up \subseteq up' /\ up' \subseteq Devices /\ helloed' = helloed /\ air' \subseteq air
    BY DEF Start, ServerReadsEof, ClientReadsEof, Break, RadioLoses, vars, ends, IInv, TypeOK, DialType
  <1>3. closed' \subseteq Conns /\ tagged' = tagged
    BY DEF Start, ServerReadsEof, ClientReadsEof, Break, RadioLoses, vars, ends, IInv, TypeOK, DialType
  <1>4. dial' = dial \/ dial' = [dial EXCEPT !.to = None]
    BY DEF Start, ServerReadsEof, ClientReadsEof, Break, RadioLoses, vars, ends
  <1>5. dial' \in DialType
    BY <1>4 DEF IInv, TypeOK, DialType
  <1> QED BY <1>1, <1>2, <1>3, <1>5 DEF IInv, TypeOK, BestLinkIsUsable, LinksHaveInterfaces, DialType

LEMMA Initially == Init => IInv
  <1> SUFFICES ASSUME Init PROVE IInv
    OBVIOUS
  <1>1. \A d \in Devices : nbr[d] = NoNbr
    BY DEF Init
  <1>2. nbr \in [Devices -> NbrType]
    BY NoNbrFits DEF Init
  <1>3. TypeOK
    BY <1>2 DEF Init, TypeOK, NbrType, NoDial, ProxyLinks, DialType
  <1> QED BY <1>1, <1>3, NoNbrFits, IInvByDevice

LEMMA Preserved == IInv /\ [Next]_vars => IInv'
  <1> SUFFICES ASSUME IInv, [Next]_vars PROVE IInv'
    OBVIOUS
  <1>1. ASSUME NEW d \in Devices, Hello(d) PROVE IInv'
    BY <1>1, HelloStep
  <1>2. ASSUME NEW d \in Devices, SendData(d) PROVE IInv'
    BY <1>2, SendDataStep
  <1>3. ASSUME NEW d \in Devices, ReceiveHello(d) PROVE IInv'
    BY <1>3, ReceiveHelloStep
  <1>4. ASSUME NEW d \in Devices, ReceiveData(d) PROVE IInv'
    BY <1>4, ReceiveDataStep
  <1>5. ASSUME NEW d \in Devices, Timeout(d) PROVE IInv'
    BY <1>5, TimeoutStep
  <1>6. ASSUME NEW d \in Devices, Crash(d) PROVE IInv'
    BY <1>6, CrashStep
  <1>7. CASE Connect
    BY <1>7, ConnectStep
  <1>8. CASE Tick
    BY <1>8, TickStep
  <1>9. CASE \/ \E d \in Devices : Start(d)
             \/ \E c \in Conns : ServerReadsEof(c)
             \/ ClientReadsEof \/ Break \/ RadioLoses
             \/ UNCHANGED vars
    BY <1>9, OtherSteps
  <1> QED BY <1>1, <1>2, <1>3, <1>4, <1>5, <1>6, <1>7, <1>8, <1>9 DEF Next

\* The strengthened invariant (the conjunction of the three) holds in every state.
THEOREM Invariance == Spec => []IInv
  BY Initially, Preserved, PTL DEF Spec

\* Types: idle times stay bounded, and packets go only to running devices
\* (NeighbourManager.timeout, NbrPeer.update).
THEOREM TypeCorrect == Spec => []TypeOK
  <1>1. IInv => TypeOK
    BY DEF IInv
  <1> QED BY <1>1, Invariance, PTL

\* The best link of a neighbour is usable after every removal and replacement of a link
\* (NbrPeer.selectBestLink, removeLink, update).
THEOREM BestLinksAreUsable == Spec => []BestLinkIsUsable
  <1>1. IInv => BestLinkIsUsable
    BY DEF IInv
  <1> QED BY <1>1, Invariance, PTL

\* Every proxy link a device uses is one it sends HELLOs through (NbrPeer.update,
\* DataTransmit.sendBroadcastOnInterface).
THEOREM LinksAreInterfaces == Spec => []LinksHaveInterfaces
  <1>1. IInv => LinksHaveInterfaces
    BY DEF IInv
  <1> QED BY <1>1, Invariance, PTL
=============================================================================
