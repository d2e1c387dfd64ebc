----------------------------- MODULE Neighbours -----------------------------
(***************************************************************************)
(* What the NeighbourManagers of two devices know of each other.  The two  *)
(* are connected by a radio interface (UDP broadcasts, which get lost) and *)
(* by a proxy link: a TCP connection that Client makes to Server, which is *)
(* its proxy.  Both devices may crash and start again, and connections may *)
(* break with or without the other end noticing.                           *)
(*                                                                         *)
(* A link is the interface it goes through.  ProxyLinks are interfaces and *)
(* links at once: Upstream, which setProxy made on Client, and on Server   *)
(* one for each accepted connection, named as the connection.  All those   *)
(* of one remote address are equal to each other as keys of a map.         *)
(***************************************************************************)
EXTENDS Naturals, FiniteSets

CONSTANTS
    Client, Server,
    Radio, Upstream, None,
    Conns,          \* connections that Server accepts, as it sees them
    IdleTicks,      \* NBR_TIMEOUT_MS
    MaxCrashes,     \* bound: crashes of either device
    MaxBreaks,      \* bound: connections that break for no reason in the devices
    MaxOnAir        \* bound: packets on the way at a time

ASSUME NeighboursAssumption ==
    /\ Client # Server
    /\ Radio # Upstream /\ Radio # None /\ Upstream # None
    /\ {Radio, Upstream, None} \cap Conns = {}
    /\ IdleTicks \in Nat /\ MaxCrashes \in Nat /\ MaxBreaks \in Nat /\ MaxOnAir \in Nat

VARIABLES
    up,             \* the running devices
    nbr,            \* of each device: the NbrPeer it has of the other one, or NoNbr
    bidirectional,  \* of each device: the links whose flag is set
    proxyIf,        \* of each device: the ProxyLink among its interfaces
    dial,           \* the connection of Upstream as Client sees it
    closed,         \* connections that are closed on Server
    tagged,         \* connections of which Server knows the interface
    air,            \* packets on the way
    helloed,        \* devices that sent HELLOs on all interfaces in this tick
    faults          \* crashes and breaks so far

ends   == <<dial, closed, tagged>>
vars   == <<up, nbr, bidirectional, proxyIf, ends, air, helloed, faults>>

Devices == {Client, Server}
other(d) == IF d = Client THEN Server ELSE Client

ProxyLinks == {Upstream} \cup Conns
Interfaces == {Radio} \cup ProxyLinks

NoNbr == [known |-> FALSE, official |-> FALSE, idle |-> 0, links |-> {}, best |-> None]
NewNbr == [NoNbr EXCEPT !.known = TRUE]
NoDial == [exists |-> FALSE, to |-> None, tagged |-> FALSE, waiting |-> FALSE]

\* The links of a map of links that a key finds.
linkThru(links, ni) == {l \in links : l = Radio <=> ni = Radio}

\* selectBestLink: metrics are left out, any link that is bidirectional may be the best.
best(links, flagged) ==
    IF links \cap flagged = {} THEN {None} ELSE links \cap flagged

Init ==
    /\ up = Devices
    /\ nbr = [d \in Devices |-> NoNbr]
    /\ bidirectional = [d \in Devices |-> {}]
    /\ proxyIf = [d \in Devices |-> IF d = Client THEN Upstream ELSE None]
    /\ dial = NoDial /\ closed = {} /\ tagged = {}
    /\ air = {} /\ helloed = {}
    /\ faults = [crashes |-> 0, breaks |-> 0]

-----------------------------------------------------------------------------
\* Sending.

\* getPacket: the HELLO for an interface lists the other device if there is a link
\* through it.
hello(d, ni, via) ==
    [to |-> other(d), via |-> via, kind |-> "hello", lists |-> linkThru(nbr[d].links, ni) # {}]

\* Of the packets of a kind that go one way one is on the way at a time; a later one is
\* taken to be lost on the radio, and to be part of the first one on a connection.
send(pkts) ==
    /\ air' = air \cup {p \in pkts : p.to \in up
                           /\ \A q \in air : [q EXCEPT !.lists = p.lists] # p}
    /\ Cardinality(air') <= MaxOnAir

\* The connection over which packets from d to the other device go at present.
carrier(d) ==
    dial.to \notin {None} \cup closed /\ (d = Client \/ dial.to = proxyIf[Server])

via(d) == IF d = Client THEN dial.to ELSE Upstream

\* A fault: the best link is not selected again.
closeProxy_keepsBest(d) ==
    /\ nbr' = [nbr EXCEPT ![d].links = @ \ ProxyLinks]
    /\ proxyIf' = [proxyIf EXCEPT ![d] = None]

\* ProxyLink.close, and the removal of the interface.
closeProxy(d) ==
    LET left == nbr[d].links \ ProxyLinks
    IN  /\ \E b \in best(left, bidirectional[d]) :
            nbr' = [nbr EXCEPT ![d].links = left, ![d].best = IF @ \in ProxyLinks THEN b ELSE @]
        /\ proxyIf' = [proxyIf EXCEPT ![d] = None]

\* sendPacket; that it sends every second HELLO only on proxy interfaces is left out.
\* What Client sends makes a connection if there is none; a connection that Server cannot
\* send on any more is removed with its interface.
Hello(d) ==
    /\ d \in up
    /\ helloed' = helloed \cup {d}
    /\ send({hello(d, Radio, Radio)} \cup
            IF carrier(d) THEN {hello(d, proxyIf[d], via(d))} ELSE {})
    /\ IF d = Client /\ dial.to = None
       THEN dial' = [dial EXCEPT !.exists = TRUE, !.waiting = TRUE]
       ELSE dial' = dial
    /\ IF d = Server /\ proxyIf[d] \in closed
       THEN closeProxy(d)
       ELSE UNCHANGED <<nbr, proxyIf>>
    /\ UNCHANGED <<up, bidirectional, closed, tagged, faults>>

\* Data to a neighbour over the connection of a proxy link.  Data that comes in over
\* other connections has no interface and tells nothing.
SendData(d) ==
    /\ d \in up /\ nbr[d].official /\ nbr[d].best \in ProxyLinks /\ carrier(d)
    /\ send({[to |-> other(d), via |-> via(d), kind |-> "data", lists |-> TRUE]})
    /\ UNCHANGED <<up, nbr, bidirectional, proxyIf, ends, helloed, faults>>

-----------------------------------------------------------------------------
\* Receiving.

\* conn.getNetIf()
netIf(pkt) ==
    CASE pkt.via = Radio                      -> Radio
      [] pkt.via = Upstream /\ dial.tagged    -> Upstream
      [] pkt.via \in Conns /\ pkt.via \in tagged -> pkt.via
      [] OTHER                                -> None

linkOf(pkt, links) == IF netIf(pkt) = None THEN {} ELSE linkThru(links, netIf(pkt))

\* A fault: the interface of the old connection, equal to the new one, is not removed.
addLink_keepsInterface(d, l) ==
    /\ proxyIf' = IF l = Radio \/ proxyIf[d] # None THEN proxyIf ELSE [proxyIf EXCEPT ![d] = l]
    /\ tagged' = tagged \cup ({l} \cap Conns)
    /\ dial' = IF l = Upstream THEN [dial EXCEPT !.tagged = TRUE] ELSE dial

\* NbrPeer.update when no link is found: the link of the connection, which is a new
\* object unless it is the interface already, replaces the interface that was there.
addLink(d, l) ==
    /\ proxyIf' = IF l = Radio THEN proxyIf ELSE [proxyIf EXCEPT ![d] = l]
    /\ tagged' = tagged \cup ({l} \cap Conns)
    /\ dial' = IF l = Upstream THEN [dial EXCEPT !.tagged = TRUE] ELSE dial

isNewLink(d, l) == l # proxyIf[d]

\* NeighbourManager.receive
ReceiveHello(d) == \E pkt \in air :
    LET p       == IF nbr[d].known THEN nbr[d] ELSE NewNbr
        found   == linkOf(pkt, p.links)
        l       == IF found = {} THEN pkt.via ELSE CHOOSE f \in found : TRUE
        links   == (p.links \ linkThru(p.links, l)) \cup {l}
        flagged == (IF found = {} /\ isNewLink(d, l) THEN bidirectional[d] \ {l}
                                                     ELSE bidirectional[d])
                   \cup (IF pkt.lists THEN {l} ELSE {})
    IN  /\ pkt.to = d /\ pkt.kind = "hello"
        /\ air' = air \ {pkt}
        /\ IF found = {} THEN addLink(d, l) ELSE UNCHANGED <<proxyIf, tagged, dial>>
        /\ bidirectional' = [bidirectional EXCEPT ![d] = flagged]
        /\ \E b \in best(links, flagged) :
            nbr' = [nbr EXCEPT ![d] = [known |-> TRUE, official |-> p.official \/ pkt.lists,
                                       idle |-> 0, links |-> links, best |-> b]]
        /\ UNCHANGED <<up, closed, helloed, faults>>

\* notifyDataReceptionFrom
ReceiveData(d) == \E pkt \in air :
    LET found   == linkOf(pkt, nbr[d].links)
        flagged == bidirectional[d] \cup found
    IN  /\ pkt.to = d /\ pkt.kind = "data"
        /\ air' = air \ {pkt}
        /\ IF found = {}
           THEN UNCHANGED <<nbr, bidirectional>>
           ELSE /\ bidirectional' = [bidirectional EXCEPT ![d] = flagged]
                /\ \E b \in best(nbr[d].links, flagged) :
                    nbr' = [nbr EXCEPT ![d].official = TRUE, ![d].best = b]
        /\ UNCHANGED <<up, proxyIf, ends, helloed, faults>>

-----------------------------------------------------------------------------
\* Timeouts, and what becomes of connections.

\* A fault: a device that never became official is not looked at.
expired_officialOnly(d) == nbr[d].official /\ nbr[d].idle > IdleTicks

expired(d) == nbr[d].known /\ nbr[d].idle > IdleTicks

\* A fault: connections stay open.
Timeout_keepsConnections(d) ==
    /\ expired(d)
    /\ nbr' = [nbr EXCEPT ![d] = NoNbr]
    /\ UNCHANGED <<up, bidirectional, proxyIf, ends, air, helloed, faults>>

\* The connections of all links are closed, interfaces stay.  Packets do not wait in the
\* receive queue of Client for as long as this takes.
Timeout(d) ==
    /\ expired(d)
    /\ nbr' = [nbr EXCEPT ![d] = NoNbr]
    /\ closed' = closed \cup (nbr[d].links \cap Conns)
    /\ IF Upstream \in nbr[d].links
       THEN dial' = NoDial /\ air' = {p \in air : p.via # Upstream}
       ELSE UNCHANGED <<dial, air>>
    /\ UNCHANGED <<up, bidirectional, proxyIf, tagged, helloed, faults>>

\* Connections that nothing refers to any more.
unused == {c \in Conns : c # dial.to /\ c # proxyIf[Server] /\ c \notin nbr[Server].links
                         /\ \A p \in air : p.via # c}

canConnect == dial.exists /\ dial.to = None /\ dial.waiting /\ Server \in up /\ unused # {}

\* The connection is made, and carries the HELLO that waited for it.  What was sent over
\* an older connection, RECONNECT_TIME_MS ago, has arrived by then or is lost.
Connect ==
    /\ canConnect /\ \A p \in air : p.via \notin Conns
    /\ LET c == CHOOSE u \in unused : TRUE
       IN  /\ dial' = [dial EXCEPT !.to = c, !.waiting = FALSE]
           /\ closed' = closed \ {c} /\ tagged' = tagged \ {c}
           /\ send({hello(Client, Upstream, c)})
    /\ UNCHANGED <<up, nbr, bidirectional, proxyIf, helloed, faults>>

\* Server reads the end of a connection that Client has left.
ServerReadsEof(c) ==
    /\ c \notin unused \cup closed /\ c # dial.to
    /\ closed' = closed \cup {c}
    /\ UNCHANGED <<up, nbr, bidirectional, proxyIf, dial, tagged, air, helloed, faults>>

\* Client reads the end, or an error, of one that Server has closed.
clientIsCut == dial.to \in closed

ClientReadsEof ==
    /\ clientIsCut
    /\ dial' = [dial EXCEPT !.to = None]
    /\ UNCHANGED <<up, nbr, bidirectional, proxyIf, closed, tagged, air, helloed, faults>>

\* Client alone takes the connection to be broken.  What it sent last may get lost.
Break ==
    /\ dial.to # None /\ faults.breaks < MaxBreaks
    /\ faults' = [faults EXCEPT !.breaks = @ + 1]
    /\ dial' = [dial EXCEPT !.to = None]
    /\ air' \in {air, {p \in air : p.via # dial.to}}
    /\ UNCHANGED <<up, nbr, bidirectional, proxyIf, closed, tagged, helloed>>

RadioLoses == \E pkt \in air :
    /\ pkt.via = Radio
    /\ air' = air \ {pkt}
    /\ UNCHANGED <<up, nbr, bidirectional, proxyIf, ends, helloed, faults>>

Crash(d) ==
    /\ d \in up /\ faults.crashes < MaxCrashes
    /\ faults' = [faults EXCEPT !.crashes = @ + 1]
    /\ up' = up \ {d}
    /\ nbr' = [nbr EXCEPT ![d] = NoNbr]
    /\ bidirectional' = [bidirectional EXCEPT ![d] = {}]
    /\ proxyIf' = [proxyIf EXCEPT ![Server] = IF d = Server THEN None ELSE @]
    /\ air' = {p \in air : p.to # d}
    /\ IF d = Client
       THEN dial' = NoDial /\ UNCHANGED <<closed, tagged>>
       ELSE closed' = Conns /\ tagged' = {} /\ dial' = dial
    /\ helloed' = helloed \ {d}

Start(d) ==
    /\ d \notin up
    /\ up' = up \cup {d}
    /\ UNCHANGED <<nbr, bidirectional, proxyIf, ends, air, helloed, faults>>

\* A tick of some seconds: long enough for HELLOs to be sent and to arrive or get lost,
\* for a connection to be made and for its end to be noticed on Client.
Tick ==
    /\ up \subseteq helloed
    /\ air = {}
    /\ ~canConnect /\ ~clientIsCut
    /\ \A d \in Devices : ~expired(d)
    /\ helloed' = {}
    /\ nbr' = [d \in Devices |-> [nbr[d] EXCEPT !.idle = IF nbr[d].known THEN @ + 1 ELSE 0]]
    /\ UNCHANGED <<up, bidirectional, proxyIf, ends, air, faults>>

Next ==
    \/ \E d \in Devices :
        \/ Hello(d) \/ SendData(d)
        \/ ReceiveHello(d) \/ ReceiveData(d) \/ Timeout(d)
        \/ Crash(d) \/ Start(d)
    \/ \E c \in Conns : ServerReadsEof(c)
    \/ Connect \/ ClientReadsEof \/ Break \/ RadioLoses \/ Tick

Spec == Init /\ [][Next]_vars

FairSpec == Spec /\ []<><<Tick>>_vars

-----------------------------------------------------------------------------
\* What neighbour discovery promises.

TypeOK ==
    /\ up \subseteq Devices /\ helloed \subseteq Devices
    /\ nbr \in [Devices -> [known : BOOLEAN, official : BOOLEAN, idle : 0 .. IdleTicks + 1,
                            links : SUBSET Interfaces, best : Interfaces \cup {None}]]
    /\ bidirectional \in [Devices -> SUBSET Interfaces]
    /\ proxyIf \in [Devices -> ProxyLinks \cup {None}]
    /\ dial \in [exists : BOOLEAN, to : Conns \cup {None}, tagged : BOOLEAN, waiting : BOOLEAN]
    /\ closed \subseteq Conns /\ tagged \subseteq Conns
    /\ \A p \in air : p.to \in up /\ p.via \in Interfaces

\* The best link, which getNextHopCC sends to, is one of the links and is bidirectional,
\* whatever links were removed or replaced since it was selected; there is none only
\* when no link is bidirectional.
BestLinkIsUsable ==
    \A d \in Devices : nbr[d].best \in best(nbr[d].links, bidirectional[d])

\* A device sends HELLOs through every link it has: a proxy link that is not among the
\* interfaces would be used by this device and silently time out on the other.
LinksHaveInterfaces ==
    \A d \in Devices : nbr[d].links \cap ProxyLinks \subseteq {proxyIf[d]}

\* Devices that both run in the end, with a connection that can be made, become official
\* neighbours with a usable proxy link, whatever crashed or broke before and although the
\* radio may lose everything.
NeighboursMeet ==
    (<>[](up = Devices)) =>
        <>[](\A d \in Devices : nbr[d].official /\ nbr[d].links \cap ProxyLinks
                                                     \cap bidirectional[d] # {})

\* A device that stays away is forgotten, and so is the interface to it that Server had:
\* a connection whose end it never read is closed by the timeout.
SilentIsForgotten ==
    \A d \in Devices :
        (<>[](d \notin up /\ other(d) \in up)) =>
            <>[](~nbr[other(d)].known /\ proxyIf[other(d)] \in {None, Upstream})

\* "NBR link should not be null!" (DVPeer.updateRoute): a routing packet of an official
\* neighbour finds its best link.
OfficialHasBestLink ==
    \A d \in Devices : nbr[d].official => nbr[d].best # None
=============================================================================
