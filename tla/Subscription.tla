---------------------------- MODULE Subscription ----------------------------
(***************************************************************************)
(* The subscription protocol: applications on one device register clients, *)
(* and subscribe them to a service of another device.  The client's device *)
(* keeps its clients, the RemoteService of the service while a routing     *)
(* update announces it, and the pending requests of SubscriptionManager,   *)
(* which it retries.  The service's device keeps the LocalService, the     *)
(* Peer of the client's device and the RemoteClients of that Peer.         *)
(*                                                                         *)
(* On each device two threads meet: an API thread, which registers,        *)
(* subscribes and unregisters, and the DataTransmit thread, which handles  *)
(* packets and timers.  Calls that a packet can come into the middle of    *)
(* are split into steps.                                                   *)
(*                                                                         *)
(* The service is of a unicast type; the data of a broadcast one needs no  *)
(* subscription to arrive.                                                 *)
(***************************************************************************)
EXTENDS Naturals

CONSTANTS
    Clients,        \* ids of clients: registry never gives an id twice
    RetryMax,       \* SUBSCRIPTION_RETRY_MAX
    MaxCopies       \* bound: copies of one message in flight at a time

ASSUME SubscriptionAssumption == RetryMax \in Nat /\ MaxCopies \in Nat \ {0}

VARIABLES
    \* the client's device
    local,          \* where each client is in its life, and in a call of its application
    wanted,         \* clients whose application last asked to be subscribed
    known,          \* is there a RemoteService of the service?
    subscribed,     \* its clients, whose services it is among
    pending,        \* pendingSubs of SubscriptionManager
    \* the service's device
    service,        \* where the service is in its life
    clients,        \* clients of the LocalService in the registry
    peerKnown,      \* is the Peer of the client's device registered?
    remote,         \* the RemoteClients of that Peer, with their services
    subscribing,    \* the subscribe call that SubscriptionManager.receive is about to do
    \* between them
    net             \* copies in flight of each message

clientVars == <<local, wanted, known, subscribed, pending>>
serviceVars == <<service, clients, peerKnown, remote, subscribing>>
vars == <<clientVars, serviceVars, net>>

-----------------------------------------------------------------------------

MsgTypes == {"SUBSCRIBE", "UNSUBSCRIBE", "RESULT_1", "RESULT_0", "UNRESULT", "DATA"}

Messages == [type : MsgTypes, client : Clients]

\* A client: not yet registered, registered, between the look-up and the send of
\* subscribeService, after the send of unsubscribeService, after the first part of
\* unregisterClient, after the send in its second part, after that part, removed.
Lives == {"unused", "registered", "subscribing", "unsubscribing",
          "cancelled", "leaving", "unsubscribed", "gone"}

\* registry.getLocalClient(c) # null
isRegistered(c) == local[c] \notin {"unused", "gone"}

NoPending == [kind |-> "none", retries |-> 0]

PendingSubscription == [kind : {"SUBSCRIBE", "UNSUBSCRIBE"}, retries : 0 .. RetryMax]

\* A RemoteClient: not in Peer.clients, in it without a service, with the LocalService
\* of the registry, with one that the registry has removed.
RemoteStates == {"none", "idle", "live", "dead"}

NotSubscribing == [kind |-> "none"]

\* The LocalService that the call is about: that of the registry, or one removed since.
Subscribing == [kind : {"live", "dead"}, client : Clients]

msg(type, c) == [type |-> type, client |-> c]

\* A message is sent, and does not get into a network that is full of its copies.
sent(n, m) == [n EXCEPT ![m] = IF @ < MaxCopies THEN @ + 1 ELSE @]

taken(n, m) == [n EXCEPT ![m] = @ - 1]

inFlight(m) == net[m] > 0

\* Messages that m is handled into: m is consumed, r is sent.
replied(m, r) == sent(taken(net, m), r)

\* pendingSubs.add: a HashSet keeps the element it has, and pending requests of one
\* service and client are equal, be they to subscribe or to unsubscribe.
addPending(kind, c) ==
    [pending EXCEPT ![c] = IF @ = NoPending THEN [kind |-> kind, retries |-> 0] ELSE @]

removePending(c) == [pending EXCEPT ![c] = NoPending]

\* A fault: the wrong kind of request is removed.
removePendingSubscriptionsForClient_ofService(c) ==
    [pending EXCEPT ![c] = IF @.kind = "UNSUBSCRIBE" THEN NoPending ELSE @]

\* removePendingSubscriptionsForClient "does NOT remove pending UNsubscriptions".
removePendingSubscriptionsForClient(c) ==
    [pending EXCEPT ![c] = IF @.kind = "SUBSCRIBE" THEN NoPending ELSE @]

-----------------------------------------------------------------------------
\* The client's device, API threads.

\* AirTube.registerClient
RegisterClient(c) ==
    /\ local[c] = "unused"
    /\ local' = [local EXCEPT ![c] = "registered"]
    /\ UNCHANGED <<wanted, known, subscribed, pending, serviceVars, net>>

\* AirTube.subscribeService finds client and service ...
SubscribeService(c) ==
    /\ local[c] = "registered" /\ known
    /\ local' = [local EXCEPT ![c] = "subscribing"]
    /\ wanted' = wanted \cup {c}
    /\ UNCHANGED <<known, subscribed, pending, serviceVars, net>>

\* ... and RemoteService.subscribe sends the request, even if the service is gone now.
SendSubscribe(c) ==
    /\ local[c] = "subscribing"
    /\ local' = [local EXCEPT ![c] = "registered"]
    /\ pending' = addPending("SUBSCRIBE", c)
    /\ net' = sent(net, msg("SUBSCRIBE", c))
    /\ UNCHANGED <<wanted, known, subscribed, serviceVars>>

\* AirTube.unsubscribeService: RemoteService.unsubscribe sends the request first ...
UnsubscribeService(c) ==
    /\ local[c] = "registered" /\ known
    /\ local' = [local EXCEPT ![c] = "unsubscribing"]
    /\ pending' = addPending("UNSUBSCRIBE", c)
    /\ net' = sent(net, msg("UNSUBSCRIBE", c))
    /\ UNCHANGED <<wanted, known, subscribed, serviceVars>>

\* ... "and then unconditionally" removes the subscription, whatever was received since.
RemoveSubscription(c) ==
    /\ local[c] = "unsubscribing"
    /\ local' = [local EXCEPT ![c] = "registered"]
    /\ wanted' = wanted \ {c}
    /\ subscribed' = subscribed \ {c}
    /\ UNCHANGED <<known, pending, serviceVars, net>>

\* AirTube.unregisterClient in steps: pending subscriptions are removed, ...
CancelPending(c) ==
    /\ local[c] = "registered"
    /\ local' = [local EXCEPT ![c] = "cancelled"]
    /\ pending' = removePendingSubscriptionsForClient(c)
    /\ UNCHANGED <<wanted, known, subscribed, serviceVars, net>>

\* ... the client is unsubscribed from its services, ...
UnsubscribeFromAllServices(c) ==
    /\ local[c] = "cancelled"
    /\ \/ /\ c \in subscribed
          /\ local' = [local EXCEPT ![c] = "leaving"]
          /\ pending' = addPending("UNSUBSCRIBE", c)
          /\ net' = sent(net, msg("UNSUBSCRIBE", c))
       \/ /\ c \notin subscribed
          /\ local' = [local EXCEPT ![c] = "unsubscribed"]
          /\ UNCHANGED <<pending, net>>
    /\ UNCHANGED <<wanted, known, subscribed, serviceVars>>

\* ... here, too, the request first and then the subscription, ...
RemoveSubscriptions(c) ==
    /\ local[c] = "leaving"
    /\ local' = [local EXCEPT ![c] = "unsubscribed"]
    /\ subscribed' = subscribed \ {c}
    /\ UNCHANGED <<wanted, known, pending, serviceVars, net>>

\* ... and the registry removes it.
RemoveLocalClient(c) ==
    /\ local[c] = "unsubscribed"
    /\ local' = [local EXCEPT ![c] = "gone"]
    /\ wanted' = wanted \ {c}
    /\ UNCHANGED <<known, subscribed, pending, serviceVars, net>>

-----------------------------------------------------------------------------
\* The client's device, DataTransmit thread.

\* A routing update announces the service: ServicePacketFmt.updateOrAddService.
ServiceAdded ==
    /\ ~known
    /\ known' = TRUE
    /\ UNCHANGED <<local, wanted, subscribed, pending, serviceVars, net>>

\* A routing update does not announce it any more, or its Peer times out:
\* removeAllClientSubscriptions, then removePendingSubscriptionsForService.
ServiceRemoved ==
    /\ known
    /\ known' = FALSE
    /\ subscribed' = {}
    /\ pending' = [c \in Clients |-> NoPending]
    /\ UNCHANGED <<local, wanted, serviceVars, net>>

\* SUBSCRIPTION_RESULT 1.  When service or client is missing, a NullPointerException
\* ends the handler, and the request stays pending.
ReceiveResult(c) ==
    /\ inFlight(msg("RESULT_1", c))
    /\ net' = taken(net, msg("RESULT_1", c))
    /\ \/ /\ known /\ isRegistered(c)
          /\ subscribed' = subscribed \cup {c}
          /\ pending' = removePending(c)
       \/ /\ ~(known /\ isRegistered(c))
          /\ UNCHANGED <<subscribed, pending>>
    /\ UNCHANGED <<local, wanted, known, serviceVars>>

\* SUBSCRIPTION_RESULT 0 and UNSUBSCRIPTION_RESULT remove whatever is pending.
ReceiveOther(type, c) ==
    /\ inFlight(msg(type, c))
    /\ net' = taken(net, msg(type, c))
    /\ pending' = removePending(c)
    /\ UNCHANGED <<local, wanted, known, subscribed, serviceVars>>

\* A fault: data for a client that is not registered any more is ignored.
orphaned_whileRegistered(c) ==
    isRegistered(c) /\ known /\ c \notin subscribed /\ pending[c] = NoPending

\* Data for a client that is not subscribed, and that nothing is pending for: answered
\* with an unsubscription.
orphaned(c) == known /\ c \notin subscribed /\ pending[c] = NoPending

\* DataTransmit.handleDataPacket, service -> client
ReceiveData(c) ==
    /\ inFlight(msg("DATA", c))
    /\ \/ /\ orphaned(c)
          /\ pending' = addPending("UNSUBSCRIBE", c)
          /\ net' = replied(msg("DATA", c), msg("UNSUBSCRIBE", c))
       \/ /\ ~orphaned(c)
          /\ net' = taken(net, msg("DATA", c))
          /\ UNCHANGED pending
    /\ UNCHANGED <<local, wanted, known, subscribed, serviceVars>>

\* A fault: retries are not counted.
Timeout_doesNotCount(c) ==
    /\ pending[c] # NoPending
    /\ pending' = pending
    /\ net' = sent(net, msg(pending[c].kind, c))
    /\ UNCHANGED <<local, wanted, known, subscribed, serviceVars>>

\* A fault: one retry too many.
Timeout_onceMore(c) ==
    /\ pending[c] # NoPending
    /\ \/ /\ pending[c].retries <= RetryMax
          /\ pending' = [pending EXCEPT ![c].retries = @ + 1]
          /\ net' = sent(net, msg(pending[c].kind, c))
       \/ /\ pending[c].retries > RetryMax
          /\ pending' = removePending(c)
          /\ UNCHANGED net
    /\ UNCHANGED <<local, wanted, known, subscribed, serviceVars>>

\* SubscriptionManager.timeout, for a request that has expired.
Timeout(c) ==
    /\ pending[c] # NoPending
    /\ \/ /\ pending[c].retries < RetryMax
          /\ pending' = [pending EXCEPT ![c].retries = @ + 1]
          /\ net' = sent(net, msg(pending[c].kind, c))
       \/ /\ pending[c].retries >= RetryMax
          /\ pending' = removePending(c)
          /\ UNCHANGED net
    /\ UNCHANGED <<local, wanted, known, subscribed, serviceVars>>

-----------------------------------------------------------------------------
\* The service's device, API thread.

\* AirTube.registerService.  A service with the same description gets its old id.
RegisterService ==
    /\ service = "none"
    /\ service' = "registered"
    /\ clients' = {}
    /\ UNCHANGED <<clientVars, peerKnown, remote, subscribing, net>>

\* A fault: the RemoteClient is not told.
unsubscribe_oneSided(cs) == [c \in Clients |-> remote[c]]

\* A fault: the Peer keeps a RemoteClient that has no service left.
unsubscribe_keepsClient(cs) ==
    [c \in Clients |-> IF c \in cs THEN "idle" ELSE remote[c]]

\* LocalService.unsubscribe: the RemoteClient is taken from Peer.clients when it has
\* no service left, and services with one id are equal, be they live or dead.
unsubscribe(cs) == [c \in Clients |-> IF c \in cs THEN "none" ELSE remote[c]]

\* AirTube.unregisterService in two steps: clients are unsubscribed, ...
UnsubscribeAllClients ==
    /\ service = "registered"
    /\ service' = "leaving"
    /\ clients' = {}
    /\ remote' = unsubscribe(clients)
    /\ UNCHANGED <<clientVars, peerKnown, subscribing, net>>

\* ... and the registry removes the service.  Objects that hold it go on to do so.
RemoveLocalService ==
    /\ service = "leaving"
    /\ service' = "none"
    /\ clients' = {}
    /\ remote' = [c \in Clients |-> IF remote[c] = "live" THEN "dead" ELSE remote[c]]
    /\ subscribing' = IF subscribing = NotSubscribing THEN subscribing
                      ELSE [subscribing EXCEPT !.kind = "dead"]
    /\ UNCHANGED <<clientVars, peerKnown, net>>

\* LocalService.sendData, to every client.
SendData ==
    /\ service # "none" /\ clients # {}
    /\ net' = [m \in Messages |-> IF m.type = "DATA" /\ m.client \in clients
                                  THEN sent(net, m)[m] ELSE net[m]]
    /\ UNCHANGED <<clientVars, serviceVars>>

-----------------------------------------------------------------------------
\* The service's device, DataTransmit thread.

\* DistanceVectorRouting adds the Peer of the client's device.
AddPeer ==
    /\ ~peerKnown
    /\ peerKnown' = TRUE
    /\ UNCHANGED <<clientVars, service, clients, remote, subscribing, net>>

\* Peer.timeout: each RemoteClient is removed from its services and forgotten.
PeerTimeout ==
    /\ peerKnown /\ subscribing = NotSubscribing
    /\ peerKnown' = FALSE
    /\ clients' = clients \ {c \in Clients : remote[c] = "live"}
    /\ remote' = [c \in Clients |-> "none"]
    /\ UNCHANGED <<clientVars, service, subscribing, net>>

\* SUBSCRIBE: Peer.getOrAddClient if the service is there, and the reply ...
ReceiveSubscribe(c) ==
    /\ inFlight(msg("SUBSCRIBE", c)) /\ peerKnown /\ subscribing = NotSubscribing
    /\ \/ /\ service # "none"
          /\ remote' = [remote EXCEPT ![c] = IF @ = "none" THEN "idle" ELSE @]
          /\ subscribing' = [kind |-> "live", client |-> c]
          /\ net' = replied(msg("SUBSCRIBE", c), msg("RESULT_1", c))
       \/ /\ service = "none"
          /\ net' = replied(msg("SUBSCRIBE", c), msg("RESULT_0", c))
          /\ UNCHANGED <<remote, subscribing>>
    /\ UNCHANGED <<clientVars, service, clients, peerKnown>>

\* ... "now do the actual subscription", to the LocalService found before.  A
\* RemoteClient that holds an equal service keeps that one.
DoSubscribe ==
    /\ subscribing # NotSubscribing
    /\ LET c == subscribing.client IN
        /\ clients' = IF subscribing.kind = "live" THEN clients \cup {c} ELSE clients
        /\ remote' = [remote EXCEPT ![c] = IF @ = "idle" THEN subscribing.kind ELSE @]
    /\ subscribing' = NotSubscribing
    /\ UNCHANGED <<clientVars, service, peerKnown, net>>

\* UNSUBSCRIBE, answered in any case.
ReceiveUnsubscribe(c) ==
    /\ inFlight(msg("UNSUBSCRIBE", c)) /\ peerKnown /\ subscribing = NotSubscribing
    /\ clients' = clients \ {c}
    /\ remote' = unsubscribe({c} \cap clients)
    /\ net' = replied(msg("UNSUBSCRIBE", c), msg("UNRESULT", c))
    /\ UNCHANGED <<clientVars, service, peerKnown, subscribing>>

-----------------------------------------------------------------------------
\* The network loses and reorders.  A packet that a device drops because it does not
\* know the Peer of its sender is lost as well.
Lose(m) ==
    /\ inFlight(m)
    /\ net' = taken(net, m)
    /\ UNCHANGED <<clientVars, serviceVars>>

\* The service is registered at first, so that an announcement of it can be under way.
Init ==
    /\ local = [c \in Clients |-> "unused"]
    /\ wanted = {} /\ known = FALSE /\ subscribed = {}
    /\ pending = [c \in Clients |-> NoPending]
    /\ service = "registered" /\ clients = {} /\ peerKnown = FALSE
    /\ remote = [c \in Clients |-> "none"]
    /\ subscribing = NotSubscribing
    /\ net = [m \in Messages |-> 0]

Next ==
    \/ \E c \in Clients :
        \/ RegisterClient(c) \/ SubscribeService(c) \/ SendSubscribe(c)
        \/ UnsubscribeService(c) \/ RemoveSubscription(c) \/ RemoveSubscriptions(c)
        \/ CancelPending(c) \/ UnsubscribeFromAllServices(c) \/ RemoveLocalClient(c)
        \/ ReceiveResult(c) \/ ReceiveData(c) \/ Timeout(c)
        \/ \E type \in {"RESULT_0", "UNRESULT"} : ReceiveOther(type, c)
        \/ ReceiveSubscribe(c) \/ ReceiveUnsubscribe(c)
    \/ ServiceAdded \/ ServiceRemoved
    \/ RegisterService \/ UnsubscribeAllClients \/ RemoveLocalService \/ SendData
    \/ AddPeer \/ PeerTimeout \/ DoSubscribe
    \/ \E m \in Messages : Lose(m)

Spec == Init /\ [][Next]_vars

\* DataTransmit.run calls the timeout again and again, and ends the handlers it begins;
\* calls of applications may stop halfway.  The service goes on to send while it has
\* clients, and the network does not lose every copy of what is sent again and again.
Fairness ==
    /\ WF_vars(DoSubscribe) /\ WF_vars(SendData)
    /\ \A c \in Clients :
        /\ WF_vars(Timeout(c))
        /\ SF_vars(ReceiveSubscribe(c)) /\ SF_vars(ReceiveUnsubscribe(c))
        /\ SF_vars(ReceiveResult(c)) /\ SF_vars(orphaned(c) /\ ReceiveData(c))

FairSpec == Spec /\ Fairness

-----------------------------------------------------------------------------
\* What the protocol promises.

TypeOK ==
    /\ local \in [Clients -> Lives]
    /\ wanted \subseteq Clients /\ known \in BOOLEAN /\ subscribed \subseteq Clients
    /\ pending \in [Clients -> PendingSubscription \cup {NoPending}]
    /\ service \in {"none", "registered", "leaving"}
    /\ clients \subseteq Clients /\ peerKnown \in BOOLEAN
    /\ remote \in [Clients -> RemoteStates]
    /\ subscribing \in Subscribing \cup {NotSubscribing}
    /\ net \in [Messages -> 0 .. MaxCopies]

\* The two sides of a subscription agree: a RemoteClient that holds the service of the
\* registry is one of its clients, and a client of the service that its Peer knows
\* holds a service.  The lists are changed by both threads, one after the other.
SidesAgree ==
    \A c \in Clients :
        /\ remote[c] = "live" => c \in clients
        /\ c \in clients /\ remote[c] = "idle" => subscribing = [kind |-> "live", client |-> c]

\* "remove remote client if it has no subscriptions left" (RemoteClient): a Peer keeps
\* no RemoteClient without a service, but for the one being subscribed.
NoIdleRemoteClient ==
    \A c \in Clients :
        remote[c] = "idle" => subscribing # NotSubscribing /\ subscribing.client = c

\* A client that is being unregistered, or has been, is not subscribed by a retry:
\* no request of it to subscribe is pending, whichever thread did what last.
NoPendingOfGoneClients ==
    \A c \in Clients :
        pending[c].kind = "SUBSCRIBE" =>
            local[c] \in {"registered", "subscribing", "unsubscribing"}

\* A request does not stay pending for ever, even if no answer ever comes.
PendingEnds == \A c \in Clients : pending[c] # NoPending ~> pending[c] = NoPending

\* "client not found, sending unsubscribe!" (DataTransmit): a service does not go on for
\* ever to send to a client that is not subscribed on its own device, whatever was lost,
\* reordered or given up, as long as the two devices know each other.
OrphansEnd ==
    \A c \in Clients :
        <>[](known /\ peerKnown) =>
            (c \in clients /\ c \notin subscribed ~> c \notin clients \/ c \in subscribed)

\* "inform the remote service first to stop it sending data to us and then
\* unconditionally remove the subscription" (RemoteService.unsubscribe): once nothing is
\* in flight or pending, a client that its application has unsubscribed is not subscribed.
UnsubscribedStaysSo ==
    (\A m \in Messages : ~inFlight(m)) /\ (\A c \in Clients : pending[c] = NoPending)
        => subscribed \subseteq wanted

=============================================================================
