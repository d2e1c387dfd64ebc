------------------------- MODULE Subscription_proofs -------------------------
(***************************************************************************)
(* What Subscription promises of its states, for any clients and bounds.   *)
(***************************************************************************)
EXTENDS Subscription, TLAPS

\* While the registry has no service, nothing refers to one as if it had: a service
\* that is registered again begins without clients and without RemoteClients.
NoneOfRemovedService ==
    service = "none" =>
        /\ clients = {}
        /\ \A c \in Clients : remote[c] # "live"
        /\ subscribing.kind # "live"

\* What each step preserves: the invariants, and what they need to be inductive.
IInv == TypeOK /\ SidesAgree /\ NoIdleRemoteClient /\ NoneOfRemovedService
            /\ NoPendingOfGoneClients

\* A message added to or taken from the network stays within the bound.
LEMMA NetType ==
    ASSUME NEW n \in [Messages -> 0 .. MaxCopies], NEW m \in Messages
    PROVE  /\ sent(n, m) \in [Messages -> 0 .. MaxCopies]
           /\ n[m] > 0 => taken(n, m) \in [Messages -> 0 .. MaxCopies]
  BY SubscriptionAssumption DEF sent, taken

\* Messages are made of a type and a client.
LEMMA MsgType ==
    ASSUME NEW type \in MsgTypes, NEW c \in Clients
    PROVE  msg(type, c) \in Messages
  BY DEF msg, Messages

\* The ways pending requests change keep their type, and nobody becomes subscribing.
LEMMA PendingType ==
    ASSUME NEW c \in Clients, pending \in [Clients -> PendingSubscription \cup {NoPending}]
    PROVE  /\ \A kind \in {"SUBSCRIBE", "UNSUBSCRIBE"} :
                /\ addPending(kind, c) \in [Clients -> PendingSubscription \cup {NoPending}]
                /\ \A d \in Clients : addPending(kind, c)[d].kind # pending[d].kind =>
                        d = c /\ addPending(kind, c)[d].kind = kind
           /\ removePending(c) \in [Clients -> PendingSubscription \cup {NoPending}]
           /\ \A d \in Clients : removePending(c)[d].kind = "SUBSCRIBE" =>
                        d # c /\ pending[d].kind = "SUBSCRIBE"
           /\ removePendingSubscriptionsForClient(c)
                    \in [Clients -> PendingSubscription \cup {NoPending}]
           /\ \A d \in Clients :
                removePendingSubscriptionsForClient(c)[d].kind = "SUBSCRIBE" =>
                        d # c /\ pending[d].kind = "SUBSCRIBE"
  BY SubscriptionAssumption
     DEF addPending, removePending, removePendingSubscriptionsForClient,
         PendingSubscription, NoPending

LEMMA InitIInv == Init => IInv
<1> SUFFICES ASSUME Init PROVE IInv
  OBVIOUS
<1>1. net \in [Messages -> 0 .. MaxCopies]
  BY SubscriptionAssumption DEF Init
<1>2. /\ local \in [Clients -> Lives] /\ remote \in [Clients -> RemoteStates]
      /\ pending \in [Clients -> PendingSubscription \cup {NoPending}]
  BY DEF Init, Lives, RemoteStates
<1>3. TypeOK
  BY <1>1, <1>2 DEF Init, TypeOK
<1>4. SidesAgree /\ NoIdleRemoteClient /\ NoneOfRemovedService /\ NoPendingOfGoneClients
  BY DEF Init, SidesAgree, NoIdleRemoteClient, NoneOfRemovedService,
         NoPendingOfGoneClients, NoPending
<1> QED
  BY <1>3, <1>4 DEF IInv

\* Actions of the client's device leave the service's device alone, and the other
\* way round: the parts of the invariant are about one of them each.
LEMMA ServiceSide ==
    ASSUME SidesAgree, NoIdleRemoteClient, NoneOfRemovedService, UNCHANGED serviceVars
    PROVE  SidesAgree' /\ NoIdleRemoteClient' /\ NoneOfRemovedService'
  BY DEF SidesAgree, NoIdleRemoteClient, NoneOfRemovedService, serviceVars

LEMMA ClientSide ==
    ASSUME NoPendingOfGoneClients, UNCHANGED clientVars
    PROVE  NoPendingOfGoneClients'
  BY DEF NoPendingOfGoneClients, clientVars

\* The actions of applications preserve the invariant.
LEMMA ApplicationSteps ==
    ASSUME IInv, NEW c \in Clients,
           \/ RegisterClient(c) \/ SubscribeService(c) \/ SendSubscribe(c)
           \/ UnsubscribeService(c) \/ RemoveSubscription(c) \/ RemoveSubscriptions(c)
           \/ CancelPending(c) \/ UnsubscribeFromAllServices(c) \/ RemoveLocalClient(c)
    PROVE  IInv'
<1> USE DEF IInv
<1>1. /\ TypeOK /\ NoPendingOfGoneClients
      /\ pending \in [Clients -> PendingSubscription \cup {NoPending}]
      /\ local \in [Clients -> Lives]
  BY DEF TypeOK
<1>2. SidesAgree' /\ NoIdleRemoteClient' /\ NoneOfRemovedService'
  BY ServiceSide
     DEF RegisterClient, SubscribeService, SendSubscribe, UnsubscribeService,
         RemoveSubscription, RemoveSubscriptions, CancelPending,
         UnsubscribeFromAllServices, RemoveLocalClient
<1>3. /\ sent(net, msg("SUBSCRIBE", c)) \in [Messages -> 0 .. MaxCopies]
      /\ sent(net, msg("UNSUBSCRIBE", c)) \in [Messages -> 0 .. MaxCopies]
  BY <1>1, NetType, MsgType DEF TypeOK, MsgTypes
<1>4. CASE RegisterClient(c) \/ SubscribeService(c) \/ RemoveLocalClient(c)
  <2>1. TypeOK'
    BY <1>1, <1>4
       DEF TypeOK, Lives, RegisterClient, SubscribeService, RemoveLocalClient, serviceVars
  <2>2. NoPendingOfGoneClients'
    BY <1>1, <1>4
       DEF NoPendingOfGoneClients, RegisterClient, SubscribeService, RemoveLocalClient
  <2> QED
    BY <1>2, <2>1, <2>2
<1>5. CASE SendSubscribe(c)
  <2>1. TypeOK'
    BY <1>1, <1>3, <1>5, PendingType DEF TypeOK, Lives, SendSubscribe, serviceVars
  <2>2. NoPendingOfGoneClients'
    BY <1>1, <1>5, PendingType DEF NoPendingOfGoneClients, SendSubscribe
  <2> QED
    BY <1>2, <2>1, <2>2
<1>6. CASE UnsubscribeService(c)
  <2>1. TypeOK'
    BY <1>1, <1>3, <1>6, PendingType DEF TypeOK, Lives, UnsubscribeService, serviceVars
  <2>2. NoPendingOfGoneClients'
    BY <1>1, <1>6, PendingType DEF NoPendingOfGoneClients, UnsubscribeService
  <2> QED
    BY <1>2, <2>1, <2>2
<1>7. CASE CancelPending(c)
  <2>1. TypeOK'
    BY <1>1, <1>7, PendingType DEF TypeOK, Lives, CancelPending, serviceVars
  <2>2. NoPendingOfGoneClients'
    BY <1>1, <1>7, PendingType DEF NoPendingOfGoneClients, CancelPending
  <2> QED
    BY <1>2, <2>1, <2>2
<1>8. CASE UnsubscribeFromAllServices(c)
  <2>1. CASE c \in subscribed
    <3>0. /\ net' = sent(net, msg("UNSUBSCRIBE", c))
          /\ pending' = addPending("UNSUBSCRIBE", c)
          /\ local' = [local EXCEPT ![c] = "leaving"]
          /\ UNCHANGED <<wanted, known, subscribed, serviceVars>>
      BY <1>8, <2>1 DEF UnsubscribeFromAllServices
    <3>1. TypeOK'
      BY <1>1, <1>3, <3>0, PendingType DEF TypeOK, Lives, serviceVars
    <3>2. NoPendingOfGoneClients'
      BY <1>1, <1>8, <2>1, PendingType
         DEF NoPendingOfGoneClients, UnsubscribeFromAllServices
    <3> QED
      BY <1>2, <3>1, <3>2
  <2>2. CASE c \notin subscribed
    <3>1. TypeOK'
      BY <1>1, <1>8, <2>2 DEF TypeOK, Lives, UnsubscribeFromAllServices, serviceVars
    <3>2. NoPendingOfGoneClients'
      BY <1>1, <1>8, <2>2 DEF NoPendingOfGoneClients, UnsubscribeFromAllServices
    <3> QED
      BY <1>2, <3>1, <3>2
  <2> QED
    BY <2>1, <2>2
<1>9. CASE RemoveSubscription(c) \/ RemoveSubscriptions(c)
  <2>1. TypeOK'
    BY <1>1, <1>9 DEF TypeOK, Lives, RemoveSubscription, RemoveSubscriptions, serviceVars
  <2>2. NoPendingOfGoneClients'
    BY <1>1, <1>9 DEF NoPendingOfGoneClients, RemoveSubscription, RemoveSubscriptions
  <2> QED
    BY <1>2, <2>1, <2>2
<1> QED
  BY <1>4, <1>5, <1>6, <1>7, <1>8, <1>9

\* The handlers and timers of the client's device preserve the invariant.
LEMMA ClientSteps ==
    ASSUME IInv, NEW c \in Clients,
           \/ ReceiveResult(c) \/ ReceiveData(c) \/ Timeout(c)
           \/ \E type \in {"RESULT_0", "UNRESULT"} : ReceiveOther(type, c)
    PROVE  IInv'
<1> USE DEF IInv
<1>1. /\ TypeOK /\ NoPendingOfGoneClients
      /\ pending \in [Clients -> PendingSubscription \cup {NoPending}]
      /\ net \in [Messages -> 0 .. MaxCopies]
  BY DEF TypeOK
<1>2. SidesAgree' /\ NoIdleRemoteClient' /\ NoneOfRemovedService'
  BY ServiceSide
     DEF ReceiveResult, ReceiveData, Timeout, ReceiveOther
<1>3. \A type \in MsgTypes :
        /\ sent(net, msg(type, c)) \in [Messages -> 0 .. MaxCopies]
        /\ inFlight(msg(type, c)) =>
                taken(net, msg(type, c)) \in [Messages -> 0 .. MaxCopies]
  BY <1>1, NetType, MsgType DEF inFlight
<1>5. CASE ReceiveResult(c)
  <2>1. TypeOK'
    BY <1>1, <1>3, <1>5, PendingType DEF TypeOK, MsgTypes, ReceiveResult, serviceVars
  <2>2. NoPendingOfGoneClients'
    BY <1>1, <1>5, PendingType DEF NoPendingOfGoneClients, ReceiveResult
  <2> QED
    BY <1>2, <2>1, <2>2
<1>6. CASE ReceiveData(c)
  <2>1. ReceiveData(c) => net' \in [Messages -> 0 .. MaxCopies]
    <3>1. inFlight(msg("DATA", c)) =>
            replied(msg("DATA", c), msg("UNSUBSCRIBE", c)) \in [Messages -> 0 .. MaxCopies]
      BY <1>3, NetType, MsgType DEF replied, MsgTypes
    <3> QED
      BY <1>3, <3>1 DEF ReceiveData, MsgTypes
  <2>2. pending' \in [Clients -> PendingSubscription \cup {NoPending}]
    BY <1>1, <1>6, PendingType DEF ReceiveData
  <2>3. TypeOK'
    BY <1>1, <1>6, <2>1, <2>2 DEF TypeOK, ReceiveData, serviceVars
  <2>4. \A d \in Clients : pending'[d].kind = "SUBSCRIBE" => pending[d].kind = "SUBSCRIBE"
    <3>1. pending' = addPending("UNSUBSCRIBE", c) \/ pending' = pending
      BY <1>6 DEF ReceiveData
    <3> QED
      BY <1>1, <3>1, PendingType
  <2>5. NoPendingOfGoneClients'
    BY <1>1, <1>6, <2>4 DEF NoPendingOfGoneClients, ReceiveData
  <2> QED
    BY <1>2, <2>3, <2>5
<1>7. CASE Timeout(c)
  <2>1. pending[c] \in PendingSubscription
    BY <1>1, <1>7 DEF Timeout
  <2>2. net' \in [Messages -> 0 .. MaxCopies]
    BY <1>1, <1>3, <1>7, <2>1 DEF Timeout, PendingSubscription, MsgTypes
  <2>3. CASE pending[c].retries < RetryMax
    <3>1. [pending[c] EXCEPT !.retries = @ + 1] \in PendingSubscription
      BY <2>1, <2>3, SubscriptionAssumption DEF PendingSubscription
    <3>2. /\ pending' = [pending EXCEPT ![c].retries = @ + 1]
          /\ UNCHANGED <<local, wanted, known, subscribed, serviceVars>>
      BY <1>7, <2>1, <2>3, SubscriptionAssumption DEF Timeout, PendingSubscription
    <3>3. pending' \in [Clients -> PendingSubscription \cup {NoPending}]
      BY <1>1, <3>1, <3>2
    <3>4. \A d \in Clients : pending'[d].kind = pending[d].kind
      BY <1>1, <2>1, <3>2 DEF PendingSubscription
    <3>5. TypeOK'
      BY <1>1, <2>2, <3>2, <3>3 DEF TypeOK, serviceVars
    <3>6. NoPendingOfGoneClients'
      BY <1>1, <3>2, <3>4 DEF NoPendingOfGoneClients
    <3> QED
      BY <1>2, <3>5, <3>6
  <2>4. CASE ~(pending[c].retries < RetryMax)
    <3>1. TypeOK'
      BY <1>1, <1>7, <2>2, <2>4, PendingType DEF TypeOK, Timeout, serviceVars
    <3>2. NoPendingOfGoneClients'
      BY <1>1, <1>7, <2>4, PendingType DEF NoPendingOfGoneClients, Timeout
    <3> QED
      BY <1>2, <3>1, <3>2
  <2> QED
    BY <2>3, <2>4
<1>8. CASE \E type \in {"RESULT_0", "UNRESULT"} : ReceiveOther(type, c)
  <2>1. TypeOK'
    BY <1>1, <1>3, <1>8, PendingType DEF TypeOK, MsgTypes, ReceiveOther, serviceVars
  <2>2. NoPendingOfGoneClients'
    BY <1>1, <1>8, PendingType DEF NoPendingOfGoneClients, ReceiveOther
  <2> QED
    BY <1>2, <2>1, <2>2
<1> QED
  BY <1>5, <1>6, <1>7, <1>8

\* What unsubscribe returns: the states of those it is not about are kept.
LEMMA UnsubscribeType ==
    ASSUME NEW cs \in SUBSET Clients, remote \in [Clients -> RemoteStates]
    PROVE  /\ unsubscribe(cs) \in [Clients -> RemoteStates]
           /\ \A c \in cs : unsubscribe(cs)[c] = "none"
           /\ \A c \in Clients \ cs : unsubscribe(cs)[c] = remote[c]
  BY DEF unsubscribe, RemoteStates

\* The calls of the service's application preserve the invariant.
LEMMA ServiceSteps ==
    ASSUME IInv,
           \/ RegisterService \/ UnsubscribeAllClients \/ RemoveLocalService
           \/ SendData \/ AddPeer \/ PeerTimeout
    PROVE  IInv'
<1> USE DEF IInv
<1>1. /\ TypeOK /\ SidesAgree /\ NoIdleRemoteClient /\ NoneOfRemovedService
      /\ remote \in [Clients -> RemoteStates] /\ clients \subseteq Clients
      /\ net \in [Messages -> 0 .. MaxCopies]
      /\ subscribing \in Subscribing \cup {NotSubscribing}
  BY DEF TypeOK
<1>2. NoPendingOfGoneClients'
  BY ClientSide
     DEF RegisterService, UnsubscribeAllClients, RemoveLocalService, SendData, AddPeer,
         PeerTimeout
<1>3. CASE RegisterService
  <2>1. TypeOK'
    BY <1>1, <1>3 DEF TypeOK, RegisterService, clientVars
  <2>2. SidesAgree' /\ NoIdleRemoteClient' /\ NoneOfRemovedService'
    BY <1>1, <1>3 DEF SidesAgree, NoIdleRemoteClient, NoneOfRemovedService, RegisterService
  <2> QED
    BY <1>2, <2>1, <2>2
<1>4. CASE UnsubscribeAllClients
  <2>1. TypeOK'
    BY <1>1, <1>4, UnsubscribeType DEF TypeOK, UnsubscribeAllClients, clientVars
  <2>2. SidesAgree' /\ NoIdleRemoteClient' /\ NoneOfRemovedService'
    BY <1>1, <1>4, UnsubscribeType
       DEF SidesAgree, NoIdleRemoteClient, NoneOfRemovedService, UnsubscribeAllClients
  <2> QED
    BY <1>2, <2>1, <2>2
<1>5. CASE RemoveLocalService
  <2>1. subscribing' \in Subscribing \cup {NotSubscribing}
    BY <1>1, <1>5 DEF RemoveLocalService, Subscribing
  <2>2. TypeOK'
    BY <1>1, <1>5, <2>1 DEF TypeOK, RemoveLocalService, RemoteStates, clientVars
  <2>3. SidesAgree' /\ NoIdleRemoteClient' /\ NoneOfRemovedService'
    BY <1>1, <1>5
       DEF SidesAgree, NoIdleRemoteClient, NoneOfRemovedService, RemoveLocalService,
           Subscribing, NotSubscribing, RemoteStates
  <2> QED
    BY <1>2, <2>2, <2>3
<1>6. CASE SendData
  <2>1. net' \in [Messages -> 0 .. MaxCopies]
    BY <1>1, <1>6, NetType DEF SendData
  <2>2. TypeOK'
    BY <1>1, <1>6, <2>1 DEF TypeOK, SendData, clientVars, serviceVars
  <2>3. SidesAgree' /\ NoIdleRemoteClient' /\ NoneOfRemovedService'
    BY <1>1, <1>6, ServiceSide DEF SendData
  <2> QED
    BY <1>2, <2>2, <2>3
<1>7. CASE AddPeer \/ PeerTimeout
  <2>1. TypeOK'
    BY <1>1, <1>7 DEF TypeOK, AddPeer, PeerTimeout, RemoteStates, clientVars
  <2>2. SidesAgree' /\ NoIdleRemoteClient' /\ NoneOfRemovedService'
    BY <1>1, <1>7
       DEF SidesAgree, NoIdleRemoteClient, NoneOfRemovedService, AddPeer, PeerTimeout
  <2> QED
    BY <1>2, <2>1, <2>2
<1> QED
  BY <1>3, <1>4, <1>5, <1>6, <1>7

\* The handlers of the service's device preserve the invariant.
LEMMA ReceiverSteps ==
    ASSUME IInv, NEW c \in Clients,
           ReceiveSubscribe(c) \/ ReceiveUnsubscribe(c)
    PROVE  IInv'
<1> USE DEF IInv
<1>1. /\ TypeOK /\ SidesAgree /\ NoIdleRemoteClient /\ NoneOfRemovedService
      /\ remote \in [Clients -> RemoteStates] /\ clients \subseteq Clients
      /\ net \in [Messages -> 0 .. MaxCopies]
      /\ subscribing \in Subscribing \cup {NotSubscribing}
  BY DEF TypeOK
<1>2. \A type, type2 \in MsgTypes :
        inFlight(msg(type, c)) =>
            replied(msg(type, c), msg(type2, c)) \in [Messages -> 0 .. MaxCopies]
  BY <1>1, NetType, MsgType DEF inFlight, replied
<1>3. CASE ReceiveSubscribe(c)
  <2>1. NoPendingOfGoneClients'
    BY <1>3, ClientSide DEF ReceiveSubscribe
  <2>2. net' \in [Messages -> 0 .. MaxCopies]
    BY <1>2, <1>3 DEF ReceiveSubscribe, MsgTypes
  <2>3. CASE service # "none"
    <3>1. TypeOK'
      BY <1>1, <1>3, <2>2, <2>3
         DEF TypeOK, ReceiveSubscribe, Subscribing, RemoteStates, clientVars
    <3>2. /\ subscribing = NotSubscribing /\ service' # "none" /\ clients' = clients
          /\ subscribing' = [kind |-> "live", client |-> c]
          /\ subscribing' # NotSubscribing /\ subscribing'.client = c
      BY <1>3, <2>3 DEF ReceiveSubscribe, NotSubscribing
    <3>3. \A d \in Clients :
            \/ d = c /\ remote[d] = "none" /\ remote'[d] = "idle"
            \/ remote'[d] = remote[d]
      BY <1>1, <1>3, <2>3 DEF ReceiveSubscribe
    <3>4. \A d \in Clients : remote'[d] = "idle" => d = c
      BY <1>1, <3>2, <3>3 DEF NoIdleRemoteClient
    <3>5. SidesAgree' /\ NoIdleRemoteClient' /\ NoneOfRemovedService'
      BY <1>1, <3>2, <3>3, <3>4 DEF SidesAgree, NoIdleRemoteClient, NoneOfRemovedService
    <3> QED
      BY <2>1, <3>1, <3>5
  <2>4. CASE service = "none"
    <3>1. UNCHANGED serviceVars /\ UNCHANGED clientVars
      BY <1>3, <2>4 DEF ReceiveSubscribe, serviceVars
    <3>2. TypeOK'
      BY <1>1, <2>2, <3>1 DEF TypeOK, serviceVars, clientVars
    <3> QED
      BY <1>1, <2>1, <3>1, <3>2, ServiceSide
  <2> QED
    BY <2>3, <2>4
<1>5. CASE ReceiveUnsubscribe(c)
  <2>1. NoPendingOfGoneClients'
    BY <1>5, ClientSide DEF ReceiveUnsubscribe
  <2>2. net' \in [Messages -> 0 .. MaxCopies]
    BY <1>2, <1>5 DEF ReceiveUnsubscribe, MsgTypes
  <2>3. TypeOK'
    BY <1>1, <1>5, <2>2, UnsubscribeType DEF TypeOK, ReceiveUnsubscribe, clientVars
  <2>4. SidesAgree' /\ NoIdleRemoteClient' /\ NoneOfRemovedService'
    BY <1>1, <1>5, UnsubscribeType
       DEF SidesAgree, NoIdleRemoteClient, NoneOfRemovedService, ReceiveUnsubscribe
  <2> QED
    BY <2>1, <2>3, <2>4
<1> QED
  BY <1>3, <1>5

\* The steps that are not about one client: announcements, the second half of a
\* subscription, and the network.
LEMMA OtherSteps ==
    ASSUME IInv,
           \/ ServiceAdded \/ ServiceRemoved \/ DoSubscribe
           \/ \E m \in Messages : Lose(m)
    PROVE  IInv'
<1> USE DEF IInv
<1>1. /\ TypeOK /\ SidesAgree /\ NoIdleRemoteClient /\ NoneOfRemovedService
      /\ NoPendingOfGoneClients
      /\ remote \in [Clients -> RemoteStates] /\ clients \subseteq Clients
      /\ net \in [Messages -> 0 .. MaxCopies]
      /\ subscribing \in Subscribing \cup {NotSubscribing}
  BY DEF TypeOK
<1>2. CASE ServiceAdded \/ ServiceRemoved
  <2>1. TypeOK'
    BY <1>1, <1>2 DEF TypeOK, ServiceAdded, ServiceRemoved, serviceVars
  <2>2. NoPendingOfGoneClients'
    BY <1>1, <1>2 DEF NoPendingOfGoneClients, ServiceAdded, ServiceRemoved, NoPending
  <2> QED
    BY <1>1, <1>2, <2>1, <2>2, ServiceSide DEF ServiceAdded, ServiceRemoved
<1>3. CASE DoSubscribe
  <2>1. NoPendingOfGoneClients'
    BY <1>3, ClientSide DEF DoSubscribe
  <2>2. subscribing \in Subscribing
    BY <1>1, <1>3 DEF DoSubscribe
  <2>3. TypeOK'
    BY <1>1, <1>3, <2>2 DEF TypeOK, DoSubscribe, Subscribing, RemoteStates, clientVars
  <2>4. SidesAgree' /\ NoIdleRemoteClient' /\ NoneOfRemovedService'
    BY <1>1, <1>3, <2>2
       DEF SidesAgree, NoIdleRemoteClient, NoneOfRemovedService, DoSubscribe,
           Subscribing, NotSubscribing, RemoteStates
  <2> QED
    BY <2>1, <2>3, <2>4
<1>4. CASE \E m \in Messages : Lose(m)
  <2>1. /\ net' \in [Messages -> 0 .. MaxCopies]
        /\ UNCHANGED <<clientVars, serviceVars>>
    BY <1>1, <1>4, NetType DEF Lose, inFlight
  <2>2. TypeOK'
    BY <1>1, <2>1 DEF TypeOK, clientVars, serviceVars
  <2> QED
    BY <1>1, <2>1, <2>2, ServiceSide, ClientSide
<1> QED
  BY <1>2, <1>3, <1>4

LEMMA NextIInv == IInv /\ [Next]_vars => IInv'
<1> SUFFICES ASSUME IInv, [Next]_vars PROVE IInv'
  OBVIOUS
<1>1. CASE UNCHANGED vars
  <2>1. UNCHANGED serviceVars /\ UNCHANGED clientVars /\ UNCHANGED net
    BY <1>1 DEF vars
  <2>2. TypeOK'
    BY <2>1 DEF IInv, TypeOK, serviceVars, clientVars
  <2> QED
    BY <2>1, <2>2, ServiceSide, ClientSide DEF IInv
<1>2. CASE Next
  BY <1>2, ApplicationSteps, ClientSteps, ServiceSteps, ReceiverSteps, OtherSteps
     DEF Next
<1> QED
  BY <1>1, <1>2

\* The strengthened invariant holds in every state of the protocol.
THEOREM Invariance == Spec => []IInv
  BY InitIInv, NextIInv, PTL DEF Spec

\* Every variable keeps its type; the retries of a pending request stay bounded.
THEOREM TypeCorrect == Spec => []TypeOK
<1>1. IInv => TypeOK
  BY DEF IInv
<1> QED
  BY <1>1, Invariance, PTL

\* LocalService.clients and the services of RemoteClients agree, whichever thread
\* subscribes, unsubscribes or times out.
THEOREM ServiceAndRemoteClientsAgree == Spec => []SidesAgree
<1>1. IInv => SidesAgree
  BY DEF IInv
<1> QED
  BY <1>1, Invariance, PTL

\* A RemoteClient without a service does not stay in Peer.clients.
THEOREM RemoteClientsHaveServices == Spec => []NoIdleRemoteClient
<1>1. IInv => NoIdleRemoteClient
  BY DEF IInv
<1> QED
  BY <1>1, Invariance, PTL

\* What is retried for a client that is leaving or gone is never a subscription.
THEOREM GoneClientsDoNotSubscribe == Spec => []NoPendingOfGoneClients
<1>1. IInv => NoPendingOfGoneClients
  BY DEF IInv
<1> QED
  BY <1>1, Invariance, PTL

=============================================================================
