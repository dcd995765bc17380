--------------------------- MODULE AgpsNifProofs ---------------------------
(***************************************************************************)
(* Safety of the AGPS state machine for every set of subscribers and every *)
(* bound, in each of the configurations loc_eng_agps_init builds.          *)
(*                                                                         *)
(* MachineInv is the inductive invariant of the list and of what the       *)
(* subscribers were told; GrantsInQueue, PendingIsServed and ClosingInv    *)
(* add the framework.                                                      *)
(***************************************************************************)
EXTENDS AgpsNif, TLAPS

(* Only Wi-Fi subscribers become inactive, and a machine that enforces a   *)
(* single subscriber has at most one on its list.                          *)
ListShape ==
    /\ inactive \subseteq WaitForClose
    /\ EnforceSingle => \A s, t \in mSubscribers : s = t

MachineInv ==
    /\ TypeOK
    /\ ListShape
    /\ ReleasedIsEmpty
    /\ ReleasingOnlyInactive
    /\ ClientsAgree

USE ConfigAssumption, BoundsAssumption
-----------------------------------------------------------------------------
(* The initial state satisfies the invariant: nobody has subscribed yet. *)
LEMMA InitMachine == Init => MachineInv
  BY DEF Init, MachineInit, MachineInv, TypeOK, MachineTypeOK, ListShape, ReleasedIsEmpty,
         ReleasingOnlyInactive, ClientsAgree, States, Requests, Events, ClientStatus

(* A queue keeps its type when it is read or extended. *)
LEMMA QueueTypes ==
  ASSUME NEW S, NEW q \in Seq(S)
  PROVE  /\ \A e \in S : Append(q, e) \in Seq(S)
         /\ q # <<>> => Head(q) \in S /\ Tail(q) \in Seq(S)
  OBVIOUS

(* What a subscriber is told is one of the statuses it may have. *)
LEMMA NotifyType ==
  ASSUME client \in [Subscribers -> ClientStatus], NEW receivers, NEW status
  PROVE  notifyRsrcStatus(receivers, status) \in [Subscribers -> ClientStatus]
  BY DEF notifyRsrcStatus, ClientStatus

(* A request to the framework leaves a well-typed queue. *)
LEMMA SendType ==
  ASSUME NEW q \in Seq(Requests), NEW subs, NEW inact, NEW action \in Requests
  PROVE  sendRsrcRequest(q, subs, inact, action) \in Seq(Requests)
  BY QueueTypes DEF sendRsrcRequest

(* Every action keeps every variable in its type. *)
LEMMA TypeStep == TypeOK /\ [Next]_vars => TypeOK'
  <1> SUFFICES ASSUME TypeOK, [Next]_vars PROVE TypeOK'
    OBVIOUS
  <1> USE DEF TypeOK, MachineTypeOK
  <1>a. Requests = {"REQUEST_DATA_CONN", "RELEASE_DATA_CONN"}
    BY DEF Requests
  <1>b. {"RSRC_GRANTED", "RSRC_RELEASED", "RSRC_DENIED"} = Events
    BY DEF Events
  <1>c. {"none", "waiting", "granted", "closing", "denied", "dropped"} = ClientStatus
    BY DEF ClientStatus
  <1>d. States = {"Released", "Pending", "Acquired", "Releasing"}
    BY DEF States
  <1>1. ASSUME NEW s \in Subscribers, ClientRequest(s) PROVE TypeOK'
    <2> USE DEF ClientRequest
    <2>1. CASE SubscribeRefused(s)
      BY <1>1, <2>1, <1>c DEF SubscribeRefused
    <2>2. CASE ReleasedSubscribe(s)
      BY <1>1, <2>2, <1>a, <1>c, <1>d, SendType DEF ReleasedSubscribe
    <2>3. CASE PendingSubscribe(s)
      BY <1>1, <2>3, <1>c DEF PendingSubscribe
    <2>4. CASE AcquiredSubscribe(s)
      BY <1>1, <2>4, NotifyType DEF AcquiredSubscribe
    <2> QED
      BY <1>1, <2>1, <2>2, <2>3, <2>4 DEF subscribeRsrc
  <1>2. ASSUME NEW s \in Subscribers, ClientRelease(s) PROVE TypeOK'
    <2> USE DEF ClientRelease
    <2>1. ASSUME NEW subs, NEW inact, AfterUnsubscribe(subs, inact)
          PROVE  mStatePtr' \in States /\ servicer' \in Seq(Requests)
      BY <2>1, <1>a, <1>d, SendType DEF AfterUnsubscribe
    <2>2. CASE UnsubscribeWait(s)
      BY <1>2, <2>1, <2>2, <1>c DEF UnsubscribeWait
    <2>3. CASE UnsubscribeNotify(s)
      BY <1>2, <2>1, <2>3, NotifyType DEF UnsubscribeNotify
    <2> QED
      BY <1>2, <2>2, <2>3 DEF unsubscribeRsrc
  <1>3. CASE HandleReply
    <2> DEFINE e == Head(deferred_q)
    <2>1. onRsrcEvent(e) /\ deferred_q' \in Seq(Events) /\ UNCHANGED nif
      BY <1>3, QueueTypes DEF HandleReply
    <2>2. CASE PendingGranted(e)
      BY <2>1, <2>2, <1>d, NotifyType DEF PendingGranted
    <2>3. CASE PendingDenied(e) \/ AcquiredReleased(e)
      BY <2>1, <2>3, <1>d, NotifyType DEF PendingDenied, AcquiredReleased, BroadcastAllAndDelete
    <2>4. CASE ReleasingClosed(e)
      <3>1. servicer' \in Seq(Requests) /\ mStatePtr' \in States
        BY <2>4, <1>a, <1>d, SendType DEF ReleasingClosed
      <3> QED
        BY <2>1, <2>4, <3>1, NotifyType DEF ReleasingClosed
    <2>5. CASE EventIgnored(e)
      BY <2>1, <2>5 DEF EventIgnored, machineVars
    <2> QED
      BY <2>1, <2>2, <2>3, <2>4, <2>5 DEF onRsrcEvent
  <1>4. CASE EngineUp
    BY <1>4, <1>c DEF EngineUp, dropAllSubscribers
  <1>5. CASE AfwRequest
    <2>1. servicer' \in Seq(Requests)
      BY <1>5, QueueTypes DEF AfwRequest
    <2>2. deferred_q' \in Seq(Events)
      <3>1. deferred_q' = deferred_q \/ deferred_q' = Append(deferred_q, "RSRC_GRANTED")
        BY <1>5 DEF AfwRequest, Reply
      <3> QED
        BY <3>1, <1>b, QueueTypes
    <2> QED
      BY <1>5, <2>1, <2>2 DEF AfwRequest
  <1>6. CASE AfwOpened
    BY <1>6, <1>b, QueueTypes DEF AfwOpened, Reply, machineVars
  <1>7. CASE AfwOpenFailed
    BY <1>7, <1>b, QueueTypes DEF AfwOpenFailed, Reply, machineVars
  <1>8. CASE AfwRelease
    <2>1. servicer' \in Seq(Requests)
      BY <1>8, QueueTypes DEF AfwRelease
    <2>2. deferred_q' \in Seq(Events)
      <3>1. CASE Reply("RSRC_RELEASED")
        BY <3>1, <1>b, QueueTypes DEF Reply
      <3>2. CASE deferred_q' = deferred_q
        BY <3>2, QueueTypes
      <3> QED
        BY <1>8, <3>1, <3>2 DEF AfwRelease
    <2> QED
      BY <1>8, <2>1, <2>2 DEF AfwRelease
  <1>9. CASE AfwConnectionLost
    BY <1>9, <1>b, QueueTypes DEF AfwConnectionLost, Reply, machineVars
  <1>10. CASE UNCHANGED vars
    BY <1>10 DEF vars, machineVars
  <1> QED
    BY <1>1, <1>2, <1>3, <1>4, <1>5, <1>6, <1>7, <1>8, <1>9, <1>10 DEF Next

(* Type correctness: every reachable state of the machine and its          *)
(* framework is well typed; an inactive subscriber is on the list.         *)
THEOREM TypeCorrect == Spec => []TypeOK
  <1>1. Init => TypeOK
    BY InitMachine DEF MachineInv
  <1> QED
    BY <1>1, TypeStep, PTL DEF Spec
-----------------------------------------------------------------------------
(* The framework and the stuttering step do not touch the machine's list. *)
FrameworkStep ==
    AfwRequest \/ AfwOpened \/ AfwOpenFailed \/ AfwRelease \/ AfwConnectionLost

(* The framework's steps touch neither the machine nor its subscribers. *)
LEMMA FrameworkKeepsMachine ==
  ASSUME FrameworkStep \/ UNCHANGED vars
  PROVE  UNCHANGED <<mStatePtr, mSubscribers, inactive, client>>
  BY DEF FrameworkStep, AfwRequest, AfwOpened, AfwOpenFailed, AfwRelease, AfwConnectionLost,
         machineVars, vars

(* In the configurations of loc_eng_agps_init only a Wi-Fi machine reaches *)
(* the Releasing state, and then with exactly one, inactive, subscriber.   *)
LEMMA ReleasingShape ==
  ASSUME MachineInv
  PROVE  /\ mStatePtr = "Releasing" => mSubscribers = inactive /\ mSubscribers # {}
         /\ mStatePtr # "Releasing" => inactive = {}
  BY DEF MachineInv, TypeOK, MachineTypeOK, ListShape, ReleasingOnlyInactive

(* Every step keeps the list, the state and the subscribers' view in       *)
(* agreement.                                                              *)
LEMMA MachineStep == MachineInv /\ [Next]_vars => MachineInv'
  <1> SUFFICES ASSUME MachineInv, [Next]_vars PROVE MachineInv'
    OBVIOUS
  <1> DEFINE Rest == ListShape /\ ReleasedIsEmpty /\ ReleasingOnlyInactive /\ ClientsAgree
  <1>t. TypeOK /\ TypeOK'
    BY TypeStep DEF MachineInv
  <1>ty. /\ mStatePtr \in {"Released", "Pending", "Acquired", "Releasing"}
         /\ mSubscribers \subseteq Subscribers
         /\ inactive \subseteq mSubscribers
         /\ client \in [Subscribers -> ClientStatus]
    BY <1>t DEF TypeOK, MachineTypeOK, States
  <1>r. Rest
    BY DEF MachineInv
  <1>q. SUFFICES Rest'
    BY <1>t DEF MachineInv
  <1>sh. /\ mStatePtr = "Releasing" => mSubscribers = inactive /\ mSubscribers # {}
         /\ mStatePtr # "Releasing" => inactive = {}
    BY ReleasingShape
  <1> USE DEF ListShape, ReleasedIsEmpty, ReleasingOnlyInactive, ClientsAgree
  <1>1. ASSUME NEW s \in Subscribers, ClientRequest(s) PROVE Rest'
    <2>1. CASE SubscribeRefused(s)
      BY <1>ty, <1>r, <1>sh, <2>1 DEF SubscribeRefused, refused
    <2>2. CASE ReleasedSubscribe(s)
      BY <1>ty, <1>r, <1>sh, <2>2 DEF ReleasedSubscribe, refused
    <2>3. CASE PendingSubscribe(s)
      BY <1>ty, <1>r, <1>sh, <2>3 DEF PendingSubscribe, refused
    <2>4. CASE AcquiredSubscribe(s)
      BY <1>ty, <1>r, <1>sh, <2>4 DEF AcquiredSubscribe, refused, notifyRsrcStatus
    <2> QED
      BY <1>1, <2>1, <2>2, <2>3, <2>4 DEF ClientRequest, subscribeRsrc
  <1>2. ASSUME NEW s \in Subscribers, ClientRelease(s) PROVE Rest'
    <2>1. CASE UnsubscribeWait(s)
      BY <1>ty, <1>r, <1>sh, <2>1 DEF UnsubscribeWait, AfterUnsubscribe, active
    <2>2. CASE UnsubscribeNotify(s)
      BY <1>ty, <1>r, <1>sh, <2>2 DEF UnsubscribeNotify, AfterUnsubscribe, active, notifyRsrcStatus
    <2> QED
      BY <1>2, <2>1, <2>2 DEF ClientRelease, unsubscribeRsrc
  <1>3. CASE HandleReply
    <2> DEFINE e == Head(deferred_q)
    <2>1. onRsrcEvent(e)
      BY <1>3 DEF HandleReply
    <2>2. CASE PendingGranted(e)
      BY <1>ty, <1>r, <1>sh, <2>2 DEF PendingGranted, forMe, active, notifyRsrcStatus
    <2>3. CASE PendingDenied(e) \/ AcquiredReleased(e)
      BY <1>ty, <1>r, <1>sh, <2>3
         DEF PendingDenied, AcquiredReleased, BroadcastAllAndDelete, forMe, notifyRsrcStatus
    <2>4. CASE ReleasingClosed(e)
      BY <1>ty, <1>r, <1>sh, <2>4 DEF ReleasingClosed, forMe, notifyRsrcStatus
    <2>5. CASE EventIgnored(e)
      BY <1>r, <2>5 DEF EventIgnored, machineVars
    <2> QED
      BY <2>1, <2>2, <2>3, <2>4, <2>5 DEF onRsrcEvent
  <1>4. CASE EngineUp
    BY <1>ty, <1>r, <1>sh, <1>4 DEF EngineUp, dropAllSubscribers
  <1>5. CASE FrameworkStep \/ UNCHANGED vars
    BY <1>r, <1>5, FrameworkKeepsMachine
  <1> QED
    BY <1>1, <1>2, <1>3, <1>4, <1>5 DEF Next, FrameworkStep

(* The invariant the three theorems below rest on. *)
LEMMA MachineInvariant == Spec => []MachineInv
  BY InitMachine, MachineStep, PTL DEF Spec

(* AgpsReleasedState is never entered with subscribers on the list: the    *)
(* unrecoverable error its onRsrcEvent logs cannot happen.                 *)
THEOREM ReleasedEmpty == Spec => []ReleasedIsEmpty
  <1>1. MachineInv => ReleasedIsEmpty
    BY DEF MachineInv
  <1> QED
    BY <1>1, MachineInvariant, PTL

(* The list, the state and what every subscriber was told agree. *)
THEOREM ClientsTold == Spec => []ClientsAgree
  <1>1. MachineInv => ClientsAgree
    BY DEF MachineInv
  <1> QED
    BY <1>1, MachineInvariant, PTL

(* The machine is Releasing exactly while a subscriber waits for the close *)
(* of the interface to complete.                                           *)
THEOREM ReleasingInactive == Spec => []ReleasingOnlyInactive
  <1>1. MachineInv => ReleasingOnlyInactive
    BY DEF MachineInv
  <1> QED
    BY <1>1, MachineInvariant, PTL
-----------------------------------------------------------------------------
(* The interface behind the grants.  A grant in the queue may be overtaken *)
(* by the loss of the interface, but then the loss is queued behind it.    *)
GrantsInQueue ==
    \A i \in 1..Len(deferred_q) :
        deferred_q[i] = "RSRC_GRANTED" =>
            nif = "open" \/ \E j \in (i+1)..Len(deferred_q) : deferred_q[j] = "RSRC_RELEASED"

(* What reading and extending a queue does to its elements. *)
LEMMA QueueElements ==
  ASSUME NEW S, NEW q \in Seq(S), NEW e \in S
  PROVE  /\ Len(Append(q, e)) = Len(q) + 1
         /\ \A i \in 1..Len(q) : Append(q, e)[i] = q[i]
         /\ Append(q, e)[Len(q) + 1] = e
         /\ Len(q) \in Nat
         /\ q # <<>> => /\ Len(q) >= 1
                        /\ Len(Tail(q)) = Len(q) - 1
                        /\ Head(q) = q[1]
                        /\ \A i \in 1..(Len(q) - 1) : Tail(q)[i] = q[i + 1]
  OBVIOUS

(* The initial queue is empty and the machine Released. *)
LEMMA InitGrant == Init => GrantsInQueue /\ GrantIsReal
  BY DEF Init, MachineInit, GrantsInQueue, GrantIsReal

(* The machine becomes Acquired only by a grant at the head of the queue. *)
LEMMA AcquiredByGrant ==
  ASSUME [Next]_vars, mStatePtr' = "Acquired", mStatePtr # "Acquired"
  PROVE  HandleReply /\ Head(deferred_q) = "RSRC_GRANTED"
  <1>1. ASSUME NEW s \in Subscribers, ClientRequest(s) \/ ClientRelease(s) PROVE FALSE
    BY <1>1 DEF ClientRequest, ClientRelease, subscribeRsrc, SubscribeRefused, ReleasedSubscribe,
       PendingSubscribe, AcquiredSubscribe, unsubscribeRsrc, UnsubscribeWait, UnsubscribeNotify,
       AfterUnsubscribe
  <1>2. CASE HandleReply
    BY <1>2 DEF HandleReply, onRsrcEvent, PendingGranted, PendingDenied, AcquiredReleased,
       ReleasingClosed, EventIgnored, BroadcastAllAndDelete, machineVars
  <1>3. CASE EngineUp
    BY <1>3 DEF EngineUp, dropAllSubscribers
  <1>4. CASE FrameworkStep \/ UNCHANGED vars
    BY <1>4, FrameworkKeepsMachine
  <1> QED
    BY <1>1, <1>2, <1>3, <1>4 DEF Next, FrameworkStep

(* Handling a report of the loss of the interface ends the Acquired state. *)
LEMMA AcquiredEndsOnRelease ==
  ASSUME HandleReply, Head(deferred_q) = "RSRC_RELEASED"
  PROVE  mStatePtr' # "Acquired"
  BY DEF HandleReply, onRsrcEvent, PendingGranted, PendingDenied, AcquiredReleased,
         ReleasingClosed, EventIgnored, BroadcastAllAndDelete, machineVars, Events

(* Grants, queued or delivered, stay backed by the interface or by the     *)
(* report of its loss.                                                     *)
LEMMA GrantStep ==
  TypeOK /\ GrantsInQueue /\ GrantIsReal /\ [Next]_vars => (GrantsInQueue /\ GrantIsReal)'
  <1> SUFFICES ASSUME TypeOK, GrantsInQueue, GrantIsReal, [Next]_vars
               PROVE  GrantsInQueue' /\ GrantIsReal'
    OBVIOUS
  <1>t. deferred_q \in Seq(Events) /\ Len(deferred_q) \in Nat
    BY DEF TypeOK
  <1>e. {"RSRC_GRANTED", "RSRC_RELEASED", "RSRC_DENIED"} = Events
    BY DEF Events
  <1>1. CASE UNCHANGED <<deferred_q, nif>>
    <2>1. ~HandleReply
      BY <1>1, <1>t, QueueElements, <1>e DEF HandleReply
    <2>2. mStatePtr' = "Acquired" => mStatePtr = "Acquired"
      BY <2>1, AcquiredByGrant
    <2> QED
      BY <1>1, <2>2 DEF GrantsInQueue, GrantIsReal
  <1>2. CASE HandleReply
    <2>1. /\ deferred_q # <<>> /\ deferred_q' = Tail(deferred_q) /\ nif' = nif
          /\ Len(deferred_q') = Len(deferred_q) - 1
          /\ Len(deferred_q) >= 1
          /\ Head(deferred_q) = deferred_q[1]
          /\ \A i \in 1..(Len(deferred_q) - 1) : deferred_q'[i] = deferred_q[i + 1]
      BY <1>2, <1>t, <1>e, QueueElements DEF HandleReply
    <2>2. GrantsInQueue'
      <3> SUFFICES ASSUME NEW i \in 1..Len(deferred_q'), deferred_q'[i] = "RSRC_GRANTED", nif' # "open"
                   PROVE  \E j \in (i+1)..Len(deferred_q') : deferred_q'[j] = "RSRC_RELEASED"
        BY DEF GrantsInQueue
      <3>1. PICK j \in (i+2)..Len(deferred_q) : deferred_q[j] = "RSRC_RELEASED"
        BY <2>1, <1>t DEF GrantsInQueue
      <3>2. j - 1 \in (i+1)..Len(deferred_q') /\ deferred_q'[j - 1] = deferred_q[j]
        BY <2>1, <1>t
      <3> QED
        BY <3>1, <3>2
    <2>3. GrantIsReal'
      <3> SUFFICES ASSUME mStatePtr' = "Acquired", nif' # "open"
                   PROVE  \E i \in 1..Len(deferred_q') : deferred_q'[i] = "RSRC_RELEASED"
        BY DEF GrantIsReal
      <3>1. deferred_q[1] # "RSRC_RELEASED"
        BY <1>2, <2>1, AcquiredEndsOnRelease
      <3>2. PICK j \in 2..Len(deferred_q) : deferred_q[j] = "RSRC_RELEASED"
        <4>1. CASE mStatePtr = "Acquired"
          BY <4>1, <3>1, <2>1, <1>t DEF GrantIsReal
        <4>2. CASE mStatePtr # "Acquired"
          <5>1. deferred_q[1] = "RSRC_GRANTED"
            BY <4>2, <2>1, AcquiredByGrant
          <5> QED
            BY <5>1, <2>1, <1>t DEF GrantsInQueue
        <4> QED
          BY <4>1, <4>2
      <3>3. j - 1 \in 1..Len(deferred_q') /\ deferred_q'[j - 1] = deferred_q[j]
        BY <2>1, <1>t
      <3> QED
        BY <3>2, <3>3
    <2> QED
      BY <2>2, <2>3
  <1>3. CASE FrameworkStep
    <2>1. mStatePtr' = mStatePtr
      BY <1>3, FrameworkKeepsMachine
    <2>2. CASE deferred_q' = deferred_q /\ (nif = "open" => nif' = "open")
      BY <2>1, <2>2 DEF GrantsInQueue, GrantIsReal
    <2>3. ASSUME NEW e \in Events, deferred_q' = Append(deferred_q, e),
                 e = "RSRC_RELEASED" \/ (nif' = "open") \/ (nif # "open" /\ e = "RSRC_DENIED")
          PROVE  GrantsInQueue' /\ GrantIsReal'
      <3>1. /\ Len(deferred_q') = Len(deferred_q) + 1
            /\ \A i \in 1..Len(deferred_q) : deferred_q'[i] = deferred_q[i]
            /\ deferred_q'[Len(deferred_q) + 1] = e
        BY <2>3, <1>t, QueueElements
      <3>2. CASE nif' = "open"
        BY <3>2 DEF GrantsInQueue, GrantIsReal
      <3>3. CASE e = "RSRC_RELEASED"
        BY <3>1, <3>3, <1>t DEF GrantsInQueue, GrantIsReal
      <3>4. CASE nif # "open" /\ e = "RSRC_DENIED"
        BY <3>1, <3>4, <2>1, <1>t DEF GrantsInQueue, GrantIsReal
      <3> QED
        BY <2>3, <3>2, <3>3, <3>4
    <2>4. CASE AfwRequest
      <3>1. \/ deferred_q' = deferred_q /\ nif # "open"
            \/ deferred_q' = Append(deferred_q, "RSRC_GRANTED") /\ nif' = "open"
        BY <2>4 DEF AfwRequest, Reply
      <3> QED
        BY <3>1, <2>2, <2>3, <1>e
    <2>5. CASE AfwOpened
      BY <2>5, <2>3, <1>e DEF AfwOpened, Reply
    <2>6. CASE AfwOpenFailed
      BY <2>6, <2>3, <1>e DEF AfwOpenFailed, Reply
    <2>7. CASE AfwRelease
      <3>1. \/ deferred_q' = deferred_q /\ nif # "open"
            \/ deferred_q' = Append(deferred_q, "RSRC_RELEASED")
        BY <2>7 DEF AfwRelease, Reply
      <3> QED
        BY <3>1, <2>2, <2>3, <1>e
    <2>8. CASE AfwConnectionLost
      BY <2>8, <2>3, <1>e DEF AfwConnectionLost, Reply
    <2> QED
      BY <1>3, <2>4, <2>5, <2>6, <2>7, <2>8 DEF FrameworkStep
  <1>4. ASSUME NEW s \in Subscribers, ClientRequest(s) \/ ClientRelease(s)
        PROVE  UNCHANGED <<deferred_q, nif>>
    BY <1>4 DEF ClientRequest, ClientRelease
  <1>5. CASE EngineUp \/ UNCHANGED vars
    BY <1>1, <1>5 DEF EngineUp, vars
  <1> QED
    BY <1>1, <1>2, <1>3, <1>4, <1>5 DEF Next, FrameworkStep

(* A granted interface is open, or the report of its loss is queued: no    *)
(* client keeps a grant for an interface that is silently gone.            *)
THEOREM GrantsAreReal == Spec => []GrantIsReal
  BY InitGrant, GrantStep, TypeCorrect, PTL DEF Spec
-----------------------------------------------------------------------------
(* An answer for every pending request *)

Answers == {"RSRC_GRANTED", "RSRC_DENIED"}

(* The machine is Released at first. *)
LEMMA InitPending == Init => PendingIsServed
  BY DEF Init, MachineInit, PendingIsServed

(* A machine that stays or becomes Pending has its answer on the way. *)
LEMMA PendingStep == MachineInv /\ PendingIsServed /\ [Next]_vars => PendingIsServed'
  <1> SUFFICES ASSUME MachineInv, PendingIsServed, [Next]_vars, mStatePtr' = "Pending"
               PROVE  PendingIsServed'
    BY DEF PendingIsServed
  <1>t. /\ deferred_q \in Seq(Events) /\ Len(deferred_q) \in Nat
        /\ servicer \in Seq(Requests) /\ Len(servicer) \in Nat
        /\ mStatePtr \in {"Released", "Pending", "Acquired", "Releasing"}
    BY DEF MachineInv, TypeOK, MachineTypeOK, States
  <1>e. {"RSRC_GRANTED", "RSRC_RELEASED", "RSRC_DENIED"} = Events
    BY DEF Events
  <1>q. {"REQUEST_DATA_CONN", "RELEASE_DATA_CONN"} = Requests
    BY DEF Requests
  <1>1. CASE mStatePtr = "Pending" /\ UNCHANGED <<servicer, deferred_q, nif>>
    BY <1>1 DEF PendingIsServed
  <1>2. ASSUME NEW s \in Subscribers, ClientRequest(s) PROVE PendingIsServed'
    <2>1. CASE SubscribeRefused(s) \/ PendingSubscribe(s) \/ AcquiredSubscribe(s)
      BY <1>1, <1>2, <2>1 DEF ClientRequest, SubscribeRefused, PendingSubscribe, AcquiredSubscribe
    <2>2. CASE ReleasedSubscribe(s)
      <3>1. servicer' = Append(servicer, "REQUEST_DATA_CONN")
        BY <2>2, ReleasingShape DEF ReleasedSubscribe, sendRsrcRequest, active
      <3>2. servicer' # <<>> /\ servicer'[Len(servicer')] = "REQUEST_DATA_CONN"
        BY <3>1, <1>t, <1>q, QueueElements
      <3> QED
        BY <3>2 DEF PendingIsServed
    <2> QED
      BY <1>2, <2>1, <2>2 DEF ClientRequest, subscribeRsrc
  <1>3. ASSUME NEW s \in Subscribers, ClientRelease(s) PROVE PendingIsServed'
    BY <1>1, <1>3 DEF ClientRelease, unsubscribeRsrc, UnsubscribeWait, UnsubscribeNotify, AfterUnsubscribe
  <1>4. CASE HandleReply
    <2> DEFINE e == Head(deferred_q)
    <2>1. ~(PendingGranted(e) \/ PendingDenied(e) \/ AcquiredReleased(e))
      BY DEF PendingGranted, PendingDenied, AcquiredReleased, BroadcastAllAndDelete
    <2>2. ~ReleasingClosed(e)
      BY ReleasingShape DEF ReleasingClosed, forMe
    <2>3. /\ mStatePtr = "Pending" /\ e = "RSRC_RELEASED" /\ UNCHANGED <<servicer, nif>>
      BY <1>4, <2>1, <2>2 DEF HandleReply, onRsrcEvent, EventIgnored, machineVars
    <2>4. /\ Len(deferred_q') = Len(deferred_q) - 1 /\ Len(deferred_q) >= 1
          /\ deferred_q[1] = "RSRC_RELEASED"
          /\ \A i \in 1..(Len(deferred_q) - 1) : deferred_q'[i] = deferred_q[i + 1]
      BY <1>4, <1>t, <1>e, <2>3, QueueElements DEF HandleReply
    <2>5. CASE \E i \in 1..Len(deferred_q) : deferred_q[i] \in Answers
      <3>1. PICK i \in 2..Len(deferred_q) : deferred_q[i] \in Answers
        BY <2>4, <2>5, <1>t DEF Answers
      <3>2. i - 1 \in 1..Len(deferred_q') /\ deferred_q'[i - 1] \in Answers
        BY <3>1, <2>4, <1>t
      <3> QED
        BY <3>2 DEF PendingIsServed, Answers
    <2> QED
      BY <2>3, <2>5 DEF PendingIsServed, Answers
  <1>5. CASE EngineUp \/ UNCHANGED vars
    BY <1>1, <1>5 DEF EngineUp, dropAllSubscribers, vars, machineVars
  <1>6. CASE FrameworkStep
    <2>1. mStatePtr = "Pending"
      BY <1>6, FrameworkKeepsMachine
    <2>2. ASSUME NEW e \in Events, deferred_q' = Append(deferred_q, e)
          PROVE  /\ e \in Answers => PendingIsServed'
                 /\ (\E i \in 1..Len(deferred_q) : deferred_q[i] \in Answers) => PendingIsServed'
      <3>1. /\ Len(deferred_q') = Len(deferred_q) + 1
            /\ \A i \in 1..Len(deferred_q) : deferred_q'[i] = deferred_q[i]
            /\ deferred_q'[Len(deferred_q) + 1] = e
        BY <2>2, <1>t, QueueElements
      <3>2. ASSUME e \in Answers PROVE PendingIsServed'
        BY <3>1, <3>2, <1>t DEF PendingIsServed, Answers
      <3>3. ASSUME NEW i \in 1..Len(deferred_q), deferred_q[i] \in Answers PROVE PendingIsServed'
        <4>1. i \in 1..Len(deferred_q') /\ deferred_q'[i] \in Answers
          BY <3>1, <3>3, <1>t
        <4> QED
          BY <4>1 DEF PendingIsServed, Answers
      <3> QED
        BY <3>2, <3>3
    <2>3. CASE AfwOpened \/ AfwOpenFailed
      BY <2>3, <2>2, <1>e DEF AfwOpened, AfwOpenFailed, Reply, Answers
    <2>4. CASE AfwConnectionLost
      <3>1. deferred_q' = Append(deferred_q, "RSRC_RELEASED") /\ nif = "open" /\ servicer' = servicer
        BY <2>4 DEF AfwConnectionLost, Reply, machineVars
      <3>2. CASE \E i \in 1..Len(deferred_q) : deferred_q[i] \in Answers
        BY <3>1, <3>2, <2>2, <1>e
      <3> QED
        BY <3>1, <3>2, <2>1 DEF PendingIsServed, Answers
    <2>5. ASSUME servicer # <<>>, servicer' = Tail(servicer)
          PROVE  /\ servicer' # <<>> => servicer'[Len(servicer')] = servicer[Len(servicer)]
                 /\ servicer' = <<>> => Head(servicer) = servicer[Len(servicer)]
      <3>1. /\ Len(servicer) >= 1 /\ Len(servicer') = Len(servicer) - 1
            /\ Head(servicer) = servicer[1]
            /\ \A i \in 1..(Len(servicer) - 1) : servicer'[i] = servicer[i + 1]
        BY <2>5, <1>t, <1>q, QueueElements
      <3>2. servicer' \in Seq(Requests)
        BY <2>5, <1>t, QueueTypes
      <3>3. CASE Len(servicer) = 1
        BY <3>1, <3>2, <3>3
      <3>4. CASE Len(servicer) > 1
        BY <3>1, <3>2, <3>4, <1>t
      <3> QED
        BY <3>1, <3>3, <3>4, <1>t
    <2>6. CASE AfwRequest
      <3>1. servicer # <<>> /\ servicer' = Tail(servicer)
        BY <2>6 DEF AfwRequest
      <3>2. CASE deferred_q' = Append(deferred_q, "RSRC_GRANTED")
        BY <3>2, <2>2, <1>e DEF Answers
      <3>3. CASE deferred_q' = deferred_q /\ nif' = "opening"
        BY <3>1, <3>3, <2>1, <2>5 DEF PendingIsServed
      <3> QED
        BY <2>6, <3>2, <3>3 DEF AfwRequest, Reply
    <2>7. CASE AfwRelease
      <3>1. servicer # <<>> /\ servicer' = Tail(servicer) /\ Head(servicer) = "RELEASE_DATA_CONN"
        BY <2>7 DEF AfwRelease
      <3>2. CASE \E i \in 1..Len(deferred_q) : deferred_q[i] \in Answers
        <4>1. CASE deferred_q' = deferred_q
          BY <3>2, <4>1 DEF PendingIsServed, Answers
        <4>2. CASE deferred_q' = Append(deferred_q, "RSRC_RELEASED")
          BY <3>2, <4>2, <2>2, <1>e
        <4> QED
          BY <2>7, <4>1, <4>2 DEF AfwRelease, Reply
      <3>3. CASE servicer[Len(servicer)] = "REQUEST_DATA_CONN"
        BY <3>1, <3>3, <2>5 DEF PendingIsServed
      <3> QED
        BY <3>1, <3>2, <3>3, <2>1 DEF PendingIsServed, Answers
    <2> QED
      BY <1>6, <2>3, <2>4, <2>6, <2>7 DEF FrameworkStep
  <1> QED
    BY <1>2, <1>3, <1>4, <1>5, <1>6 DEF Next, FrameworkStep

(* A Pending machine always has its answer on the way: no interleaving of  *)
(* clients, modem restarts and late answers leaves subscribers waiting for *)
(* a request nobody is working on.                                         *)
THEOREM PendingServed == Spec => []PendingIsServed
  BY InitPending, PendingStep, MachineInvariant, PTL DEF Spec
-----------------------------------------------------------------------------
(* The close of who waits for it *)

(* The events that end a release *)
Closes == {"RSRC_RELEASED", "RSRC_DENIED"}
LastOf(q) == q[Len(q)]

(* A machine that wants the interface asked for it last. *)
AskedLast ==
    mStatePtr \in {"Pending", "Acquired"} /\ servicer # <<>> =>
        LastOf(servicer) = "REQUEST_DATA_CONN"

(* An interface that is closed under a request has said so at the end. *)
ClosedIsReported ==
    mStatePtr = "Pending" /\ servicer = <<>> /\ nif = "closed" =>
        deferred_q # <<>> /\ LastOf(deferred_q) \in Closes

(* Both are needed when the last active subscriber leaves: the release     *)
(* that is sent then must not meet a closed interface in silence.          *)
ClosingInv == AskedLast /\ ClosedIsReported /\ ClosingIsServed

(* The end of a queue that is read and extended. *)
LEMMA QueueEnds ==
  ASSUME NEW S, NEW q \in Seq(S), NEW e \in S
  PROVE  /\ Append(q, e) # <<>> /\ Append(q, e) \in Seq(S) /\ LastOf(Append(q, e)) = e
         /\ q # <<>> => Append(q, e)[Len(Append(q, e)) - 1] = LastOf(q)
         /\ q = <<>> => Len(Append(q, e)) = 1
         /\ q # <<>> => /\ Len(q) \in Nat \ {0}
                        /\ Len(Append(q, e)) # 1
                        /\ Tail(q) \in Seq(S) /\ Len(Tail(q)) = Len(q) - 1
                        /\ Tail(q) = <<>> <=> Len(q) = 1
                        /\ Len(q) = 1 => LastOf(q) = Head(q)
                        /\ Len(q) = 2 => q[Len(q) - 1] = Head(q)
                        /\ Len(q) > 1 => LastOf(Tail(q)) = LastOf(q)
                        /\ Len(q) > 2 => Tail(q)[Len(Tail(q)) - 1] = q[Len(q) - 1]
  <1>1. /\ Append(q, e) # <<>> /\ Append(q, e) \in Seq(S) /\ LastOf(Append(q, e)) = e
        /\ q = <<>> => Len(Append(q, e)) = 1
    <2>1. Len(Append(q, e)) = Len(q) + 1 /\ Append(q, e)[Len(q) + 1] = e
      OBVIOUS
    <2>2. Append(q, e) # <<>> /\ Append(q, e) \in Seq(S)
      OBVIOUS
    <2>3. q = <<>> => Len(q) = 0
      OBVIOUS
    <2> QED
      BY <2>1, <2>2, <2>3 DEF LastOf
  <1>2. ASSUME q # <<>>
        PROVE  /\ Append(q, e)[Len(Append(q, e)) - 1] = LastOf(q)
               /\ Len(q) \in Nat \ {0} /\ Len(Append(q, e)) # 1
    BY <1>2 DEF LastOf
  <1>3. ASSUME q # <<>>
        PROVE  /\ Tail(q) \in Seq(S) /\ Len(Tail(q)) = Len(q) - 1
               /\ Tail(q) = <<>> <=> Len(q) = 1
               /\ Head(q) = q[1]
               /\ \A i \in 1..(Len(q) - 1) : Tail(q)[i] = q[i + 1]
    <2>1. Tail(q) \in Seq(S) /\ Len(q) \in Nat \ {0}
      BY <1>3
    <2>2. Len(Tail(q)) = Len(q) - 1
      BY <1>3
    <2>3. \A t \in Seq(S) : t = <<>> <=> Len(t) = 0
      OBVIOUS
    <2>4. Tail(q) = <<>> <=> Len(q) = 1
      BY <2>1, <2>2, <2>3
    <2>5. \A i \in 1..(Len(q) - 1) : Tail(q)[i] = q[i + 1]
      BY <1>3
    <2>6. Head(q) = q[1]
      OBVIOUS
    <2> QED
      BY <2>1, <2>2, <2>4, <2>5, <2>6
  <1>4. ASSUME q # <<>>
        PROVE  /\ Len(q) = 1 => LastOf(q) = Head(q)
               /\ Len(q) = 2 => q[Len(q) - 1] = Head(q)
               /\ Len(q) > 1 => LastOf(Tail(q)) = LastOf(q)
               /\ Len(q) > 2 => Tail(q)[Len(Tail(q)) - 1] = q[Len(q) - 1]
    <2>0. Tail(q) \in Seq(S) /\ Len(q) \in Nat
      BY <1>3, <1>4
    <2>1. PICK n \in Nat, t \in Seq(S) : n = Len(q) /\ t = Tail(q)
      BY <2>0, Zenon
    <2>2. Len(t) = n - 1 /\ \A i \in 1..(n - 1) : t[i] = q[i + 1]
      BY <1>3, <1>4, <2>1
    <2>3. n > 1 => n - 1 \in 1..(n - 1) /\ t[n - 1] = q[n]
      <3>1. ASSUME n > 1 PROVE n - 1 \in 1..(n - 1) /\ (n - 1) + 1 = n
        BY <3>1
      <3> QED
        BY <2>2, <3>1
    <2>4. n > 2 => t[(n - 1) - 1] = q[n - 1]
      <3>1. ASSUME n > 2 PROVE (n - 1) - 1 \in 1..(n - 1) /\ ((n - 1) - 1) + 1 = n - 1
        BY <3>1
      <3> QED
        BY <2>2, <3>1
    <2>5. Len(q) = 1 => LastOf(q) = Head(q)
      BY <1>3, <1>4 DEF LastOf
    <2>6. Len(q) = 2 => q[Len(q) - 1] = Head(q)
      BY <1>3, <1>4
    <2> QED
      BY <2>1, <2>2, <2>3, <2>4, <2>5, <2>6 DEF LastOf
  <1> QED
    BY <1>1, <1>2, <1>3, <1>4

(* The machine is Released at first. *)
LEMMA InitClosing == Init => ClosingInv
  BY DEF Init, MachineInit, ClosingInv, AskedLast, ClosedIsReported, ClosingIsServed

(* Every step keeps the close on its way. *)
LEMMA ClosingStep ==
  MachineInv /\ PendingIsServed /\ GrantIsReal /\ ClosingInv /\ [Next]_vars => ClosingInv'
  <1> SUFFICES ASSUME MachineInv, PendingIsServed, GrantIsReal, ClosingInv, [Next]_vars
               PROVE  ClosingInv'
    OBVIOUS
  <1>t. /\ deferred_q \in Seq(Events) /\ Len(deferred_q) \in Nat
        /\ servicer \in Seq(Requests) /\ Len(servicer) \in Nat
        /\ mStatePtr \in {"Released", "Pending", "Acquired", "Releasing"}
        /\ nif \in {"closed", "opening", "open"}
    BY DEF MachineInv, TypeOK, MachineTypeOK, States
  <1>e. {"RSRC_GRANTED", "RSRC_RELEASED", "RSRC_DENIED"} = Events
    BY DEF Events
  <1>q. {"REQUEST_DATA_CONN", "RELEASE_DATA_CONN"} = Requests
    BY DEF Requests
  <1>i. AskedLast /\ ClosedIsReported /\ ClosingIsServed
    BY DEF ClosingInv
  <1> DEFINE Reported(q) == \E i \in 1..Len(q) : q[i] \in Closes
  <1>0. CASE UNCHANGED <<mStatePtr, servicer, deferred_q, nif>>
    BY <1>0, <1>i DEF ClosingInv, AskedLast, ClosedIsReported, ClosingIsServed
  <1>r. ASSUME mStatePtr' = "Released" PROVE ClosingInv'
    BY <1>r DEF ClosingInv, AskedLast, ClosedIsReported, ClosingIsServed
  <1>1. ASSUME NEW s \in Subscribers, ClientRequest(s) PROVE ClosingInv'
    <2>1. CASE SubscribeRefused(s) \/ PendingSubscribe(s) \/ AcquiredSubscribe(s)
      BY <1>0, <1>1, <2>1 DEF ClientRequest, SubscribeRefused, PendingSubscribe, AcquiredSubscribe
    <2>2. CASE ReleasedSubscribe(s)
      <3>1. servicer' = Append(servicer, "REQUEST_DATA_CONN") /\ mStatePtr' = "Pending"
        BY <2>2, ReleasingShape DEF ReleasedSubscribe, sendRsrcRequest, active
      <3>2. servicer' # <<>> /\ LastOf(servicer') = "REQUEST_DATA_CONN"
        BY <3>1, <1>t, <1>q, QueueEnds
      <3> QED
        BY <3>1, <3>2 DEF ClosingInv, AskedLast, ClosedIsReported, ClosingIsServed, LastOf
    <2> QED
      BY <1>1, <2>1, <2>2 DEF ClientRequest, subscribeRsrc
  <1>2. ASSUME NEW s \in Subscribers, ClientRelease(s) PROVE ClosingInv'
    <2>1. /\ UNCHANGED <<deferred_q, nif>> /\ mStatePtr # "Released"
          /\ AfterUnsubscribe(mSubscribers', inactive')
      BY <1>2 DEF ClientRelease, unsubscribeRsrc, UnsubscribeWait, UnsubscribeNotify
    <2>2. CASE mStatePtr' = mStatePtr
      <3>1. servicer' = servicer
        BY <2>1, <2>2 DEF AfterUnsubscribe
      <3> QED
        BY <1>0, <2>1, <2>2, <3>1
    <2>3. CASE mStatePtr' = "Releasing" /\ mStatePtr # "Releasing"
      <3>1. /\ mStatePtr \in {"Pending", "Acquired"}
            /\ servicer' = Append(servicer, "RELEASE_DATA_CONN")
        BY <1>t, <2>1, <2>3 DEF AfterUnsubscribe, sendRsrcRequest
      <3>2. servicer' # <<>> /\ LastOf(servicer') = "RELEASE_DATA_CONN"
        BY <3>1, <1>t, <1>q, QueueEnds
      <3>3. CASE servicer # <<>>
        <4>1. /\ Len(servicer') # 1
              /\ servicer'[Len(servicer') - 1] = "REQUEST_DATA_CONN"
          BY <3>1, <3>3, <1>i, <1>t, <1>q, QueueEnds DEF AskedLast
        <4> QED
          BY <2>3, <3>2, <4>1 DEF ClosingInv, AskedLast, ClosedIsReported, ClosingIsServed, LastOf
      <3>4. CASE servicer = <<>>
        <4>1. Len(servicer') = 1
          BY <3>1, <3>4, <1>t, <1>q, QueueEnds
        <4>2. nif # "closed" \/ Reported(deferred_q)
          <5>1. CASE mStatePtr = "Pending"
            <6>1. deferred_q # <<>> => Len(deferred_q) \in 1..Len(deferred_q)
              BY <1>t
            <6> QED
              BY <3>4, <5>1, <6>1, <1>i DEF ClosedIsReported, LastOf
          <5>2. CASE mStatePtr = "Acquired"
            BY <5>2 DEF GrantIsReal, Closes
          <5> QED
            BY <3>1, <5>1, <5>2
        <4> QED
          BY <2>1, <2>3, <3>2, <4>1, <4>2
             DEF ClosingInv, AskedLast, ClosedIsReported, ClosingIsServed, LastOf, Closes
      <3> QED
        BY <3>3, <3>4
    <2> QED
      BY <1>r, <2>1, <2>2, <2>3 DEF AfterUnsubscribe
  <1>3. CASE HandleReply
    <2>1. PICK e \in Events : e = Head(deferred_q)
      BY <1>3, <1>t DEF HandleReply
    <2>2. /\ deferred_q # <<>> /\ deferred_q' = Tail(deferred_q) /\ nif' = nif /\ onRsrcEvent(e)
      BY <1>3, <2>1 DEF HandleReply
    <2>3. /\ Len(deferred_q') = Len(deferred_q) - 1 /\ Len(deferred_q) >= 1 /\ e = deferred_q[1]
          /\ \A i \in 1..(Len(deferred_q) - 1) : deferred_q'[i] = deferred_q[i + 1]
      BY <2>1, <2>2, <1>t, <1>e, QueueElements
    <2>4. CASE PendingGranted(e)
      BY <2>4, <1>i DEF PendingGranted, ClosingInv, AskedLast, ClosedIsReported, ClosingIsServed
    <2>5. CASE PendingDenied(e) \/ AcquiredReleased(e)
      BY <2>5, <1>r DEF PendingDenied, AcquiredReleased, BroadcastAllAndDelete
    <2>6. CASE ReleasingClosed(e)
      BY <2>6, <1>r, ReleasingShape DEF ReleasingClosed, forMe
    <2>7. CASE EventIgnored(e)
      <3>1. /\ UNCHANGED <<mStatePtr, servicer>>
            /\ mStatePtr = "Pending" => e = "RSRC_RELEASED"
            /\ mStatePtr = "Releasing" => e = "RSRC_GRANTED"
        BY <2>7 DEF EventIgnored, machineVars
      <3>2. AskedLast'
        BY <3>1, <1>i DEF AskedLast
      <3>3. ClosedIsReported'
        <4> SUFFICES ASSUME mStatePtr = "Pending", servicer = <<>>, nif = "closed"
                     PROVE  deferred_q' # <<>> /\ LastOf(deferred_q') \in Closes
          BY <2>2, <3>1 DEF ClosedIsReported
        <4>1. PICK i \in 1..Len(deferred_q) : deferred_q[i] \in Answers
          BY DEF PendingIsServed, Answers
        <4>2. i # 1
          BY <4>1, <2>3, <3>1 DEF Answers
        <4>3. Len(deferred_q) > 1
          BY <4>2, <1>t
        <4>4. deferred_q' # <<>> /\ LastOf(deferred_q') = LastOf(deferred_q)
          BY <4>3, <2>2, <1>t, <1>e, QueueEnds
        <4> QED
          BY <4>4, <1>i DEF ClosedIsReported
      <3>4. ClosingIsServed'
        <4> SUFFICES ASSUME mStatePtr = "Releasing", Reported(deferred_q)
                     PROVE  Reported(deferred_q')
          BY <2>2, <3>1, <1>i DEF ClosingIsServed, Closes
        <4>1. PICK i \in 1..Len(deferred_q) : deferred_q[i] \in Closes
          OBVIOUS
        <4>2. i - 1 \in 1..Len(deferred_q') /\ deferred_q'[i - 1] = deferred_q[i]
          <5>1. i # 1
            BY <4>1, <2>3, <3>1 DEF Closes
          <5> QED
            BY <5>1, <2>3, <1>t
        <4> QED
          BY <4>1, <4>2
      <3> QED
        BY <3>2, <3>3, <3>4 DEF ClosingInv
    <2> QED
      BY <2>2, <2>4, <2>5, <2>6, <2>7 DEF onRsrcEvent
  <1>4. CASE EngineUp
    BY <1>0, <1>4 DEF EngineUp, dropAllSubscribers
  <1>5. CASE FrameworkStep
    <2>1. mStatePtr' = mStatePtr
      BY <1>5, FrameworkKeepsMachine
    <2>2. ASSUME NEW e \in Events, deferred_q' = Append(deferred_q, e)
          PROVE  /\ deferred_q' # <<>> /\ LastOf(deferred_q') = e
                 /\ e \in Closes => Reported(deferred_q')
                 /\ Reported(deferred_q) => Reported(deferred_q')
      <3>1. /\ Len(deferred_q') = Len(deferred_q) + 1
            /\ \A i \in 1..Len(deferred_q) : deferred_q'[i] = deferred_q[i]
            /\ deferred_q'[Len(deferred_q) + 1] = e
        BY <2>2, <1>t, QueueElements
      <3>2. Len(deferred_q') \in 1..Len(deferred_q') /\ LastOf(deferred_q') = e
        BY <3>1, <1>t DEF LastOf
      <3>3. ASSUME NEW i \in 1..Len(deferred_q), deferred_q[i] \in Closes
            PROVE  Reported(deferred_q')
        <4>1. i \in 1..Len(deferred_q') /\ deferred_q'[i] \in Closes
          BY <3>1, <3>3, <1>t
        <4> QED
          BY <4>1
      <3>4. deferred_q' # <<>>
        BY <2>2, <1>t, QueueEnds
      <3> QED
        BY <3>2, <3>3, <3>4 DEF LastOf
    <2>3. CASE AfwOpened
      <3>1. /\ deferred_q' = Append(deferred_q, "RSRC_GRANTED") /\ nif' = "open"
            /\ UNCHANGED servicer
        BY <2>3 DEF AfwOpened, Reply, machineVars
      <3>2. Reported(deferred_q) => Reported(deferred_q')
        BY <3>1, <2>2, <1>e
      <3> QED
        BY <3>1, <3>2, <2>1, <1>i
           DEF ClosingInv, AskedLast, ClosedIsReported, ClosingIsServed, Closes
    <2>4. CASE AfwOpenFailed \/ AfwConnectionLost
      <3>1. PICK e \in Closes : deferred_q' = Append(deferred_q, e) /\ UNCHANGED servicer
        BY <2>4 DEF AfwOpenFailed, AfwConnectionLost, Reply, machineVars, Closes
      <3>2. deferred_q' # <<>> /\ LastOf(deferred_q') = e /\ Reported(deferred_q')
        BY <3>1, <2>2, <1>e DEF Closes
      <3> QED
        BY <3>1, <3>2, <2>1, <1>i
           DEF ClosingInv, AskedLast, ClosedIsReported, ClosingIsServed, Closes
    <2>5. ASSUME servicer # <<>>, servicer' = Tail(servicer)
          PROVE  /\ AskedLast'
                 /\ servicer' = <<>> => Len(servicer) = 1 /\ LastOf(servicer) = Head(servicer)
      <3>1. servicer' = <<>> => Len(servicer) = 1 /\ LastOf(servicer) = Head(servicer)
        BY <2>5, <1>t, <1>q, QueueEnds
      <3>2. servicer' # <<>> => LastOf(servicer') = LastOf(servicer)
        <4>1. servicer' # <<>> => Len(servicer) > 1
          BY <2>5, <1>t, <1>q, QueueEnds
        <4> QED
          BY <4>1, <2>5, <1>t, <1>q, QueueEnds
      <3> QED
        BY <3>1, <3>2, <2>1, <2>5, <1>i DEF AskedLast
    <2>6. CASE AfwRequest
      <3>1. /\ servicer # <<>> /\ servicer' = Tail(servicer) /\ Head(servicer) = "REQUEST_DATA_CONN"
            /\ nif' # "closed"
        BY <2>6 DEF AfwRequest
      <3>2. Reported(deferred_q) => Reported(deferred_q')
        BY <2>6, <2>2, <1>e DEF AfwRequest, Reply
      <3>3. ClosingIsServed'
        <4> SUFFICES ASSUME mStatePtr = "Releasing", ~Reported(deferred_q)
                     PROVE  ClosingIsServed'
          BY <3>2, <2>1 DEF ClosingIsServed, Closes
        <4>1. /\ LastOf(servicer) = "RELEASE_DATA_CONN"
              /\ Len(servicer) # 1 => servicer[Len(servicer) - 1] = "REQUEST_DATA_CONN"
          BY <1>i DEF ClosingIsServed, Closes, LastOf
        <4>2. Len(servicer) > 1 /\ servicer' # <<>> /\ LastOf(servicer') = LastOf(servicer)
          BY <3>1, <4>1, <1>t, <1>q, QueueEnds
        <4>3. Len(servicer') = 1 \/ servicer'[Len(servicer') - 1] = "REQUEST_DATA_CONN"
          <5>1. CASE Len(servicer) = 2
            BY <5>1, <3>1, <1>t, <1>q, QueueEnds
          <5>2. CASE Len(servicer) > 2
            <6>1. servicer'[Len(servicer') - 1] = servicer[Len(servicer) - 1]
              BY <5>2, <3>1, <1>t, <1>q, QueueEnds
            <6> QED
              BY <5>2, <4>1, <6>1
          <5>3. \A n \in Nat : n > 1 => n = 2 \/ n > 2
            OBVIOUS
          <5>4. Len(servicer) \in Nat /\ Len(servicer) > 1
            BY <4>2, <1>t, Zenon
          <5> QED
            BY <5>1, <5>2, <5>3, <5>4, Zenon
        <4> QED
          BY <3>1, <4>1, <4>2, <4>3 DEF ClosingIsServed, LastOf
      <3> QED
        BY <3>1, <3>3, <2>5 DEF ClosingInv, ClosedIsReported
    <2>7. CASE AfwRelease
      <3>1. /\ servicer # <<>> /\ servicer' = Tail(servicer) /\ Head(servicer) = "RELEASE_DATA_CONN"
            /\ \/ deferred_q' = Append(deferred_q, "RSRC_RELEASED")
               \/ nif = "closed" /\ deferred_q' = deferred_q
        BY <2>7 DEF AfwRelease, Reply
      <3>2. Reported(deferred_q) => Reported(deferred_q')
        BY <3>1, <2>2, <1>e
      <3>3. ClosedIsReported'
        BY <3>1, <2>1, <2>5, <1>i DEF ClosedIsReported, AskedLast
      <3>4. ClosingIsServed'
        <4> SUFFICES ASSUME mStatePtr = "Releasing", ~Reported(deferred_q')
                     PROVE  ClosingIsServed'
          BY <2>1 DEF ClosingIsServed, Closes
        <4>0. ~Reported(deferred_q) /\ nif = "closed"
          BY <3>1, <3>2, <2>2, <1>e DEF Closes
        <4>1. /\ LastOf(servicer) = "RELEASE_DATA_CONN"
              /\ Len(servicer) # 1 /\ servicer[Len(servicer) - 1] = "REQUEST_DATA_CONN"
          BY <4>0, <1>i DEF ClosingIsServed, Closes, LastOf
        <4>2. Len(servicer) > 2
          BY <3>1, <4>1, <1>t, <1>q, QueueEnds
        <4>3. /\ servicer' # <<>> /\ LastOf(servicer') = LastOf(servicer)
              /\ servicer'[Len(servicer') - 1] = "REQUEST_DATA_CONN" /\ Len(servicer') # 1
          BY <3>1, <4>1, <4>2, <1>t, <1>q, QueueEnds
        <4> QED
          BY <4>1, <4>3 DEF ClosingIsServed, LastOf
      <3> QED
        BY <3>1, <3>3, <3>4, <2>5 DEF ClosingInv
    <2> QED
      BY <1>5, <2>3, <2>4, <2>6, <2>7 DEF FrameworkStep
  <1>6. CASE UNCHANGED vars
    BY <1>0, <1>6 DEF vars, machineVars
  <1> QED
    BY <1>1, <1>2, <1>3, <1>4, <1>5, <1>6 DEF Next, FrameworkStep

(* The close of a subscriber that waits for it is always on its way: no    *)
(* crossing of a denial, a loss and a release makes the framework swallow  *)
(* the release and the machine stay in Releasing.                          *)
THEOREM ClosingServed == Spec => []ClosingIsServed
  <1>1. ClosingInv => ClosingIsServed
    BY DEF ClosingInv
  <1> QED
    BY <1>1, InitClosing, ClosingStep, MachineInvariant, PendingServed, GrantsAreReal, PTL DEF Spec
-----------------------------------------------------------------------------
(* What a call of the machine tells whom *)

(* A request changes the status of the client that made it only: it is     *)
(* refused, granted at once, or waits.                                     *)
LEMMA RequestTells ==
  ASSUME MachineInv, NEW s \in Subscribers, ClientRequest(s)
  PROVE  /\ \A t \in Subscribers \ {s} : client'[t] = client[t]
         /\ client[s] = "none" =>
                client'[s] = IF refused THEN "none"
                             ELSE IF mStatePtr = "Acquired" THEN "granted" ELSE "waiting"
  <1> USE DEF MachineInv, TypeOK, MachineTypeOK
  <1>1. CASE SubscribeRefused(s)
    <2>1. client[s] = "none" => s \notin mSubscribers
      BY DEF ClientsAgree
    <2> QED
      BY <1>1, <2>1 DEF SubscribeRefused
  <1>2. CASE ReleasedSubscribe(s) \/ PendingSubscribe(s)
    BY <1>2 DEF ReleasedSubscribe, PendingSubscribe
  <1>3. CASE AcquiredSubscribe(s)
    BY <1>3 DEF AcquiredSubscribe, notifyRsrcStatus
  <1> QED
    BY <1>1, <1>2, <1>3 DEF ClientRequest, subscribeRsrc

(* A release ends the subscription at once, or starts the close.           *)
LEMMA ReleaseTells ==
  ASSUME MachineInv, NEW s \in Subscribers, ClientRelease(s)
  PROVE  /\ \A t \in Subscribers \ {s} : client'[t] = client[t]
         /\ client'[s] = IF s \in WaitForClose THEN "closing" ELSE "none"
  <1> USE DEF MachineInv, TypeOK, MachineTypeOK
  <1>1. CASE UnsubscribeWait(s)
    BY <1>1 DEF UnsubscribeWait
  <1>2. CASE UnsubscribeNotify(s)
    BY <1>2 DEF UnsubscribeNotify, notifyRsrcStatus
  <1> QED
    BY <1>1, <1>2 DEF ClientRelease, unsubscribeRsrc

(* A reply tells the subscriber of a list that has one only, and tells it  *)
(* what its status allows.                                                 *)
LEMMA ReplyTells ==
  ASSUME MachineInv, HandleReply, \A s, t \in mSubscribers : s = t
  PROVE  \/ client' = client
         \/ \E s \in mSubscribers :
               /\ \A t \in Subscribers \ {s} : client'[t] = client[t]
               /\ \/ /\ client[s] = "waiting" /\ client'[s] = "granted"
                     /\ Head(deferred_q) = "RSRC_GRANTED"
                  \/ /\ client[s] = "waiting" /\ client'[s] = "none"
                     /\ Head(deferred_q) = "RSRC_DENIED"
                  \/ /\ client[s] = "granted" /\ client'[s] = "none"
                     /\ Head(deferred_q) = "RSRC_RELEASED"
                  \/ /\ client[s] = "closing" /\ client'[s] = "none"
                     /\ Head(deferred_q) \in {"RSRC_RELEASED", "RSRC_DENIED"}
                  \/ /\ client[s] = "denied" /\ client'[s] = "granted"
                     /\ Head(deferred_q) = "RSRC_GRANTED"
                  \/ /\ client[s] = "denied" /\ client'[s] = "none"
                     /\ Head(deferred_q) \in {"RSRC_RELEASED", "RSRC_DENIED"}
  <1> DEFINE e == Head(deferred_q)
  <1>t. /\ mSubscribers \subseteq Subscribers /\ inactive \subseteq mSubscribers
        /\ client \in [Subscribers -> ClientStatus]
    BY DEF MachineInv, TypeOK, MachineTypeOK
  <1>a. /\ \A s \in inactive : client[s] \in {"closing", "denied"}
        /\ \A s \in mSubscribers \ inactive :
               client[s] \in {IF mStatePtr = "Pending" THEN "waiting" ELSE "granted", "denied"}
        /\ mStatePtr = "Releasing" <=> inactive # {}
    BY <1>t DEF MachineInv, ClientsAgree, ReleasingOnlyInactive
  <1>b. ASSUME NEW told, told \subseteq mSubscribers, NEW status,
               client' = notifyRsrcStatus(told, status)
        PROVE  \/ client' = client
               \/ \E s \in told : /\ \A t \in Subscribers \ {s} : client'[t] = client[t]
                                  /\ client'[s] = IF status = "RSRC_GRANTED" THEN "granted" ELSE "none"
    <2>1. CASE told = {}
      BY <1>b, <1>t, <2>1 DEF notifyRsrcStatus
    <2>2. CASE told # {}
      <3>1. PICK s : s \in told
        BY <2>2
      <3>2. told = {s}
        BY <1>b, <3>1
      <3> QED
        BY <1>b, <1>t, <3>2 DEF notifyRsrcStatus
    <2> QED
      BY <2>1, <2>2
  <1>1. onRsrcEvent(e)
    BY DEF HandleReply
  <1>2. CASE PendingGranted(e)
    <2>1. mStatePtr = "Pending" /\ e = "RSRC_GRANTED"
          /\ client' = notifyRsrcStatus(mSubscribers \ inactive, e)
      BY <1>2 DEF PendingGranted, forMe, active
    <2> QED
      BY <2>1, <1>a, <1>b
  <1>3. CASE PendingDenied(e) \/ AcquiredReleased(e)
    <2>1. /\ client' = notifyRsrcStatus(mSubscribers, e)
          /\ \/ mStatePtr = "Pending" /\ e = "RSRC_DENIED"
             \/ mStatePtr = "Acquired" /\ e = "RSRC_RELEASED"
      BY <1>3 DEF PendingDenied, AcquiredReleased, BroadcastAllAndDelete, forMe
    <2>2. mSubscribers = mSubscribers \ inactive
      BY <2>1, <1>a
    <2> QED
      BY <2>1, <2>2, <1>a, <1>b
  <1>4. CASE ReleasingClosed(e)
    <2>1. /\ client' = notifyRsrcStatus(mSubscribers \cap inactive, e)
          /\ e \in {"RSRC_RELEASED", "RSRC_DENIED"}
      BY <1>4 DEF ReleasingClosed, forMe
    <2> QED
      BY <2>1, <1>a, <1>b
  <1>5. CASE EventIgnored(e)
    BY <1>5 DEF EventIgnored, machineVars
  <1> QED
    BY <1>1, <1>2, <1>3, <1>4, <1>5 DEF onRsrcEvent
=============================================================================
