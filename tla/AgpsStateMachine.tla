-------------------------- MODULE AgpsStateMachine --------------------------
(***************************************************************************)
(* The AGPS resource state machine (loc_eng_agps.cpp, loc_eng_agps.h).     *)
(* One instance of class AgpsStateMachine arbitrates one network interface *)
(* (NIF) between its subscribers: ATL clients on the modem, the BIT daemon *)
(* or, for Wi-Fi, the QUIPC and MSAPM daemons.  It is driven only from the *)
(* deferred action thread, so every call below is one atomic step.         *)
(*                                                                         *)
(* The subscriber list is a set: addSubscriber keeps it free of equal      *)
(* entries, and its order only selects the address that is copied into a   *)
(* request, which no property tells apart.                                 *)
(***************************************************************************)
EXTENDS Naturals, Sequences

CONSTANTS
    Subscribers,     \* identities of the clients that may subscribe (ID)
    WaitForClose,    \* those whose waitForCloseComplete() is true (Wi-Fi)
    EnforceSingle    \* mEnforceSingleSubscriber

(* loc_eng_agps_init builds three machines.  Only wifi_nif enforces a      *)
(* single subscriber, and only Wi-Fi subscribers wait for the close.       *)
ASSUME ConfigAssumption ==
    /\ Subscribers # {}
    /\ WaitForClose \subseteq Subscribers
    /\ EnforceSingle \in BOOLEAN
    /\ WaitForClose # {} => EnforceSingle /\ WaitForClose = Subscribers

VARIABLES
    mStatePtr,       \* the current AgpsState object
    mSubscribers,    \* the subscribers on the list
    inactive,        \* those with mIsInactive set
    servicer,        \* requests passed to mServicer, not yet seen by the framework
    client           \* history: what each subscriber was last told

machineVars == <<mStatePtr, mSubscribers, inactive, servicer, client>>

States == {"Released", "Pending", "Acquired", "Releasing"}
Requests == {"REQUEST_DATA_CONN", "RELEASE_DATA_CONN"}
Events == {"RSRC_GRANTED", "RSRC_RELEASED", "RSRC_DENIED"}

(* "none": no subscription open; "waiting": asked, not answered;           *)
(* "granted": told GRANTED; "closing": asked to close and waits for the    *)
(* close to complete; "denied": on the list, but told DENIED for a second  *)
(* request; "dropped": removed by a modem restart, not told.               *)
ClientStatus == {"none", "waiting", "granted", "closing", "denied", "dropped"}

-----------------------------------------------------------------------------
(* Helpers on the subscriber list *)

active(subs, inact) == subs \ inact

forMeSwapped(group, subs, inact) ==
    CASE group = "BROADCAST_ALL"      -> subs
      [] group = "BROADCAST_ACTIVE"   -> subs \cap inact
      [] group = "BROADCAST_INACTIVE" -> active(subs, inact)

(* The receivers of a broadcast. *)
forMe(group, subs, inact) ==
    CASE group = "BROADCAST_ALL"      -> subs
      [] group = "BROADCAST_ACTIVE"   -> active(subs, inact)
      [] group = "BROADCAST_INACTIVE" -> subs \cap inact

notifyRsrcStatus(receivers, status) ==
    [s \in Subscribers |->
        IF s \notin receivers THEN client[s]
        ELSE IF status = "RSRC_GRANTED" THEN "granted" ELSE "none"]

(* The action is forwarded only if it agrees with the list: a request when *)
(* somebody is active, a release when nobody is.                           *)
sendRsrcRequest(q, subs, inact, action) ==
    IF (active(subs, inact) = {}) = (action = "RELEASE_DATA_CONN")
    THEN Append(q, action)
    ELSE q

-----------------------------------------------------------------------------
(* subscribeRsrc *)

refused == EnforceSingle /\ mSubscribers # {}

(* A second subscriber of a single-subscriber machine is told DENIED and   *)
(* not added.  So is a client already on the list that asks again: it      *)
(* hears DENIED and stays listed.                                          *)
SubscribeRefused(s) ==
    /\ refused
    /\ client' = [client EXCEPT ![s] = IF s \in mSubscribers THEN "denied" ELSE "none"]
    /\ UNCHANGED <<mStatePtr, mSubscribers, inactive, servicer>>

SubscribeRequestsFirst(s) ==
    /\ ~refused
    /\ mStatePtr = "Released"
    /\ servicer' = sendRsrcRequest(servicer, mSubscribers, inactive, "REQUEST_DATA_CONN")
    /\ mSubscribers' = mSubscribers \cup {s}
    /\ mStatePtr' = "Pending"
    /\ client' = [client EXCEPT ![s] = "waiting"]
    /\ UNCHANGED inactive

(* AgpsReleasedState::onRsrcEvent(RSRC_SUBSCRIBE) *)
ReleasedSubscribe(s) ==
    /\ ~refused
    /\ mStatePtr = "Released"
    /\ mSubscribers' = mSubscribers \cup {s}
    /\ mStatePtr' = "Pending"
    /\ servicer' = sendRsrcRequest(servicer, mSubscribers', inactive, "REQUEST_DATA_CONN")
    /\ client' = [client EXCEPT ![s] = "waiting"]
    /\ UNCHANGED inactive

(* AgpsPendingState and AgpsReleasingState::onRsrcEvent(RSRC_SUBSCRIBE):   *)
(* the subscriber is listed and waits for the framework's answer.          *)
PendingSubscribe(s) ==
    /\ ~refused
    /\ mStatePtr \in {"Pending", "Releasing"}
    /\ mSubscribers' = mSubscribers \cup {s}
    /\ client' = [client EXCEPT ![s] = "waiting"]
    /\ UNCHANGED <<mStatePtr, inactive, servicer>>

(* AgpsAcquiredState::onRsrcEvent(RSRC_SUBSCRIBE): granted right away. *)
AcquiredSubscribe(s) ==
    /\ ~refused
    /\ mStatePtr = "Acquired"
    /\ client' = notifyRsrcStatus({s}, "RSRC_GRANTED")
    /\ mSubscribers' = mSubscribers \cup {s}
    /\ UNCHANGED <<mStatePtr, inactive, servicer>>

subscribeRsrc(s) ==
    \/ SubscribeRefused(s)
    \/ ReleasedSubscribe(s)
    \/ PendingSubscribe(s)
    \/ AcquiredSubscribe(s)

-----------------------------------------------------------------------------
(* unsubscribeRsrc: dispatched only if the subscriber is on the list, so   *)
(* never in the Released state (see ReleasedIsEmpty).                      *)

KeepStateWhenOnlyInactive(subs, inact) ==
    LET next == IF subs = {} THEN "Released" ELSE mStatePtr
    IN  /\ mStatePtr' = next
        /\ servicer' = IF mStatePtr \in {"Pending", "Acquired"} /\ next # mStatePtr
                       THEN sendRsrcRequest(servicer, subs, inact, "RELEASE_DATA_CONN")
                       ELSE servicer

(* The common tail of the RSRC_UNSUBSCRIBE cases: Released once the list   *)
(* is empty, Releasing once only inactive subscribers are left; Pending    *)
(* and Acquired then ask the framework to release the NIF, Releasing has   *)
(* asked already.                                                          *)
AfterUnsubscribe(subs, inact) ==
    LET next == IF subs = {} THEN "Released"
                ELSE IF active(subs, inact) = {} THEN "Releasing" ELSE mStatePtr
    IN  /\ mStatePtr' = next
        /\ servicer' = IF mStatePtr \in {"Pending", "Acquired"} /\ next # mStatePtr
                       THEN sendRsrcRequest(servicer, subs, inact, "RELEASE_DATA_CONN")
                       ELSE servicer

UnsubscribeWait(s) ==
    /\ s \in mSubscribers \cap WaitForClose
    /\ mStatePtr # "Released"
    /\ inactive' = inactive \cup {s}
    /\ mSubscribers' = mSubscribers
    /\ client' = [client EXCEPT ![s] = "closing"]
    /\ AfterUnsubscribe(mSubscribers, inactive')

UnsubscribeAlsoMarks(s) ==
    /\ s \in mSubscribers \ WaitForClose
    /\ mStatePtr # "Released"
    /\ mSubscribers' = mSubscribers \ {s}
    /\ inactive' = inactive \cup {s}
    /\ client' = notifyRsrcStatus({s}, "RSRC_UNSUBSCRIBE")
    /\ AfterUnsubscribe(mSubscribers', inactive')

UnsubscribeNotify(s) ==
    /\ s \in mSubscribers \ WaitForClose
    /\ mStatePtr # "Released"
    /\ mSubscribers' = mSubscribers \ {s}
    /\ inactive' = inactive \ {s}
    /\ client' = notifyRsrcStatus({s}, "RSRC_UNSUBSCRIBE")
    /\ AfterUnsubscribe(mSubscribers', inactive')

unsubscribeRsrc(s) == UnsubscribeWait(s) \/ UnsubscribeNotify(s)

-----------------------------------------------------------------------------
(* onRsrcEvent: what the framework reported *)

GrantedToNobody(event) ==
    /\ mStatePtr = "Pending" /\ event = "RSRC_GRANTED"
    /\ mStatePtr' = "Acquired"
    /\ UNCHANGED <<mSubscribers, inactive, servicer, client>>

PendingGranted(event) ==
    /\ mStatePtr = "Pending" /\ event = "RSRC_GRANTED"
    /\ mStatePtr' = "Acquired"
    /\ client' = notifyRsrcStatus(forMe("BROADCAST_ACTIVE", mSubscribers, inactive), event)
    /\ UNCHANGED <<mSubscribers, inactive, servicer>>

(* Every subscriber is told and removed: a denial while Pending, a forced  *)
(* release while Acquired.                                                 *)
BroadcastAllAndDelete(event) ==
    LET told == forMe("BROADCAST_ALL", mSubscribers, inactive)
    IN  /\ client' = notifyRsrcStatus(told, event)
        /\ mSubscribers' = mSubscribers \ told
        /\ inactive' = inactive \ told
        /\ mStatePtr' = "Released"
        /\ UNCHANGED servicer

DeniedKeepsList(event) ==
    /\ mStatePtr = "Pending" /\ event = "RSRC_DENIED"
    /\ client' = notifyRsrcStatus(mSubscribers, event)
    /\ mStatePtr' = "Released"
    /\ UNCHANGED <<mSubscribers, inactive, servicer>>

PendingDenied(event) ==
    /\ mStatePtr = "Pending" /\ event = "RSRC_DENIED"
    /\ BroadcastAllAndDelete(event)

ForcedReleaseIgnored(event) ==
    /\ mStatePtr = "Acquired" /\ event = "RSRC_RELEASED"
    /\ UNCHANGED machineVars

AcquiredReleased(event) ==
    /\ mStatePtr = "Acquired" /\ event = "RSRC_RELEASED"
    /\ BroadcastAllAndDelete(event)

ReleasingIgnoresDenied(event) ==
    /\ mStatePtr = "Releasing" /\ event \in {"RSRC_RELEASED", "RSRC_DENIED"}
    /\ LET told == IF event = "RSRC_DENIED" THEN {} ELSE mSubscribers \cap inactive
       IN  /\ client' = notifyRsrcStatus(told, event)
           /\ mSubscribers' = mSubscribers \ told
           /\ inactive' = inactive \ told
           /\ mStatePtr' = IF mSubscribers' = {} THEN "Released" ELSE "Releasing"
           /\ UNCHANGED servicer

(* AgpsReleasingState: the close is complete, also when the request had    *)
(* been denied before the release reached the framework.  Whoever          *)
(* subscribed meanwhile makes the machine request the NIF again.           *)
ReleasingClosed(event) ==
    /\ mStatePtr = "Releasing" /\ event \in {"RSRC_RELEASED", "RSRC_DENIED"}
    /\ LET told == forMe("BROADCAST_INACTIVE", mSubscribers, inactive)
       IN  /\ client' = notifyRsrcStatus(told, event)
           /\ mSubscribers' = mSubscribers \ told
           /\ inactive' = inactive \ told
    /\ \/ /\ mSubscribers' = {}
          /\ mStatePtr' = "Released"
          /\ servicer' = servicer
       \/ /\ mSubscribers' # {}
          /\ mStatePtr' = "Pending"
          /\ servicer' = sendRsrcRequest(servicer, mSubscribers', inactive', "REQUEST_DATA_CONN")

(* Events a state does not expect change nothing: anything in Released,    *)
(* RELEASED in Pending, GRANTED and DENIED in Acquired, GRANTED in         *)
(* Releasing.                                                              *)
EventIgnored(event) ==
    /\ <<mStatePtr, event>> \in
           ({"Released"} \X Events) \cup
           {<<"Pending", "RSRC_RELEASED">>, <<"Acquired", "RSRC_GRANTED">>,
            <<"Acquired", "RSRC_DENIED">>, <<"Releasing", "RSRC_GRANTED">>}
    /\ UNCHANGED machineVars

onRsrcEvent(event) ==
    \/ PendingGranted(event)
    \/ PendingDenied(event)
    \/ AcquiredReleased(event)
    \/ ReleasingClosed(event)
    \/ EventIgnored(event)

-----------------------------------------------------------------------------

(* The list is flushed; the state and the subscribers' view stay as they   *)
(* are: nobody is told.                                                    *)
dropAllSubscribers ==
    /\ client' = [s \in Subscribers |-> IF s \in mSubscribers THEN "dropped" ELSE client[s]]
    /\ mSubscribers' = {}
    /\ inactive' = {}
    /\ UNCHANGED <<mStatePtr, servicer>>

MachineInit ==
    /\ mStatePtr = "Released"
    /\ mSubscribers = {}
    /\ inactive = {}
    /\ servicer = <<>>
    /\ client = [s \in Subscribers |-> "none"]

MachineTypeOK ==
    /\ mStatePtr \in States
    /\ mSubscribers \subseteq Subscribers
    /\ inactive \subseteq mSubscribers
    /\ servicer \in Seq(Requests)
    /\ client \in [Subscribers -> ClientStatus]
=============================================================================
