------------------------------ MODULE AgpsNif ------------------------------
(***************************************************************************)
(* One AGPS state machine together with the Android connectivity framework *)
(* that opens and closes its NIF.  The machine calls the framework back    *)
(* through mServicer (queue "servicer"); the framework answers with        *)
(* loc_eng_agps_open, _open_failed and _closed, which enqueue a message on *)
(* the deferred queue ("deferred_q").  Clients' own messages travel on the *)
(* same queue; since a client may send at any time, a message of a client  *)
(* is modelled by the step that handles it.                                *)
(*                                                                         *)
(* The framework is external.  It takes requests in order, answers an      *)
(* opening with success or failure, may lose the connection at any time,   *)
(* and reports a close when the connection was not closed already.         *)
(***************************************************************************)
EXTENDS AgpsStateMachine

CONSTANTS
    DroppedOnRestart,   \* agnss_nif and internet_nif: TRUE, wifi_nif: FALSE
    MaxRequests,        \* bound: requests on the way to the framework
    MaxReplies          \* bound: answers on the way to the machine

ASSUME BoundsAssumption ==
    /\ DroppedOnRestart \in BOOLEAN
    /\ DroppedOnRestart => WaitForClose = {}
    /\ MaxRequests \in Nat \ {0}
    /\ MaxReplies \in Nat \ {0}

VARIABLES
    deferred_q,         \* the framework's answers, in order
    nif                 \* "closed", "opening" or "open": the interface itself

vars == <<machineVars, deferred_q, nif>>

Init ==
    /\ MachineInit
    /\ deferred_q = <<>>
    /\ nif = "closed"

-----------------------------------------------------------------------------
(* The deferred action thread *)

(* LOC_ENG_MSG_REQUEST_BIT, _ATL and _WIFI *)
ClientRequest(s) ==
    /\ Len(servicer) < MaxRequests
    /\ subscribeRsrc(s)
    /\ UNCHANGED <<deferred_q, nif>>

(* LOC_ENG_MSG_RELEASE_BIT, _ATL and _WIFI *)
ClientRelease(s) ==
    /\ Len(servicer) < MaxRequests
    /\ unsubscribeRsrc(s)
    /\ UNCHANGED <<deferred_q, nif>>

(* LOC_ENG_MSG_ATL_OPEN_SUCCESS, _ATL_OPEN_FAILED and _ATL_CLOSED *)
HandleReply ==
    /\ deferred_q # <<>>
    /\ onRsrcEvent(Head(deferred_q))
    /\ deferred_q' = Tail(deferred_q)
    /\ UNCHANGED nif

(* loc_eng_handle_engine_up after a modem restart *)
EngineUp ==
    /\ DroppedOnRestart
    /\ dropAllSubscribers
    /\ UNCHANGED <<deferred_q, nif>>

-----------------------------------------------------------------------------
(* The connectivity framework (external) *)

Reply(event) ==
    /\ Len(deferred_q) < MaxReplies
    /\ deferred_q' = Append(deferred_q, event)

AfwRequest ==
    /\ servicer # <<>> /\ Head(servicer) = "REQUEST_DATA_CONN"
    /\ servicer' = Tail(servicer)
    /\ \/ nif = "open" /\ Reply("RSRC_GRANTED") /\ nif' = "open"
       \/ nif # "open" /\ nif' = "opening" /\ deferred_q' = deferred_q
    /\ UNCHANGED <<mStatePtr, mSubscribers, inactive, client>>

AfwOpened ==
    /\ nif = "opening"
    /\ nif' = "open"
    /\ Reply("RSRC_GRANTED")
    /\ UNCHANGED machineVars

AfwOpenFailed ==
    /\ nif = "opening"
    /\ nif' = "closed"
    /\ Reply("RSRC_DENIED")
    /\ UNCHANGED machineVars

AfwRelease ==
    /\ servicer # <<>> /\ Head(servicer) = "RELEASE_DATA_CONN"
    /\ servicer' = Tail(servicer)
    /\ nif' = "closed"
    /\ \/ Reply("RSRC_RELEASED")
       \/ nif = "closed" /\ deferred_q' = deferred_q
    /\ UNCHANGED <<mStatePtr, mSubscribers, inactive, client>>

AfwConnectionLost ==
    /\ nif = "open"
    /\ nif' = "closed"
    /\ Reply("RSRC_RELEASED")
    /\ UNCHANGED machineVars

-----------------------------------------------------------------------------

Next ==
    \/ \E s \in Subscribers : ClientRequest(s) \/ ClientRelease(s)
    \/ HandleReply
    \/ EngineUp
    \/ AfwRequest \/ AfwOpened \/ AfwOpenFailed \/ AfwRelease
    \/ AfwConnectionLost

(* The deferred thread loops for ever on its queue, and the framework      *)
(* takes every request and ends every opening one way or the other.        *)
Fairness ==
    /\ WF_vars(HandleReply)
    /\ WF_vars(AfwRequest)
    /\ WF_vars(AfwRelease)
    /\ WF_vars(AfwOpened \/ AfwOpenFailed)

Spec == Init /\ [][Next]_vars
FairSpec == Spec /\ Fairness

-----------------------------------------------------------------------------
(* Properties *)

TypeOK ==
    /\ MachineTypeOK
    /\ deferred_q \in Seq(Events)
    /\ nif \in {"closed", "opening", "open"}

(* AgpsReleasedState::onRsrcEvent logs an error it cannot recover from     *)
(* when it is entered with subscribers on the list: that never happens.    *)
ReleasedIsEmpty == mStatePtr = "Released" => mSubscribers = {}

(* The list, the state and what the subscribers were told agree: on the    *)
(* list of a Pending machine everybody waits, of an Acquired one everybody *)
(* was granted, of a Releasing one everybody asked to close; whoever is    *)
(* off the list was told that it is over (or was dropped by a restart).    *)
(* The exception is the client of a single-subscriber machine that asked   *)
(* again while listed: subscribeRsrc told it DENIED and kept it.           *)
ClientsAgree ==
    \A s \in Subscribers :
        /\ s \notin mSubscribers => client[s] \in {"none", "dropped"}
        /\ s \in mSubscribers =>
               \/ client[s] = IF s \in inactive THEN "closing"
                              ELSE IF mStatePtr = "Pending" THEN "waiting" ELSE "granted"
               \/ EnforceSingle /\ client[s] = "denied"

(* Releasing means that there is somebody to tell, and nobody left who     *)
(* needs the NIF.                                                          *)
ReleasingOnlyInactive ==
    mStatePtr = "Releasing" <=> inactive # {}

(* No client keeps a grant of an interface that is gone: as long as the    *)
(* machine is Acquired the interface is open, or the framework's report    *)
(* of its loss is still in the queue.                                      *)
GrantIsReal ==
    mStatePtr = "Acquired" =>
        nif = "open" \/ \E i \in 1..Len(deferred_q) : deferred_q[i] = "RSRC_RELEASED"

(* While the machine is Pending the answer to its request is on its way:   *)
(* the request is the last thing the framework was told, or it is being    *)
(* opened, or an answer is queued.                                         *)
PendingIsServed ==
    mStatePtr = "Pending" =>
        \/ servicer # <<>> /\ servicer[Len(servicer)] = "REQUEST_DATA_CONN"
        \/ servicer = <<>> /\ nif = "opening"
        \/ \E i \in 1..Len(deferred_q) : deferred_q[i] \in {"RSRC_GRANTED", "RSRC_DENIED"}

(* While a subscriber waits for the close, its report is on its way: it is *)
(* queued, or the release is the last thing the framework was told and     *)
(* will find an interface to close.  On a closed one the framework may     *)
(* leave the release unanswered.                                           *)
ClosingIsServed ==
    mStatePtr = "Releasing" =>
        \/ \E i \in 1..Len(deferred_q) : deferred_q[i] \in {"RSRC_RELEASED", "RSRC_DENIED"}
        \/ /\ servicer # <<>> /\ servicer[Len(servicer)] = "RELEASE_DATA_CONN"
           /\ IF Len(servicer) = 1 THEN nif # "closed"
              ELSE servicer[Len(servicer) - 1] = "REQUEST_DATA_CONN"

(* Every client that subscribed is eventually answered, unless a restart   *)
(* of the modem removes it first.                                          *)
EveryRequestAnswered ==
    \A s \in Subscribers : client[s] = "waiting" ~> client[s] # "waiting"

(* A client that waits for the close to complete is eventually told and    *)
(* off the list, whatever it asks for meanwhile.                           *)
EveryCloseCompletes ==
    \A s \in Subscribers : s \in inactive ~> s \notin mSubscribers
=============================================================================
