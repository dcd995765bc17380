------------------------------ MODULE LocEngNi ------------------------------
(***************************************************************************)
(* Network-initiated (NI) location requests: loc_eng_ni.cpp.               *)
(*                                                                         *)
(* Three kinds of threads share loc_eng_ni_data.  The deferred action      *)
(* thread accepts a request of the modem and spawns an NI thread for it;   *)
(* it also clears the request when the modem restarts.  The NI thread      *)
(* waits on tCond for the user's response, at most respTimeLeft seconds,   *)
(* and sends what it has to the modem.  The framework's thread delivers    *)
(* the user's response.  tLock protects only part of the accesses: a       *)
(* stretch of code under the lock is one step, and each access outside is  *)
(* a step of its own.                                                      *)
(*                                                                         *)
(* Time is abstract: a wait may end at any time, by its timeout, a signal  *)
(* or spuriously.  Requests are numbered in the order in which they reach  *)
(* the deferred thread; the NI thread of request r has number r.  The      *)
(* user's response to request r is represented by r, and by 0 the absence  *)
(* of one (GPS_NI_RESPONSE_NORESP, or the initial value of resp).          *)
(***************************************************************************)
EXTENDS Naturals, FiniteSets

CONSTANTS
    MaxRequests,    \* bound: NI requests of the modem
    MaxRestarts,    \* bound: modem restarts
    MaxResponses    \* bound: responses of the user

ASSUME NiAssumption ==
    /\ MaxRequests \in Nat
    /\ MaxRestarts \in Nat
    /\ MaxResponses \in Nat

Requests == 1..MaxRequests
NoRequest == 0
NORESP == 0

VARIABLES
    rawRequest,     \* the request in progress, or NoRequest
    reqID,          \* the notification id of the request in progress
    respRecvd, resp,
    thread,         \* where each NI thread is
    msg,            \* the message of an NI thread: [request, response]
    id,             \* the value of reqID an NI thread is about to increment
    deferred,       \* where the deferred thread is in the restart handler
    tested,         \* the request it found there
    checked,        \* the request whose response passed loc_eng_ni_respond's check
    arrived,        \* number of requests that reached the deferred thread
    restarts,       \* number of modem restarts
    shown,          \* history: notification id shown to the user, per request
    answered,       \* history: requests to which the user responded
    informs,        \* history: number of responses sent, per request
    mismatched,     \* history: requests that got the response to another one
    freed           \* history: requests whose memory was freed

shared == <<rawRequest, reqID, respRecvd, resp>>
history == <<shown, answered, informs, mismatched, freed>>
vars == <<shared, thread, msg, id, deferred, tested, checked, arrived, restarts, history>>

NoMsg == [request |-> NoRequest, response |-> NORESP]
Message == [request : Requests \cup {NoRequest}, response : Requests \cup {NORESP}]
NotShown == MaxRequests + 1

Init ==
    /\ rawRequest = NoRequest /\ reqID = 0
    /\ respRecvd = FALSE /\ resp = NORESP
    /\ thread = [r \in Requests |-> "none"]
    /\ msg = [r \in Requests |-> NoMsg]
    /\ id = [r \in Requests |-> 0]
    /\ deferred = "idle" /\ tested = NoRequest /\ checked = NoRequest
    /\ arrived = 0 /\ restarts = 0
    /\ shown = [r \in Requests |-> NotShown]
    /\ answered = {} /\ mismatched = {} /\ freed = {}
    /\ informs = [r \in Requests |-> 0]

-----------------------------------------------------------------------------
(* The deferred thread: loc_eng_ni_request_handler *)

RequestIgnored ==
    /\ rawRequest # NoRequest
    /\ freed' = freed \cup {arrived'}
    /\ UNCHANGED <<shared, thread, shown>>

(* pthread_create may fail: the failure is logged, the request stays in    *)
(* progress and is shown to the user, and nobody waits for the response.   *)
RequestAccepted ==
    /\ rawRequest = NoRequest
    /\ rawRequest' = arrived'
    /\ shown' = [shown EXCEPT ![arrived'] = reqID]
    /\ \E created \in {"starting", "failed"} :
           thread' = [thread EXCEPT ![arrived'] = created]
    /\ UNCHANGED <<reqID, respRecvd, resp, freed>>

loc_eng_ni_request_handler ==
    /\ deferred = "idle" /\ arrived < MaxRequests
    /\ arrived' = arrived + 1
    /\ RequestIgnored \/ RequestAccepted
    /\ UNCHANGED <<msg, id, deferred, tested, checked, restarts, answered, informs, mismatched>>

(* loc_eng_ni_reset_on_engine_restart: test, free and clear rawRequest     *)
(* without the lock, then wake the NI thread up under it.                  *)
ResetTests ==
    /\ deferred = "idle" /\ restarts < MaxRestarts
    /\ rawRequest # NoRequest
    /\ restarts' = restarts + 1
    /\ tested' = rawRequest
    /\ deferred' = "freeing"
    /\ UNCHANGED <<shared, thread, msg, id, checked, arrived, history>>

ResetForgetsFree ==
    /\ deferred = "freeing"
    /\ tested' = NoRequest
    /\ deferred' = "clearing"
    /\ UNCHANGED <<shared, thread, msg, id, checked, arrived, restarts, history>>

(* The compiler may read rawRequest again, or free the pointer it tested. *)
ResetFrees ==
    /\ deferred = "freeing"
    /\ \E r \in {tested, rawRequest} : freed' = freed \cup ({r} \ {NoRequest})
    /\ tested' = NoRequest
    /\ deferred' = "clearing"
    /\ UNCHANGED <<shared, thread, msg, id, checked, arrived, restarts,
                   shown, answered, informs, mismatched>>

ResetClears ==
    /\ deferred = "clearing"
    /\ rawRequest' = NoRequest
    /\ deferred' = "signalling"
    /\ UNCHANGED <<reqID, respRecvd, resp, thread, msg, id, tested, checked, arrived, restarts, history>>

ResetSignals ==
    /\ deferred = "signalling"
    /\ respRecvd' = TRUE
    /\ deferred' = "idle"
    /\ UNCHANGED <<rawRequest, reqID, resp, thread, msg, id, tested, checked, arrived, restarts, history>>

-----------------------------------------------------------------------------
(* The NI threads: ni_thread_proc *)

HandOverTwice(t, r) ==
    /\ respRecvd' = FALSE
    /\ resp' = r
    /\ msg' = [msg EXCEPT ![t] = [request |-> rawRequest, response |-> r]]
    /\ thread' = [thread EXCEPT ![t] = "unlocked"]
    /\ UNCHANGED <<rawRequest, reqID, id, deferred, tested, checked, arrived, restarts, history>>

(* The end of the critical section, with r the value of resp: the request, *)
(* if it is still there, moves into a message.                             *)
HandOver(t, r) ==
    /\ respRecvd' = FALSE
    /\ resp' = r
    /\ msg' = [msg EXCEPT ![t] = [request |-> rawRequest, response |-> r]]
    /\ rawRequest' = NoRequest
    /\ thread' = [thread EXCEPT ![t] = "unlocked"]
    /\ UNCHANGED <<reqID, id, deferred, tested, checked, arrived, restarts, history>>

ThreadWaits(t) ==
    /\ thread[t] = "starting" /\ ~respRecvd
    /\ thread' = [thread EXCEPT ![t] = "waiting"]
    /\ UNCHANGED <<shared, msg, id, deferred, tested, checked, arrived, restarts, history>>

ThreadHasResponse(t) ==
    /\ thread[t] \in {"starting", "waiting"} /\ respRecvd
    /\ HandOver(t, resp)

TimeoutKeepsRequest(t) ==
    /\ thread[t] = "waiting"
    /\ resp' = NORESP /\ respRecvd' = FALSE
    /\ thread' = [thread EXCEPT ![t] = "unlocked"]
    /\ UNCHANGED <<rawRequest, reqID, msg, id, deferred, tested, checked, arrived, restarts, history>>

(* A timeout wins over a response that arrives before the lock is taken. *)
ThreadTimesOut(t) ==
    /\ thread[t] = "waiting"
    /\ HandOver(t, NORESP)

(* reqID++ without the lock: a read and a write *)
ThreadReadsId(t) ==
    /\ thread[t] = "unlocked"
    /\ id' = [id EXCEPT ![t] = reqID]
    /\ thread' = [thread EXCEPT ![t] = "counting"]
    /\ UNCHANGED <<shared, msg, deferred, tested, checked, arrived, restarts, history>>

ThreadWritesId(t) ==
    /\ thread[t] = "counting"
    /\ reqID' = id[t] + 1
    /\ id' = [id EXCEPT ![t] = 0]
    /\ thread' = [thread EXCEPT ![t] = "sending"]
    /\ UNCHANGED <<rawRequest, respRecvd, resp, msg, deferred, tested, checked, arrived, restarts, history>>

(* LOC_ENG_MSG_INFORM_NI_RESPONSE, up to informNiResponse *)
ThreadSends(t) ==
    /\ thread[t] = "sending"
    /\ thread' = [thread EXCEPT ![t] = "done"]
    /\ msg' = [msg EXCEPT ![t] = NoMsg]
    /\ LET m == msg[t]
       IN  /\ informs' = [r \in Requests |-> informs[r] + (IF r = m.request THEN 1 ELSE 0)]
           /\ mismatched' = mismatched \cup
                 (IF m.response \notin {NORESP, m.request} THEN {m.request} \ {NoRequest} ELSE {})
    /\ UNCHANGED <<shared, id, deferred, tested, checked, arrived, restarts, shown, answered, freed>>

-----------------------------------------------------------------------------
(* The framework: loc_eng_ni_respond, once for each notification *)

RespondTests(r) ==
    /\ checked = NoRequest /\ Cardinality(answered) < MaxResponses
    /\ shown[r] # NotShown /\ r \notin answered
    /\ answered' = answered \cup {r}
    /\ checked' = IF shown[r] = reqID /\ rawRequest # NoRequest THEN r ELSE NoRequest
    /\ UNCHANGED <<shared, thread, msg, id, deferred, tested, arrived, restarts,
                   shown, informs, mismatched, freed>>

RespondSets ==
    /\ checked # NoRequest
    /\ resp' = checked
    /\ respRecvd' = TRUE
    /\ checked' = NoRequest
    /\ UNCHANGED <<rawRequest, reqID, thread, msg, id, deferred, tested, arrived, restarts, history>>

-----------------------------------------------------------------------------

Thread(t) ==
    \/ ThreadWaits(t) \/ ThreadHasResponse(t) \/ ThreadTimesOut(t)
    \/ ThreadReadsId(t) \/ ThreadWritesId(t) \/ ThreadSends(t)

Next ==
    \/ loc_eng_ni_request_handler
    \/ ResetTests \/ ResetFrees \/ ResetClears \/ ResetSignals
    \/ \E t \in Requests : Thread(t)
    \/ \E r \in Requests : RespondTests(r)
    \/ RespondSets

(* NI threads are scheduled and every timed wait ends. *)
Fairness == \A t \in Requests : WF_vars(Thread(t))

Spec == Init /\ [][Next]_vars
FairSpec == Spec /\ Fairness

-----------------------------------------------------------------------------
(* Properties *)

Places == {"none", "starting", "failed", "waiting", "unlocked", "counting", "sending", "done"}

TypeOK ==
    /\ rawRequest \in Requests \cup {NoRequest}
    /\ reqID \in Nat
    /\ respRecvd \in BOOLEAN
    /\ resp \in Requests \cup {NORESP}
    /\ thread \in [Requests -> Places]
    /\ msg \in [Requests -> Message]
    /\ id \in [Requests -> Nat]
    /\ deferred \in {"idle", "freeing", "clearing", "signalling"}
    /\ tested \in Requests \cup {NoRequest}
    /\ checked \in Requests \cup {NoRequest}
    /\ arrived \in 0..MaxRequests
    /\ restarts \in 0..MaxRestarts
    /\ shown \in [Requests -> Nat]
    /\ answered \subseteq Requests
    /\ informs \in [Requests -> Nat]
    /\ mismatched \subseteq Requests
    /\ freed \subseteq Requests

(* The NI thread is spawned to clear up the notification status: whatever  *)
(* older threads and restarts do, the thread of the request in progress is *)
(* not past its wait, so it will still take the request.  The exception is *)
(* a thread that could not be created.                                     *)
RequestIsWatched ==
    rawRequest # NoRequest => thread[rawRequest] \in {"starting", "waiting", "failed"}

(* The modem never gets two responses to one request. *)
AnsweredOnce == \A r \in Requests : informs[r] <= 1

(* Every request that arrived is in progress, on its way to the modem,     *)
(* answered or freed: none is lost (and its memory leaked) in a race.      *)
NoRequestLost ==
    \A r \in Requests : r <= arrived =>
        \/ r = rawRequest
        \/ \E t \in Requests : msg[t].request = r
        \/ informs[r] > 0
        \/ r \in freed

(* A request whose NI thread was created does not stay in progress for     *)
(* ever: the NI interface, which ignores other requests meanwhile, becomes *)
(* free again.                                                             *)
BusyEnds ==
    \A r \in Requests : (rawRequest = r /\ thread[r] # "failed") ~> rawRequest # r

(* loc_eng_ni.h: reqID is the "ID to check against response".  A request   *)
(* is never answered with the user's response to another one.              *)
ResponseMatchesRequest == mismatched = {}

(* loc_eng_ni.cpp:181: after a modem restart "we need the thread to exit   *)
(* without calling sending data to loc_eng_msg_q. We made sure that        *)
(* rawRequest is NULL": no thread sends a request that was freed.          *)
FreedNeverSent == \A r \in freed : informs[r] = 0
=============================================================================
