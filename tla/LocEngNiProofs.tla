--------------------------- MODULE LocEngNiProofs ---------------------------
(***************************************************************************)
(* Safety of the NI threads for any number of requests, restarts and       *)
(* responses.  A request moves from rawRequest into the message of one     *)
(* thread and from there to the modem: it is never in two of these places. *)
(***************************************************************************)
EXTENDS LocEngNi, TLAPS

(* A thread starts when its request has arrived, and it has a message only *)
(* between the end of its wait and the sending.                            *)
EmptyHanded ==
    \A t \in Requests :
        /\ thread[t] \in {"none", "starting", "failed", "waiting"} => msg[t] = NoMsg
        /\ thread[t] # "none" => t <= arrived

(* A request is in at most one place, and in none before it arrived. *)
OnePlace ==
    /\ rawRequest # NoRequest => rawRequest <= arrived /\ informs[rawRequest] = 0
    /\ \A t \in Requests : msg[t].request # NoRequest =>
           /\ msg[t].request <= arrived
           /\ msg[t].request # rawRequest
           /\ informs[msg[t].request] = 0
    /\ \A t, u \in Requests : t # u /\ msg[t].request # NoRequest => msg[u].request # msg[t].request
    /\ \A r \in Requests : informs[r] <= 1 /\ (informs[r] > 0 => r <= arrived)

(* While the restart handler is at work no new request is accepted: it     *)
(* clears the request that it freed, or none.                              *)
ResetInv ==
    /\ deferred = "freeing" => rawRequest \in {tested, NoRequest}
    /\ deferred = "clearing" => rawRequest \in freed \cup {NoRequest}

NiInv ==
    /\ TypeOK
    /\ RequestIsWatched
    /\ EmptyHanded
    /\ OnePlace
    /\ ResetInv
    /\ NoRequestLost

-----------------------------------------------------------------------------

(* At first there is no request. *)
LEMMA NiInit == Init => NiInv
<1> SUFFICES ASSUME Init PROVE NiInv
  OBVIOUS
<1>1. TypeOK
  <2>1. /\ thread \in [Requests -> Places] /\ id \in [Requests -> Nat]
        /\ shown \in [Requests -> Nat] /\ informs \in [Requests -> Nat]
    BY NiAssumption DEF Init, Places, NotShown
  <2>2. msg \in [Requests -> Message]
    BY DEF Init, NoMsg, Message
  <2>3. /\ reqID \in Nat /\ arrived \in 0..MaxRequests /\ restarts \in 0..MaxRestarts
        /\ rawRequest = NoRequest /\ resp = NORESP /\ tested = NoRequest /\ checked = NoRequest
    BY NiAssumption DEF Init
  <2> QED
    BY <2>1, <2>2, <2>3 DEF Init, TypeOK
<1>2. RequestIsWatched /\ EmptyHanded /\ ResetInv
  BY DEF Init, RequestIsWatched, EmptyHanded, ResetInv
<1>3. OnePlace
  BY NiAssumption DEF Init, OnePlace, Requests, NoMsg
<1>4. NoRequestLost
  BY NiAssumption DEF Init, NoRequestLost, Requests
<1> QED
  BY <1>1, <1>2, <1>3, <1>4 DEF NiInv

(* Every action keeps every variable in its type. *)
LEMMA TypeStep == TypeOK /\ [Next]_vars => TypeOK'
<1> SUFFICES ASSUME TypeOK, [Next]_vars PROVE TypeOK'
  OBVIOUS
<1> USE DEF TypeOK, shared, history
<1>a. /\ NORESP \in Requests \cup {NORESP} /\ NoRequest \in Requests \cup {NoRequest}
      /\ NoMsg \in Message
      /\ NORESP = NoRequest
  BY DEF NoMsg, Message, NORESP, NoRequest
<1>1. CASE loc_eng_ni_request_handler
  <2>1. arrived' \in Requests /\ arrived' \in 0..MaxRequests
    BY <1>1, NiAssumption DEF loc_eng_ni_request_handler, Requests
  <2>2. CASE RequestIgnored
    BY <1>1, <2>1, <2>2 DEF loc_eng_ni_request_handler, RequestIgnored
  <2>3. CASE RequestAccepted
    <3>1. thread' \in [Requests -> Places] /\ shown' \in [Requests -> Nat] /\ rawRequest' \in Requests
      BY <2>1, <2>3 DEF RequestAccepted, Places
    <3> QED
      BY <1>1, <2>1, <2>3, <3>1 DEF loc_eng_ni_request_handler, RequestAccepted
  <2> QED
    BY <1>1, <2>2, <2>3 DEF loc_eng_ni_request_handler
<1>2. CASE ResetTests
  BY <1>2, NiAssumption DEF ResetTests
<1>3. CASE ResetFrees
  BY <1>3, <1>a DEF ResetFrees
<1>4. CASE ResetClears \/ ResetSignals
  BY <1>4, <1>a DEF ResetClears, ResetSignals
<1>5. ASSUME NEW t \in Requests, ThreadWaits(t) PROVE TypeOK'
  BY <1>5 DEF ThreadWaits, Places
<1>6. ASSUME NEW t \in Requests, ThreadReadsId(t) PROVE TypeOK'
  BY <1>6 DEF ThreadReadsId, Places
<1>7. ASSUME NEW t \in Requests, ThreadWritesId(t) PROVE TypeOK'
  BY <1>7 DEF ThreadWritesId, Places
<1>8. ASSUME NEW t \in Requests, ThreadHasResponse(t) \/ ThreadTimesOut(t)
      PROVE  TypeOK'
  <2>1. PICK r \in Requests \cup {NORESP} : HandOver(t, r)
    BY <1>8, <1>a DEF ThreadHasResponse, ThreadTimesOut
  <2>2. [request |-> rawRequest, response |-> r] \in Message
    BY DEF Message
  <2>3. thread' \in [Requests -> Places] /\ msg' \in [Requests -> Message]
    BY <2>1, <2>2 DEF HandOver, Places
  <2> QED
    BY <2>1, <2>3, <1>a DEF HandOver
<1>9. ASSUME NEW t \in Requests, ThreadSends(t)
      PROVE  TypeOK'
  <2>1. thread' \in [Requests -> Places] /\ msg' \in [Requests -> Message]
    BY <1>9, <1>a DEF ThreadSends, Places
  <2>2. msg[t].request \in Requests \cup {NoRequest}
    BY DEF Message
  <2>3. informs' \in [Requests -> Nat]
    BY <1>9 DEF ThreadSends
  <2>4. mismatched' \subseteq Requests
    BY <1>9, <2>2 DEF ThreadSends
  <2> QED
    BY <1>9, <2>1, <2>3, <2>4 DEF ThreadSends
<1>10. ASSUME NEW r \in Requests, RespondTests(r) PROVE TypeOK'
  BY <1>10, <1>a DEF RespondTests
<1>11. CASE RespondSets
  BY <1>11, <1>a DEF RespondSets
<1>12. CASE UNCHANGED vars
  BY <1>12 DEF vars
<1> QED
  BY <1>1, <1>2, <1>3, <1>4, <1>5, <1>6, <1>7, <1>8, <1>9, <1>10, <1>11, <1>12 DEF Next, Thread

-----------------------------------------------------------------------------
(* One lemma per action that moves a request *)

(* What the types of the messages and counters amount to *)
LEMMA Values ==
    ASSUME TypeOK
    PROVE  /\ Requests \subseteq Nat \ {0} /\ NoRequest = 0 /\ NORESP = 0
           /\ arrived \in Nat /\ rawRequest \in Nat
           /\ \A t \in Requests : msg[t].request \in Requests \cup {NoRequest} /\ msg[t].request \in Nat
           /\ \A r \in Requests : informs[r] \in Nat
           /\ NoMsg.request = NoRequest
<1>1. /\ Requests \subseteq Nat \ {0} /\ NoRequest = 0 /\ NORESP = 0
      /\ arrived \in Nat /\ rawRequest \in Nat
  BY NiAssumption DEF TypeOK, Requests, NoRequest, NORESP
<1>2. \A t \in Requests : msg[t].request \in Requests \cup {NoRequest}
  BY DEF TypeOK, Message
<1>3. \A t \in Requests : msg[t].request \in Nat
  <2>1. Requests \cup {NoRequest} \subseteq Nat
    BY NiAssumption DEF Requests, NoRequest
  <2> QED
    BY <1>2, <2>1
<1>4. \A r \in Requests : informs[r] \in Nat
  BY DEF TypeOK
<1>5. NoMsg.request = NoRequest
  BY DEF NoMsg
<1> QED
  BY <1>1, <1>2, <1>3, <1>4, <1>5

(* A new request is in no place yet; it is taken in hand or freed. *)
LEMMA RequestHandled == ASSUME NiInv, TypeOK', loc_eng_ni_request_handler PROVE NiInv'
<1> USE DEF NiInv
<1>1. /\ arrived' = arrived + 1 /\ arrived' \in Requests /\ arrived \in Nat
      /\ UNCHANGED <<msg, informs, deferred, tested>> /\ deferred = "idle"
      /\ Requests \subseteq Nat /\ NoRequest \notin Requests
  BY NiAssumption DEF loc_eng_ni_request_handler, TypeOK, Requests, NoRequest
<1>2. CASE RequestIgnored
  <2>1. UNCHANGED <<rawRequest, thread>> /\ freed' = freed \cup {arrived'} /\ rawRequest # NoRequest
    BY <1>2 DEF RequestIgnored, shared
  <2>2. RequestIsWatched' /\ EmptyHanded' /\ ResetInv'
    BY <1>1, <2>1, Values DEF RequestIsWatched, EmptyHanded, ResetInv
  <2>3. OnePlace'
    BY <1>1, <2>1, Values DEF OnePlace
  <2>4. NoRequestLost'
    BY <1>1, <2>1 DEF NoRequestLost, TypeOK
  <2> QED
    BY <2>2, <2>3, <2>4
<1>3. CASE RequestAccepted
  <2>0. PICK created \in {"starting", "failed"} : thread' = [thread EXCEPT ![arrived'] = created]
    BY <1>3 DEF RequestAccepted
  <2>1. rawRequest = NoRequest /\ rawRequest' = arrived' /\ freed' = freed
    BY <1>3 DEF RequestAccepted
  <2>2. RequestIsWatched' /\ ResetInv'
    BY <1>1, <2>0, <2>1 DEF RequestIsWatched, ResetInv, TypeOK
  <2>3. thread[arrived'] = "none" /\ msg[arrived'] = NoMsg
    BY <1>1, Values DEF EmptyHanded, TypeOK
  <2>4. EmptyHanded'
    BY <1>1, <2>0, <2>1, <2>3, Values DEF EmptyHanded, TypeOK
  <2>5. OnePlace'
    BY <1>1, <2>1, Values DEF OnePlace
  <2>6. NoRequestLost'
    BY <1>1, <2>1 DEF NoRequestLost, TypeOK
  <2> QED
    BY <2>2, <2>4, <2>5, <2>6
<1> QED
  BY <1>2, <1>3 DEF loc_eng_ni_request_handler

(* The restart handler clears the request it freed. *)
LEMMA ResetKeeps ==
    ASSUME NiInv, TypeOK', ResetTests \/ ResetFrees \/ ResetClears \/ ResetSignals
    PROVE  NiInv'
<1> USE Values DEF NiInv
<1>1. CASE ResetTests
  <2>1. UNCHANGED <<rawRequest, thread, msg, arrived, informs, freed>> /\ tested' = rawRequest /\ deferred' = "freeing"
    BY <1>1 DEF ResetTests, shared, history
  <2> QED
    BY <2>1 DEF RequestIsWatched, EmptyHanded, OnePlace, ResetInv, NoRequestLost
<1>2. CASE ResetFrees
  <2>1. UNCHANGED <<rawRequest, thread, msg, arrived, informs>> /\ freed \subseteq freed' /\ deferred' = "clearing"
    BY <1>2 DEF ResetFrees, shared
  <2>2. rawRequest \in freed' \cup {NoRequest}
    BY <1>2 DEF ResetFrees, ResetInv
  <2> QED
    BY <2>1, <2>2 DEF RequestIsWatched, EmptyHanded, OnePlace, ResetInv, NoRequestLost
<1>3. CASE ResetClears
  <2>1. /\ UNCHANGED <<thread, msg, arrived, informs, freed>> /\ rawRequest' = NoRequest
        /\ deferred = "clearing" /\ deferred' = "signalling"
    BY <1>3 DEF ResetClears, history
  <2>2. NoRequestLost'
    BY <2>1 DEF NoRequestLost, ResetInv
  <2> QED
    BY <2>1, <2>2 DEF RequestIsWatched, EmptyHanded, OnePlace, ResetInv
<1>4. CASE ResetSignals
  <2>1. UNCHANGED <<rawRequest, thread, msg, arrived, informs, freed>> /\ deferred' = "idle"
    BY <1>4 DEF ResetSignals, history
  <2> QED
    BY <2>1 DEF RequestIsWatched, EmptyHanded, OnePlace, ResetInv, NoRequestLost
<1> QED
  BY <1>1, <1>2, <1>3, <1>4

(* At the end of its wait a thread takes the request, whoever's it is. *)
LEMMA HandOverKeeps ==
    ASSUME NiInv, TypeOK', NEW t \in Requests, NEW r, HandOver(t, r),
           thread[t] \in {"starting", "waiting"}
    PROVE  NiInv'
<1> USE Values DEF NiInv
<1>1. /\ rawRequest' = NoRequest /\ UNCHANGED <<deferred, tested, arrived, informs, freed>>
      /\ thread' = [thread EXCEPT ![t] = "unlocked"]
      /\ msg'[t].request = rawRequest
      /\ \A u \in Requests \ {t} : msg'[u] = msg[u]
  BY DEF HandOver, history, TypeOK
<1>2. msg[t].request = NoRequest
  BY DEF EmptyHanded
<1>3. EmptyHanded'
  BY <1>1 DEF EmptyHanded, TypeOK
<1>4. OnePlace'
  BY <1>1 DEF OnePlace
<1>5. NoRequestLost'
  BY <1>1, <1>2 DEF NoRequestLost
<1> QED
  BY <1>1, <1>3, <1>4, <1>5 DEF RequestIsWatched, ResetInv

(* A request leaves the thread's message for the modem. *)
LEMMA SendKeeps == ASSUME NiInv, TypeOK', NEW t \in Requests, ThreadSends(t) PROVE NiInv'
<1> USE Values DEF NiInv
<1>1. /\ UNCHANGED <<rawRequest, deferred, tested, arrived, freed>>
      /\ thread[t] = "sending" /\ thread' = [thread EXCEPT ![t] = "done"]
      /\ msg'[t] = NoMsg
      /\ \A u \in Requests \ {t} : msg'[u] = msg[u]
      /\ \A r \in Requests : informs'[r] = informs[r] + (IF r = msg[t].request THEN 1 ELSE 0)
  BY DEF ThreadSends, shared, TypeOK
<1>2. RequestIsWatched'
  BY <1>1 DEF RequestIsWatched, TypeOK
<1>3. EmptyHanded'
  BY <1>1 DEF EmptyHanded, TypeOK
<1>4. OnePlace'
  BY <1>1 DEF OnePlace, TypeOK
<1>5. NoRequestLost'
  BY <1>1 DEF NoRequestLost
<1> QED
  BY <1>1, <1>2, <1>3, <1>4, <1>5 DEF ResetInv

(* The other steps move no request. *)
LEMMA OthersKeep ==
    ASSUME NiInv, TypeOK', UNCHANGED <<rawRequest, msg, deferred, tested, arrived, informs, freed>>,
           \/ thread' = thread
           \/ \E t \in Requests :
                  \/ thread[t] = "starting" /\ thread' = [thread EXCEPT ![t] = "waiting"]
                  \/ /\ thread[t] \in {"unlocked", "counting"}
                     /\ \E p \in {"counting", "sending"} : thread' = [thread EXCEPT ![t] = p]
    PROVE  NiInv'
<1> USE Values DEF NiInv
<1>1. RequestIsWatched'
  BY DEF RequestIsWatched, TypeOK
<1>2. EmptyHanded'
  BY DEF EmptyHanded, TypeOK
<1> QED
  BY <1>1, <1>2 DEF OnePlace, ResetInv, NoRequestLost

(* Every step keeps the invariant. *)
LEMMA NiStep == NiInv /\ [Next]_vars => NiInv'
<1> SUFFICES ASSUME NiInv, [Next]_vars PROVE NiInv'
  OBVIOUS
<1>t. TypeOK'
  BY TypeStep DEF NiInv
<1>1. CASE loc_eng_ni_request_handler
  BY <1>1, <1>t, RequestHandled
<1>2. CASE ResetTests \/ ResetFrees \/ ResetClears \/ ResetSignals
  BY <1>2, <1>t, ResetKeeps
<1>3. ASSUME NEW t \in Requests, Thread(t) PROVE NiInv'
  <2>1. CASE ThreadHasResponse(t) \/ ThreadTimesOut(t)
    BY <2>1, <1>t, HandOverKeeps DEF ThreadHasResponse, ThreadTimesOut
  <2>2. CASE ThreadSends(t)
    BY <2>2, <1>t, SendKeeps
  <2>3. CASE ThreadWaits(t)
    BY <2>3, <1>t, OthersKeep DEF ThreadWaits, shared, history
  <2>4. CASE ThreadReadsId(t)
    BY <2>4, <1>t, OthersKeep DEF ThreadReadsId, shared, history
  <2>5. CASE ThreadWritesId(t)
    BY <2>5, <1>t, OthersKeep DEF ThreadWritesId, history
  <2> QED
    BY <1>3, <2>1, <2>2, <2>3, <2>4, <2>5 DEF Thread
<1>4. ASSUME NEW r \in Requests, RespondTests(r) PROVE NiInv'
  BY <1>4, <1>t, OthersKeep DEF RespondTests, shared
<1>5. CASE RespondSets
  BY <1>5, <1>t, OthersKeep DEF RespondSets, history
<1>6. CASE UNCHANGED vars
  BY <1>6, <1>t, OthersKeep DEF vars, shared, history
<1> QED
  BY <1>1, <1>2, <1>3, <1>4, <1>5, <1>6 DEF Next

(* The whole induction *)
LEMMA NiInvariant == Spec => []NiInv
BY NiInit, NiStep, PTL DEF Spec

-----------------------------------------------------------------------------

(* Every variable of loc_eng_ni_data and of its threads keeps its type. *)
THEOREM TypeCorrect == Spec => []TypeOK
BY NiInvariant, PTL DEF NiInv

(* The NI thread of the request in progress is before or in its wait, or   *)
(* could not be created, with any number of older threads still running.   *)
THEOREM AlwaysWatched == Spec => []RequestIsWatched
BY NiInvariant, PTL DEF NiInv

(* informNiResponse is called at most once for a request. *)
THEOREM NeverAnsweredTwice == Spec => []AnsweredOnce
<1>1. NiInv => AnsweredOnce
  BY DEF NiInv, OnePlace, AnsweredOnce
<1> QED
  BY <1>1, NiInvariant, PTL

(* No request is lost between rawRequest, the messages and the restart     *)
(* handler.                                                                *)
THEOREM NothingLost == Spec => []NoRequestLost
BY NiInvariant, PTL DEF NiInv
=============================================================================
