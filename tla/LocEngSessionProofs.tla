------------------------- MODULE LocEngSessionProofs -------------------------
(***************************************************************************)
(* Safety of fix sessions for a queue of any length and any number of      *)
(* modem crashes.  That the session flag and the modem agree at rest needs *)
(* an invariant that holds while messages are under way: but for a fix     *)
(* that a failed call left running, the flag and the fix may differ only   *)
(* while the connection to the modem is closed, and then the modem is down *)
(* or the ENGINE_UP that repairs it is queued.                             *)
(***************************************************************************)
EXTENDS LocEngSession, SequenceTheorems, TLAPS

UpQueued == \E i \in 1..Len(deferred_q) : deferred_q[i] = "ENGINE_UP"

(* The connection is open to a running modem only, and will be opened. *)
ConnectionInv ==
    /\ open => up
    /\ up /\ ~open => UpQueued

(* A fix of the framework runs over an open connection and is known, or    *)
(* went on after a failed call.                                            *)
FixInv ==
    recurrence = "PERIODIC" =>
        /\ fix = "PERIODIC" => open /\ (navigating \/ stray)
        /\ navigating /\ open => fix = "PERIODIC"

(* While the engine runs, the last news of it is that it is on: what was   *)
(* handled last (number 0), or a message that is queued.                   *)
On(i) == IF i = 0 THEN engine_status = "ENGINE_ON" ELSE deferred_q[i] = "ENGINE_ON"
Offs == {"ENGINE_OFF", "ENGINE_DOWN"}

PowerInv ==
    power => \E i \in 0..Len(deferred_q) :
                /\ On(i)
                /\ \A j \in (i+1)..Len(deferred_q) : deferred_q[j] \notin Offs

SessionInv ==
    /\ TypeOK
    /\ ConnectionInv
    /\ FixInv
    /\ NavigatingWasTold

-----------------------------------------------------------------------------

(* At first nothing is queued, no fix runs and the connection is open. *)
LEMMA SessionInit == Init => SessionInv
<1> SUFFICES ASSUME Init PROVE SessionInv
  OBVIOUS
<1>1. deferred_q \in Seq(Messages)
  BY DEF Init
<1>2. restarts \in 0..MaxRestarts
  BY SessionAssumption DEF Init
<1>3. TypeOK
  BY <1>1, <1>2 DEF Init, TypeOK
<1> QED
  BY <1>3 DEF Init, SessionInv, ConnectionInv, FixInv, NavigatingWasTold

(* Sending keeps what is queued. *)
LEMMA SendKeeps ==
    ASSUME deferred_q \in Seq(Messages), NEW m \in Seq(Messages), Send(m)
    PROVE  /\ deferred_q' \in Seq(Messages)
           /\ UpQueued => UpQueued'
<1>1. deferred_q' = deferred_q \o m
  BY DEF Send
<1>2. /\ deferred_q' \in Seq(Messages)
      /\ Len(deferred_q') = Len(deferred_q) + Len(m)
      /\ \A i \in 1..Len(deferred_q) : deferred_q'[i] = deferred_q[i]
  BY <1>1, ConcatProperties
<1>3. Len(deferred_q) \in Nat /\ Len(m) \in Nat
  OBVIOUS
<1>4. UpQueued => UpQueued'
  BY <1>2, <1>3 DEF UpQueued
<1> QED
  BY <1>2, <1>4

(* The modem's restart messages are appended whatever the queue's length. *)
LEMMA AppendKeeps ==
    ASSUME deferred_q \in Seq(Messages), NEW m \in Messages, deferred_q' = Append(deferred_q, m)
    PROVE  /\ deferred_q' \in Seq(Messages)
           /\ UpQueued \/ m = "ENGINE_UP" => UpQueued'
<1>1. /\ deferred_q' \in Seq(Messages)
      /\ Len(deferred_q') = Len(deferred_q) + 1 /\ Len(deferred_q) \in Nat
      /\ \A i \in 1..Len(deferred_q) : deferred_q'[i] = deferred_q[i]
      /\ deferred_q'[Len(deferred_q) + 1] = m
  OBVIOUS
<1> QED
  BY <1>1 DEF UpQueued

(* Taking a message other than ENGINE_UP leaves ENGINE_UP queued. *)
LEMMA TailKeeps ==
    ASSUME deferred_q \in Seq(Messages), deferred_q # <<>>, deferred_q' = Tail(deferred_q)
    PROVE  /\ deferred_q' \in Seq(Messages)
           /\ Head(deferred_q) \in Messages
           /\ UpQueued /\ Head(deferred_q) # "ENGINE_UP" => UpQueued'
<1>1. /\ Len(deferred_q) \in Nat \ {0} /\ Len(deferred_q') = Len(deferred_q) - 1
      /\ deferred_q' \in Seq(Messages)
      /\ \A i \in 1..(Len(deferred_q) - 1) : deferred_q'[i] = deferred_q[i + 1]
      /\ Head(deferred_q) = deferred_q[1] /\ Head(deferred_q) \in Messages
  OBVIOUS
<1>2. ASSUME UpQueued, Head(deferred_q) # "ENGINE_UP" PROVE UpQueued'
  <2>1. PICK i \in 1..Len(deferred_q) : deferred_q[i] = "ENGINE_UP"
    BY <1>2 DEF UpQueued
  <2>2. i - 1 \in 1..Len(deferred_q') /\ deferred_q'[i - 1] = "ENGINE_UP"
    BY <1>1, <1>2, <2>1
  <2> QED
    BY <2>2 DEF UpQueued
<1> QED
  BY <1>1, <1>2

-----------------------------------------------------------------------------
(* The deferred thread *)

(* What every handler establishes, whatever message it handles *)
Handled ==
    /\ navigating' \in BOOLEAN /\ aiding' \in BOOLEAN /\ open' \in BOOLEAN /\ stray' \in BOOLEAN
    /\ engine_status' \in {"NONE", "ENGINE_ON", "ENGINE_OFF"}
    /\ mute_session_state' \in {"NONE", "WAIT", "IN_SESSION"}
    /\ told' \in {"NONE", "SESSION_BEGIN", "SESSION_END"}
    /\ fix' \in {"none", "PERIODIC", "SINGLE", "NI"}
    /\ open' = open \/ (Head(deferred_q) = "ENGINE_UP" /\ open' = up)
    /\ recurrence = "PERIODIC" =>
           /\ fix' = "PERIODIC" => open' /\ (navigating' \/ stray')
           /\ navigating' /\ open' => fix' = "PERIODIC"
    /\ NavigatingWasTold'

(* A start that reaches the modem sets flag and fix together. *)
LEMMA StartHandled ==
    ASSUME SessionInv, NEW s \in BOOLEAN, s => navigating /\ open' = open, loc_eng_start_handler(s),
           open' \in BOOLEAN, recurrence = "PERIODIC" /\ fix = "PERIODIC" => open'
    PROVE  /\ navigating' \in BOOLEAN /\ stray' \in BOOLEAN
           /\ told' \in {"NONE", "SESSION_BEGIN", "SESSION_END"}
           /\ fix' \in {"none", "PERIODIC", "SINGLE", "NI"}
           /\ recurrence = "PERIODIC" =>
                  /\ fix' = "PERIODIC" => open' /\ (navigating' \/ stray')
                  /\ navigating' /\ open' => fix' = "PERIODIC"
           /\ NavigatingWasTold'
<1>1. CASE s
  BY <1>1 DEF loc_eng_start_handler, SessionInv, TypeOK, FixInv, NavigatingWasTold
<1>2. CASE ~s
  <2>1. PICK result \in Results :
            /\ startFix(result)
            /\ navigating' = (result \in {"SUCCESS", "ENGINE_DOWN"})
            /\ told' = IF navigating' THEN "SESSION_BEGIN" ELSE told
    BY <1>2 DEF loc_eng_start_handler
  <2>2. CASE result = "SUCCESS"
    BY <2>1, <2>2 DEF startFix, SessionInv, TypeOK, NavigatingWasTold
  <2>3. CASE result = "ENGINE_DOWN"
    BY <2>1, <2>3 DEF startFix, SessionInv, TypeOK, FixInv, NavigatingWasTold
  <2>4. CASE result = "FAILURE"
    <3>1. result \notin {"SUCCESS", "ENGINE_DOWN"}
      BY <2>4
    <3>2. ~navigating' /\ navigating' \in BOOLEAN
      <4>1. navigating' = (result \in {"SUCCESS", "ENGINE_DOWN"})
        BY <2>1
      <4>2. (result \in {"SUCCESS", "ENGINE_DOWN"}) = FALSE
        BY <3>1
      <4>3. navigating' = FALSE
        BY <4>1, <4>2
      <4> QED
        BY <4>3
    <3>3. told' = told
      BY <2>1, <3>2
    <3>4. fix' = fix /\ open' /\ stray' = (fix = recurrence)
      BY <2>1, <2>4 DEF startFix
    <3>5. stray' \in BOOLEAN /\ (fix = recurrence => stray')
      BY <3>4
    <3> QED
      BY <3>2, <3>3, <3>4, <3>5 DEF SessionInv, TypeOK, NavigatingWasTold
  <2> QED
    BY <2>1, <2>2, <2>3, <2>4 DEF Results
<1> QED
  BY <1>1, <1>2

(* The status of the engine and of the mute keep their values' types. *)
LEMMA StatusType ==
    ASSUME TypeOK, NEW st \in Statuses, KeepStatus(st)
    PROVE  /\ engine_status' \in {"NONE", "ENGINE_ON", "ENGINE_OFF"}
           /\ mute_session_state' \in {"NONE", "WAIT", "IN_SESSION"}
BY DEF TypeOK, KeepStatus, Statuses

(* Each message leaves the state as Handled says. *)
LEMMA AllHandled ==
    ASSUME SessionInv, loc_eng_deferred_action_thread
    PROVE  Handled
<1> USE DEF SessionInv
<1>d. \A pending \in BOOLEAN : DeletePending(pending) => aiding' \in BOOLEAN
  BY DEF DeletePending
<1>t. stray \in BOOLEAN /\ aiding \in BOOLEAN /\ open \in BOOLEAN /\ up \in BOOLEAN /\ navigating \in BOOLEAN
  BY DEF TypeOK
<1>o. fix = "PERIODIC" /\ recurrence = "PERIODIC" => open /\ up /\ (navigating \/ stray)
  BY DEF FixInv, ConnectionInv
<1>1. CASE HandleStartFix
  <2>1. loc_eng_start_handler(navigating) /\ open' = open
    BY <1>1 DEF HandleStartFix
  <2>2. /\ navigating' \in BOOLEAN /\ stray' \in BOOLEAN /\ NavigatingWasTold'
        /\ told' \in {"NONE", "SESSION_BEGIN", "SESSION_END"}
        /\ fix' \in {"none", "PERIODIC", "SINGLE", "NI"}
        /\ recurrence = "PERIODIC" =>
               /\ fix' = "PERIODIC" => open' /\ (navigating' \/ stray')
               /\ navigating' /\ open' => fix' = "PERIODIC"
    BY <2>1, <1>t, <1>o, StartHandled
  <2> QED
    BY <1>1, <2>1, <2>2, <1>d, <1>t DEF HandleStartFix, Handled, TypeOK
<1>2. CASE HandleStopFix
  BY <1>2, <1>d, <1>t DEF HandleStopFix, Handled, TypeOK, loc_eng_stop_handler, stopFix, FixInv, NavigatingWasTold
<1>3. CASE HandleStatus
  BY <1>3, <1>d, <1>t, StatusType DEF HandleStatus, Handled, TypeOK, InformStatus, FixInv, NavigatingWasTold, Statuses
<1>4. CASE HandlePosition
  BY <1>4, <1>d, <1>t DEF HandlePosition, Handled, TypeOK, stopFix, FixInv, NavigatingWasTold
<1>5. CASE HandlePrivacyOverride \/ HandleDeleteAidingData \/ HandleParameter
  <2>1. /\ UNCHANGED <<engine_status, navigating, fix, told, stray, open>>
        /\ mute_session_state' \in {mute_session_state, "WAIT"}
    BY <1>5 DEF HandlePrivacyOverride, HandleDeleteAidingData, HandleParameter
  <2>2. aiding' \in BOOLEAN
    BY <1>5, <1>d, <1>t DEF HandlePrivacyOverride, HandleDeleteAidingData, HandleParameter
  <2> QED
    BY <2>1, <2>2 DEF Handled, TypeOK, FixInv, NavigatingWasTold
<1>6. CASE loc_eng_handle_engine_down
  BY <1>6, <1>d, <1>t, StatusType DEF loc_eng_handle_engine_down, Handled, TypeOK, FixInv, NavigatingWasTold, Statuses
<1>7. CASE loc_eng_handle_engine_up
  <2>1. Head(deferred_q) = "ENGINE_UP" /\ open' = up
    BY <1>7 DEF loc_eng_handle_engine_up, reinit
  <2>2. /\ engine_status' \in {"NONE", "ENGINE_ON", "ENGINE_OFF"}
        /\ mute_session_state' \in {"NONE", "WAIT", "IN_SESSION"}
        /\ aiding' \in BOOLEAN
    BY <1>7, <1>d, <1>t, StatusType DEF loc_eng_handle_engine_up, Statuses
  <2>3. /\ navigating' \in BOOLEAN /\ stray' \in BOOLEAN /\ NavigatingWasTold'
        /\ told' \in {"NONE", "SESSION_BEGIN", "SESSION_END"}
        /\ fix' \in {"none", "PERIODIC", "SINGLE", "NI"}
        /\ recurrence = "PERIODIC" =>
               /\ fix' = "PERIODIC" => open' /\ (navigating' \/ stray')
               /\ navigating' /\ open' => fix' = "PERIODIC"
    <3>1. CASE navigating
      <4>1. loc_eng_start_handler(FALSE)
        BY <1>7, <3>1 DEF loc_eng_handle_engine_up
      <4> QED
        BY <4>1, <2>1, <1>t, <1>o, StartHandled
    <3>2. CASE ~navigating
      <4>1. UNCHANGED <<navigating, fix, told, stray>>
        BY <1>7, <3>2 DEF loc_eng_handle_engine_up
      <4> QED
        BY <4>1, <3>2, <2>1, <1>o, <1>t DEF TypeOK, NavigatingWasTold
    <3> QED
      BY <3>1, <3>2
  <2> QED
    BY <2>1, <2>2, <2>3, <1>t DEF Handled
<1> QED
  BY <1>1, <1>2, <1>3, <1>4, <1>5, <1>6, <1>7 DEF loc_eng_deferred_action_thread

(* A step of the deferred thread keeps the invariant: the ENGINE_UP that   *)
(* was needed is still queued, or was handled and opened the connection.   *)
LEMMA DeferredStep ==
    ASSUME SessionInv, loc_eng_deferred_action_thread
    PROVE  SessionInv'
<1>1. Handled
  BY AllHandled
<1>2. /\ deferred_q \in Seq(Messages) /\ deferred_q # <<>> /\ deferred_q' = Tail(deferred_q)
      /\ UNCHANGED <<recurrence, up, power, restarts>>
  BY DEF loc_eng_deferred_action_thread, SessionInv, TypeOK
<1>3. /\ deferred_q' \in Seq(Messages)
      /\ UpQueued /\ Head(deferred_q) # "ENGINE_UP" => UpQueued'
  BY <1>2, TailKeeps
<1>4. TypeOK'
  BY <1>1, <1>2, <1>3 DEF Handled, SessionInv, TypeOK
<1>5. ConnectionInv'
  <2>1. CASE Head(deferred_q) = "ENGINE_UP" /\ open' = up
    BY <2>1, <1>2 DEF ConnectionInv
  <2>2. CASE Head(deferred_q) # "ENGINE_UP" /\ open' = open
    BY <2>2, <1>2, <1>3 DEF ConnectionInv, SessionInv
  <2>3. CASE Head(deferred_q) = "ENGINE_UP" /\ open' = open
    <3>1. loc_eng_handle_engine_up
      BY <2>3 DEF loc_eng_deferred_action_thread, HandleStartFix, HandleStopFix, HandleStatus,
                  HandlePosition, HandlePrivacyOverride, HandleDeleteAidingData, HandleParameter,
                  loc_eng_handle_engine_down, Statuses, Positions
    <3> QED
      BY <3>1, <1>2 DEF loc_eng_handle_engine_up, reinit, ConnectionInv
  <2> QED
    BY <1>1, <2>1, <2>2, <2>3 DEF Handled
<1>6. FixInv'
  BY <1>1, <1>2 DEF Handled, FixInv
<1> QED
  BY <1>1, <1>4, <1>5, <1>6 DEF Handled, SessionInv

-----------------------------------------------------------------------------
(* The framework and the modem *)

(* Sending a message does not touch the session. *)
LEMMA FrameworkStep ==
    ASSUME SessionInv,
           loc_eng_start \/ loc_eng_stop \/ loc_eng_delete_aiding_data \/ loc_eng_cleanup
    PROVE  SessionInv'
<1>1. /\ UNCHANGED <<engine, recurrence, modem>>
      /\ \E m \in Seq(Messages) : Send(m)
  <2>1. /\ <<"START_FIX">> \in Seq(Messages) /\ <<"STOP_FIX">> \in Seq(Messages)
        /\ <<"DELETE_AIDING_DATA">> \in Seq(Messages)
        /\ <<"SET_PARAMETER">> \in Seq(Messages)
        /\ <<"STOP_FIX", "SET_PARAMETER">> \in Seq(Messages)
    BY DEF Messages
  <2> QED
    BY <2>1 DEF loc_eng_start, loc_eng_stop, loc_eng_delete_aiding_data, loc_eng_cleanup, SessionInv, TypeOK
<1>2. deferred_q' \in Seq(Messages) /\ (UpQueued => UpQueued')
  BY <1>1, SendKeeps DEF SessionInv, TypeOK
<1>3. TypeOK'
  BY <1>1, <1>2 DEF SessionInv, TypeOK, engine, modem
<1> QED
  BY <1>1, <1>2, <1>3 DEF SessionInv, ConnectionInv, FixInv, NavigatingWasTold,
     engine, modem

(* The modem's reports and its own sessions neither start nor end a        *)
(* periodic fix.                                                           *)
LEMMA ModemStep ==
    ASSUME SessionInv,
           ModemPowersOn \/ ModemPowersOff \/ ModemReportsPosition \/ ModemStartsNi \/ ModemEndsNi
    PROVE  SessionInv'
<1>1. /\ UNCHANGED <<navigating, engine_status, mute_session_state, aiding, told,
                     recurrence, up, open, restarts>>
      /\ power' \in BOOLEAN /\ stray' \in BOOLEAN /\ (fix = "PERIODIC" => stray' = stray)
      /\ fix' \in {"none", "PERIODIC", "SINGLE", "NI"}
      /\ fix' = "PERIODIC" <=> fix = "PERIODIC"
  <2>1. CASE ModemReportsPosition
    <3>1. /\ fix' = fix \/ (fix = "SINGLE" /\ fix' = "none")
          /\ stray' = (stray /\ fix' = fix)
      BY <2>1 DEF ModemReportsPosition
    <3>2. stray' \in BOOLEAN /\ (fix = "PERIODIC" => stray' = stray)
      BY <3>1 DEF SessionInv, TypeOK
    <3> QED
      BY <2>1, <3>1, <3>2 DEF ModemReportsPosition, SessionInv, TypeOK
  <2> QED
    BY <2>1 DEF ModemPowersOn, ModemPowersOff, ModemStartsNi, ModemEndsNi, SessionInv, TypeOK, engine
<1>2. deferred_q' \in Seq(Messages) /\ (UpQueued => UpQueued')
  <2>1. CASE \E m \in Seq(Messages) : Send(m)
    BY <2>1, SendKeeps DEF SessionInv, TypeOK
  <2>2. CASE deferred_q' = deferred_q
    BY <2>2 DEF UpQueued, SessionInv, TypeOK
  <2>3. /\ <<"ENGINE_ON", "SESSION_BEGIN">> \in Seq(Messages)
        /\ <<"SESSION_END", "ENGINE_OFF">> \in Seq(Messages)
        /\ <<"PRIVACY_OVERRIDE">> \in Seq(Messages)
        /\ \A status \in Positions : <<status>> \in Seq(Messages)
    BY DEF Messages, Statuses, Positions
  <2> QED
    BY <2>1, <2>2, <2>3 DEF ModemPowersOn, ModemPowersOff, ModemReportsPosition, ModemStartsNi, ModemEndsNi
<1>3. TypeOK'
  BY <1>1, <1>2 DEF SessionInv, TypeOK, engine
<1> QED
  BY <1>1, <1>2, <1>3 DEF SessionInv, ConnectionInv, FixInv, NavigatingWasTold, engine

(* A crash ends every fix and closes the connection; the restart promises  *)
(* to open it again.                                                       *)
LEMMA CrashStep ==
    ASSUME SessionInv, ModemCrashes \/ ModemComesBack
    PROVE  SessionInv'
<1>1. CASE ModemCrashes
  <2>1. deferred_q' \in Seq(Messages)
    BY <1>1, AppendKeeps DEF ModemCrashes, SessionInv, TypeOK, Messages
  <2>2. restarts' \in 0..MaxRestarts
    BY <1>1, SessionAssumption DEF ModemCrashes, SessionInv, TypeOK
  <2>3. TypeOK'
    BY <1>1, <2>1, <2>2 DEF ModemCrashes, SessionInv, TypeOK, engine
  <2> QED
    BY <1>1, <2>3 DEF ModemCrashes, SessionInv, ConnectionInv, FixInv, NavigatingWasTold,
       engine
<1>2. CASE ModemComesBack
  <2>1. deferred_q' \in Seq(Messages) /\ UpQueued'
    BY <1>2, AppendKeeps DEF ModemComesBack, SessionInv, TypeOK, Messages
  <2>2. TypeOK'
    BY <1>2, <2>1 DEF ModemComesBack, SessionInv, TypeOK, engine
  <2> QED
    BY <1>2, <2>1, <2>2 DEF ModemComesBack, SessionInv, ConnectionInv, FixInv, NavigatingWasTold,
       engine
<1> QED
  BY <1>1, <1>2

(* The whole induction *)
LEMMA SessionInvariant == Spec => []SessionInv
<1>1. SessionInv /\ [Next]_vars => SessionInv'
  <2> SUFFICES ASSUME SessionInv, [Next]_vars PROVE SessionInv'
    OBVIOUS
  <2>1. CASE UNCHANGED vars
    BY <2>1 DEF vars, engine, modem, SessionInv, TypeOK, ConnectionInv, UpQueued, FixInv,
       NavigatingWasTold
  <2> QED
    BY <2>1, DeferredStep, FrameworkStep, ModemStep, CrashStep DEF Next
<1> QED
  BY <1>1, SessionInit, PTL DEF Spec

-----------------------------------------------------------------------------

(* The queue and the state of the deferred thread keep their types. *)
THEOREM TypeCorrect == Spec => []TypeOK
BY SessionInvariant, PTL DEF SessionInv

(* Once all messages are handled the session flag and the modem agree on   *)
(* a periodic session, after any number of crashes, starts and stops in    *)
(* any order.                                                              *)
THEOREM SessionAgrees == Spec => []PeriodicSessionAgrees
<1>1. SessionInv => PeriodicSessionAgrees
  <2> SUFFICES ASSUME SessionInv, deferred_q = <<>>, up, recurrence = "PERIODIC"
               PROVE  /\ navigating => fix = "PERIODIC"
                      /\ fix = "PERIODIC" => navigating \/ stray
    BY DEF PeriodicSessionAgrees, AtRest
  <2>1. ~UpQueued
    BY DEF UpQueued
  <2>2. open
    BY <2>1 DEF SessionInv, ConnectionInv
  <2> QED
    BY <2>2 DEF SessionInv, FixInv
<1> QED
  BY <1>1, SessionInvariant, PTL

(* While the framework's session runs, the last it was told is its begin. *)
THEOREM SessionWasTold == Spec => []NavigatingWasTold
BY SessionInvariant, PTL DEF SessionInv
-----------------------------------------------------------------------------
(* The engine and what is known of it *)

(* Messages behind the last news of the engine that say nothing of it      *)
(* leave the news where it is.                                             *)
LEMMA PowerAppend ==
    ASSUME TypeOK, PowerInv, NEW m \in Seq(Messages), deferred_q' = deferred_q \o m,
           engine_status' = engine_status, power' => power,
           \A k \in 1..Len(m) : m[k] \notin Offs
    PROVE  PowerInv'
<1> SUFFICES ASSUME power'
             PROVE  \E i \in 0..Len(deferred_q') :
                        /\ On(i)'
                        /\ \A j \in (i+1)..Len(deferred_q') : deferred_q'[j] \notin Offs
  BY DEF PowerInv
<1>1. /\ deferred_q \in Seq(Messages)
      /\ Len(deferred_q') = Len(deferred_q) + Len(m)
      /\ \A i \in 1..Len(deferred_q) : deferred_q'[i] = deferred_q[i]
      /\ \A i \in (Len(deferred_q) + 1)..(Len(deferred_q) + Len(m)) :
             deferred_q'[i] = m[i - Len(deferred_q)]
  BY ConcatProperties DEF TypeOK
<1>2. Len(deferred_q) \in Nat /\ Len(m) \in Nat
  BY <1>1
<1>3. PICK i \in 0..Len(deferred_q) :
          On(i) /\ \A j \in (i+1)..Len(deferred_q) : deferred_q[j] \notin Offs
  BY DEF PowerInv
<1>4. i \in 0..Len(deferred_q') /\ On(i)'
  BY <1>1, <1>2, <1>3 DEF On
<1>5. ASSUME NEW j \in (i+1)..Len(deferred_q') PROVE deferred_q'[j] \notin Offs
  <2>1. CASE j \in 1..Len(deferred_q)
    BY <2>1, <1>1, <1>2, <1>3, <1>5
  <2>2. CASE j \notin 1..Len(deferred_q)
    <3>1. /\ j \in (Len(deferred_q) + 1)..(Len(deferred_q) + Len(m))
          /\ j - Len(deferred_q) \in 1..Len(m)
      BY <2>2, <1>1, <1>2, <1>3, <1>5
    <3> QED
      BY <3>1, <1>1
  <2> QED
    BY <2>1, <2>2
<1> QED
  BY <1>4, <1>5

(* The deferred thread takes the news over from the queue. *)
LEMMA PowerTaken ==
    ASSUME TypeOK, PowerInv, loc_eng_deferred_action_thread
    PROVE  PowerInv'
<1> SUFFICES ASSUME power
             PROVE  \E i \in 0..Len(deferred_q') :
                        /\ On(i)'
                        /\ \A j \in (i+1)..Len(deferred_q') : deferred_q'[j] \notin Offs
  BY DEF PowerInv, loc_eng_deferred_action_thread
<1>1. /\ deferred_q \in Seq(Messages) /\ deferred_q # <<>> /\ deferred_q' = Tail(deferred_q)
  BY DEF TypeOK, loc_eng_deferred_action_thread
<1>2. /\ Len(deferred_q) \in Nat \ {0} /\ Len(deferred_q') = Len(deferred_q) - 1
      /\ \A i \in 1..(Len(deferred_q) - 1) : deferred_q'[i] = deferred_q[i + 1]
      /\ Head(deferred_q) = deferred_q[1]
  BY <1>1
<1>3. PICK i \in 0..Len(deferred_q) :
          On(i) /\ \A j \in (i+1)..Len(deferred_q) : deferred_q[j] \notin Offs
  BY DEF PowerInv
<1>h. /\ Head(deferred_q) = "ENGINE_ON" => engine_status' = "ENGINE_ON"
      /\ Head(deferred_q) \notin Offs /\ engine_status = "ENGINE_ON" => engine_status' = "ENGINE_ON"
  <2>1. \/ Head(deferred_q) \in Statuses /\ KeepStatus(Head(deferred_q))
        \/ Head(deferred_q) = "ENGINE_DOWN"
        \/ Head(deferred_q) = "ENGINE_UP" /\ KeepStatus("ENGINE_ON")
        \/ Head(deferred_q) # "ENGINE_ON" /\ engine_status' = engine_status
    BY DEF loc_eng_deferred_action_thread, HandleStartFix, HandleStopFix, HandleStatus,
       HandlePosition, HandlePrivacyOverride, HandleDeleteAidingData, HandleParameter,
       loc_eng_handle_engine_down, loc_eng_handle_engine_up, Positions
  <2> QED
    BY <2>1 DEF KeepStatus, Statuses, Offs
<1>4. CASE i \in {0, 1}
  <2>1. engine_status' = "ENGINE_ON"
    BY <1>2, <1>3, <1>4, <1>h DEF On
  <2>2. \A j \in 1..Len(deferred_q') : deferred_q'[j] \notin Offs
    BY <1>2, <1>3, <1>4
  <2>3. 0 \in 0..Len(deferred_q') /\ On(0)'
    BY <2>1, <1>2 DEF On
  <2> QED
    BY <2>2, <2>3
<1>5. CASE i \notin {0, 1}
  <2>1. i - 1 \in 1..Len(deferred_q') /\ deferred_q'[i - 1] = deferred_q[i]
    BY <1>2, <1>3, <1>5
  <2>2. \A j \in i..Len(deferred_q') : deferred_q'[j] \notin Offs
    BY <1>2, <1>3, <1>5
  <2>3. On(i - 1)'
    BY <2>1, <1>3, <1>5 DEF On
  <2>4. (i - 1) + 1 = i
    BY <1>3
  <2> QED
    BY <2>1, <2>2, <2>3, <2>4
<1> QED
  BY <1>4, <1>5

(* Switching the engine on sends the news of it last. *)
LEMMA PowerSwitched ==
    ASSUME TypeOK, ModemPowersOn
    PROVE  PowerInv'
<1>1. deferred_q \in Seq(Messages) /\ deferred_q' = deferred_q \o <<"ENGINE_ON", "SESSION_BEGIN">>
  BY DEF TypeOK, ModemPowersOn, Send
<1>2. Len(deferred_q) \in Nat
  BY <1>1
<1>3. PICK n \in Nat : n = Len(deferred_q)
  BY <1>2
<1>4. /\ Len(deferred_q') = n + 2
      /\ deferred_q'[n + 1] = "ENGINE_ON" /\ deferred_q'[n + 2] = "SESSION_BEGIN"
  BY <1>1, <1>3
<1>5. n + 1 \in 0..Len(deferred_q') /\ On(n + 1)'
  BY <1>3, <1>4 DEF On
<1>6. \A j \in ((n + 1) + 1)..Len(deferred_q') : deferred_q'[j] \notin Offs
  <2>1. \A j \in ((n + 1) + 1)..Len(deferred_q') : j = n + 2
    BY <1>3, <1>4
  <2> QED
    BY <2>1, <1>4 DEF Offs
<1> QED
  BY <1>5, <1>6 DEF PowerInv

(* Every step keeps the news of a running engine. *)
LEMMA PowerStep == TypeOK /\ PowerInv /\ [Next]_vars => PowerInv'
<1> SUFFICES ASSUME TypeOK, PowerInv, [Next]_vars PROVE PowerInv'
  OBVIOUS
<1>1. CASE loc_eng_deferred_action_thread
  BY <1>1, PowerTaken
<1>2. CASE ModemPowersOn
  BY <1>2, PowerSwitched
<1>3. CASE ModemPowersOff \/ ModemCrashes
  BY <1>3 DEF ModemPowersOff, ModemCrashes, PowerInv
<1>4. CASE ModemComesBack
  <2>1. deferred_q' = deferred_q \o <<"ENGINE_UP">>
    BY <1>4 DEF ModemComesBack, TypeOK
  <2>2. <<"ENGINE_UP">> \in Seq(Messages) /\ \A k \in 1..Len(<<"ENGINE_UP">>) : <<"ENGINE_UP">>[k] \notin Offs
    BY DEF Messages, Offs
  <2> QED
    BY <1>4, <2>1, <2>2, PowerAppend DEF ModemComesBack, engine
<1>5. CASE ModemEndsNi \/ UNCHANGED vars
  BY <1>5 DEF ModemEndsNi, vars, engine, modem, PowerInv, On
<1>6. CASE loc_eng_start \/ loc_eng_stop \/ loc_eng_delete_aiding_data \/ loc_eng_cleanup
           \/ ModemReportsPosition \/ ModemStartsNi
  <2>1. PICK m : deferred_q' = deferred_q \o m /\
           m \in {<<"START_FIX">>, <<"STOP_FIX">>, <<"DELETE_AIDING_DATA">>, <<"SET_PARAMETER">>,
                  <<"STOP_FIX", "SET_PARAMETER">>, <<"PRIVACY_OVERRIDE">>,
                  <<"SUCCESS">>, <<"INTERMEDIATE">>, <<"FAILURE">>}
    BY <1>6 DEF loc_eng_start, loc_eng_stop, loc_eng_delete_aiding_data, loc_eng_cleanup,
       ModemReportsPosition, ModemStartsNi, Send, Positions
  <2>2. UNCHANGED <<engine_status, power>>
    BY <1>6 DEF loc_eng_start, loc_eng_stop, loc_eng_delete_aiding_data, loc_eng_cleanup,
       ModemReportsPosition, ModemStartsNi, engine, modem
  <2>3. m \in Seq(Messages) /\ \A k \in 1..Len(m) : m[k] \notin Offs
    BY <2>1 DEF Messages, Positions, Offs
  <2> QED
    BY <2>1, <2>2, <2>3, PowerAppend
<1> QED
  BY <1>1, <1>2, <1>3, <1>4, <1>5, <1>6 DEF Next

(* While the GPS engine runs, engine_status is ENGINE_ON or the report     *)
(* that makes it so is queued: the deletion of aiding data is never let    *)
(* through for good by a report of an earlier session, of a crash or of a  *)
(* muted session.                                                          *)
THEOREM EngineStatusKnown == Spec => []EngineStatusCatchesUp
<1>1. Init => PowerInv
  BY DEF Init, PowerInv
<1>2. PowerInv => EngineStatusCatchesUp
  <2> SUFFICES ASSUME PowerInv, power, engine_status # "ENGINE_ON"
               PROVE  \E i \in 1..Len(deferred_q) : deferred_q[i] = "ENGINE_ON"
    BY DEF EngineStatusCatchesUp
  <2>1. PICK i \in 0..Len(deferred_q) : On(i)
    BY DEF PowerInv
  <2>2. i # 0 /\ deferred_q[i] = "ENGINE_ON"
    BY <2>1 DEF On
  <2> QED
    BY <2>1, <2>2
<1> QED
  BY <1>1, <1>2, PowerStep, TypeCorrect, PTL DEF Spec
==============================================================================
