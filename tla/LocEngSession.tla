---------------------------- MODULE LocEngSession ----------------------------
(***************************************************************************)
(* Fix sessions: what the deferred action thread of loc_eng.cpp does with  *)
(* the messages of the framework (start, stop, delete aiding data) and of  *)
(* the modem (status and position reports, restarts), all of which reach   *)
(* it through one queue and may be stale when they are handled.            *)
(*                                                                         *)
(* The modem behind LocApiAdapter is external: it runs a fix, switches the *)
(* GPS engine on and off for it, reports what it did, and may crash and    *)
(* come back.  Messages that only pass a parameter on to the modem are     *)
(* represented by SET_PARAMETER; loc_eng_cleanup sends one (ENGINE_LOCK).  *)
(* The recurrence of the fixes is set before the first start.              *)
(***************************************************************************)
EXTENDS Naturals, Sequences

CONSTANTS
    AcceptIntermediate, \* gps.conf: intermediate fixes are reported
    MaxQueue,           \* bound: queued messages
    MaxRestarts         \* bound: modem crashes

ASSUME SessionAssumption ==
    /\ AcceptIntermediate \in BOOLEAN
    /\ MaxQueue \in Nat
    /\ MaxRestarts \in Nat

VARIABLES
    deferred_q,         \* messages to the deferred thread
    navigating,         \* LocApiAdapter's session flag
    recurrence,         \* the position mode's recurrence
    engine_status,      \* the last ENGINE_ON or ENGINE_OFF handled
    mute_session_state,
    aiding,             \* aiding_data_for_deletion is not 0
    told,               \* history: the last session status the framework was told
    stray,              \* history: a start or stop failed and left the fix running
    up, fix, power,     \* the modem: running, its fix session, GPS engine on
    open,               \* the adapter's connection to the modem is open
    restarts            \* number of crashes

engine == <<navigating, engine_status, mute_session_state, aiding, told, stray>>
modem == <<up, fix, power, open, restarts>>
vars == <<deferred_q, engine, recurrence, modem>>

Statuses == {"SESSION_BEGIN", "SESSION_END", "ENGINE_ON", "ENGINE_OFF"}
Positions == {"SUCCESS", "INTERMEDIATE", "FAILURE"}
Messages == Statuses \cup Positions \cup
    {"START_FIX", "STOP_FIX", "DELETE_AIDING_DATA", "SET_PARAMETER",
     "PRIVACY_OVERRIDE", "ENGINE_DOWN", "ENGINE_UP"}

Init ==
    /\ deferred_q = <<>>
    /\ navigating = FALSE
    /\ recurrence \in {"PERIODIC", "SINGLE"}
    /\ engine_status = "NONE"
    /\ mute_session_state = "NONE"
    /\ aiding = FALSE
    /\ told = "NONE" /\ stray = FALSE
    /\ up = TRUE /\ fix = "none" /\ power = FALSE /\ open = TRUE
    /\ restarts = 0

-----------------------------------------------------------------------------
(* Calls of the deferred thread into the modem (external).  A crash closes *)
(* the connection, and reinit opens it again if the modem is back.  On an  *)
(* open connection the modem may still fail a start or a stop, and what it *)
(* was running goes on.                                                    *)

reinit == open' = up

startFix(result) ==
    \/ result = "ENGINE_DOWN" /\ ~open' /\ UNCHANGED <<fix, stray>>
    \/ result = "SUCCESS" /\ open' /\ fix' = recurrence /\ stray' = FALSE
    \/ result = "FAILURE" /\ open' /\ fix' = fix /\ stray' = (fix = recurrence)

stopFix(result) ==
    \/ result = "ENGINE_DOWN" /\ ~open /\ UNCHANGED <<fix, stray>>
    \/ result = "SUCCESS" /\ open /\ fix' = "none" /\ stray' = FALSE
    \/ result = "FAILURE" /\ open /\ fix' = fix /\ stray' = (fix = recurrence)

Results == {"SUCCESS", "ENGINE_DOWN", "FAILURE"}

-----------------------------------------------------------------------------
(* The deferred thread *)

(* The end of the loop body, after every message: pending aiding data is   *)
(* deleted once the engine is not on.                                      *)
DeletePending(pending) == aiding' = (pending /\ engine_status' = "ENGINE_ON")

(* loc_eng_start_handler: a start while the modem is down counts, the      *)
(* session begins when the modem is back.                                  *)
loc_eng_start_handler(inSession) ==
    IF inSession
    THEN navigating' = inSession /\ UNCHANGED <<fix, told, stray>>
    ELSE \E result \in Results :
            /\ startFix(result)
            /\ navigating' = (result \in {"SUCCESS", "ENGINE_DOWN"})
            /\ told' = IF navigating' THEN "SESSION_BEGIN" ELSE told

(* The session flag is cleared whether or not the modem stopped. *)
loc_eng_stop_handler ==
    IF ~navigating
    THEN UNCHANGED <<navigating, fix, told, stray>>
    ELSE \E result \in Results :
            /\ stopFix(result)
            /\ navigating' = FALSE
            /\ told' = IF result = "SUCCESS" THEN "SESSION_END" ELSE told

MutedStatusDropped(status) ==
    /\ mute_session_state' =
           IF mute_session_state = "WAIT" /\ status \in {"SESSION_BEGIN", "ENGINE_ON"}
           THEN "IN_SESSION"
           ELSE IF mute_session_state = "IN_SESSION" /\ status \in {"SESSION_END", "ENGINE_OFF"}
           THEN "NONE" ELSE mute_session_state
    /\ engine_status' = IF status \in {"ENGINE_ON", "ENGINE_OFF"}
                           /\ mute_session_state' # "IN_SESSION"
                        THEN status ELSE engine_status

(* loc_eng_report_status without the report itself *)
KeepStatus(status) ==
    /\ mute_session_state' =
           IF mute_session_state = "WAIT" /\ status \in {"SESSION_BEGIN", "ENGINE_ON"}
           THEN "IN_SESSION"
           ELSE IF mute_session_state = "IN_SESSION" /\ status \in {"SESSION_END", "ENGINE_OFF"}
           THEN "NONE" ELSE mute_session_state
    /\ engine_status' = IF status \in {"ENGINE_ON", "ENGINE_OFF"} THEN status ELSE engine_status

ReportsEveryEnd(status) ==
    IF mute_session_state' = "IN_SESSION" \/ status \in {"ENGINE_ON", "ENGINE_OFF"}
    THEN told' = told
    ELSE told' = status

(* The report: a session's begin is told while navigating only, its end    *)
(* while not navigating only, and nothing in a muted session.              *)
InformStatus(status) ==
    IF \/ status = "SESSION_END" /\ navigating
       \/ status = "SESSION_BEGIN" /\ ~navigating
       \/ mute_session_state' = "IN_SESSION"
       \/ status \in {"ENGINE_ON", "ENGINE_OFF"}
    THEN told' = told
    ELSE told' = status

HandleStartFix ==
    /\ Head(deferred_q) = "START_FIX"
    /\ UNCHANGED <<engine_status, mute_session_state, open>>
    /\ loc_eng_start_handler(navigating)
    /\ DeletePending(aiding)

HandleStopFix ==
    /\ Head(deferred_q) = "STOP_FIX"
    /\ loc_eng_stop_handler
    /\ UNCHANGED <<engine_status, mute_session_state, open>>
    /\ DeletePending(aiding)

HandleStatus ==
    /\ Head(deferred_q) \in Statuses
    /\ KeepStatus(Head(deferred_q))
    /\ InformStatus(Head(deferred_q))
    /\ UNCHANGED <<navigating, fix, open, stray>>
    /\ DeletePending(aiding)

(* Of the intermediate fixes only those accurate enough are reported. *)
HandlePosition ==
    /\ Head(deferred_q) \in Positions
    /\ \E reported \in BOOLEAN :
        LET status == Head(deferred_q)
            single == reported /\ recurrence = "SINGLE"
        IN  /\ IF mute_session_state = "IN_SESSION" \/ (status = "INTERMEDIATE" /\ ~AcceptIntermediate)
               THEN ~reported
               ELSE status # "INTERMEDIATE" => reported
            /\ navigating' = (navigating /\ ~single)
            /\ IF single /\ status = "INTERMEDIATE"
               THEN \E result \in Results : stopFix(result)
               ELSE UNCHANGED <<fix, stray>>
    /\ UNCHANGED <<engine_status, mute_session_state, told, open>>
    /\ DeletePending(aiding)

(* An NI request with GPS_NI_PRIVACY_OVERRIDE: loc_eng_mute_one_session *)
HandlePrivacyOverride ==
    /\ Head(deferred_q) = "PRIVACY_OVERRIDE"
    /\ mute_session_state' = "WAIT"
    /\ UNCHANGED <<engine_status, navigating, fix, told, stray, open>>
    /\ DeletePending(aiding)

HandleDeleteAidingData ==
    /\ Head(deferred_q) = "DELETE_AIDING_DATA"
    /\ UNCHANGED <<engine_status, mute_session_state, navigating, fix, told, stray, open>>
    /\ DeletePending(TRUE)

HandleParameter ==
    /\ Head(deferred_q) = "SET_PARAMETER"
    /\ UNCHANGED <<engine_status, mute_session_state, navigating, fix, told, stray, open>>
    /\ DeletePending(aiding)

loc_eng_handle_engine_down ==
    /\ Head(deferred_q) = "ENGINE_DOWN"
    /\ KeepStatus("ENGINE_OFF")
    /\ UNCHANGED <<navigating, fix, told, stray, open>>
    /\ DeletePending(aiding)

UpDoesNotRestart ==
    /\ Head(deferred_q) = "ENGINE_UP"
    /\ reinit
    /\ KeepStatus("ENGINE_ON")
    /\ UNCHANGED <<navigating, fix, told, stray>>
    /\ DeletePending(aiding)

UpKeepsFlag ==
    /\ Head(deferred_q) = "ENGINE_UP"
    /\ reinit
    /\ KeepStatus("ENGINE_ON")
    /\ IF navigating THEN loc_eng_start_handler(navigating) ELSE UNCHANGED <<navigating, fix, told, stray>>
    /\ DeletePending(aiding)

(* A session that was running when the modem crashed is started again. *)
loc_eng_handle_engine_up ==
    /\ Head(deferred_q) = "ENGINE_UP"
    /\ reinit
    /\ KeepStatus("ENGINE_ON")
    /\ IF navigating THEN loc_eng_start_handler(FALSE) ELSE UNCHANGED <<navigating, fix, told, stray>>
    /\ DeletePending(aiding)

loc_eng_deferred_action_thread ==
    /\ deferred_q # <<>>
    /\ \/ HandleStartFix \/ HandleStopFix \/ HandleStatus \/ HandlePosition
       \/ HandlePrivacyOverride \/ HandleDeleteAidingData \/ HandleParameter
       \/ loc_eng_handle_engine_down \/ loc_eng_handle_engine_up
    /\ deferred_q' = Tail(deferred_q)
    /\ UNCHANGED <<recurrence, up, power, restarts>>

-----------------------------------------------------------------------------
(* The framework's threads *)

Send(messages) ==
    /\ Len(deferred_q) + Len(messages) <= MaxQueue
    /\ deferred_q' = deferred_q \o messages

loc_eng_start ==
    /\ Send(<<"START_FIX">>)
    /\ UNCHANGED <<engine, recurrence, modem>>

loc_eng_stop ==
    /\ Send(<<"STOP_FIX">>)
    /\ UNCHANGED <<engine, recurrence, modem>>

loc_eng_delete_aiding_data ==
    /\ Send(<<"DELETE_AIDING_DATA">>)
    /\ UNCHANGED <<engine, recurrence, modem>>

(* Reads the session flag that the deferred thread writes. *)
loc_eng_cleanup ==
    /\ Send(IF navigating THEN <<"STOP_FIX", "SET_PARAMETER">> ELSE <<"SET_PARAMETER">>)
    /\ UNCHANGED <<engine, recurrence, modem>>

-----------------------------------------------------------------------------
(* The modem (external) *)

ModemPowersOn ==
    /\ up /\ fix # "none" /\ ~power
    /\ power' = TRUE
    /\ Send(<<"ENGINE_ON", "SESSION_BEGIN">>)
    /\ UNCHANGED <<engine, recurrence, up, fix, open, restarts>>

ModemPowersOff ==
    /\ up /\ fix = "none" /\ power
    /\ power' = FALSE
    /\ Send(<<"SESSION_END", "ENGINE_OFF">>)
    /\ UNCHANGED <<engine, recurrence, up, fix, open, restarts>>

(* A single-shot session ends with its final fix or failure. *)
ModemReportsPosition ==
    /\ up /\ power /\ fix \in {"PERIODIC", "SINGLE"}
    /\ \E status \in Positions :
        /\ Send(<<status>>)
        /\ fix' = IF fix = "SINGLE" /\ status # "INTERMEDIATE" THEN "none" ELSE fix
    /\ stray' = (stray /\ fix' = fix)
    /\ UNCHANGED <<navigating, engine_status, mute_session_state, aiding, told,
                   recurrence, up, power, open, restarts>>

(* A network-initiated session with privacy override *)
ModemStartsNi ==
    /\ up /\ fix = "none"
    /\ fix' = "NI"
    /\ Send(<<"PRIVACY_OVERRIDE">>)
    /\ UNCHANGED <<engine, recurrence, up, power, open, restarts>>

ModemEndsNi ==
    /\ up /\ fix = "NI"
    /\ fix' = "none"
    /\ UNCHANGED <<deferred_q, engine, recurrence, up, power, open, restarts>>

ModemCrashes ==
    /\ up /\ restarts < MaxRestarts
    /\ restarts' = restarts + 1
    /\ up' = FALSE /\ fix' = "none" /\ power' = FALSE /\ open' = FALSE
    /\ stray' = FALSE
    /\ deferred_q' = Append(deferred_q, "ENGINE_DOWN")
    /\ UNCHANGED <<navigating, engine_status, mute_session_state, aiding, told, recurrence>>

ModemComesBack ==
    /\ ~up
    /\ up' = TRUE
    /\ deferred_q' = Append(deferred_q, "ENGINE_UP")
    /\ UNCHANGED <<engine, recurrence, fix, power, open, restarts>>

-----------------------------------------------------------------------------

Next ==
    \/ loc_eng_deferred_action_thread
    \/ loc_eng_start \/ loc_eng_stop \/ loc_eng_delete_aiding_data \/ loc_eng_cleanup
    \/ ModemPowersOn \/ ModemPowersOff \/ ModemReportsPosition
    \/ ModemStartsNi \/ ModemEndsNi
    \/ ModemCrashes \/ ModemComesBack

(* The deferred thread loops for ever on its queue; a crashed modem is     *)
(* restarted.                                                              *)
Fairness ==
    /\ WF_vars(loc_eng_deferred_action_thread)
    /\ WF_vars(ModemComesBack)

Spec == Init /\ [][Next]_vars
FairSpec == Spec /\ Fairness

-----------------------------------------------------------------------------
(* Properties *)

TypeOK ==
    /\ deferred_q \in Seq(Messages)
    /\ navigating \in BOOLEAN
    /\ recurrence \in {"PERIODIC", "SINGLE"}
    /\ engine_status \in {"NONE", "ENGINE_ON", "ENGINE_OFF"}
    /\ mute_session_state \in {"NONE", "WAIT", "IN_SESSION"}
    /\ aiding \in BOOLEAN
    /\ told \in {"NONE", "SESSION_BEGIN", "SESSION_END"}
    /\ stray \in BOOLEAN
    /\ up \in BOOLEAN
    /\ fix \in {"none", "PERIODIC", "SINGLE", "NI"}
    /\ power \in BOOLEAN
    /\ open \in BOOLEAN
    /\ restarts \in 0..MaxRestarts

AtRest == deferred_q = <<>> /\ up

(* The modem and the session flag agree on a periodic session once all     *)
(* messages are handled, whatever crashes, starts and stops crossed on the *)
(* way: no session is without its fix, and no fix runs that a stop could   *)
(* not reach.  The exception is a fix the modem went on with when a stop   *)
(* or a restart of it failed: the handlers clear the flag all the same.    *)
PeriodicSessionAgrees ==
    AtRest /\ recurrence = "PERIODIC" =>
        /\ navigating => fix = "PERIODIC"
        /\ fix = "PERIODIC" => navigating \/ stray

(* "Session End is not reported during Android navigating state": a late   *)
(* report of an earlier session does not end the current one.              *)
NavigatingWasTold == navigating => told = "SESSION_BEGIN"

(* Aiding data is deleted when engine_status is not ENGINE_ON, and that is *)
(* only what the deferred thread last heard.  While the GPS engine runs,   *)
(* engine_status says so, or the ENGINE_ON that will is queued: no report  *)
(* of an earlier session, crash or muted session leaves it wrong.          *)
EngineStatusCatchesUp ==
    power /\ engine_status # "ENGINE_ON" =>
        \E i \in 1..Len(deferred_q) : deferred_q[i] = "ENGINE_ON"

(* "modem is back up.  If we crashed in the middle of navigating, we       *)
(* restart": a crash does not leave the session without a fix for ever.    *)
CrashIsRecovered ==
    (navigating /\ ~up) ~> (~navigating \/ fix = recurrence)
=============================================================================
