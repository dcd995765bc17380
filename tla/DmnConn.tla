------------------------------- MODULE DmnConn -------------------------------
(***************************************************************************)
(* The connection to the location daemons (the loc_eng_dmn_conn files).    *)
(* QUIPC and MSAPM ask for Wi-Fi, the gpsOne daemon for SUPL, by messages  *)
(* on one named pipe.  The server thread reads it and passes them to the   *)
(* deferred thread, whose state machines (two instances of AgpsNif) answer *)
(* on a pipe of each sender.                                               *)
(*                                                                         *)
(* A pipe holds MaxPipe messages, a write to a full one blocks.  A message *)
(* is smaller than PIPE_BUF, so it is written and read as a whole.  The    *)
(* deferred queue is modelled as three: the senders' messages here and the *)
(* replies of the framework to each machine in AgpsNif; how they are mixed *)
(* is then left open, as it is by the delays of the senders.  The daemons  *)
(* are external: each sends a request, may send the release before or      *)
(* after the answer, and asks again only when that is settled.  Requests   *)
(* of type ANY take the path of SUPL, to a machine of the same kind.       *)
(* Nothing ends the server: the calls of _unblock and _join are compiled   *)
(* out of loc_eng_cleanup.                                                 *)
(***************************************************************************)
EXTENDS Naturals, Sequences, SequencesExt

CONSTANTS
    Faulty,         \* the pipes that may fail to open
    MaxPipe,        \* messages a pipe holds
    MaxCommands,    \* bound: requests of the senders
    MaxRestarts     \* bound: restarts of the modem

WifiSenders == {"QUIPC", "MSAPM"}
Senders == WifiSenders \cup {"GPSONE_DAEMON"}
Pipes == Senders \cup {"SERVER"}

ASSUME DmnAssumption ==
    /\ Faulty \subseteq Pipes
    /\ MaxPipe \in Nat \ {0} /\ MaxCommands \in Nat /\ MaxRestarts \in Nat

VARIABLES
    launch,         \* the framework thread in loc_eng_agps_init
    thread_ready, thread_exit,
    server,         \* the server thread: "none", "init", "loop" or "exited"
    fds,            \* the pipes whose descriptors are open
    server_pipe,    \* messages of the senders
    resp_pipe,      \* the answers, by sender
    deferred_q,     \* messages from the server thread to the deferred thread
    writing,        \* the answers the deferred thread has still to write
    sender,         \* the senders: "idle", "asking", "granted" or "releasing"
    lost,           \* senders that asked for what is dropped without an answer
    commands, restarts

VARIABLES wifi_state, wifi_subs, wifi_inactive, wifi_servicer, wifi_client,
          wifi_replies, wifi_if
VARIABLES agnss_state, agnss_subs, agnss_inactive, agnss_servicer, agnss_client,
          agnss_replies, agnss_if

wifiVars == <<wifi_state, wifi_subs, wifi_inactive, wifi_servicer, wifi_client,
              wifi_replies, wifi_if>>
agnssVars == <<agnss_state, agnss_subs, agnss_inactive, agnss_servicer, agnss_client,
               agnss_replies, agnss_if>>
threadVars == <<launch, thread_ready, thread_exit, server, fds>>
pipeVars == <<server_pipe, resp_pipe, deferred_q, writing>>
senderVars == <<sender, lost, commands>>
vars == <<threadVars, pipeVars, senderVars, restarts, wifiVars, agnssVars>>

wifi_nif == INSTANCE AgpsNif
    WITH Subscribers <- WifiSenders, WaitForClose <- WifiSenders, EnforceSingle <- TRUE,
         DroppedOnRestart <- FALSE, MaxRequests <- 2, MaxReplies <- 2,
         mStatePtr <- wifi_state, mSubscribers <- wifi_subs, inactive <- wifi_inactive,
         servicer <- wifi_servicer, client <- wifi_client, deferred_q <- wifi_replies,
         nif <- wifi_if

agnss_nif == INSTANCE AgpsNif
    WITH Subscribers <- {"GPSONE_DAEMON"}, WaitForClose <- {}, EnforceSingle <- FALSE,
         DroppedOnRestart <- TRUE, MaxRequests <- 2, MaxReplies <- 2,
         mStatePtr <- agnss_state, mSubscribers <- agnss_subs, inactive <- agnss_inactive,
         servicer <- agnss_servicer, client <- agnss_client, deferred_q <- agnss_replies,
         nif <- agnss_if

Init ==
    /\ launch = "idle" /\ thread_ready = FALSE /\ thread_exit = FALSE
    /\ server = "none" /\ fds = {}
    /\ server_pipe = <<>> /\ resp_pipe = [s \in Senders |-> <<>>]
    /\ deferred_q = <<>> /\ writing = <<>>
    /\ sender = [s \in Senders |-> "idle"] /\ lost = {}
    /\ commands = 0 /\ restarts = 0
    /\ wifi_nif!Init /\ agnss_nif!Init

-----------------------------------------------------------------------------
(* The framework thread: loc_eng_dmn_conn_loc_api_server_launch *)

(* thelper_signal_init, and the thread is created.  A thread that          *)
(* create_thread_cb could not create goes unnoticed.                       *)
loc_eng_dmn_conn_launch_thelper ==
    /\ launch = "idle"
    /\ launch' = "created"
    /\ thread_ready' = FALSE /\ thread_exit' = FALSE
    /\ server' \in {"init", "none"}
    /\ UNCHANGED <<fds, pipeVars, senderVars, restarts, wifiVars, agnssVars>>

WaitsAnyway ==
    /\ launch = "created"
    /\ launch' = "waiting"
    /\ UNCHANGED <<thread_ready, thread_exit, server, fds, pipeVars, senderVars, restarts,
                   wifiVars, agnssVars>>

thelper_signal_wait ==
    /\ launch = "created"
    /\ launch' = IF thread_ready \/ thread_exit THEN "returned" ELSE "waiting"
    /\ UNCHANGED <<thread_ready, thread_exit, server, fds, pipeVars, senderVars, restarts,
                   wifiVars, agnssVars>>

(* pthread_cond_wait may return without a signal; nothing is tested again. *)
SpuriousWakeup ==
    /\ launch = "waiting"
    /\ launch' = "returned"
    /\ UNCHANGED <<thread_ready, thread_exit, server, fds, pipeVars, senderVars, restarts,
                   wifiVars, agnssVars>>

-----------------------------------------------------------------------------
(* The server thread: thelper_main *)

(* loc_api_server_proc_init and thelper_signal_ready.  A pipe that cannot  *)
(* be opened is logged and ignored.                                        *)
loc_api_server_proc_init ==
    /\ server = "init"
    /\ fds' \in {Pipes} \cup {Pipes \ {p} : p \in Faulty}
    /\ thread_ready' = TRUE
    /\ launch' = IF launch = "waiting" THEN "returned" ELSE launch
    /\ server' = "loop"
    /\ UNCHANGED <<thread_exit, pipeVars, senderVars, restarts, wifiVars, agnssVars>>

(* if_request_handler and if_release_handler: the message for the deferred *)
(* thread, none for a type that is not in the enumeration.                 *)
if_handler(m) == IF m.type = "OTHER" THEN <<>> ELSE <<m>>

(* loc_api_server_proc: a blocking read, and the handler of the message *)
loc_api_server_proc ==
    /\ server = "loop" /\ "SERVER" \in fds
    /\ server_pipe # <<>>
    /\ server_pipe' = Tail(server_pipe)
    /\ deferred_q' = deferred_q \o if_handler(Head(server_pipe))
    /\ UNCHANGED <<threadVars, resp_pipe, writing, senderVars, restarts, wifiVars, agnssVars>>

(* Out of memory: thread_proc fails, the loop ends, proc_post closes and   *)
(* removes the pipes.                                                      *)
loc_api_server_proc_post ==
    /\ server = "loop"
    /\ thread_exit' = TRUE
    /\ server' = "exited"
    /\ fds' = {}
    /\ UNCHANGED <<launch, thread_ready, pipeVars, senderVars, restarts, wifiVars, agnssVars>>

-----------------------------------------------------------------------------
(* The deferred thread *)

AnswersUnsubscribe(status) ==
    CASE status \in {"RSRC_UNSUBSCRIBE", "RSRC_RELEASED"} -> <<"RELEASE_SUCCESS">>
      [] status = "RSRC_DENIED"  -> <<"FAILURE">>
      [] status = "RSRC_GRANTED" -> <<"REQUEST_SUCCESS">>

(* What a subscriber does with a notification: its answer, if any *)
WIFISubscriber_notifyRsrcStatus(status) ==
    CASE status = "RSRC_UNSUBSCRIBE" -> <<>>
      [] status = "RSRC_RELEASED"    -> <<"RELEASE_SUCCESS">>
      [] status = "RSRC_DENIED"      -> <<"FAILURE">>
      [] status = "RSRC_GRANTED"     -> <<"REQUEST_SUCCESS">>

SilentOnUnsubscribe(status) ==
    CASE status = "RSRC_UNSUBSCRIBE" -> <<>>
      [] status = "RSRC_RELEASED"    -> <<"RELEASE_SUCCESS">>
      [] status = "RSRC_DENIED"      -> <<"FAILURE">>
      [] status = "RSRC_GRANTED"     -> <<"REQUEST_SUCCESS">>

BITSubscriber_notifyRsrcStatus(status) ==
    CASE status \in {"RSRC_UNSUBSCRIBE", "RSRC_RELEASED"} -> <<"RELEASE_SUCCESS">>
      [] status = "RSRC_DENIED"  -> <<"FAILURE">>
      [] status = "RSRC_GRANTED" -> <<"REQUEST_SUCCESS">>

PipesSwapped(s, result) ==
    LET to == CASE s = "QUIPC" -> "MSAPM" [] s = "MSAPM" -> "QUIPC" [] OTHER -> s
    IN  <<to, result>>

(* loc_eng_dmn_conn_loc_api_server_data_conn: the pipe and the result *)
data_conn(s, result) == <<s, result>>

notify(s, status) ==
    LET answer == IF s \in WifiSenders THEN WIFISubscriber_notifyRsrcStatus(status)
                                       ELSE BITSubscriber_notifyRsrcStatus(status)
    IN  [i \in DOMAIN answer |-> data_conn(s, answer[i])]

(* Whoever the machine told something in this step *)
Notified(before, after, status) ==
    LET told == {s \in DOMAIN before : after[s] # before[s]}
    IN  IF told = {} THEN <<>> ELSE notify(CHOOSE s \in told : TRUE, status)

TakesMessage(id) ==
    /\ writing = <<>>
    /\ deferred_q # <<>> /\ Head(deferred_q).id = id
    /\ deferred_q' = Tail(deferred_q)
    /\ UNCHANGED <<threadVars, server_pipe, resp_pipe, sender, commands, restarts>>

(* LOC_ENG_MSG_REQUEST_WIFI *)
RequestWifi ==
    /\ TakesMessage("REQUEST") /\ Head(deferred_q).sender \in WifiSenders
    /\ LET s == Head(deferred_q).sender
       IN  /\ wifi_nif!ClientRequest(s)
           /\ writing' = IF wifi_nif!refused THEN notify(s, "RSRC_DENIED")
                         ELSE IF wifi_state = "Acquired" THEN notify(s, "RSRC_GRANTED")
                         ELSE <<>>
    /\ UNCHANGED <<lost, agnssVars>>

(* LOC_ENG_MSG_REQUEST_BIT: a type that is neither SUPL nor ANY is logged *)
RequestBit ==
    /\ TakesMessage("REQUEST") /\ Head(deferred_q).sender = "GPSONE_DAEMON"
    /\ \/ /\ Head(deferred_q).type = "SUPL"
          /\ agnss_nif!ClientRequest("GPSONE_DAEMON")
          /\ writing' = IF agnss_state = "Acquired"
                        THEN notify("GPSONE_DAEMON", "RSRC_GRANTED") ELSE <<>>
       \/ /\ Head(deferred_q).type # "SUPL"
          /\ UNCHANGED <<agnssVars, writing>>
    /\ UNCHANGED <<lost, wifiVars>>

(* LOC_ENG_MSG_RELEASE_WIFI: unsubscribeRsrc ignores who is not listed *)
ReleaseWifi ==
    /\ TakesMessage("RELEASE") /\ Head(deferred_q).sender \in WifiSenders
    /\ LET s == Head(deferred_q).sender
       IN  \/ /\ s \in wifi_subs
              /\ wifi_nif!ClientRelease(s)
              /\ writing' = notify(s, "RSRC_UNSUBSCRIBE")
           \/ /\ s \notin wifi_subs
              /\ UNCHANGED <<wifiVars, writing>>
    /\ UNCHANGED <<lost, agnssVars>>

(* LOC_ENG_MSG_RELEASE_BIT *)
ReleaseBit ==
    /\ TakesMessage("RELEASE") /\ Head(deferred_q).sender = "GPSONE_DAEMON"
    /\ \/ /\ Head(deferred_q).type = "SUPL" /\ "GPSONE_DAEMON" \in agnss_subs
          /\ agnss_nif!ClientRelease("GPSONE_DAEMON")
          /\ writing' = notify("GPSONE_DAEMON", "RSRC_UNSUBSCRIBE")
       \/ /\ Head(deferred_q).type # "SUPL" \/ "GPSONE_DAEMON" \notin agnss_subs
          /\ UNCHANGED <<agnssVars, writing>>
    /\ UNCHANGED <<lost, wifiVars>>

(* LOC_ENG_MSG_ATL_OPEN_SUCCESS, _ATL_OPEN_FAILED and _ATL_CLOSED *)
WifiReply ==
    /\ writing = <<>>
    /\ wifi_nif!HandleReply
    /\ writing' = Notified(wifi_client, wifi_client', Head(wifi_replies))
    /\ UNCHANGED <<threadVars, server_pipe, resp_pipe, deferred_q, senderVars, restarts,
                   agnssVars>>

AgnssReply ==
    /\ writing = <<>>
    /\ agnss_nif!HandleReply
    /\ writing' = Notified(agnss_client, agnss_client', Head(agnss_replies))
    /\ UNCHANGED <<threadVars, server_pipe, resp_pipe, deferred_q, senderVars, restarts,
                   wifiVars>>

(* loc_eng_handle_engine_up: nobody is told.  Without a subscriber nothing *)
(* here changes.                                                           *)
EngineUp ==
    /\ writing = <<>> /\ agnss_subs # {}
    /\ restarts < MaxRestarts /\ restarts' = restarts + 1
    /\ agnss_nif!EngineUp
    /\ lost' = lost \cup agnss_subs
    /\ UNCHANGED <<threadVars, pipeVars, sender, commands, wifiVars>>

(* loc_eng_dmn_conn_glue_msgsnd blocks on a full pipe and fails on one     *)
(* that is not open; the callers of data_conn ignore the failure.          *)
loc_eng_dmn_conn_glue_msgsnd ==
    /\ writing # <<>>
    /\ LET s == Head(writing)[1]
       IN  \/ /\ s \in fds /\ Len(resp_pipe[s]) < MaxPipe
              /\ resp_pipe' = [resp_pipe EXCEPT ![s] = Append(@, Head(writing)[2])]
           \/ /\ s \notin fds
              /\ UNCHANGED resp_pipe
    /\ writing' = Tail(writing)
    /\ UNCHANGED <<threadVars, server_pipe, deferred_q, senderVars, restarts, wifiVars, agnssVars>>

-----------------------------------------------------------------------------
(* The senders and the connectivity framework (external) *)

Send(s, id, type) ==
    /\ "SERVER" \in fds /\ Len(server_pipe) < MaxPipe
    /\ server_pipe' = Append(server_pipe, [id |-> id, sender |-> s, type |-> type])
    /\ UNCHANGED <<threadVars, resp_pipe, deferred_q, writing, restarts, wifiVars, agnssVars>>

Types(s) == IF s \in WifiSenders THEN {"WIFI"} ELSE {"SUPL", "WIFI", "OTHER"}

SenderRequests(s) ==
    /\ sender[s] = "idle" /\ commands < MaxCommands
    /\ \E type \in Types(s) :
           /\ Send(s, "REQUEST", type)
           /\ lost' = IF s = "GPSONE_DAEMON" /\ type # "SUPL" THEN lost \cup {s} ELSE lost
    /\ sender' = [sender EXCEPT ![s] = "asking"]
    /\ commands' = commands + 1

SenderReleases(s) ==
    /\ sender[s] \in {"asking", "granted"} /\ s \notin lost
    /\ Send(s, "RELEASE", IF s \in WifiSenders THEN "WIFI" ELSE "SUPL")
    /\ sender' = [sender EXCEPT ![s] = "releasing"]
    /\ UNCHANGED <<lost, commands>>

(* A request that is granted after its release leaves the sender waiting   *)
(* for the release.                                                        *)
SenderReads(s) ==
    /\ resp_pipe[s] # <<>>
    /\ resp_pipe' = [resp_pipe EXCEPT ![s] = Tail(@)]
    /\ sender' = [sender EXCEPT ![s] =
           IF Head(resp_pipe[s]) # "REQUEST_SUCCESS" THEN "idle"
           ELSE IF @ = "releasing" THEN "releasing" ELSE "granted"]
    /\ UNCHANGED <<threadVars, server_pipe, deferred_q, writing, lost, commands, restarts,
                   wifiVars, agnssVars>>

WifiAfw ==
    /\ \/ wifi_nif!AfwRequest \/ wifi_nif!AfwOpened \/ wifi_nif!AfwOpenFailed
       \/ wifi_nif!AfwRelease
    /\ UNCHANGED <<threadVars, pipeVars, senderVars, restarts, agnssVars>>

AgnssAfw ==
    /\ \/ agnss_nif!AfwRequest \/ agnss_nif!AfwOpened \/ agnss_nif!AfwOpenFailed
       \/ agnss_nif!AfwRelease
    /\ UNCHANGED <<threadVars, pipeVars, senderVars, restarts, wifiVars>>

WifiLost ==
    /\ wifi_nif!AfwConnectionLost
    /\ UNCHANGED <<threadVars, pipeVars, senderVars, restarts, agnssVars>>

AgnssLost ==
    /\ agnss_nif!AfwConnectionLost
    /\ UNCHANGED <<threadVars, pipeVars, senderVars, restarts, wifiVars>>

-----------------------------------------------------------------------------

FrameworkThread ==
    loc_eng_dmn_conn_launch_thelper \/ thelper_signal_wait \/ SpuriousWakeup

ServerThread == loc_api_server_proc_init \/ loc_api_server_proc

DeferredThread ==
    \/ RequestWifi \/ RequestBit \/ ReleaseWifi \/ ReleaseBit
    \/ WifiReply \/ AgnssReply
    \/ loc_eng_dmn_conn_glue_msgsnd

Next ==
    \/ FrameworkThread
    \/ ServerThread \/ loc_api_server_proc_post
    \/ DeferredThread \/ EngineUp
    \/ \E s \in Senders : SenderRequests(s) \/ SenderReleases(s) \/ SenderReads(s)
    \/ WifiAfw \/ AgnssAfw \/ WifiLost \/ AgnssLost

Spec == Init /\ [][Next]_vars

(* The threads run, the framework serves every request, and the senders    *)
(* read their pipes.  No sender has to ask, no connection to be lost.      *)
Fairness ==
    /\ WF_vars(thelper_signal_wait)
    /\ WF_vars(ServerThread)
    /\ WF_vars(DeferredThread)
    /\ WF_vars(WifiAfw \/ AgnssAfw)
    /\ WF_vars(\E s \in Senders : SenderReads(s))

FairSpec == Spec /\ Fairness

-----------------------------------------------------------------------------
(* Properties *)

Status(s) == IF s \in WifiSenders THEN wifi_client[s] ELSE agnss_client[s]
Interface(s) == IF s \in WifiSenders THEN wifi_if ELSE agnss_if
Servicer(s) == IF s \in WifiSenders THEN wifi_servicer ELSE agnss_servicer
Replies(s) == IF s \in WifiSenders THEN wifi_replies ELSE agnss_replies
(* What stands on the pipe of a sender, and behind it what the deferred    *)
(* thread has still to write there                                         *)
Answers(s) ==
    resp_pipe[s] \o (IF writing # <<>> /\ Head(writing)[1] = s THEN <<Head(writing)[2]>> ELSE <<>>)

(* From end to end: a sender that was told REQUEST_SUCCESS and has not     *)
(* released has an open interface, or the news that it is gone is under    *)
(* way: as a reply of the framework, or as a RELEASE_SUCCESS on the        *)
(* sender's own pipe.  Excepted are a modem restart, which drops the       *)
(* subscription and tells nobody, and pipes that are closed or missing.    *)
GrantIsBacked ==
    \A s \in Senders :
        (sender[s] = "granted" /\ s \notin lost /\ s \in fds) =>
            \/ Status(s) = "granted" /\ (Interface(s) = "open"
                                         \/ Contains(Replies(s), "RSRC_RELEASED"))
            \/ Contains(Answers(s), "RELEASE_SUCCESS")

(* An answer carries no request: the sender relies on its reading.  What   *)
(* stands on its pipe fits what it last sent: a grant or a failure only    *)
(* for a request that is open, a release only to who holds or releases;    *)
(* an idle sender gets nothing, and nobody waits behind the one answer the *)
(* deferred thread writes.  (A pipe that is not open loses answers.)       *)
AnswerFits ==
    /\ Len(writing) <= 1
    /\ \A s \in fds \cap Senders :
           /\ sender[s] = "idle" => Answers(s) = <<>>
           /\ sender[s] = "granted" => Answers(s) \in {<<>>, <<"RELEASE_SUCCESS">>}
           /\ sender[s] = "asking" => Answers(s) = <<>> \/ Head(Answers(s)) # "RELEASE_SUCCESS"
           /\ \A i \in 1..Len(Answers(s)) :
                  Answers(s)[i] \in {"FAILURE", "RELEASE_SUCCESS"} => i = Len(Answers(s))

(* Nobody waits for nothing: a sender that waits for an answer has a       *)
(* message of its own under way, an answer to read, or a machine that      *)
(* waits for the framework, which has a request or an opening to work on   *)
(* or has answered already.                                                *)
SenderIsServed ==
    \A s \in fds \cap Senders :
        (sender[s] \in {"asking", "releasing"} /\ s \notin lost) =>
            \/ \E i \in 1..Len(deferred_q) : deferred_q[i].sender = s
            \/ \E i \in 1..Len(server_pipe) : server_pipe[i].sender = s
            \/ Answers(s) # <<>>
            \/ /\ Status(s) \in {"waiting", "closing"}
               /\ \/ Servicer(s) # <<>> \/ Interface(s) = "opening"
                  \/ Replies(s) # <<>>

(* A sender that waits is answered in the end: no cycle of full pipes and  *)
(* waiting threads forms, and no release is swallowed by a connection that *)
(* was lost meanwhile.  Excepted are a server that ran out of memory,      *)
(* pipes that could not be opened, requests of a type that is only logged, *)
(* and the subscription a modem restart drops.                             *)
EverySenderAnswered ==
    \A s \in Senders :
        sender[s] \in {"asking", "releasing"} ~>
            \/ sender[s] \in {"idle", "granted"}
            \/ s \in lost \/ ~({"SERVER", s} \subseteq fds)

(* Nobody waits in the handshake for a signal that was given already: the  *)
(* server thread is still to give it, or could not be created.             *)
WaiterIsSignalled == launch = "waiting" => server \in {"none", "init"}

(* The handshake loses no wakeup: once the server thread exists, the       *)
(* framework's call of loc_eng_agps_init returns.                          *)
LaunchReturns == (launch # "idle" /\ server # "none") ~> launch = "returned"
=============================================================================
