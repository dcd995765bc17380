-------------------------------- MODULE LocHal --------------------------------
(***************************************************************************)
(* The HAL interface of the GPS library (loc.cpp) and the life of the      *)
(* location engine behind it (loc_eng.cpp): reading gps.conf, opening the  *)
(* client with retries, cleanup, the settings the framework makes, server  *)
(* addresses set before and after the initialisation, the routing of       *)
(* messages through the ULP library, and what a modem restart loses and    *)
(* what it restores.                                                       *)
(*                                                                         *)
(* The framework calls the interface from one thread; the deferred thread  *)
(* works on its queue in parallel.  The modem behind LocApiAdapter and the *)
(* ULP library are external.  A restarted modem has none of its settings,  *)
(* and it takes none while the adapter's connection is not open.  Sessions *)
(* are the subject of LocEngSession; START_FIX and STOP_FIX are only       *)
(* routed here.                                                            *)
(***************************************************************************)
EXTENDS LocCfg

CONSTANTS
    Devices,    \* the devices: [file, standalone, csfb, libulp]
    Hosts,      \* server names
    LongHosts,  \* those too long for a url of MAX_URL_LEN
    MaxTries,   \* attempts of loc_eng_init to open the client, 30 in the code
    MaxInputs,  \* bound: calls of the framework and reports of the modem
    MaxCrashes  \* bound: modem crashes, a modem that starts late included

Operands == [kind : {"none", "dec", "hex", "text"}, num : Int]
Files == [found : BOOLEAN, lines : Seq([name : STRING, operand : Operands])]

ASSUME HalAssumption ==
    /\ Devices \subseteq
           [file : Files, standalone : BOOLEAN, csfb : BOOLEAN, libulp : BOOLEAN]
    /\ LongHosts \subseteq Hosts
    /\ MaxTries \in Nat \ {0} /\ MaxInputs \in Nat /\ MaxCrashes \in Nat

VARIABLES
    device,             \* the device the library runs on
    gps_conf,           \* the configuration
    lines_read,         \* lines of gps.conf that were read
    loc_eng_ulp_inf,    \* libulp2.so is loaded
    loc_eng_data,       \* loc_afw_data
    gps_cb,             \* gps_loc_cb and gps_sv_cb are set
    client,             \* client_handle: "NULL", "closed", "open"
    sendUlpMsg,         \* the adapter sends reports to the ULP library
    deferred_q, ulp_q,  \* the queues of the context
    calling,            \* the deferred thread is about to call gps_loc_cb or gps_sv_cb
    fw,                 \* the framework's thread: "loading", "idle", "init", "hung", "dead"
    tries,              \* attempts left in loc_eng_init
    inited,             \* the framework's last init returned 0, and no cleanup followed
    up, setting,        \* the modem: running, its settings
    asked,              \* history: settings made on an open connection, no crash since
    early,              \* history: servers set before init, none since
    inputs, crashes

data == <<device, gps_conf, lines_read, loc_eng_ulp_inf>>
engine == <<loc_eng_data, client, sendUlpMsg>>
queues == <<deferred_q, ulp_q>>
frame == <<fw, tries, inited, gps_cb>>
modem == <<up, setting, crashes>>
history == <<asked, early>>
vars == <<data, engine, queues, calling, frame, modem, history, inputs>>

-----------------------------------------------------------------------------
(* Messages *)

ServerTypes == {"SUPL_SERVER", "CDMA_PDE_SERVER"}
ConfIds == {"SUPL_VERSION", "LPP_CONFIG", "SENSOR_CONTROL", "SENSOR_PROPERTIES", "SENSOR_PERF"}
InjectIds == {"POSITION_MODE", "SET_TIME", "INJECT_LOCATION"}
OtherIds == {"INJECT_XTRA_DATA", "ENABLE_DATA", "EXT_POWER", "ENGINE_LOCK"}
SettingIds == ConfIds \cup InjectIds \cup OtherIds \cup ServerTypes
ReportIds == {"REPORT_POSITION", "REPORT_SV", "REPORT_NMEA", "REQUEST_XTRA_DATA"}
UlpRequestIds == {"REQUEST_NETWORK_POSITION", "REQUEST_PHONE_CONTEXT"}
UlpIds == {"UPDATE_CRITERIA", "RAW_COMMAND", "PHONE_CONTEXT", "NETWORK_POSITION"}

Msg(id, val) == [id |-> id, val |-> val]
Signal(id) == Msg(id, 0)

(* What loc_eng_reinit sends once the client is open.  The random walks    *)
(* are sent only when the file sets one of them.                           *)
RandomWalks == [f \in Floats |-> <<gps_conf.valid[f], gps_conf.value[f]>>]

ReinitForgetsWalks ==
    << Msg("SUPL_VERSION", gps_conf.value["SUPL_VER"]),
       Msg("LPP_CONFIG", gps_conf.value["LPP_PROFILE"]),
       Msg("SENSOR_CONTROL", gps_conf.value["SENSOR_USAGE"]),
       Msg("SENSOR_PERF", gps_conf.value["SENSOR_CONTROL_MODE"]) >>

ReinitMessages ==
    << Msg("SUPL_VERSION", gps_conf.value["SUPL_VER"]),
       Msg("LPP_CONFIG", gps_conf.value["LPP_PROFILE"]),
       Msg("SENSOR_CONTROL", gps_conf.value["SENSOR_USAGE"]) >>
    \o (IF \E f \in Floats : gps_conf.valid[f]
        THEN << Msg("SENSOR_PROPERTIES", RandomWalks) >> ELSE <<>>)
    \o << Msg("SENSOR_PERF", gps_conf.value["SENSOR_CONTROL_MODE"]) >>

(* loc_eng_set_server: the messages it may send.  A SUPL url that is too   *)
(* long is dropped, a PDE host may not be resolved.                        *)
loc_eng_set_server(type, host) ==
    IF type = "SUPL_SERVER"
    THEN IF host \in LongHosts THEN {<<>>} ELSE {<<Msg(type, host)>>}
    ELSE {<<Msg(type, host)>>, <<>>}

(* loc_eng_agps_reinit: the servers that came before init *)
loc_eng_agps_reinit ==
    LET Buffered(type) ==
            LET hosts == loc_eng_data.host_buf[type]
            IN  IF hosts = {} THEN {<<>>} ELSE loc_eng_set_server(type, CHOOSE h \in hosts : TRUE)
    IN  {s \o p : s \in Buffered("SUPL_SERVER"), p \in Buffered("CDMA_PDE_SERVER")}

-----------------------------------------------------------------------------
(* loc_eng_data after the memset of loc_eng_init *)
Cleared ==
    [context |-> FALSE, agps_status_cb |-> FALSE, ulp_initialized |-> FALSE,
     host_buf |-> [t \in ServerTypes |-> {}],
     callbacks |-> {}]

Init ==
    /\ device \in Devices
    /\ gps_conf = loc_default_parameters /\ lines_read = 0
    /\ loc_eng_ulp_inf = FALSE
    /\ loc_eng_data = Cleared
    /\ gps_cb = FALSE
    /\ client = "NULL" /\ sendUlpMsg = FALSE
    /\ deferred_q = <<>> /\ ulp_q = <<>> /\ calling = "no"
    /\ fw = "loading" /\ tries = 0 /\ inited = FALSE
    /\ up \in BOOLEAN
    /\ setting = [s \in SettingIds |-> {}]
    /\ asked = [s \in SettingIds |-> {}]
    /\ early = [t \in ServerTypes |-> {}]
    /\ inputs = 0 /\ crashes = IF up THEN 0 ELSE 1

Capable(mask) == \E weight \in ULP_CAPABILITY : HasBit(mask, weight)
UlpCapable == Capable(gps_conf.value["CAPABILITIES"])
UlpActive == loc_eng_data.ulp_initialized /\ UlpCapable

(* Loading the library: gps.conf is read once, line by line, if there is   *)
(* one, and libulp2.so is loaded if the configuration asks for it and the  *)
(* library is there.  Without a file the defaults stay.                    *)
MoreLines == device.file.found /\ lines_read < Len(device.file.lines)

loc_eng_read_config ==
    /\ fw = "loading" /\ MoreLines
    /\ lines_read' = lines_read + 1
    /\ gps_conf' = loc_read_conf(gps_conf, device.file.lines[lines_read'])
    /\ UNCHANGED <<device, loc_eng_ulp_inf, engine, queues, calling, frame, modem, history, inputs>>

loc_eng_get_ulp_inf == loc_eng_ulp_inf' = (device.libulp /\ UlpCapable)

get_gps_interface ==
    /\ fw = "loading" /\ ~MoreLines
    /\ fw' = "idle"
    /\ loc_eng_get_ulp_inf
    /\ UNCHANGED <<device, gps_conf, lines_read, engine, queues, calling, tries, inited, gps_cb,
                   modem, history, inputs>>

(* The extensions that depend on the device; the geofencing interface is   *)
(* libgeofence's own.                                                      *)
loc_get_extension(name) ==
    CASE name = "AGPS_RIL" -> device.csfb
      [] name = "ULP_NETWORK" -> UlpCapable

-----------------------------------------------------------------------------
(* Calls of the framework *)

Call == fw = "idle" /\ inputs < MaxInputs /\ inputs' = inputs + 1
Ready == Call /\ inited

(* Of a setting made now something is promised only if the connection is   *)
(* open.                                                                   *)
Ask(id, val) == asked' = [asked EXCEPT ![id] = IF client = "open" THEN {val} ELSE {}]

(* A setting that is passed on through the queue, after INIT_CHECK *)
Set(id, val) ==
    IF loc_eng_data.context
    THEN deferred_q' = Append(deferred_q, Msg(id, val)) /\ Ask(id, val)
    ELSE UNCHANGED <<deferred_q, asked>>

loc_eng_set_engine_lock(lock) == Set("ENGINE_LOCK", lock)

UlpInitsAlways(d) == [d EXCEPT !.ulp_initialized = TRUE]

loc_eng_ulp_init(d) == [d EXCEPT !.ulp_initialized = @ \/ loc_eng_ulp_inf]

ForgetsEngineLock ==
    /\ loc_eng_data.context
    /\ loc_eng_data' = loc_eng_ulp_init(loc_eng_data)
    /\ inited' = TRUE
    /\ UNCHANGED <<client, sendUlpMsg, fw, tries, ulp_q, early, deferred_q>>
    /\ Ask("ENGINE_LOCK", 1)

(* loc_eng_init.  The engine's data, with servers and callbacks set        *)
(* earlier, is cleared when there is no context.  The adapter may be       *)
(* missing: then the context is dropped, and the deferred thread, which    *)
(* finds the context of QUIT's owner beyond the end of that object, may    *)
(* leave without waking the caller.                                        *)
AlreadyInitialized ==
    /\ loc_eng_data.context
    /\ loc_eng_data' = loc_eng_ulp_init(loc_eng_data)
    /\ inited' = TRUE
    /\ UNCHANGED <<client, sendUlpMsg, fw, tries, ulp_q, early>>
    /\ loc_eng_set_engine_lock(1)

AdapterCreated ==
    /\ ~loc_eng_data.context
    /\ loc_eng_data' = [Cleared EXCEPT !.context = TRUE, !.callbacks = {"nmea"}]
    /\ client' = "closed"
    /\ sendUlpMsg' = loc_eng_ulp_inf
    /\ fw' = "init" /\ tries' = MaxTries /\ inited' = FALSE
    /\ UNCHANGED <<queues, history>>

drop ==
    \/ fw' = "idle" /\ loc_eng_data' = loc_eng_ulp_init([Cleared EXCEPT !.callbacks = {"nmea"}])
    \/ fw' = "hung" /\ loc_eng_data' = [Cleared EXCEPT !.context = TRUE, !.callbacks = {"nmea"}]

AdapterMissing ==
    /\ ~loc_eng_data.context
    /\ drop
    /\ client' = "NULL" /\ sendUlpMsg' = FALSE
    /\ inited' = FALSE
    /\ UNCHANGED <<tries, queues, history>>

loc_eng_init == AlreadyInitialized \/ AdapterCreated \/ AdapterMissing

(* One attempt to open the client.  After the last one loc_eng_init gives  *)
(* up, but the context stays.                                              *)
OpenClient ==
    /\ fw = "init"
    /\ up
    /\ client' = "open"
    /\ deferred_q' = deferred_q \o ReinitMessages \o <<Msg("ENGINE_LOCK", 1)>>
    /\ asked' = [asked EXCEPT !["ENGINE_LOCK"] = {1}]
    /\ fw' = "idle" /\ inited' = TRUE
    /\ loc_eng_data' = loc_eng_ulp_init(loc_eng_data)
    /\ UNCHANGED <<data, sendUlpMsg, ulp_q, calling, tries, gps_cb, modem, early, inputs>>

RetriesForever ==
    /\ fw = "init"
    /\ client' = "closed"
    /\ UNCHANGED <<data, loc_eng_data, fw, tries, sendUlpMsg, queues, calling, inited, gps_cb, modem, history, inputs>>

OpenFails ==
    /\ fw = "init"
    /\ client' = "closed"
    /\ tries' = tries - 1
    /\ IF tries' = 0
       THEN fw' = "idle" /\ loc_eng_data' = loc_eng_ulp_init(loc_eng_data)
       ELSE UNCHANGED <<fw, loc_eng_data>>
    /\ UNCHANGED <<data, sendUlpMsg, queues, calling, inited, gps_cb, modem, history, inputs>>

(* loc_init: a standalone device has no assistance and needs /dev/gss.     *)
(* When that cannot be opened loc_init returns NULL, which is 0.           *)
get_target_name == device.standalone

MaskAssistance(mask) ==
    mask - (IF HasBit(mask, MSA) THEN MSA ELSE 0) - (IF HasBit(mask, MSB) THEN MSB ELSE 0)

loc_init ==
    /\ Call
    /\ gps_cb' = TRUE
    /\ gps_conf' = IF get_target_name
                   THEN [gps_conf EXCEPT !.value["CAPABILITIES"] = MaskAssistance(@)]
                   ELSE gps_conf
    /\ \/ loc_eng_init
       \/ /\ get_target_name
          /\ inited' = TRUE
          /\ UNCHANGED <<engine, queues, fw, tries, history>>
    /\ UNCHANGED <<device, lines_read, loc_eng_ulp_inf, calling, modem>>

(* loc_cleanup: the context and the client stay *)
loc_cleanup ==
    /\ Call
    /\ inited' = FALSE
    /\ gps_cb' = FALSE
    /\ UNCHANGED <<data, engine, ulp_q, calling, fw, tries, modem, early>>
    /\ loc_eng_set_engine_lock(0)

(* Settings.  The position mode of the framework maps to one of the        *)
(* engine's, with standalone for every other value.                        *)
LocMode(mode) == IF mode \in {"MS_BASED", "MS_ASSISTED"} THEN mode ELSE "STANDALONE"

Passes(id, val) ==
    /\ Ready
    /\ UNCHANGED <<data, engine, ulp_q, calling, frame, modem, early>>
    /\ Set(id, val)

loc_set_position_mode == \E mode \in {"MS_BASED", "OTHER"} : Passes("POSITION_MODE", LocMode(mode))

loc_inject_time == Passes("SET_TIME", "time")

loc_inject_location == Passes("INJECT_LOCATION", "location")

loc_agps_ril_update_network_availability ==
    /\ loc_get_extension("AGPS_RIL")
    /\ \E available \in BOOLEAN : Passes("ENABLE_DATA", available)

(* loc_eng_xtra_inject_data has no INIT_CHECK: without a context it uses a *)
(* NULL pointer.                                                           *)
loc_xtra_inject_data ==
    /\ Ready
    /\ IF loc_eng_data.context
       THEN fw' = fw /\ Set("INJECT_XTRA_DATA", "data")
       ELSE fw' = "dead" /\ UNCHANGED <<deferred_q, asked>>
    /\ UNCHANGED <<data, engine, ulp_q, calling, tries, inited, gps_cb, modem, early>>

(* Servers: buffered before the initialisation, and passed on after it *)
loc_eng_set_server_proxy(type, host) ==
    IF loc_eng_data.context
    THEN \E msgs \in loc_eng_set_server(type, host) :
            /\ deferred_q' = deferred_q \o msgs
            /\ IF msgs = <<>> THEN asked' = asked ELSE Ask(type, host)
            /\ early' = [early EXCEPT ![type] = {}]
            /\ UNCHANGED loc_eng_data
    ELSE /\ loc_eng_data' = [loc_eng_data EXCEPT !.host_buf[type] = {host}]
         /\ early' = [early EXCEPT ![type] = {host}]
         /\ UNCHANGED <<deferred_q, asked>>

loc_agps_set_server ==
    /\ Call
    /\ UNCHANGED <<data, client, sendUlpMsg, ulp_q, calling, frame, modem>>
    /\ \E type \in ServerTypes, host \in Hosts : loc_eng_set_server_proxy(type, host)

(* loc_eng_agps_init: once, and only after the initialisation *)
loc_agps_init ==
    /\ Ready
    /\ loc_eng_data.context /\ ~loc_eng_data.agps_status_cb
    /\ loc_eng_data' = [loc_eng_data EXCEPT !.agps_status_cb = TRUE]
    /\ \E msgs \in loc_eng_agps_reinit : deferred_q' = deferred_q \o msgs
    /\ UNCHANGED <<data, client, sendUlpMsg, ulp_q, calling, frame, modem, history>>

(* Callbacks of the extensions *)
Registers(callback) ==
    /\ Ready
    /\ loc_eng_data' = [loc_eng_data EXCEPT !.callbacks = @ \cup {callback}]
    /\ UNCHANGED <<data, client, sendUlpMsg, queues, calling, frame, modem, history>>

loc_xtra_init == Registers("xtra")
loc_ulp_phone_context_init == Registers("phone")
loc_ulp_network_init == loc_get_extension("ULP_NETWORK") /\ Registers("network")

-----------------------------------------------------------------------------
(* Messages to the ULP library, if it is active *)

Routes(id) ==
    /\ Ready
    /\ loc_eng_data.context
    /\ IF UlpActive
       THEN ulp_q' = Append(ulp_q, Signal(id)) /\ UNCHANGED deferred_q
       ELSE deferred_q' = Append(deferred_q, Signal(id)) /\ UNCHANGED ulp_q
    /\ UNCHANGED <<data, engine, calling, frame, modem, history>>

loc_start == Routes("START_FIX")
loc_stop == Routes("STOP_FIX")

ToUlp(id) ==
    /\ Ready
    /\ loc_eng_data.context /\ UlpActive
    /\ ulp_q' = Append(ulp_q, Signal(id))
    /\ UNCHANGED <<data, engine, deferred_q, calling, frame, modem, history>>

loc_update_criteria == ToUlp("UPDATE_CRITERIA")
loc_inject_raw_command == ToUlp("RAW_COMMAND")

(* Here INIT_CHECK is missing: without a context a NULL pointer is used. *)
loc_ulp_send_network_position ==
    /\ loc_get_extension("ULP_NETWORK")
    /\ Ready /\ UlpActive
    /\ IF loc_eng_data.context
       THEN ulp_q' = Append(ulp_q, Signal("NETWORK_POSITION")) /\ fw' = fw
       ELSE fw' = "dead" /\ UNCHANGED ulp_q
    /\ UNCHANGED <<data, engine, deferred_q, calling, tries, inited, gps_cb, modem, history>>

(* The phone's context goes to the ULP library and, with the state of the  *)
(* battery, to the modem.  INIT_CHECK is missing here, too.                *)
loc_ulp_phone_context_settings_update ==
    /\ Ready
    /\ \E battery \in BOOLEAN :
        /\ ulp_q' = IF UlpActive /\ loc_eng_data.context
                    THEN Append(ulp_q, Signal("PHONE_CONTEXT")) ELSE ulp_q
        /\ fw' = IF ~loc_eng_data.context /\ (UlpActive \/ battery) THEN "dead" ELSE fw
        /\ IF battery THEN Set("EXT_POWER", "charging") ELSE UNCHANGED <<deferred_q, asked>>
    /\ UNCHANGED <<data, engine, calling, tries, inited, gps_cb, modem, early>>

-----------------------------------------------------------------------------
(* The deferred thread *)

Receives(id) == calling = "no" /\ deferred_q # <<>> /\ Head(deferred_q).id = id

(* The messages that pass a value on to the modem *)
HandleSetting(id) ==
    /\ Receives(id)
    /\ deferred_q' = Tail(deferred_q)
    /\ setting' = IF client = "open"
                  THEN [setting EXCEPT ![id] = {Head(deferred_q).val}] ELSE setting
    /\ UNCHANGED <<data, engine, ulp_q, calling, frame, up, crashes, history, inputs>>

HandleConf == \E id \in ConfIds : HandleSetting(id)
HandleServer == \E id \in ServerTypes : HandleSetting(id)
HandleInjection == \E id \in InjectIds : HandleSetting(id)
HandleEnableData == HandleSetting("ENABLE_DATA")
HandleXtraData == HandleSetting("INJECT_XTRA_DATA")
HandleExtPower == HandleSetting("EXT_POWER")
HandleEngineLock == HandleSetting("ENGINE_LOCK")

Consumes(id) ==
    /\ Receives(id)
    /\ deferred_q' = Tail(deferred_q)
    /\ UNCHANGED <<data, engine, ulp_q, frame, modem, history, inputs>>

(* Reports and requests of the modem and of the ULP library; NMEA, XTRA    *)
(* and ULP callbacks are called if they are there.                         *)
HandleNmea == Consumes("REPORT_NMEA") /\ calling' = calling
HandleRequestXtra == Consumes("REQUEST_XTRA_DATA") /\ calling' = calling
HandleUlpRequest == calling' = calling /\ \E id \in UlpRequestIds : Consumes(id)
HandleSession == calling' = calling /\ \E id \in {"START_FIX", "STOP_FIX"} : Consumes(id)

(* loc_cb and sv_cb read the callback twice, to test it and to call it *)
loc_cb == Consumes("REPORT_POSITION") /\ calling' = (IF gps_cb THEN "loc" ELSE "no")
sv_cb == Consumes("REPORT_SV") /\ calling' = (IF gps_cb THEN "sv" ELSE "no")

CallCallback ==
    /\ calling \in {"loc", "sv"}
    /\ IF gps_cb THEN calling' = "no" /\ fw' = fw ELSE calling' = "dead" /\ fw' = "dead"
    /\ UNCHANGED <<data, engine, queues, tries, inited, gps_cb, modem, history, inputs>>

HandleEngineDown == Consumes("ENGINE_DOWN") /\ calling' = calling

(* loc_eng_handle_engine_up: the client is opened again; the servers       *)
(* follow whether that succeeds or not.                                    *)
HandleEngineUp ==
    /\ Receives("ENGINE_UP")
    /\ client' \in {"closed"} \cup (IF up THEN {"open"} ELSE {})
    /\ \E msgs \in (IF loc_eng_data.agps_status_cb THEN loc_eng_agps_reinit ELSE {<<>>}) :
           deferred_q' = Tail(deferred_q)
                         \o (IF client' = "open" THEN ReinitMessages ELSE <<>>) \o msgs
    /\ UNCHANGED <<data, loc_eng_data, sendUlpMsg, ulp_q, calling, frame, modem, history, inputs>>

loc_eng_deferred_action_thread ==
    \/ HandleConf \/ HandleServer \/ HandleInjection
    \/ HandleEnableData \/ HandleXtraData \/ HandleExtPower \/ HandleEngineLock
    \/ HandleNmea \/ HandleRequestXtra \/ HandleUlpRequest \/ HandleSession
    \/ loc_cb \/ sv_cb \/ CallCallback
    \/ HandleEngineDown \/ HandleEngineUp

-----------------------------------------------------------------------------
(* The modem, through LocApiAdapter *)

Alive == fw \notin {"loading", "dead"}
Report(id) ==
    /\ Alive /\ client = "open"
    /\ inputs < MaxInputs /\ inputs' = inputs + 1
    /\ UNCHANGED <<data, engine, calling, frame, modem, history>>

ReportsAround(id) ==
    /\ Report(id)
    /\ deferred_q' = Append(deferred_q, Signal(id)) /\ UNCHANGED ulp_q

(* Positions and satellites go through the ULP library if there is one *)
ReportsThrough(id) ==
    /\ Report(id)
    /\ IF sendUlpMsg
       THEN ulp_q' = Append(ulp_q, Signal(id)) /\ UNCHANGED deferred_q
       ELSE deferred_q' = Append(deferred_q, Signal(id)) /\ UNCHANGED ulp_q

reportPosition == ReportsThrough("REPORT_POSITION")
reportSv == ReportsThrough("REPORT_SV")
reportNmea == ReportsAround("REPORT_NMEA")
requestXtraData == ReportsAround("REQUEST_XTRA_DATA")

ModemCrashes ==
    /\ Alive /\ up /\ crashes < MaxCrashes
    /\ up' = FALSE /\ crashes' = crashes + 1
    /\ setting' = [s \in SettingIds |-> {}]
    /\ asked' = [s \in SettingIds |-> {}]
    /\ IF client = "NULL"
       THEN UNCHANGED <<client, deferred_q>>
       ELSE client' = "closed" /\ deferred_q' = Append(deferred_q, Signal("ENGINE_DOWN"))
    /\ UNCHANGED <<data, loc_eng_data, sendUlpMsg, ulp_q, calling, frame, early, inputs>>

ModemComesBack ==
    /\ Alive /\ ~up
    /\ up' = TRUE
    /\ deferred_q' = IF client = "NULL" THEN deferred_q ELSE Append(deferred_q, Signal("ENGINE_UP"))
    /\ UNCHANGED <<data, engine, ulp_q, calling, frame, setting, crashes, history, inputs>>

(* The ULP library (external): it forwards the session's messages and the  *)
(* reports, keeps the others, and asks for positions and the context.      *)
UlpForwards ==
    /\ Alive /\ ulp_q # <<>>
    /\ ulp_q' = Tail(ulp_q)
    /\ deferred_q' = IF Head(ulp_q).id \in UlpIds THEN deferred_q ELSE Append(deferred_q, Head(ulp_q))
    /\ UNCHANGED <<data, engine, calling, frame, modem, history, inputs>>

UlpRequests ==
    /\ loc_eng_data.context
    /\ loc_eng_data.ulp_initialized
    /\ \E id \in UlpRequestIds : ReportsAround(id)

-----------------------------------------------------------------------------
loc_afw ==
    \/ loc_init \/ loc_cleanup \/ loc_start \/ loc_stop
    \/ loc_set_position_mode \/ loc_inject_time \/ loc_inject_location
    \/ loc_agps_init \/ loc_agps_set_server \/ loc_agps_ril_update_network_availability
    \/ loc_xtra_init \/ loc_xtra_inject_data
    \/ loc_update_criteria \/ loc_inject_raw_command
    \/ loc_ulp_network_init \/ loc_ulp_send_network_position
    \/ loc_ulp_phone_context_init \/ loc_ulp_phone_context_settings_update

Environment ==
    \/ reportPosition \/ reportSv \/ reportNmea \/ requestXtraData
    \/ ModemCrashes \/ ModemComesBack
    \/ UlpForwards \/ UlpRequests

Next ==
    \/ loc_eng_read_config \/ get_gps_interface \/ loc_afw \/ OpenClient \/ OpenFails
    \/ loc_eng_deferred_action_thread
    \/ Environment

(* The thread in loc_eng_init sleeps between its attempts and always goes  *)
(* on, and the deferred thread works while there is a message.             *)
Spec == Init /\ [][Next]_vars
FairSpec ==
    /\ Spec
    /\ WF_vars(OpenClient \/ OpenFails)
    /\ WF_vars(loc_eng_deferred_action_thread)

-----------------------------------------------------------------------------
AtRest == deferred_q = <<>> /\ client = "open"

(* What gps.conf says of a setting of the modem: nothing for the random    *)
(* walks when the file sets none.                                          *)
Configured(id) ==
    CASE id = "SUPL_VERSION" -> {gps_conf.value["SUPL_VER"]}
      [] id = "LPP_CONFIG" -> {gps_conf.value["LPP_PROFILE"]}
      [] id = "SENSOR_CONTROL" -> {gps_conf.value["SENSOR_USAGE"]}
      [] id = "SENSOR_PERF" -> {gps_conf.value["SENSOR_CONTROL_MODE"]}
      [] id = "SENSOR_PROPERTIES" ->
             IF \E f \in Floats : gps_conf.valid[f] THEN {RandomWalks} ELSE {}

(* loc_eng_reinit restores the configuration: whenever the connection is   *)
(* open and the queue empty, after whatever restarts and retries, the      *)
(* modem has every parameter of gps.conf.                                  *)
ConfigRestored == AtRest => \A id \in ConfIds : setting[id] = Configured(id)

(* A setting made on an open connection is in force once the queue is      *)
(* empty, unless the modem crashed since: neither the order of the queue,  *)
(* nor an initialisation or a cleanup in between loses it.  The engine     *)
(* lock is the one of the last loc_init or loc_cleanup.                    *)
SettingsInForce == AtRest => \A id \in SettingIds : asked[id] # {} => setting[id] = asked[id]

(* The configuration in use is the file's: the last line that names a      *)
(* parameter wins, and loc_init takes away the assistance modes only, and  *)
(* only from a standalone device.                                          *)
ConfigIsTheFiles ==
    fw # "loading" =>
        LET written == Written(device.file, IF device.file.found THEN Len(device.file.lines) ELSE 0)
            caps(conf, weight) == HasBit(conf.value["CAPABILITIES"], weight)
        IN  /\ gps_conf.valid = written.valid
            /\ \A p \in Params \ {"CAPABILITIES"} : gps_conf.value[p] = written.value[p]
            /\ \A weight \in ULP_CAPABILITY \cup {GEOFENCING} :
                   caps(gps_conf, weight) <=> caps(written, weight)
            /\ \A weight \in {MSA, MSB} :
                   /\ ~device.standalone => (caps(gps_conf, weight) <=> caps(written, weight))
                   /\ device.standalone /\ gps_cb => ~caps(gps_conf, weight)

(* Once the engine is initialised, a session starts where its positions    *)
(* are expected: loc_eng_start uses the ULP library exactly if the adapter *)
(* sends positions to it.                                                  *)
OneRoute == fw = "idle" /\ loc_eng_data.context => (UlpActive <=> sendUlpMsg)

(* Opening the client ends, with or without success. *)
InitReturns == fw = "init" ~> fw # "init"

(* A server set before the initialisation, and not since, is the one the   *)
(* modem has once the AGPS interface is initialised and the queue empty.   *)
EarlyServerReachesModem ==
    AtRest /\ loc_eng_data.agps_status_cb =>
        \A host \in early["SUPL_SERVER"] \ LongHosts : setting["SUPL_SERVER"] = {host}
=============================================================================
