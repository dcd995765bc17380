---------------------------- MODULE CameraWrapper ----------------------------
(***************************************************************************)
(* The camera wrapper (camera/CameraWrapper.cpp): a device that forwards   *)
(* every call to the vendor's camera and translates the parameters in both *)
(* directions, between the names and values the applications know and      *)
(* Sony's own.                                                             *)
(*                                                                         *)
(* Parameters are a record of the keys the wrapper reads or writes, Null   *)
(* for one that is not there; a list of supported values is a set, empty   *)
(* if it is not there; a camera with sony-iso or sony-video-hdr has their  *)
(* lists.  The vendor's camera and the application are external.  The      *)
(* vendor keeps the keys it knows, or all of them, and the application     *)
(* sets only keys it was shown, to values it was offered.                  *)
(* camera_device_open and _close hold gCameraWrapperLock, and the camera   *)
(* service serialises the calls on a device: a call is one step.           *)
(***************************************************************************)
EXTENDS Naturals

CONSTANTS
    Vendors,        \* cameras: their lists isValues, vsValues and aeValues, the values is,
                    \* vs and ae in force when opened, whether sony-iso (iso) and
                    \* sony-video-hdr (videoHdr) exist and unknown keys are kept (keeps)
    MaxOpens        \* bound: calls of camera_device_open

Null == "null"
Failed == "failed"

VALUE_SONY_STILL_HDR == "on-still-hdr"
VALUE_SONY_INTELLIGENT_ACTIVE == "on-intelligent-active"
AeModes == {"auto", "iso-prio", "shutter-prio", "manual"}

IsModes == {"on", "off", VALUE_SONY_STILL_HDR}
VsModes == {"on", "off", VALUE_SONY_INTELLIGENT_ACTIVE}

(* A camera lists any of the modes that the wrapper knows, and has one of  *)
(* those it lists in force when it is opened.                              *)
InForce(mode, values) == IF values = {} THEN mode = Null ELSE mode \in values

ASSUME VendorsAssumption ==
    /\ \A w \in Vendors :
           /\ w.aeValues \subseteq AeModes /\ InForce(w.ae, w.aeValues)
           /\ w.isValues \subseteq IsModes /\ InForce(w.is, w.isValues)
           /\ w.vsValues \subseteq VsModes /\ InForce(w.vs, w.vsValues)
           /\ w.iso \in BOOLEAN /\ w.videoHdr \in BOOLEAN /\ w.keeps \in BOOLEAN
    /\ MaxOpens \in Nat

SonyIsos == {"100", "400"}
Shutters == {"auto", "1/60"}
Scenes == {"auto", "night"}

VARIABLES
    v,              \* the vendor's capabilities
    gVendorModule,  \* TRUE once the vendor's module is loaded
    device,         \* the handle the service holds: Null, "open" or Failed
    opens,          \* calls of camera_device_open
    vendorOpen,     \* the vendor's device is open
    orphaned,       \* it was left open by an allocation that failed
    stored,         \* the vendor's parameters
    running,        \* what the vendor's camera does: preview, recording
    view,           \* the application's parameters
    app,            \* "none", or how it got them: "read" or, the last time, "set"
    dead            \* TRUE once a NULL pointer was used

paramVars == <<stored, view, app>>
vars == <<v, gVendorModule, device, opens, vendorOpen, orphaned, running, paramVars, dead>>

(* external: the vendor's parameters when its device is opened *)
Defaults(w) ==
    [isValues |-> w.isValues, sonyIs |-> w.is,
     vsValues |-> w.vsValues, sonyVs |-> w.vs,
     aeValues |-> w.aeValues, sonyAe |-> w.ae,
     sonyIso |-> IF w.iso THEN "100" ELSE Null, sonyShutter |-> Null,
     sonyVideoHdr |-> IF w.videoHdr THEN "off" ELSE Null,
     sceneValues |-> Scenes, scene |-> "auto", hint |-> "false",
     isoValues |-> {}, iso |-> Null, shutter |-> Null, videoHdr |-> Null]

Init ==
    /\ v \in Vendors
    /\ gVendorModule = FALSE /\ device = Null /\ opens = 0
    /\ vendorOpen = FALSE /\ orphaned = FALSE /\ running = {}
    /\ stored = Defaults(v) /\ view = Defaults(v) /\ app = "none"
    /\ dead = FALSE

-----------------------------------------------------------------------------
(* The translation.  An application knows ISO values with a prefix.        *)

AddIso(sony) == IF sony = "100" THEN "ISO100" ELSE "ISO400"
CutIso(iso) == IF iso = "ISO100" THEN "100" ELSE "400"

camera_fixup_capability(p) ==
    IF VALUE_SONY_STILL_HDR \in p.isValues
    THEN [p EXCEPT !.sceneValues = @ \cup {"hdr"}]
    ELSE p

FixIsoList(p) ==
    IF p.sonyIso = Null THEN p
    ELSE [p EXCEPT !.isoValues = {AddIso(s) : s \in SonyIsos} \cup {"auto"}]

FixScene(p) == IF p.sonyIs = VALUE_SONY_STILL_HDR THEN [p EXCEPT !.scene = "hdr"] ELSE p

FixVideoHdr(p) ==
    IF p.sonyVideoHdr # Null THEN [p EXCEPT !.videoHdr = p.sonyVideoHdr] ELSE p

ExposureUntested(p) ==
    IF p.sonyIso = Null
    THEN p
    ELSE [p EXCEPT !.iso = IF p.sonyAe \in {"iso-prio", "manual"} THEN AddIso(p.sonyIso)
                                                                 ELSE "auto",
                   !.shutter = IF p.sonyAe \notin {"shutter-prio", "manual"} THEN "auto"
                               ELSE IF p.sonyShutter # Null THEN p.sonyShutter ELSE @]

(* The exposure mode gives the ISO and the shutter speed their values; a   *)
(* speed the vendor does not report is left as it is.                      *)
FixExposure(p) ==
    IF p.sonyIso = Null \/ p.aeValues = {}
    THEN p
    ELSE [p EXCEPT !.iso = IF p.sonyAe \in {"iso-prio", "manual"} THEN AddIso(p.sonyIso)
                                                                 ELSE "auto",
                   !.shutter = IF p.sonyAe \notin {"shutter-prio", "manual"} THEN "auto"
                               ELSE IF p.sonyShutter # Null THEN p.sonyShutter ELSE @]

camera_fixup_getparams(p) ==
    FixExposure(FixVideoHdr(FixScene(FixIsoList(camera_fixup_capability(p)))))

GetReadsNull(p) == p.sonyIso # Null /\ p.aeValues # {} /\ p.sonyAe = Null

ShutterToAe(p) ==
    IF p.shutter = Null THEN p
    ELSE IF p.shutter # "auto"
    THEN [p EXCEPT !.sonyShutter = p.shutter, !.sonyAe = "shutter-prio"]
    ELSE IF "auto" \in p.aeValues THEN [p EXCEPT !.sonyAe = "auto"] ELSE p

IsoForgetsShutter(p) ==
    IF p.iso = Null THEN p
    ELSE IF p.iso = "auto"
    THEN IF "auto" \in p.aeValues THEN [p EXCEPT !.sonyAe = "auto"] ELSE p
    ELSE [p EXCEPT !.sonyIso = CutIso(p.iso),
                   !.sonyAe = IF "iso-prio" \in p.aeValues THEN "iso-prio" ELSE @]

(* A shutter speed set just before makes it manual together with an ISO    *)
(* value, and remains in force with an automatic one.                      *)
IsoToAe(p) ==
    IF p.iso = Null THEN p
    ELSE IF p.iso = "auto"
    THEN IF "auto" \in p.aeValues /\ p.sonyAe # "shutter-prio"
         THEN [p EXCEPT !.sonyAe = "auto"] ELSE p
    ELSE [p EXCEPT !.sonyIso = CutIso(p.iso),
                   !.sonyAe = IF "iso-prio" \notin p.aeValues THEN @
                              ELSE IF p.sonyAe = "shutter-prio" THEN "manual" ELSE "iso-prio"]

ScenePassed(p) ==
    IF p.scene = Null THEN p
    ELSE IF p.scene = "hdr"
    THEN [p EXCEPT !.sonyIs = VALUE_SONY_STILL_HDR]
    ELSE [p EXCEPT !.sonyIs = "on"]

SceneToIs(p) ==
    IF p.scene = Null THEN p
    ELSE IF p.scene = "hdr"
    THEN [p EXCEPT !.sonyIs = VALUE_SONY_STILL_HDR, !.scene = "auto"]
    ELSE [p EXCEPT !.sonyIs = "on"]

VideoHdrToSony(p) ==
    IF p.sonyVideoHdr # Null /\ p.videoHdr # Null
    THEN [p EXCEPT !.sonyVideoHdr = p.videoHdr]
    ELSE p

(* Recording takes the video stabiliser and no image stabiliser. *)
RecordingToVs(p) ==
    IF p.hint # "true" THEN p
    ELSE [p EXCEPT !.sonyVs = IF VALUE_SONY_INTELLIGENT_ACTIVE \in p.vsValues
                              THEN VALUE_SONY_INTELLIGENT_ACTIVE ELSE "on",
                   !.sonyIs = "off"]

camera_fixup_setparams(p) ==
    RecordingToVs(VideoHdrToSony(SceneToIs(IsoToAe(ShutterToAe(p)))))

(* The exposure mode that has to be listed before an ISO value changes it *)
ModeFor(iso) == IF iso = "auto" THEN "auto" ELSE "iso-prio"

SetReadsNull(p) ==
    \/ p.shutter = "auto" /\ p.aeValues = {}
    \/ /\ p.iso # Null /\ ModeFor(p.iso) \in p.aeValues
       /\ ShutterToAe(p).sonyAe = Null

-----------------------------------------------------------------------------
(* The module and its device *)

(* check_vendor_module may fail to load the vendor's module *)
check_vendor_module == gVendorModule' \in {gVendorModule, TRUE}

(* camera_get_number_of_cameras and camera_get_camera_info: without the    *)
(* lock, from any thread                                                   *)
camera_get_number_of_cameras ==
    /\ ~dead
    /\ check_vendor_module
    /\ UNCHANGED <<v, device, opens, vendorOpen, orphaned, running, paramVars, dead>>

(* Before the vendor's device is opened: there is no name or the module    *)
(* cannot be loaded, and the service's handle is not written at all; the   *)
(* number is too large or there is no memory for the wrapper.              *)
OpenFails ==
    /\ ~dead /\ device # "open" /\ opens < MaxOpens
    /\ opens' = opens + 1
    /\ check_vendor_module
    /\ device' \in {device, Failed}
    /\ UNCHANGED <<v, vendorOpen, orphaned, running, paramVars, dead>>

(* The vendor's open fails: it always does for a device that is open *)
VendorOpenFails ==
    /\ ~dead /\ device # "open" /\ opens < MaxOpens
    /\ opens' = opens + 1
    /\ gVendorModule' = TRUE
    /\ device' = Failed
    /\ UNCHANGED <<v, vendorOpen, orphaned, running, paramVars, dead>>

OpenVendor ==
    /\ ~dead /\ device # "open" /\ opens < MaxOpens /\ ~vendorOpen
    /\ opens' = opens + 1
    /\ gVendorModule' = TRUE
    /\ vendorOpen' = TRUE
    /\ stored' = Defaults(v) /\ view' = Defaults(v) /\ app' = "none"
    /\ UNCHANGED <<v, running, dead>>

(* camera_ops cannot be allocated: the wrapper is freed and the vendor's   *)
(* device stays open.                                                      *)
OpsAllocationFails ==
    /\ OpenVendor
    /\ device' = Failed
    /\ orphaned' = TRUE

camera_device_open ==
    /\ OpenVendor
    /\ device' = "open"
    /\ UNCHANGED orphaned

CloseKeepsVendor ==
    /\ ~dead /\ device = "open"
    /\ device' = Null
    /\ UNCHANGED <<v, gVendorModule, opens, vendorOpen, orphaned, running, paramVars, dead>>

camera_device_close ==
    /\ ~dead /\ device = "open"
    /\ device' = Null
    /\ vendorOpen' = FALSE /\ running' = {}
    /\ UNCHANGED <<v, gVendorModule, opens, orphaned, paramVars, dead>>

-----------------------------------------------------------------------------
(* The operations that are forwarded as they are.  All of them return      *)
(* before they touch a device that is NULL; put_parameters only frees.     *)

PreviewOps == {"set_preview_window", "set_callbacks", "enable_msg_type", "disable_msg_type",
               "msg_type_enabled", "start_preview", "stop_preview", "preview_enabled"}
RecordingOps == {"store_meta_data_in_buffers", "start_recording", "stop_recording",
                 "recording_enabled", "release_recording_frame"}
PictureOps == {"auto_focus", "cancel_auto_focus", "take_picture", "cancel_picture"}
OtherOps == {"send_command", "release", "dump"}
NullTested == PreviewOps \cup RecordingOps \cup PictureOps \cup OtherOps

VENDOR_CALL(op) ==
    /\ ~dead
    /\ running' = CASE device = "open" /\ op = "start_preview"   -> running \cup {"preview"}
                     [] device = "open" /\ op = "stop_preview"    -> running \ {"preview"}
                     [] device = "open" /\ op = "start_recording" -> running \cup {"recording"}
                     [] device = "open" /\ op = "stop_recording"  -> running \ {"recording"}
                     [] device = "open" /\ op = "release"         -> {}
                     [] OTHER -> running
    /\ dead' = (device # "open" /\ op \notin NullTested)
    /\ UNCHANGED <<v, gVendorModule, device, opens, vendorOpen, orphaned, paramVars>>

-----------------------------------------------------------------------------
(* The operations of the device that translate *)

(* What the vendor makes of parameters it is given (external) *)
Stores(p) ==
    IF v.keeps THEN p
    ELSE [p EXCEPT !.isoValues = {}, !.iso = Null, !.shutter = Null, !.videoHdr = Null,
                   !.sceneValues = Scenes,
                   !.sonyIs = IF v.isValues = {} THEN Null ELSE @,
                   !.sonyVs = IF v.vsValues = {} THEN Null ELSE @]

camera_get_parameters ==
    /\ ~dead /\ device = "open"
    /\ dead' = GetReadsNull(stored)
    /\ view' = camera_fixup_getparams(stored)
    /\ app' = IF app = "none" THEN "read" ELSE app
    /\ UNCHANGED <<v, gVendorModule, device, opens, vendorOpen, orphaned, running, stored>>

(* The changes an application makes to the parameters it has (external) *)
Edits(p) ==
    LET Values(key) == CASE key = "scene" -> p.sceneValues
                         [] key = "iso" -> p.isoValues
                         [] key = "shutter" -> Shutters
                         [] key = "videoHdr" -> {"on", "off"}
                         [] key = "hint" -> {"true", "false"}
        Shown(key) == key = "iso" \/ p[key] # Null
    IN  UNION {{[p EXCEPT ![key] = x] : x \in IF Shown(key) THEN Values(key) ELSE {}} :
                   key \in {"scene", "iso", "shutter", "videoHdr", "hint"}}

camera_set_parameters ==
    /\ ~dead /\ device = "open" /\ app # "none"
    /\ \E p \in Edits(view) :
           /\ dead' = SetReadsNull(p)
           /\ stored' = Stores(camera_fixup_setparams(p))
           /\ view' = p
    /\ app' = "set"
    /\ UNCHANGED <<v, gVendorModule, device, opens, vendorOpen, orphaned, running>>

Next ==
    \/ camera_get_number_of_cameras
    \/ OpenFails \/ VendorOpenFails \/ OpsAllocationFails \/ camera_device_open
    \/ camera_device_close
    \/ \E op \in NullTested : VENDOR_CALL(op)
    \/ camera_get_parameters \/ camera_set_parameters

Spec == Init /\ [][Next]_vars

-----------------------------------------------------------------------------
(* Properties *)

(* A handle the service holds is backed by the vendor's device, nothing    *)
(* runs in a camera that cannot be stopped any more, and the vendor's      *)
(* device is open without a handle only after the one failure that leaves  *)
(* it so, the allocation of camera_ops.                                    *)
HandleIsBacked ==
    /\ device = "open" => vendorOpen /\ gVendorModule
    /\ running # {} => device = "open"
    /\ vendorOpen => device = "open" \/ orphaned

(* What an application sets it reads back: the scene (CameraWrapper.cpp    *)
(* says that it is HDR again, "see fixup_setparams"), video HDR, the ISO   *)
(* value and the shutter speed, whatever was in force before.  A camera    *)
(* that does not list the mode for an ISO value, or "auto" for automatic   *)
(* speed, ignores the setting (lines 239, 253, 258).  Recording turns the  *)
(* image stabiliser off and takes the scene HDR with it.                   *)
SettingsSurvive ==
    app = "set" /\ ~dead =>
        LET got == camera_fixup_getparams(stored)
        IN  /\ view.iso # Null /\ ModeFor(view.iso) \in v.aeValues => got.iso = view.iso
            /\ view.shutter # Null /\ (view.shutter = "auto" => "auto" \in v.aeValues) =>
                   got.shutter = view.shutter
            /\ view.videoHdr # Null => got.videoHdr = view.videoHdr
            /\ got.scene = IF view.scene = "hdr" /\ view.hint = "true" THEN "auto" ELSE view.scene

(* The vendor's camera never gets the scene "hdr", which is the wrapper's, *)
(* nor one of Sony's special values that it does not list: HDR stills,     *)
(* intelligent active, automatic exposure and ISO priority; it gets an     *)
(* exposure mode at all only if it lists some, and manual only if it lists *)
(* that or ISO priority.  The wrapper does write, without a look at the    *)
(* lists, "shutter-prio" (line 236), "manual" beside a listed "iso-prio"   *)
(* (line 260) and the stabilisers' "on" and "off" (lines 275, 289, 291).   *)
SpecialValuesAreListed ==
    /\ stored.scene \in Scenes
    /\ stored.sonyIs = VALUE_SONY_STILL_HDR => VALUE_SONY_STILL_HDR \in v.isValues
    /\ stored.sonyVs = VALUE_SONY_INTELLIGENT_ACTIVE =>
           VALUE_SONY_INTELLIGENT_ACTIVE \in v.vsValues
    /\ stored.sonyAe \in {"auto", "iso-prio"} => stored.sonyAe \in v.aeValues
    /\ stored.sonyAe = "manual" => v.aeValues \cap {"manual", "iso-prio"} # {}
    /\ stored.sonyAe # Null => v.aeValues # {}

(* The wrapper compares the exposure mode and its list without testing for *)
(* NULL everywhere (lines 180, 239, 254, 259).  An application that sets   *)
(* only what it was shown never makes it read one.                         *)
NeverNull == ~dead
=============================================================================
