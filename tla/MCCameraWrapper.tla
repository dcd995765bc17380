--------------------------- MODULE MCCameraWrapper ---------------------------
EXTENDS CameraWrapper

OnOff == {"on", "off"}
HdrStill == {"on", "off", "on-still-hdr"}
Active == {"on", "off", "on-intelligent-active"}

Camera(ae, aeValues, is, isValues, vs, vsValues, iso, videoHdr) ==
    {[aeValues |-> aeValues, ae |-> ae, isValues |-> isValues, is |-> is,
      vsValues |-> vsValues, vs |-> vs,
      iso |-> iso, videoHdr |-> videoHdr, keeps |-> k] : k \in BOOLEAN}

(* Cameras with every list of exposure modes and any of them in force; one *)
(* with all that the wrapper translates; one without a list of modes; one  *)
(* without stabilisers; one that cannot turn its stabilisers on, and one   *)
(* that is opened with HDR stills in force.  Each with a vendor that keeps *)
(* unknown keys and one that drops them.                                   *)
MCVendors ==
    UNION {UNION {Camera(ae, aeValues, "on", OnOff, Null, {}, TRUE, FALSE) :
                      ae \in aeValues} : aeValues \in SUBSET AeModes}
    \cup Camera("auto", AeModes, "on", HdrStill, "off", Active, TRUE, TRUE)
    \cup Camera(Null, {}, "on", OnOff, "off", OnOff, TRUE, TRUE)
    \cup Camera("auto", AeModes, Null, {}, Null, {}, FALSE, FALSE)
    \cup Camera("auto", {"auto"}, "off", {"off"}, "off", {"off"}, FALSE, TRUE)
    \cup Camera(Null, {}, "on-still-hdr", HdrStill, "on", Active, FALSE, FALSE)
=============================================================================
