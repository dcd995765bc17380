------------------------- MODULE CameraWrapperProofs -------------------------
(***************************************************************************)
(* Safety of the camera wrapper for every vendor's camera.                 *)
(*                                                                         *)
(* What an application sets it reads back only because both sides keep to  *)
(* a shape: Shape says which keys a camera can show at all and ties a mode *)
(* to the list or the keys it needs.  A camera may list any of the modes.  *)
(* Each stage of the translation is shown to keep it, field by field.      *)
(***************************************************************************)
EXTENDS CameraWrapper, TLAPS

Isos == {"ISO100", "ISO400", "auto"}
OnOffNull == {"on", "off", Null}

(* The parameters, key by key *)
Parameters ==
    [isValues : SUBSET IsModes, sonyIs : IsModes \cup {Null},
     vsValues : SUBSET VsModes, sonyVs : VsModes \cup {Null},
     aeValues : SUBSET AeModes, sonyAe : AeModes \cup {Null},
     sonyIso : SonyIsos \cup {Null}, sonyShutter : Shutters \cup {Null},
     sonyVideoHdr : OnOffNull,
     sceneValues : SUBSET (Scenes \cup {"hdr"}), scene : Scenes \cup {"hdr"},
     hint : {"true", "false"},
     isoValues : SUBSET Isos, iso : Isos \cup {Null}, shutter : Shutters \cup {Null},
     videoHdr : OnOffNull]

(* The camera shows ISO values only if it has them, shutter speeds only    *)
(* with exposure modes, too, and the scene HDR only with the stabiliser    *)
(* mode behind it.                                                         *)
Shape(p) ==
    /\ p.isValues = v.isValues /\ p.vsValues = v.vsValues /\ p.aeValues = v.aeValues
    /\ p.sonyIso = Null <=> ~v.iso
    /\ p.sonyVideoHdr = Null <=> ~v.videoHdr
    /\ p.sonyAe \in IF v.aeValues = {} THEN {Null} ELSE AeModes
    /\ p.sonyAe \in {"auto", "iso-prio"} => p.sonyAe \in v.aeValues
    /\ p.sonyAe = "manual" => "manual" \in v.aeValues \/ "iso-prio" \in v.aeValues
    /\ p.sonyShutter # "auto"
    /\ p.sonyIs = VALUE_SONY_STILL_HDR => VALUE_SONY_STILL_HDR \in v.isValues
    /\ p.sonyVs = VALUE_SONY_INTELLIGENT_ACTIVE => VALUE_SONY_INTELLIGENT_ACTIVE \in v.vsValues
    /\ p.isoValues # {} => v.iso
    /\ p.iso # Null => v.iso
    /\ p.shutter # Null => v.iso /\ v.aeValues # {}
    /\ p.videoHdr # Null => v.videoHdr
    /\ "hdr" \in p.sceneValues => VALUE_SONY_STILL_HDR \in v.isValues
    /\ p.scene = "hdr" => VALUE_SONY_STILL_HDR \in v.isValues

(* What the vendor stores has no scene of the wrapper's, and no stabilised *)
(* image while it records.                                                 *)
StoredShape ==
    /\ stored \in Parameters
    /\ Shape(stored)
    /\ stored.scene \in Scenes
    /\ stored.hint = "true" => stored.sonyIs # VALUE_SONY_STILL_HDR

ViewShape ==
    /\ view \in Parameters
    /\ Shape(view)

CameraInv ==
    /\ v \in Vendors
    /\ app \in {"none", "read", "set"}
    /\ HandleIsBacked
    /\ StoredShape
    /\ ViewShape
    /\ SettingsSurvive
    /\ NeverNull

USE DEF Null, VALUE_SONY_STILL_HDR, VALUE_SONY_INTELLIGENT_ACTIVE
-----------------------------------------------------------------------------
(* The stages of camera_fixup_setparams *)

(* The fields a stage does not write *)
SameLists(p, q) ==
    /\ q.isValues = p.isValues /\ q.vsValues = p.vsValues /\ q.aeValues = p.aeValues
    /\ q.isoValues = p.isoValues /\ q.sceneValues = p.sceneValues
SameApp(p, q) ==
    /\ q.iso = p.iso /\ q.shutter = p.shutter /\ q.videoHdr = p.videoHdr /\ q.hint = p.hint
SameExposure(p, q) ==
    q.sonyIso = p.sonyIso /\ q.sonyAe = p.sonyAe /\ q.sonyShutter = p.sonyShutter


(* What the assumption says of the camera at hand *)
CameraOK ==
    /\ v.aeValues \in SUBSET AeModes /\ InForce(v.ae, v.aeValues)
    /\ v.isValues \in SUBSET IsModes /\ InForce(v.is, v.isValues)
    /\ v.vsValues \in SUBSET VsModes /\ InForce(v.vs, v.vsValues)
    /\ v.iso \in BOOLEAN /\ v.videoHdr \in BOOLEAN /\ v.keeps \in BOOLEAN

(* A shutter speed selects its priority, automatic selects a listed "auto". *)
LEMMA ShutterStage ==
    ASSUME CameraOK, NEW p \in Parameters, Shape(p), NEW q, q = ShutterToAe(p)
    PROVE  /\ q \in Parameters /\ Shape(q)
           /\ SameLists(p, q) /\ SameApp(p, q)
           /\ q.scene = p.scene /\ q.sonyIs = p.sonyIs /\ q.sonyVideoHdr = p.sonyVideoHdr
           /\ p.shutter = "auto" /\ "auto" \in v.aeValues => q.sonyAe = "auto"
           /\ p.shutter \notin {Null, "auto"} =>
                  q.sonyAe = "shutter-prio" /\ q.sonyShutter = p.shutter
<1>1. CASE p.shutter = Null \/ (p.shutter = "auto" /\ "auto" \notin p.aeValues)
  BY <1>1 DEF Shape, ShutterToAe, SameLists, SameApp
<1>2. CASE p.shutter = "auto" /\ "auto" \in p.aeValues
  <2>1. q = [p EXCEPT !.sonyAe = "auto"]
    BY <1>2 DEF ShutterToAe, CameraOK, Shape, AeModes
  <2>2. q \in Parameters
    BY <2>1 DEF Parameters, AeModes
  <2>3. Shape(q) /\ SameLists(p, q) /\ SameApp(p, q)
    BY <2>1, <1>2 DEF Parameters, AeModes, Shape, SameLists, SameApp
  <2> QED
    BY <2>1, <2>2, <2>3, <1>2 DEF Parameters
<1>3. CASE p.shutter \notin {Null, "auto"}
  <2>1. q = [p EXCEPT !.sonyShutter = p.shutter, !.sonyAe = "shutter-prio"]
    BY <1>3 DEF ShutterToAe
  <2>2. q \in Parameters
    <3> DEFINE r == [p EXCEPT !.sonyShutter = p.shutter]
    <3>1. r \in Parameters
      BY DEF Parameters
    <3>2. q = [r EXCEPT !.sonyAe = "shutter-prio"]
      BY <2>1
    <3> HIDE DEF r
    <3> QED
      BY <3>1, <3>2 DEF Parameters, AeModes
  <2>3. Shape(q) /\ SameLists(p, q) /\ SameApp(p, q)
    BY <2>1, <1>3 DEF Parameters, AeModes, Shape, SameLists, SameApp
  <2> QED
    BY <2>1, <2>2, <2>3, <1>3 DEF Parameters
<1> QED
  BY <1>1, <1>2, <1>3

(* An ISO value selects a listed ISO priority, or manual with a shutter    *)
(* speed; the mode stays as it is if the priority is not listed.           *)
LEMMA IsoStage ==
    ASSUME CameraOK, NEW p \in Parameters, Shape(p), NEW q, q = IsoToAe(p)
    PROVE  /\ q \in Parameters /\ Shape(q)
           /\ SameLists(p, q) /\ SameApp(p, q)
           /\ q.scene = p.scene /\ q.sonyIs = p.sonyIs /\ q.sonyVideoHdr = p.sonyVideoHdr
           /\ q.sonyShutter = p.sonyShutter
           /\ p.sonyAe \in {"auto", "iso-prio"} => q.sonyAe \in {"auto", "iso-prio"}
           /\ p.sonyAe = "shutter-prio" => q.sonyAe \in {"shutter-prio", "manual"}
           /\ p.iso = "auto" /\ "auto" \in v.aeValues => q.sonyAe \in {"auto", "shutter-prio"}
           /\ p.iso \in Isos \ {"auto"} =>
                  /\ q.sonyIso = CutIso(p.iso)
                  /\ "iso-prio" \in v.aeValues => q.sonyAe \in {"iso-prio", "manual"}
<1> USE DEF AeModes, SonyIsos
<1>1. CASE p.iso = Null
  BY <1>1 DEF IsoToAe, SameLists, SameApp, Isos
<1>2. CASE p.iso = "auto"
  <2>1. CASE "auto" \in p.aeValues /\ p.sonyAe # "shutter-prio"
    <3>1. q = [p EXCEPT !.sonyAe = "auto"]
      BY <1>2, <2>1 DEF IsoToAe
    <3>2. q \in Parameters
      BY <3>1 DEF Parameters
    <3>3. Shape(q) /\ SameLists(p, q) /\ SameApp(p, q)
      BY <3>1, <1>2, <2>1 DEF Parameters, Shape, SameLists, SameApp
    <3>4. /\ q.sonyAe = "auto" /\ q.sonyShutter = p.sonyShutter
          /\ q.scene = p.scene /\ q.sonyIs = p.sonyIs /\ q.sonyVideoHdr = p.sonyVideoHdr
      BY <3>1 DEF Parameters
    <3> QED
      BY <3>2, <3>3, <3>4, <1>2, <2>1
  <2>2. CASE ~("auto" \in p.aeValues /\ p.sonyAe # "shutter-prio")
    <3>1. q = p
      BY <1>2, <2>2 DEF IsoToAe
    <3>2. "auto" \in v.aeValues => p.sonyAe = "shutter-prio"
      BY <2>2 DEF Shape
    <3> QED
      BY <3>1, <3>2, <1>2 DEF SameLists, SameApp
  <2> QED
    BY <2>1, <2>2
<1>3. CASE p.iso \in Isos \ {"auto"}
  <2> DEFINE ae == IF "iso-prio" \notin p.aeValues THEN p.sonyAe
                   ELSE IF p.sonyAe = "shutter-prio" THEN "manual" ELSE "iso-prio"
  <2>1. q = [p EXCEPT !.sonyIso = CutIso(p.iso), !.sonyAe = ae]
    BY <1>3 DEF IsoToAe, Isos
  <2>2. CutIso(p.iso) \in SonyIsos
    BY DEF CutIso
  <2>3. /\ ae \in IF v.aeValues = {} THEN {Null} ELSE AeModes
        /\ "iso-prio" \in v.aeValues => ae \in {"iso-prio", "manual"}
        /\ ae \in {"auto", "iso-prio"} => ae \in v.aeValues
        /\ ae = "manual" => "manual" \in v.aeValues \/ "iso-prio" \in v.aeValues
        /\ p.sonyAe = "shutter-prio" => ae \in {"shutter-prio", "manual"}
        /\ p.sonyAe \in {"auto", "iso-prio"} => ae \in {"auto", "iso-prio"}
    BY DEF CameraOK, Shape
  <2> HIDE DEF ae
  <2>4. q \in Parameters
    <3> DEFINE r == [p EXCEPT !.sonyIso = CutIso(p.iso)]
    <3>1. r \in Parameters
      BY <2>2 DEF Parameters
    <3>2. ae \in AeModes \cup {Null} /\ q = [r EXCEPT !.sonyAe = ae]
      BY <2>1, <2>3
    <3> HIDE DEF r
    <3> QED
      BY <3>1, <3>2 DEF Parameters
  <2>5. Shape(q) /\ SameLists(p, q) /\ SameApp(p, q)
    BY <2>1, <2>2, <2>3, <1>3 DEF Parameters, Shape, SameLists, SameApp, Isos
  <2>6. /\ q.sonyAe = ae /\ q.sonyIso = CutIso(p.iso) /\ q.sonyShutter = p.sonyShutter
        /\ q.scene = p.scene /\ q.sonyIs = p.sonyIs /\ q.sonyVideoHdr = p.sonyVideoHdr
    BY <2>1 DEF Parameters
  <2> QED
    BY <2>3, <2>4, <2>5, <2>6, <1>3 DEF Isos, Shape
<1>4. p.iso \in Isos \cup {Null}
  BY DEF Parameters
<1> QED
  BY <1>1, <1>2, <1>3, <1>4

(* The scene HDR becomes the stabiliser's mode, which exists. *)
LEMMA SceneStage ==
    ASSUME CameraOK, NEW p \in Parameters, Shape(p), NEW q, q = SceneToIs(p)
    PROVE  /\ q \in Parameters /\ Shape(q)
           /\ SameLists(p, q) /\ SameApp(p, q) /\ SameExposure(p, q)
           /\ q.sonyVideoHdr = p.sonyVideoHdr
           /\ q.scene = IF p.scene = "hdr" THEN "auto" ELSE p.scene
           /\ q.sonyIs = IF p.scene = "hdr" THEN VALUE_SONY_STILL_HDR ELSE "on"
<1> USE DEF IsModes, Scenes
<1>1. CASE p.scene = "hdr"
  <2>1. q = [p EXCEPT !.sonyIs = VALUE_SONY_STILL_HDR, !.scene = "auto"]
    BY <1>1 DEF SceneToIs
  <2>2. q \in Parameters
    <3> DEFINE r == [p EXCEPT !.sonyIs = VALUE_SONY_STILL_HDR]
    <3>1. r \in Parameters
      BY DEF Parameters
    <3>2. q = [r EXCEPT !.scene = "auto"]
      BY <2>1
    <3> HIDE DEF r
    <3> QED
      BY <3>1, <3>2 DEF Parameters
  <2>3. Shape(q) /\ SameLists(p, q) /\ SameApp(p, q) /\ SameExposure(p, q)
    BY <2>1, <1>1 DEF Parameters, Shape, SameLists, SameApp, SameExposure
  <2> QED
    BY <2>1, <2>2, <2>3, <1>1 DEF Parameters
<1>2. CASE p.scene # "hdr"
  <2>1. q = [p EXCEPT !.sonyIs = "on"]
    BY <1>2 DEF SceneToIs, Parameters
  <2>2. q \in Parameters
    BY <2>1 DEF Parameters
  <2>3. Shape(q) /\ SameLists(p, q) /\ SameApp(p, q) /\ SameExposure(p, q)
    BY <2>1, <1>2 DEF Parameters, CameraOK, Shape, SameLists, SameApp, SameExposure
  <2> QED
    BY <2>1, <2>2, <2>3, <1>2 DEF Parameters
<1> QED
  BY <1>1, <1>2

(* Video HDR is passed on to a camera that has it. *)
LEMMA VideoStage ==
    ASSUME CameraOK, NEW p \in Parameters, Shape(p), NEW q, q = VideoHdrToSony(p)
    PROVE  /\ q \in Parameters /\ Shape(q)
           /\ SameLists(p, q) /\ SameApp(p, q) /\ SameExposure(p, q)
           /\ q.scene = p.scene /\ q.sonyIs = p.sonyIs
           /\ p.videoHdr # Null => q.sonyVideoHdr = p.videoHdr
<1>1. CASE p.videoHdr = Null
  BY <1>1 DEF VideoHdrToSony, SameLists, SameApp, SameExposure
<1>2. CASE p.videoHdr # Null
  <2>1. q = [p EXCEPT !.sonyVideoHdr = p.videoHdr]
    BY <1>2 DEF VideoHdrToSony, Shape, CameraOK
  <2>2. q \in Parameters
    BY <2>1 DEF Parameters
  <2>3. Shape(q) /\ SameLists(p, q) /\ SameApp(p, q) /\ SameExposure(p, q)
    BY <2>1, <1>2 DEF Parameters, Shape, SameLists, SameApp, SameExposure
  <2> QED
    BY <2>1, <2>2, <2>3, <1>2 DEF Parameters
<1> QED
  BY <1>1, <1>2

(* Recording turns the image stabiliser off. *)
LEMMA RecordingStage ==
    ASSUME CameraOK, NEW p \in Parameters, Shape(p), NEW q, q = RecordingToVs(p)
    PROVE  /\ q \in Parameters /\ Shape(q)
           /\ SameLists(p, q) /\ SameApp(p, q) /\ SameExposure(p, q)
           /\ q.scene = p.scene /\ q.sonyVideoHdr = p.sonyVideoHdr
           /\ q.sonyIs = IF p.hint = "true" THEN "off" ELSE p.sonyIs
<1> USE DEF IsModes, VsModes
<1>1. CASE p.hint # "true"
  BY <1>1 DEF RecordingToVs, SameLists, SameApp, SameExposure
<1>2. CASE p.hint = "true"
  <2> DEFINE vs == IF VALUE_SONY_INTELLIGENT_ACTIVE \in p.vsValues
                   THEN VALUE_SONY_INTELLIGENT_ACTIVE ELSE "on"
  <2>1. q = [p EXCEPT !.sonyVs = vs, !.sonyIs = "off"]
    BY <1>2 DEF RecordingToVs
  <2>2. vs \in VsModes /\ (vs = VALUE_SONY_INTELLIGENT_ACTIVE => vs \in v.vsValues)
    BY DEF CameraOK, Shape
  <2> HIDE DEF vs
  <2>3. q \in Parameters
    <3> DEFINE r == [p EXCEPT !.sonyVs = vs]
    <3>1. r \in Parameters
      BY <2>2 DEF Parameters
    <3>2. q = [r EXCEPT !.sonyIs = "off"]
      BY <2>1
    <3> HIDE DEF r
    <3> QED
      BY <3>1, <3>2 DEF Parameters
  <2>4. Shape(q) /\ SameLists(p, q) /\ SameApp(p, q) /\ SameExposure(p, q)
    BY <2>1, <2>2, <1>2 DEF Parameters, CameraOK, Shape, SameLists, SameApp, SameExposure
  <2> QED
    BY <2>1, <2>3, <2>4, <1>2 DEF Parameters
<1> QED
  BY <1>1, <1>2

(* camera_fixup_setparams as a whole, from its stages *)
LEMMA SetTranslates ==
    ASSUME CameraOK, NEW p \in Parameters, Shape(p), NEW q, q = camera_fixup_setparams(p)
    PROVE  /\ q \in Parameters /\ Shape(q)
           /\ SameLists(p, q) /\ SameApp(p, q)
           /\ q.scene = IF p.scene = "hdr" THEN "auto" ELSE p.scene
           /\ q.sonyIs = IF p.hint = "true" THEN "off"
                         ELSE IF p.scene = "hdr" THEN VALUE_SONY_STILL_HDR ELSE "on"
           /\ p.videoHdr # Null => q.sonyVideoHdr = p.videoHdr
           /\ p.shutter = "auto" /\ "auto" \in v.aeValues => q.sonyAe \in {"auto", "iso-prio"}
           /\ p.shutter \notin {Null, "auto"} =>
                  q.sonyAe \in {"shutter-prio", "manual"} /\ q.sonyShutter = p.shutter
           /\ p.iso = "auto" /\ "auto" \in v.aeValues => q.sonyAe \in {"auto", "shutter-prio"}
           /\ p.iso \in Isos \ {"auto"} =>
                  /\ q.sonyIso = CutIso(p.iso)
                  /\ "iso-prio" \in v.aeValues => q.sonyAe \in {"iso-prio", "manual"}
<1> DEFINE p1 == ShutterToAe(p)
           p2 == IsoToAe(p1)
           p3 == SceneToIs(p2)
           p4 == VideoHdrToSony(p3)
<1>0. q = RecordingToVs(p4)
  BY DEF camera_fixup_setparams
<1>1. /\ p1 \in Parameters /\ Shape(p1)
      /\ SameLists(p, p1) /\ SameApp(p, p1)
      /\ p1.scene = p.scene
      /\ p.shutter = "auto" /\ "auto" \in v.aeValues => p1.sonyAe = "auto"
      /\ p.shutter \notin {Null, "auto"} =>
             p1.sonyAe = "shutter-prio" /\ p1.sonyShutter = p.shutter
  BY ShutterStage
<1> HIDE DEF p1
<1>2. /\ p2 \in Parameters /\ Shape(p2)
      /\ SameLists(p1, p2) /\ SameApp(p1, p2)
      /\ p2.scene = p1.scene
      /\ p2.sonyShutter = p1.sonyShutter
      /\ p1.sonyAe \in {"auto", "iso-prio"} => p2.sonyAe \in {"auto", "iso-prio"}
      /\ p1.sonyAe = "shutter-prio" => p2.sonyAe \in {"shutter-prio", "manual"}
      /\ p1.iso = "auto" /\ "auto" \in v.aeValues => p2.sonyAe \in {"auto", "shutter-prio"}
      /\ p1.iso \in Isos \ {"auto"} =>
             /\ p2.sonyIso = CutIso(p1.iso)
             /\ "iso-prio" \in v.aeValues => p2.sonyAe \in {"iso-prio", "manual"}
  BY <1>1, IsoStage
<1> HIDE DEF p2
<1>3. /\ p3 \in Parameters /\ Shape(p3)
      /\ SameLists(p2, p3) /\ SameApp(p2, p3) /\ SameExposure(p2, p3)
      /\ p3.scene = IF p2.scene = "hdr" THEN "auto" ELSE p2.scene
      /\ p3.sonyIs = IF p2.scene = "hdr" THEN VALUE_SONY_STILL_HDR ELSE "on"
  BY <1>2, SceneStage
<1> HIDE DEF p3
<1>4. /\ p4 \in Parameters /\ Shape(p4)
      /\ SameLists(p3, p4) /\ SameApp(p3, p4) /\ SameExposure(p3, p4)
      /\ p4.scene = p3.scene /\ p4.sonyIs = p3.sonyIs
      /\ p3.videoHdr # Null => p4.sonyVideoHdr = p3.videoHdr
  BY <1>3, VideoStage
<1> HIDE DEF p4
<1>5. /\ q \in Parameters /\ Shape(q)
      /\ SameLists(p4, q) /\ SameApp(p4, q) /\ SameExposure(p4, q)
      /\ q.scene = p4.scene /\ q.sonyVideoHdr = p4.sonyVideoHdr
      /\ q.sonyIs = IF p4.hint = "true" THEN "off" ELSE p4.sonyIs
  BY <1>0, <1>4, RecordingStage
<1>6. SameLists(p, q) /\ SameApp(p, q) /\ SameExposure(p2, q)
  BY <1>1, <1>2, <1>3, <1>4, <1>5 DEF SameLists, SameApp, SameExposure
<1>7. p1.iso = p.iso /\ p3.videoHdr = p.videoHdr /\ p4.hint = p.hint
  BY <1>1, <1>2, <1>3, <1>4 DEF SameApp
<1> QED
  BY <1>1, <1>2, <1>3, <1>4, <1>5, <1>6, <1>7 DEF SameExposure

(* The vendor drops keys it does not know, and values without a list. *)
LEMMA VendorStores ==
    ASSUME CameraOK, NEW p \in Parameters, Shape(p), NEW q, q = Stores(p)
    PROVE  /\ q \in Parameters /\ Shape(q)
           /\ SameExposure(p, q)
           /\ q.hint = p.hint /\ q.scene = p.scene /\ q.sonyVideoHdr = p.sonyVideoHdr
           /\ v.isValues # {} => q.sonyIs = p.sonyIs
           /\ q.sonyIs \in {p.sonyIs, Null}
<1>1. CASE v.keeps
  BY <1>1 DEF Stores, SameExposure
<1>2. CASE ~v.keeps
  <2> DEFINE is == IF v.isValues = {} THEN Null ELSE p.sonyIs
             vs == IF v.vsValues = {} THEN Null ELSE p.sonyVs
  <2>1. q = [p EXCEPT !.isoValues = {}, !.iso = Null, !.shutter = Null, !.videoHdr = Null,
                      !.sceneValues = Scenes, !.sonyIs = is, !.sonyVs = vs]
    BY <1>2 DEF Stores
  <2>2. /\ is \in IsModes \cup {Null} /\ is \in {p.sonyIs, Null}
        /\ v.isValues # {} => is = p.sonyIs
        /\ vs \in VsModes \cup {Null} /\ vs \in {p.sonyVs, Null}
    BY DEF Parameters
  <2> HIDE DEF is, vs
  <2>3. q \in Parameters
    <3>1. /\ {} \in SUBSET Isos /\ Null \in Isos \cup {Null} /\ Null \in Shutters \cup {Null}
          /\ Null \in OnOffNull /\ Scenes \in SUBSET (Scenes \cup {"hdr"})
      BY DEF OnOffNull
    <3> DEFINE r1 == [p EXCEPT !.isoValues = {}, !.iso = Null, !.shutter = Null,
                              !.videoHdr = Null, !.sceneValues = Scenes]
               r2 == [r1 EXCEPT !.sonyIs = is]
    <3>2. r1 \in Parameters
      BY <3>1 DEF Parameters
    <3>3. q = [r2 EXCEPT !.sonyVs = vs]
      BY <2>1
    <3> HIDE DEF r1
    <3>4. r2 \in Parameters
      BY <2>2, <3>2 DEF Parameters
    <3> HIDE DEF r2
    <3> QED
      BY <2>2, <3>3, <3>4 DEF Parameters
  <2>4. /\ q.sonyIs = is /\ SameExposure(p, q)
        /\ q.hint = p.hint /\ q.scene = p.scene /\ q.sonyVideoHdr = p.sonyVideoHdr
    BY <2>1 DEF Parameters, SameExposure
  <2>5. Shape(q)
    <3>1. /\ q.isValues = p.isValues /\ q.vsValues = p.vsValues /\ q.aeValues = p.aeValues
          /\ q.isoValues = {} /\ q.iso = Null /\ q.shutter = Null /\ q.videoHdr = Null
          /\ q.sceneValues = Scenes /\ q.sonyVs = vs
      BY <2>1 DEF Parameters
    <3> QED
      BY <2>2, <2>4, <3>1 DEF Shape, Scenes, SameExposure
  <2> QED
    BY <2>2, <2>3, <2>4, <2>5
<1> QED
  BY <1>1, <1>2
-----------------------------------------------------------------------------
(* The stages of camera_fixup_getparams *)

SameSony(p, q) ==
    /\ SameExposure(p, q)
    /\ q.isValues = p.isValues /\ q.vsValues = p.vsValues /\ q.aeValues = p.aeValues
    /\ q.sonyIs = p.sonyIs /\ q.sonyVs = p.sonyVs /\ q.sonyVideoHdr = p.sonyVideoHdr
    /\ q.hint = p.hint

(* The lists an application chooses from *)
LEMMA ListStages ==
    ASSUME CameraOK, NEW p \in Parameters, Shape(p),
           NEW q, q = FixIsoList(camera_fixup_capability(p))
    PROVE  /\ q \in Parameters /\ Shape(q) /\ SameSony(p, q)
           /\ q.scene = p.scene /\ q.iso = p.iso /\ q.shutter = p.shutter
           /\ q.videoHdr = p.videoHdr
<1> DEFINE r == camera_fixup_capability(p)
<1>1. /\ r \in Parameters /\ Shape(r) /\ SameSony(p, r)
      /\ r.scene = p.scene /\ r.iso = p.iso /\ r.shutter = p.shutter
      /\ r.videoHdr = p.videoHdr
  <2>1. CASE VALUE_SONY_STILL_HDR \in p.isValues
    <3>1. r = [p EXCEPT !.sceneValues = p.sceneValues \cup {"hdr"}]
      BY <2>1 DEF camera_fixup_capability
    <3> HIDE DEF r
    <3>2. r \in Parameters
      BY <3>1 DEF Parameters
    <3>3. Shape(r)
      BY <3>1, <2>1 DEF Parameters, Shape
    <3> QED
      BY <3>1, <3>2, <3>3 DEF Parameters, SameSony, SameExposure
  <2>2. CASE VALUE_SONY_STILL_HDR \notin p.isValues
    BY <2>2 DEF camera_fixup_capability, SameSony, SameExposure
  <2> QED
    BY <2>1, <2>2
<1>2. q = FixIsoList(r)
  OBVIOUS
<1> HIDE DEF r
<1>3. CASE r.sonyIso = Null
  BY <1>1, <1>2, <1>3 DEF FixIsoList
<1>4. CASE r.sonyIso # Null
  <2>1. PICK isos \in SUBSET Isos : q = [r EXCEPT !.isoValues = isos]
    <3>1. {AddIso(s) : s \in SonyIsos} \cup {"auto"} \in SUBSET Isos
      BY DEF AddIso, Isos
    <3> QED
      BY <1>2, <1>4, <3>1 DEF FixIsoList
  <2>2. q \in Parameters
    BY <1>1, <2>1 DEF Parameters
  <2>3. Shape(q)
    BY <1>1, <1>4, <2>1 DEF Parameters, Shape, CameraOK
  <2>4. /\ SameSony(r, q)
        /\ q.scene = r.scene /\ q.iso = r.iso /\ q.shutter = r.shutter /\ q.videoHdr = r.videoHdr
    BY <1>1, <2>1 DEF Parameters, SameSony, SameExposure
  <2> QED
    BY <1>1, <2>2, <2>3, <2>4 DEF SameSony, SameExposure
<1> QED
  BY <1>3, <1>4

(* The scene and video HDR *)
LEMMA HdrStages ==
    ASSUME CameraOK, NEW p \in Parameters, Shape(p), NEW q, q = FixVideoHdr(FixScene(p))
    PROVE  /\ q \in Parameters /\ Shape(q) /\ SameSony(p, q)
           /\ q.iso = p.iso /\ q.shutter = p.shutter
           /\ q.scene = IF p.sonyIs = VALUE_SONY_STILL_HDR THEN "hdr" ELSE p.scene
           /\ q.videoHdr = IF p.sonyVideoHdr # Null THEN p.sonyVideoHdr ELSE p.videoHdr
<1> DEFINE r == FixScene(p)
<1>1. /\ r \in Parameters /\ Shape(r) /\ SameSony(p, r)
      /\ r.iso = p.iso /\ r.shutter = p.shutter /\ r.videoHdr = p.videoHdr
      /\ r.scene = IF p.sonyIs = VALUE_SONY_STILL_HDR THEN "hdr" ELSE p.scene
  <2>1. CASE p.sonyIs = VALUE_SONY_STILL_HDR /\ v.isValues # {}
    <3>1. r = [p EXCEPT !.scene = "hdr"]
      BY <2>1 DEF FixScene
    <3> HIDE DEF r
    <3>2. r \in Parameters
      BY <3>1 DEF Parameters
    <3>3. Shape(r)
      BY <3>1, <2>1 DEF Parameters, Shape
    <3> QED
      BY <3>1, <3>2, <3>3, <2>1 DEF Parameters, SameSony, SameExposure
  <2>2. CASE p.sonyIs # VALUE_SONY_STILL_HDR
    BY <2>2 DEF FixScene, SameSony, SameExposure
  <2>3. p.sonyIs = VALUE_SONY_STILL_HDR => v.isValues # {}
    BY DEF Shape
  <2> QED
    BY <2>1, <2>2, <2>3
<1>2. q = FixVideoHdr(r)
  OBVIOUS
<1> HIDE DEF r
<1>3. CASE r.sonyVideoHdr = Null
  BY <1>1, <1>2, <1>3 DEF FixVideoHdr, SameSony
<1>4. CASE r.sonyVideoHdr # Null
  <2>1. q = [r EXCEPT !.videoHdr = r.sonyVideoHdr]
    BY <1>2, <1>4 DEF FixVideoHdr
  <2>2. q \in Parameters
    BY <1>1, <2>1 DEF Parameters
  <2>3. Shape(q)
    BY <1>1, <1>4, <2>1 DEF Parameters, Shape, CameraOK
  <2>4. /\ SameSony(r, q) /\ q.videoHdr = r.sonyVideoHdr
        /\ q.scene = r.scene /\ q.iso = r.iso /\ q.shutter = r.shutter
    BY <1>1, <2>1 DEF Parameters, SameSony, SameExposure
  <2> QED
    BY <1>1, <1>4, <2>2, <2>3, <2>4 DEF SameSony, SameExposure
<1> QED
  BY <1>3, <1>4

(* Without ISO values or exposure modes nothing is reported of them. *)
LEMMA ExposureStage ==
    ASSUME CameraOK, NEW p \in Parameters, Shape(p), NEW q, q = FixExposure(p)
    PROVE  /\ q \in Parameters /\ Shape(q) /\ SameSony(p, q)
           /\ q.scene = p.scene /\ q.videoHdr = p.videoHdr
           /\ ~(v.iso /\ v.aeValues # {}) => q.iso = p.iso /\ q.shutter = p.shutter
           /\ v.iso /\ v.aeValues # {} =>
                  /\ q.iso = IF p.sonyAe \in {"iso-prio", "manual"} THEN AddIso(p.sonyIso)
                                                                    ELSE "auto"
                  /\ p.sonyAe \notin {"shutter-prio", "manual"} => q.shutter = "auto"
                  /\ p.sonyAe \in {"shutter-prio", "manual"} /\ p.sonyShutter # Null =>
                         q.shutter = p.sonyShutter
<1>1. CASE ~(v.iso /\ v.aeValues # {})
  <2>1. q = p
    BY <1>1 DEF FixExposure, Shape, CameraOK
  <2> QED
    BY <1>1, <2>1 DEF SameSony, SameExposure
<1>2. CASE v.iso /\ v.aeValues # {}
  <2> DEFINE i == IF p.sonyAe \in {"iso-prio", "manual"} THEN AddIso(p.sonyIso) ELSE "auto"
             t == IF p.sonyAe \notin {"shutter-prio", "manual"} THEN "auto"
                  ELSE IF p.sonyShutter # Null THEN p.sonyShutter ELSE p.shutter
             r == [p EXCEPT !.iso = i]
  <2>1. i \in Isos
    BY DEF AddIso, Isos
  <2>2. t \in Shutters \cup {Null}
    BY DEF Parameters, Shutters
  <2>3. q = [r EXCEPT !.shutter = t]
    BY <1>2 DEF FixExposure, Shape, Shutters
  <2> HIDE DEF i, t
  <2>4. r \in Parameters
    BY <2>1 DEF Parameters
  <2>5. Shape(r) /\ SameSony(p, r) /\ r.scene = p.scene /\ r.videoHdr = p.videoHdr /\ r.iso = i
    BY <1>2, <2>1 DEF Parameters, Shape, SameSony, SameExposure
  <2> HIDE DEF r
  <2>6. q \in Parameters
    BY <2>2, <2>3, <2>4 DEF Parameters
  <2>7. Shape(q)
    BY <1>2, <2>3, <2>4, <2>5 DEF Parameters, Shape
  <2>8. /\ SameSony(r, q) /\ q.scene = r.scene /\ q.videoHdr = r.videoHdr
        /\ q.iso = r.iso /\ q.shutter = t
    BY <2>3, <2>4 DEF Parameters, SameSony, SameExposure
  <2>9. SameSony(p, q)
    BY <2>5, <2>8 DEF SameSony, SameExposure
  <2> QED
    BY <1>2, <2>5, <2>6, <2>7, <2>8, <2>9 DEF i, t
<1> QED
  BY <1>1, <1>2

(* camera_fixup_getparams as a whole, from its stages *)
LEMMA GetTranslates ==
    ASSUME CameraOK, NEW p \in Parameters, Shape(p), NEW q, q = camera_fixup_getparams(p)
    PROVE  /\ q \in Parameters /\ Shape(q) /\ SameSony(p, q)
           /\ q.scene = IF p.sonyIs = VALUE_SONY_STILL_HDR THEN "hdr" ELSE p.scene
           /\ q.videoHdr = IF p.sonyVideoHdr # Null THEN p.sonyVideoHdr ELSE p.videoHdr
           /\ v.iso /\ v.aeValues # {} =>
                  /\ q.iso = IF p.sonyAe \in {"iso-prio", "manual"} THEN AddIso(p.sonyIso)
                                                                    ELSE "auto"
                  /\ p.sonyAe \notin {"shutter-prio", "manual"} => q.shutter = "auto"
                  /\ p.sonyAe \in {"shutter-prio", "manual"} /\ p.sonyShutter # Null =>
                         q.shutter = p.sonyShutter
<1> DEFINE p1 == FixIsoList(camera_fixup_capability(p))
           p2 == FixVideoHdr(FixScene(p1))
<1>0. q = FixExposure(p2)
  BY DEF camera_fixup_getparams
<1>1. /\ p1 \in Parameters /\ Shape(p1) /\ SameSony(p, p1)
      /\ p1.scene = p.scene /\ p1.videoHdr = p.videoHdr
  BY ListStages
<1> HIDE DEF p1
<1>2. /\ p2 \in Parameters /\ Shape(p2) /\ SameSony(p1, p2)
      /\ p2.scene = IF p1.sonyIs = VALUE_SONY_STILL_HDR THEN "hdr" ELSE p1.scene
      /\ p2.videoHdr = IF p1.sonyVideoHdr # Null THEN p1.sonyVideoHdr ELSE p1.videoHdr
  BY <1>1, HdrStages
<1> HIDE DEF p2
<1>3. /\ q \in Parameters /\ Shape(q) /\ SameSony(p2, q)
      /\ q.scene = p2.scene /\ q.videoHdr = p2.videoHdr
      /\ v.iso /\ v.aeValues # {} =>
             /\ q.iso = IF p2.sonyAe \in {"iso-prio", "manual"} THEN AddIso(p2.sonyIso)
                                                                ELSE "auto"
             /\ p2.sonyAe \notin {"shutter-prio", "manual"} => q.shutter = "auto"
             /\ p2.sonyAe \in {"shutter-prio", "manual"} /\ p2.sonyShutter # Null =>
                    q.shutter = p2.sonyShutter
  BY <1>0, <1>2, ExposureStage
<1>4. SameSony(p, p2) /\ SameSony(p, q)
  BY <1>1, <1>2, <1>3 DEF SameSony, SameExposure
<1> QED
  BY <1>1, <1>2, <1>3, <1>4 DEF SameSony, SameExposure

-----------------------------------------------------------------------------
(* An application changes one key it was shown to a value it was offered. *)
LEMMA EditsKeepShape ==
    ASSUME CameraOK, NEW p \in Parameters, Shape(p), NEW q \in Edits(p)
    PROVE  q \in Parameters /\ Shape(q)
<1> DEFINE Keys == {"scene", "iso", "shutter", "videoHdr", "hint"}
           Values(key) == CASE key = "scene" -> p.sceneValues
                            [] key = "iso" -> p.isoValues
                            [] key = "shutter" -> Shutters
                            [] key = "videoHdr" -> {"on", "off"}
                            [] key = "hint" -> {"true", "false"}
           Shown(key) == key = "iso" \/ p[key] # Null
<1>0. PICK key \in Keys : \E x \in Values(key) : Shown(key) /\ q = [p EXCEPT ![key] = x]
  BY DEF Edits
<1>1. PICK x \in Values(key) : Shown(key) /\ q = [p EXCEPT ![key] = x]
  BY <1>0
<1>2. CASE key = "scene"
  <2>1. q = [p EXCEPT !.scene = x] /\ x \in p.sceneValues
    BY <1>1, <1>2
  <2>2. q \in Parameters
    BY <2>1 DEF Parameters
  <2>3. Shape(q)
    BY <2>1 DEF Parameters, Shape
  <2> QED
    BY <2>1, <2>2, <2>3 DEF Parameters
<1>3. CASE key = "iso"
  <2>1. q = [p EXCEPT !.iso = x] /\ x \in p.isoValues
    BY <1>1, <1>3
  <2>2. q \in Parameters
    BY <2>1 DEF Parameters
  <2>3. Shape(q)
    BY <2>1 DEF Parameters, Shape
  <2> QED
    BY <2>1, <2>2, <2>3 DEF Parameters
<1>4. CASE key = "shutter"
  <2>1. q = [p EXCEPT !.shutter = x] /\ x \in Shutters /\ p.shutter # Null
    BY <1>1, <1>4
  <2>2. q \in Parameters
    BY <2>1 DEF Parameters
  <2>3. Shape(q)
    BY <2>1 DEF Parameters, Shape
  <2> QED
    BY <2>1, <2>2, <2>3 DEF Parameters, Shutters
<1>5. CASE key = "videoHdr"
  <2>1. q = [p EXCEPT !.videoHdr = x] /\ x \in {"on", "off"} /\ p.videoHdr # Null
    BY <1>1, <1>5
  <2>2. q \in Parameters
    BY <2>1 DEF Parameters, OnOffNull
  <2>3. Shape(q)
    BY <2>1 DEF Parameters, Shape
  <2> QED
    BY <2>1, <2>2, <2>3 DEF Parameters
<1>6. CASE key = "hint"
  <2>1. q = [p EXCEPT !.hint = x] /\ x \in {"true", "false"}
    BY <1>1, <1>6
  <2>2. q \in Parameters
    BY <2>1 DEF Parameters
  <2>3. Shape(q)
    BY <2>1 DEF Parameters, Shape
  <2> QED
    BY <2>1, <2>2, <2>3 DEF Parameters
<1> QED
  BY <1>2, <1>3, <1>4, <1>5, <1>6

-----------------------------------------------------------------------------
(* The invariant *)

LEMMA CameraIsOK == v \in Vendors => CameraOK
  BY VendorsAssumption DEF CameraOK

(* The vendor's defaults have the shape: no key of the wrapper's is set. *)
LEMMA DefaultsShape ==
    ASSUME CameraOK, NEW p, p = Defaults(v)
    PROVE  p \in Parameters /\ Shape(p) /\ p.scene \in Scenes /\ p.hint = "false"
<1> DEFINE iso == IF v.iso THEN "100" ELSE Null
           hdr == IF v.videoHdr THEN "off" ELSE Null
<1>1. p = [isValues |-> v.isValues, sonyIs |-> v.is, vsValues |-> v.vsValues, sonyVs |-> v.vs,
           aeValues |-> v.aeValues, sonyAe |-> v.ae, sonyIso |-> iso, sonyShutter |-> Null,
           sonyVideoHdr |-> hdr, sceneValues |-> Scenes, scene |-> "auto", hint |-> "false",
           isoValues |-> {}, iso |-> Null, shutter |-> Null, videoHdr |-> Null]
  BY DEF Defaults
<1>2. /\ v.isValues \in SUBSET IsModes /\ v.is \in IsModes \cup {Null}
      /\ v.vsValues \in SUBSET VsModes /\ v.vs \in VsModes \cup {Null}
      /\ v.aeValues \in SUBSET AeModes /\ v.ae \in AeModes \cup {Null}
      /\ iso \in SonyIsos \cup {Null} /\ hdr \in OnOffNull
      /\ Null \in Shutters \cup {Null} /\ Null \in Isos \cup {Null} /\ Null \in OnOffNull
      /\ Scenes \in SUBSET (Scenes \cup {"hdr"}) /\ "auto" \in Scenes
      /\ {} \in SUBSET Isos
  BY DEF CameraOK, InForce, SonyIsos, OnOffNull, Scenes
<1>3. /\ v.is # Null => v.is \in v.isValues
      /\ v.vs # Null => v.vs \in v.vsValues
      /\ v.ae \in IF v.aeValues = {} THEN {Null} ELSE AeModes
      /\ v.ae # Null => v.ae \in v.aeValues
      /\ iso = Null <=> ~v.iso
      /\ hdr = Null <=> ~v.videoHdr
      /\ "hdr" \notin Scenes
  BY DEF CameraOK, InForce, IsModes, VsModes, AeModes, Scenes
<1> HIDE DEF iso, hdr
<1>4. p \in Parameters
  BY <1>1, <1>2 DEF Parameters
<1>5. Shape(p)
  BY <1>1, <1>3 DEF Shape, Scenes
<1> QED
  BY <1>1, <1>2, <1>4, <1>5

(* Initially the camera has the vendor's defaults, and nobody opened it. *)
LEMMA CameraInit == Init => CameraInv
<1> SUFFICES ASSUME Init PROVE CameraInv
  OBVIOUS
<1>1. CameraOK
  BY CameraIsOK DEF Init
<1>2. StoredShape
  BY <1>1, DefaultsShape DEF Init, StoredShape
<1>3. ViewShape
  BY <1>1, DefaultsShape DEF Init, ViewShape
<1> QED
  BY <1>2, <1>3 DEF Init, CameraInv, HandleIsBacked, SettingsSurvive, NeverNull

(* A step that leaves the camera's parameters alone keeps what is said of  *)
(* them.                                                                   *)
ParametersKept == v' = v /\ UNCHANGED paramVars

LEMMA KeptParameters ==
    ASSUME CameraInv, ParametersKept, NeverNull'
    PROVE  StoredShape' /\ ViewShape' /\ SettingsSurvive' /\ v' \in Vendors
           /\ app' \in {"none", "read", "set"}
  BY DEF CameraInv, ParametersKept, paramVars, StoredShape, ViewShape, SettingsSurvive,
         NeverNull, Shape

(* What the wrapper reports is what it stores, translated: a second read   *)
(* gives the same again.                                                   *)
LEMMA GetKeeps == CameraInv /\ camera_get_parameters => CameraInv'
<1> SUFFICES ASSUME CameraInv, camera_get_parameters PROVE CameraInv'
  OBVIOUS
<1>1. CameraOK
  BY CameraIsOK DEF CameraInv
<1> DEFINE got == camera_fixup_getparams(stored)
<1>2. /\ v' = v /\ stored' = stored /\ view' = got /\ dead' = GetReadsNull(stored)
      /\ app' = IF app = "none" THEN "read" ELSE app
      /\ UNCHANGED <<gVendorModule, device, vendorOpen, orphaned, running>>
  BY DEF camera_get_parameters
<1>3. stored \in Parameters /\ Shape(stored) /\ stored.scene \in Scenes
      /\ (stored.hint = "true" => stored.sonyIs # VALUE_SONY_STILL_HDR)
  BY DEF CameraInv, StoredShape
<1>4. /\ got \in Parameters /\ Shape(got) /\ SameSony(stored, got)
      /\ got.scene = IF stored.sonyIs = VALUE_SONY_STILL_HDR THEN "hdr" ELSE stored.scene
  BY <1>1, <1>3, GetTranslates
<1>5. NeverNull'
  BY <1>2, <1>3 DEF NeverNull, GetReadsNull, Shape, AeModes
<1>6. StoredShape' /\ ViewShape'
  BY <1>2, <1>3, <1>4 DEF StoredShape, ViewShape, Shape
<1>7. SettingsSurvive'
  <2>1. camera_fixup_getparams(stored)' = got
    BY <1>2
  <2>2. got.hint = "true" => got.scene # "hdr"
    BY <1>3, <1>4 DEF SameSony, Scenes
  <2> HIDE DEF got
  <2> QED
    BY <1>2, <2>1, <2>2 DEF SettingsSurvive
<1>8. HandleIsBacked'
  BY <1>2 DEF CameraInv, HandleIsBacked
<1> QED
  BY <1>2, <1>5, <1>6, <1>7, <1>8 DEF CameraInv

(* What is set is read back: the modes the stages of the one translation   *)
(* select are those the other tells apart.                                 *)
LEMMA SetReadsBack ==
    ASSUME CameraOK, NEW p \in Parameters, Shape(p),
           NEW q, q = Stores(camera_fixup_setparams(p)),
           NEW got, got = camera_fixup_getparams(q)
    PROVE  /\ q \in Parameters /\ Shape(q) /\ q.scene \in Scenes
           /\ q.hint = "true" => q.sonyIs # VALUE_SONY_STILL_HDR
           /\ p.iso # Null /\ ModeFor(p.iso) \in v.aeValues => got.iso = p.iso
           /\ p.shutter # Null /\ (p.shutter = "auto" => "auto" \in v.aeValues) =>
                  got.shutter = p.shutter
           /\ p.videoHdr # Null => got.videoHdr = p.videoHdr
           /\ got.scene = IF p.scene = "hdr" /\ p.hint = "true" THEN "auto" ELSE p.scene
<1> DEFINE s == camera_fixup_setparams(p)
<1>1. /\ s \in Parameters /\ Shape(s)
      /\ SameApp(p, s)
      /\ s.scene = IF p.scene = "hdr" THEN "auto" ELSE p.scene
      /\ s.sonyIs = IF p.hint = "true" THEN "off"
                    ELSE IF p.scene = "hdr" THEN VALUE_SONY_STILL_HDR ELSE "on"
      /\ p.videoHdr # Null => s.sonyVideoHdr = p.videoHdr
      /\ p.shutter = "auto" /\ "auto" \in v.aeValues => s.sonyAe \in {"auto", "iso-prio"}
      /\ p.shutter \notin {Null, "auto"} =>
             s.sonyAe \in {"shutter-prio", "manual"} /\ s.sonyShutter = p.shutter
      /\ p.iso = "auto" /\ "auto" \in v.aeValues => s.sonyAe \in {"auto", "shutter-prio"}
      /\ p.iso \in Isos \ {"auto"} =>
             /\ s.sonyIso = CutIso(p.iso)
             /\ "iso-prio" \in v.aeValues => s.sonyAe \in {"iso-prio", "manual"}
  BY SetTranslates
<1>2. q = Stores(s)
  OBVIOUS
<1> HIDE DEF s
<1>3. /\ q \in Parameters /\ Shape(q)
      /\ SameExposure(s, q)
      /\ q.hint = s.hint /\ q.scene = s.scene /\ q.sonyVideoHdr = s.sonyVideoHdr
      /\ v.isValues # {} => q.sonyIs = s.sonyIs
      /\ q.sonyIs \in {s.sonyIs, Null}
  BY <1>1, <1>2, VendorStores
<1>4. /\ got.scene = IF q.sonyIs = VALUE_SONY_STILL_HDR THEN "hdr" ELSE q.scene
      /\ got.videoHdr = IF q.sonyVideoHdr # Null THEN q.sonyVideoHdr ELSE q.videoHdr
      /\ v.iso /\ v.aeValues # {} =>
             /\ got.iso = IF q.sonyAe \in {"iso-prio", "manual"} THEN AddIso(q.sonyIso)
                                                                ELSE "auto"
             /\ q.sonyAe \notin {"shutter-prio", "manual"} => got.shutter = "auto"
             /\ q.sonyAe \in {"shutter-prio", "manual"} /\ q.sonyShutter # Null =>
                    got.shutter = q.sonyShutter
  BY <1>3, GetTranslates
<1>5. q.scene \in Scenes
  BY <1>1, <1>3 DEF Parameters, Scenes
<1>6. q.hint = "true" => q.sonyIs # VALUE_SONY_STILL_HDR
  BY <1>1, <1>3 DEF SameApp
<1>7. ASSUME p.iso # Null, ModeFor(p.iso) \in v.aeValues PROVE got.iso = p.iso
  <2>1. v.iso /\ v.aeValues # {}
    BY <1>7 DEF Shape
  <2>2. p.iso \in Isos
    BY <1>7 DEF Parameters
  <2>3. CASE p.iso = "auto"
    BY <1>1, <1>3, <1>4, <1>7, <2>1, <2>3 DEF SameExposure, ModeFor
  <2>4. CASE p.iso # "auto"
    <3>1. AddIso(CutIso(p.iso)) = p.iso
      BY <2>2, <2>4 DEF AddIso, CutIso, Isos
    <3> QED
      BY <1>1, <1>3, <1>4, <1>7, <2>1, <2>2, <2>4, <3>1 DEF SameExposure, ModeFor
  <2> QED
    BY <2>3, <2>4
<1>8. ASSUME p.shutter # Null, p.shutter = "auto" => "auto" \in v.aeValues
      PROVE  got.shutter = p.shutter
  <2>1. v.iso /\ v.aeValues # {}
    BY <1>8 DEF Shape
  <2> QED
    BY <1>1, <1>3, <1>4, <1>8, <2>1 DEF SameExposure
<1>9. p.videoHdr # Null => got.videoHdr = p.videoHdr
  BY <1>1, <1>3, <1>4
<1>10. got.scene = IF p.scene = "hdr" /\ p.hint = "true" THEN "auto" ELSE p.scene
  <2>1. p.scene = "hdr" => v.isValues # {}
    BY DEF Shape
  <2> QED
    BY <1>1, <1>3, <1>4, <2>1
<1> QED
  BY <1>3, <1>5, <1>6, <1>7, <1>8, <1>9, <1>10

(* Setting keeps the invariant and reads no NULL. *)
LEMMA SetKeeps == CameraInv /\ camera_set_parameters => CameraInv'
<1> SUFFICES ASSUME CameraInv, camera_set_parameters PROVE CameraInv'
  OBVIOUS
<1>1. CameraOK
  BY CameraIsOK DEF CameraInv
<1>2. PICK p \in Edits(view) :
          /\ dead' = SetReadsNull(p)
          /\ stored' = Stores(camera_fixup_setparams(p))
          /\ view' = p
  BY DEF camera_set_parameters
<1>3. /\ v' = v /\ app # "none" /\ app' = "set"
      /\ UNCHANGED <<gVendorModule, device, vendorOpen, orphaned, running>>
  BY DEF camera_set_parameters
<1>4. view \in Parameters /\ Shape(view)
  BY DEF CameraInv, ViewShape
<1>5. p \in Parameters /\ Shape(p)
  BY <1>1, <1>4, EditsKeepShape
<1> DEFINE q == Stores(camera_fixup_setparams(p))
           got == camera_fixup_getparams(q)
<1>6. /\ q \in Parameters /\ Shape(q) /\ q.scene \in Scenes
      /\ q.hint = "true" => q.sonyIs # VALUE_SONY_STILL_HDR
      /\ p.iso # Null /\ ModeFor(p.iso) \in v.aeValues => got.iso = p.iso
      /\ p.shutter # Null /\ (p.shutter = "auto" => "auto" \in v.aeValues) =>
             got.shutter = p.shutter
      /\ p.videoHdr # Null => got.videoHdr = p.videoHdr
      /\ got.scene = IF p.scene = "hdr" /\ p.hint = "true" THEN "auto" ELSE p.scene
  BY <1>1, <1>5, SetReadsBack
<1>7. camera_fixup_getparams(stored)' = got /\ stored' = q
  BY <1>2
<1> HIDE DEF q, got
<1>8. StoredShape' /\ ViewShape'
  BY <1>2, <1>3, <1>4, <1>5, <1>6, <1>7 DEF StoredShape, ViewShape, Shape
<1>9. SettingsSurvive'
  BY <1>2, <1>3, <1>6, <1>7 DEF SettingsSurvive
<1>10. NeverNull'
  <2>1. ~(p.shutter = "auto" /\ p.aeValues = {})
    BY <1>5 DEF Shape
  <2>2. ShutterToAe(p).sonyAe \in IF v.aeValues = {} THEN {Null} ELSE AeModes
    <3>1. Shape(ShutterToAe(p))
      BY <1>1, <1>5, ShutterStage
    <3> QED
      BY <3>1 DEF Shape
  <2>3. p.aeValues = v.aeValues /\ Null \notin AeModes /\ v.aeValues \subseteq AeModes
    BY <1>1, <1>5 DEF Shape, AeModes, CameraOK
  <2> QED
    BY <1>2, <2>1, <2>2, <2>3 DEF NeverNull, SetReadsNull
<1>11. HandleIsBacked'
  BY <1>3 DEF CameraInv, HandleIsBacked
<1> QED
  BY <1>3, <1>8, <1>9, <1>10, <1>11 DEF CameraInv

(* The service's device and the vendor's; the parameters stay as they are  *)
(* unless the camera is opened, which restores the defaults.               *)
LEMMA DeviceStep ==
    ASSUME CameraInv,
           \/ camera_get_number_of_cameras
           \/ OpenFails \/ VendorOpenFails \/ OpsAllocationFails \/ camera_device_open
           \/ camera_device_close
    PROVE  CameraInv'
<1>1. NeverNull' /\ v' = v
  BY DEF CameraInv, NeverNull, camera_get_number_of_cameras, OpenFails, VendorOpenFails,
         OpsAllocationFails, camera_device_open, OpenVendor, camera_device_close
<1>2. CASE camera_get_number_of_cameras
  <2>1. ParametersKept
    BY <1>2 DEF camera_get_number_of_cameras, ParametersKept
  <2>2. HandleIsBacked'
    <3>1. CASE gVendorModule' = gVendorModule
      BY <1>2, <3>1 DEF camera_get_number_of_cameras, CameraInv, HandleIsBacked
    <3>2. CASE gVendorModule' = TRUE
      BY <1>2, <3>2 DEF camera_get_number_of_cameras, CameraInv, HandleIsBacked
    <3> QED
      BY <1>2, <3>1, <3>2 DEF camera_get_number_of_cameras, check_vendor_module
  <2> QED
    BY <1>1, <2>1, <2>2, KeptParameters DEF CameraInv
<1>3. CASE OpenFails \/ VendorOpenFails
  <2>1. ParametersKept
    BY <1>3 DEF OpenFails, VendorOpenFails, ParametersKept
  <2>2. HandleIsBacked'
    BY <1>3 DEF OpenFails, VendorOpenFails, CameraInv, HandleIsBacked, Failed
  <2> QED
    BY <1>1, <2>1, <2>2, KeptParameters DEF CameraInv
<1>4. CASE OpsAllocationFails \/ camera_device_open
  <2>1. OpenVendor
    BY <1>4 DEF OpsAllocationFails, camera_device_open
  <2>2. stored' = Defaults(v) /\ view' = Defaults(v) /\ app' = "none"
    BY <2>1 DEF OpenVendor
  <2>3. CameraOK
    BY CameraIsOK DEF CameraInv
  <2>4. StoredShape' /\ ViewShape'
    BY <1>1, <2>2, <2>3, DefaultsShape DEF StoredShape, ViewShape, Shape
  <2>5. HandleIsBacked'
    BY <1>4, <2>1 DEF OpsAllocationFails, camera_device_open, OpenVendor, CameraInv,
                      HandleIsBacked, Failed
  <2> QED
    BY <1>1, <2>2, <2>4, <2>5 DEF CameraInv, SettingsSurvive
<1>5. CASE camera_device_close
  <2>1. ParametersKept
    BY <1>5 DEF camera_device_close, ParametersKept
  <2>2. HandleIsBacked'
    BY <1>5 DEF camera_device_close, CameraInv, HandleIsBacked
  <2> QED
    BY <1>1, <2>1, <2>2, KeptParameters DEF CameraInv
<1> QED
  BY <1>2, <1>3, <1>4, <1>5

(* A forwarded call starts something only in an open camera, and every one *)
(* of them tests the device first.                                         *)
LEMMA CallKeeps ==
    ASSUME CameraInv, NEW op \in NullTested, VENDOR_CALL(op)
    PROVE  CameraInv'
<1>1. ParametersKept /\ NeverNull'
  BY DEF VENDOR_CALL, ParametersKept, NeverNull
<1>2. HandleIsBacked'
  <2>1. CASE device = "open"
    BY <2>1 DEF VENDOR_CALL, CameraInv, HandleIsBacked
  <2>2. CASE device # "open"
    <3>1. running' = running
      BY <2>2 DEF VENDOR_CALL
    <3> QED
      BY <3>1 DEF VENDOR_CALL, CameraInv, HandleIsBacked
  <2> QED
    BY <2>1, <2>2
<1> QED
  BY <1>1, <1>2, KeptParameters DEF CameraInv

(* Every step keeps the invariant. *)
LEMMA CameraStep == CameraInv /\ [Next]_vars => CameraInv'
<1> SUFFICES ASSUME CameraInv, [Next]_vars PROVE CameraInv'
  OBVIOUS
<1>1. CASE UNCHANGED vars
  <2>1. ParametersKept /\ NeverNull' /\ HandleIsBacked'
    BY <1>1 DEF vars, ParametersKept, CameraInv, NeverNull, HandleIsBacked
  <2> QED
    BY <2>1, KeptParameters DEF CameraInv
<1>2. ASSUME NEW op \in NullTested, VENDOR_CALL(op) PROVE CameraInv'
  BY <1>2, CallKeeps
<1> QED
  BY <1>1, <1>2, DeviceStep, GetKeeps, SetKeeps DEF Next

(* The invariant holds throughout. *)
LEMMA CameraAlways == Spec => []CameraInv
  BY CameraInit, CameraStep, PTL DEF Spec

-----------------------------------------------------------------------------
(* A handle is backed by the vendor's device for any number of openings    *)
(* and failures, and only the failed allocation of camera_ops leaves the   *)
(* vendor's device open without one.                                       *)
THEOREM HandleBacked == Spec => []HandleIsBacked
<1>1. CameraInv => HandleIsBacked
  BY DEF CameraInv
<1> QED
  BY <1>1, CameraAlways, PTL

(* Whatever exposure modes a camera lists, an application reads back what  *)
(* it sets: the scene, video HDR, a shutter speed, and an ISO value or an  *)
(* automatic speed if the mode that stands for it is one of them.          *)
THEOREM SettingsReadBack == Spec => []SettingsSurvive
<1>1. CameraInv => SettingsSurvive
  BY DEF CameraInv
<1> QED
  BY <1>1, CameraAlways, PTL

(* Whatever an application chooses from what it is offered, no camera gets *)
(* the scene HDR or a special value that it does not list, and none        *)
(* without exposure modes gets one.                                        *)
THEOREM SpecialValuesListed == Spec => []SpecialValuesAreListed
<1>1. CameraInv => SpecialValuesAreListed
  <2> SUFFICES ASSUME CameraInv PROVE SpecialValuesAreListed
    OBVIOUS
  <2>1. Shape(stored) /\ stored.scene \in Scenes
    BY DEF CameraInv, StoredShape
  <2> QED
    BY <2>1 DEF SpecialValuesAreListed, Shape
<1> QED
  BY <1>1, CameraAlways, PTL

(* The wrapper never reads a key that is missing. *)
THEOREM NullNeverUsed == Spec => []NeverNull
<1>1. CameraInv => NeverNull
  BY DEF CameraInv
<1> QED
  BY <1>1, CameraAlways, PTL
=============================================================================
