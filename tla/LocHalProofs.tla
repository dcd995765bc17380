----------------------------- MODULE LocHalProofs -----------------------------
(***************************************************************************)
(* Safety of the GPS library's life cycle for every configuration file,    *)
(* any number of retries, modem crashes and calls, and queues of any       *)
(* length.                                                                 *)
(*                                                                         *)
(* What holds at rest needs invariants that hold while messages are under  *)
(* way: ConfigInv says that an open connection has its configuration or    *)
(* finds it in the queue, SettingsInv where the last message of a setting  *)
(* is, and that no ENGINE_UP, which may close the connection, follows it.  *)
(***************************************************************************)
EXTENDS LocHal, SequenceTheorems, TLAPS

Conf == [value : [Params -> Int], valid : [Floats -> BOOLEAN]]
SessionIds == {"START_FIX", "STOP_FIX"}
QuietIds == ReportIds \cup UlpRequestIds \cup SessionIds
Ids == SettingIds \cup QuietIds \cup {"ENGINE_UP", "ENGINE_DOWN"}
Values == Int \cup Hosts \cup BOOLEAN \cup [Floats -> BOOLEAN \X Int]
          \cup {"MS_BASED", "STANDALONE", "MS_ASSISTED", "time", "location", "data", "charging"}
Messages == [id : Ids, val : Values]
UlpMessages == [id : ReportIds \cup SessionIds \cup UlpIds, val : {0}]

Callbacks == {"nmea", "xtra", "phone", "network"}
EngineData ==
    [context : BOOLEAN, agps_status_cb : BOOLEAN, ulp_initialized : BOOLEAN,
     host_buf : [ServerTypes -> SUBSET Hosts],
     callbacks : SUBSET Callbacks]

(* The types of the variables the invariants speak of: the engine and its  *)
(* callers, and the queue and the settings                                 *)
RestTypes ==
    /\ device \in Devices
    /\ gps_conf \in Conf
    /\ lines_read \in 0..Len(device.file.lines)
    /\ ~device.file.found => lines_read = 0
    /\ loc_eng_ulp_inf \in BOOLEAN /\ sendUlpMsg \in BOOLEAN
    /\ gps_cb \in BOOLEAN /\ up \in BOOLEAN
    /\ loc_eng_data \in EngineData
    /\ client \in {"NULL", "closed", "open"}
    /\ fw \in {"loading", "idle", "init", "hung", "dead"}
    /\ ulp_q \in Seq(UlpMessages)

TypeOK ==
    /\ RestTypes
    /\ deferred_q \in Seq(Messages)
    /\ setting \in [SettingIds -> SUBSET Values]
    /\ asked \in [SettingIds -> SUBSET Values]

(* While the library is loaded nothing else happens, and the configuration *)
(* is what the lines read so far say.                                      *)
LoadingInv ==
    fw = "loading" =>
        /\ gps_conf = Written(device.file, lines_read)
        /\ deferred_q = <<>> /\ calling = "no" /\ client = "NULL" /\ ~loc_eng_data.context /\ ~gps_cb
        /\ \A id \in SettingIds : setting[id] = {} /\ asked[id] = {}

(* The engine's data: a server that is buffered belongs to a time without  *)
(* context; the ULP library is used as soon as the engine is initialised.  *)
EngineInv ==
    /\ client = "open" => up
    /\ loc_eng_data.context => \A t \in ServerTypes : loc_eng_data.host_buf[t] = {}
    /\ loc_eng_data.agps_status_cb => loc_eng_data.context
    /\ loc_eng_data.ulp_initialized => loc_eng_ulp_inf
    /\ fw = "init" => loc_eng_data.context
    /\ fw # "loading" /\ loc_eng_ulp_inf => UlpCapable
    /\ fw = "loading" => ~loc_eng_ulp_inf
    /\ loc_eng_data.context /\ fw \in {"idle", "init"} => sendUlpMsg = loc_eng_ulp_inf
    /\ loc_eng_data.context /\ fw = "idle" => loc_eng_data.ulp_initialized = loc_eng_ulp_inf

Queued(q, id) == \E i \in 1..Len(q) : q[i].id = id

(* Its messages of loc_eng_reinit carry the configuration. *)
Carries(q) == \A i \in 1..Len(q) : q[i].id \in ConfIds => {q[i].val} = Configured(q[i].id)

(* Over an open connection the modem has a parameter, or it is queued. *)
ConfigInv ==
    /\ Carries(deferred_q)
    /\ \A id \in ConfIds : setting[id] \in {{}, Configured(id)}
    /\ client = "open" => \A id \in ConfIds : setting[id] = Configured(id) \/ Queued(deferred_q, id)

(* The message that carries the value asked for is the last of its kind,   *)
(* and no ENGINE_UP comes after it.                                        *)
LastIs(q, id, val) ==
    \E i \in 1..Len(q) :
        /\ q[i].id = id /\ {q[i].val} = val
        /\ \A j \in 1..Len(q) : j > i => q[j].id \notin {id, "ENGINE_UP"}

(* It was handled: nothing of its kind, and no ENGINE_UP, follows. *)
Handled(id, val) ==
    /\ ~Queued(deferred_q, id) /\ ~Queued(deferred_q, "ENGINE_UP")
    /\ client = "open" => setting[id] = val

Promised(id) ==
    /\ id \notin ConfIds
    /\ up /\ fw \notin {"loading", "init"} /\ loc_eng_data.context

SettingsInv ==
    \A id \in SettingIds :
        asked[id] # {} =>
            Promised(id) /\ (LastIs(deferred_q, id, asked[id]) \/ Handled(id, asked[id]))

HalInv ==
    /\ TypeOK
    /\ LoadingInv
    /\ EngineInv
    /\ ConfigInv
    /\ SettingsInv
    /\ ConfigIsTheFiles

-----------------------------------------------------------------------------
(* Bits of a mask *)

LEMMA LastDigit ==
    ASSUME NEW n \in Int
    PROVE  \E k \in Int, d \in {0, 1} : n = 2 * k + d
<1>1. n \div 2 \in Int /\ (n = 2 * (n \div 2) + 0 \/ n = 2 * (n \div 2) + 1)
  OBVIOUS
<1> QED BY <1>1

LEMMA Digits ==
    ASSUME NEW m \in Int
    PROVE  \E h \in Int, a \in {0, 1}, b \in {0, 1}, c \in {0, 1} : m = 8 * h + 4 * a + 2 * b + c
<1>1. PICK m2 \in Int, c \in {0, 1} : m = 2 * m2 + c
  BY LastDigit
<1>2. PICK m4 \in Int, b \in {0, 1} : m2 = 2 * m4 + b
  BY LastDigit
<1>3. PICK h \in Int, a \in {0, 1} : m4 = 2 * h + a
  BY LastDigit
<1>4. m = 8 * h + 4 * a + 2 * b + c
  BY <1>1, <1>2, <1>3
<1> QED BY <1>4

LEMMA Bits ==
    ASSUME NEW h \in Int, NEW a \in {0, 1}, NEW b \in {0, 1}, NEW c \in {0, 1}, NEW m, m = 8 * h + 4 * a + 2 * b + c
    PROVE  /\ HasBit(m, 4) <=> a = 1
           /\ HasBit(m, 2) <=> b = 1
           /\ HasBit(m, 1) <=> c = 1
           /\ HasBit(m, 8) <=> h % 2 = 1
           /\ HasBit(m, 16) <=> (h \div 2) % 2 = 1
           /\ HasBit(m, 32) <=> (h \div 4) % 2 = 1
           /\ HasBit(m, 128) <=> (h \div 16) % 2 = 1
<1>1. m \div 4 = 2 * h + a
  OBVIOUS
<1>2. m \div 2 = 4 * h + 2 * a + b
  OBVIOUS
<1>3. m \div 1 = 8 * h + 4 * a + 2 * b + c
  OBVIOUS
<1>4. m \div 8 = h /\ m \div 16 = h \div 2 /\ m \div 32 = h \div 4 /\ m \div 128 = h \div 16
  OBVIOUS
<1> QED BY <1>1, <1>2, <1>3, <1>4 DEF HasBit
LEMMA MaskKeeps ==
    ASSUME NEW m \in Int
    PROVE  /\ MaskAssistance(m) \in Int
           /\ \A weight \in ULP_CAPABILITY \cup {GEOFENCING} :
                  HasBit(MaskAssistance(m), weight) <=> HasBit(m, weight)
           /\ ~HasBit(MaskAssistance(m), MSA) /\ ~HasBit(MaskAssistance(m), MSB)
<1>1. PICK h \in Int, a \in {0, 1}, b \in {0, 1}, c \in {0, 1} : m = 8 * h + 4 * a + 2 * b + c
  BY Digits
<1>2. MaskAssistance(m) = 8 * h + 4 * 0 + 2 * 0 + c
  BY <1>1, Bits DEF MaskAssistance, MSA, MSB
<1>3. MaskAssistance(m) \in Int
  BY <1>2
<1> QED BY <1>1, <1>2, <1>3, Bits DEF ULP_CAPABILITY, GEOFENCING, MSA, MSB

-----------------------------------------------------------------------------
(* The parser *)

LEMMA SetByLast ==
    ASSUME NEW file, NEW n \in Nat, NEW p, Sets(file.lines[n + 1], p)
    PROVE  /\ SetBy(file, n + 1, p) # {}
           /\ Max(SetBy(file, n + 1, p)) = n + 1
<1> DEFINE S == SetBy(file, n + 1, p)
<1>1. n + 1 \in S /\ \A y \in S : y \in Int /\ n + 1 >= y
  BY DEF SetBy
<1>2. \A x \in S : (\A y \in S : x >= y) => x = n + 1
  BY <1>1
<1>3. Max(S) \in S /\ \A y \in S : Max(S) >= y
  <2> HIDE DEF S
  <2> QED BY <1>1 DEF Max
<1> QED BY <1>1, <1>2, <1>3

LEMMA SetByOther ==
    ASSUME NEW file, NEW n \in Nat, NEW p, ~Sets(file.lines[n + 1], p)
    PROVE  SetBy(file, n + 1, p) = SetBy(file, n, p)
BY DEF SetBy

LEMMA LineType ==
    ASSUME NEW file \in Files, NEW n \in 1..Len(file.lines)
    PROVE  file.lines[n].operand \in Operands
<1>1. file.lines \in Seq([name : STRING, operand : Operands])
  BY DEF Files
<1>2. file.lines[n] \in [name : STRING, operand : Operands]
  BY <1>1, ElementOfSeq
<1> QED BY <1>2

LEMMA ReadIsConf ==
    ASSUME NEW conf \in Conf, NEW line, line.operand \in Operands
    PROVE  loc_read_conf(conf, line) \in Conf
<1>1. ASSUME NEW p \in Params
      PROVE  loc_set_config_entry(conf, p, line) \in Int
  BY DEF loc_set_config_entry, Number, param_int_value, param_double_value, Operands, Conf
<1>2. ASSUME NEW f \in Floats
      PROVE  (conf.valid[f] \/ Sets(line, f)) \in BOOLEAN
  OBVIOUS
<1> QED BY <1>1, <1>2 DEF loc_read_conf, Conf

LEMMA DefaultsAreConf == loc_default_parameters \in Conf
BY DEF loc_default_parameters, Conf

LEMMA NothingRead ==
    ASSUME NEW file
    PROVE  Written(file, 0) = loc_default_parameters
<1>1. \A p : SetBy(file, 0, p) = {}
  BY DEF SetBy
<1>2. loc_default_parameters.valid = [f \in Floats |-> FALSE]
  BY DEF loc_default_parameters
<1>3. /\ loc_default_parameters = [value |-> loc_default_parameters.value,
                                   valid |-> loc_default_parameters.valid]
      /\ loc_default_parameters.value = [p \in Params |-> loc_default_parameters.value[p]]
  BY DefaultsAreConf DEF Conf
<1> QED BY <1>1, <1>2, <1>3 DEF Written

LEMMA ReadsOneMore ==
    ASSUME NEW file \in Files, NEW n \in Nat, n < Len(file.lines)
    PROVE  loc_read_conf(Written(file, n), file.lines[n + 1]) = Written(file, n + 1)
<1> DEFINE line == file.lines[n + 1]
           old == Written(file, n)
           new == loc_read_conf(old, line)
           next == Written(file, n + 1)
<1>1. ASSUME NEW p \in Params
      PROVE  new.value[p] = next.value[p]
  <2>1. CASE Sets(line, p)
    <3>0. line.operand.kind \in {"none", "dec", "hex", "text"}
      <4>1. n + 1 \in 1..Len(file.lines)
        BY LenProperties DEF Files
      <4> QED BY <4>1, LineType DEF Operands
    <3>1. next.value[p] = Number(p, line.operand)
      BY <2>1, <3>0, SetByLast DEF Written, Number, param_int_value, param_double_value,
                             loc_parameter_table, Params, Sets
    <3> QED BY <2>1, <3>1 DEF loc_read_conf, loc_set_config_entry
  <2>2. CASE ~Sets(line, p)
    <3>1. next.value[p] = old.value[p]
      BY <2>2, SetByOther DEF Written
    <3> QED BY <2>2, <3>1 DEF loc_read_conf, loc_set_config_entry
  <2> QED BY <2>1, <2>2
<1>2. ASSUME NEW f \in Floats
      PROVE  new.valid[f] = next.valid[f]
  <2>1. CASE Sets(line, f)
    BY <2>1, SetByLast DEF Written, loc_read_conf
  <2>2. CASE ~Sets(line, f)
    BY <2>2, SetByOther DEF Written, loc_read_conf
  <2> QED BY <2>1, <2>2
<1> QED BY <1>1, <1>2 DEF Written, loc_read_conf

-----------------------------------------------------------------------------
(* The queue *)

LEMMA Concat ==
    ASSUME NEW q \in Seq(Messages), NEW ms \in Seq(Messages), NEW r, r = q \o ms
    PROVE  /\ r \in Seq(Messages) /\ Len(q) \in Nat /\ Len(ms) \in Nat
           /\ Len(r) = Len(q) + Len(ms)
           /\ \A i \in 1..Len(q) : i \in 1..Len(r) /\ r[i] = q[i]
           /\ \A i \in 1..Len(ms) : i + Len(q) \in 1..Len(r) /\ r[i + Len(q)] = ms[i]
           /\ \A j \in 1..Len(r) : j \in 1..Len(q) \/ \E i \in 1..Len(ms) : j = i + Len(q)
<1>1. /\ Len(r) = Len(q) + Len(ms) /\ r \in Seq(Messages)
      /\ \A i \in 1 .. Len(q) + Len(ms) : r[i] = IF i <= Len(q) THEN q[i] ELSE ms[i - Len(q)]
  BY ConcatProperties
<1>2. Len(q) \in Nat /\ Len(ms) \in Nat
  BY LenProperties
<1>3. ASSUME NEW j \in 1..Len(r), j \notin 1..Len(q)
      PROVE  \E i \in 1..Len(ms) : j = i + Len(q)
  <2>1. j - Len(q) \in 1..Len(ms) /\ j = (j - Len(q)) + Len(q)
    BY <1>1, <1>2, <1>3
  <2> QED BY <2>1
<1>4. \A i \in 1..Len(q) : i \in 1..Len(r) /\ r[i] = q[i]
  BY <1>1, <1>2
<1>5. \A i \in 1..Len(ms) : i + Len(q) \in 1..Len(r) /\ r[i + Len(q)] = ms[i]
  BY <1>1, <1>2
<1> QED BY <1>1, <1>2, <1>3, <1>4, <1>5

LEMMA QueuedConcat ==
    ASSUME NEW q \in Seq(Messages), NEW ms \in Seq(Messages), NEW id
    PROVE  Queued(q \o ms, id) <=> Queued(q, id) \/ Queued(ms, id)
<1> DEFINE r == q \o ms
<1>1. Queued(r, id) => Queued(q, id) \/ Queued(ms, id)
  BY Concat DEF Queued
<1>2. Queued(q, id) => Queued(r, id)
  BY Concat DEF Queued
<1>3. ASSUME Queued(ms, id)
      PROVE  Queued(r, id)
  <2>1. PICK i \in 1..Len(ms) : ms[i].id = id
    BY <1>3 DEF Queued
  <2>2. i + Len(q) \in 1..Len(r) /\ r[i + Len(q)] = ms[i]
    BY Concat
  <2> HIDE DEF r
  <2> QED BY <2>1, <2>2 DEF Queued
<1> QED BY <1>1, <1>2, <1>3

LEMMA LastConcat ==
    ASSUME NEW q \in Seq(Messages), NEW ms \in Seq(Messages), NEW id, NEW val
    PROVE  /\ LastIs(q, id, val) /\ ~Queued(ms, id) /\ ~Queued(ms, "ENGINE_UP")
                  => LastIs(q \o ms, id, val)
           /\ LastIs(ms, id, val) => LastIs(q \o ms, id, val)
<1> DEFINE r == q \o ms
<1>1. ASSUME LastIs(q, id, val), ~Queued(ms, id), ~Queued(ms, "ENGINE_UP")
      PROVE  LastIs(r, id, val)
  <2>1. PICK i \in 1..Len(q) :
            /\ q[i].id = id /\ {q[i].val} = val
            /\ \A j \in 1..Len(q) : j > i => q[j].id \notin {id, "ENGINE_UP"}
    BY <1>1 DEF LastIs
  <2>2. \A j \in 1..Len(ms) : ms[j].id \notin {id, "ENGINE_UP"}
    BY <1>1 DEF Queued
  <2>3. \A j \in 1..Len(r) : j > i => r[j].id \notin {id, "ENGINE_UP"}
    BY <2>1, <2>2, Concat
  <2>4. i \in 1..Len(r) /\ r[i] = q[i]
    BY Concat
  <2> HIDE DEF r
  <2> QED BY <2>1, <2>3, <2>4 DEF LastIs
<1>2. ASSUME LastIs(ms, id, val)
      PROVE  LastIs(r, id, val)
  <2>1. PICK i \in 1..Len(ms) :
            /\ ms[i].id = id /\ {ms[i].val} = val
            /\ \A j \in 1..Len(ms) : j > i => ms[j].id \notin {id, "ENGINE_UP"}
    BY <1>2 DEF LastIs
  <2> DEFINE k == i + Len(q)
  <2>2. k \in 1..Len(r) /\ r[k] = ms[i]
    BY Concat
  <2>3. ASSUME NEW j \in 1..Len(r), j > k
        PROVE  r[j].id \notin {id, "ENGINE_UP"}
    <3>0. j \notin 1..Len(q)
      BY <2>3, LenProperties
    <3>9. \A h \in 1..Len(r) : h \in 1..Len(q) \/ \E l \in 1..Len(ms) : h = l + Len(q)
      BY Concat
    <3>1. PICK l \in 1..Len(ms) : j = l + Len(q)
      <4> HIDE DEF r
      <4> QED BY <3>0, <3>9
    <3>2. l > i /\ r[j] = ms[l]
      BY <3>1, <2>3, Concat
    <3> QED BY <2>1, <3>2
  <2> HIDE DEF r, k
  <2> QED BY <2>1, <2>2, <2>3 DEF LastIs
<1> QED BY <1>1, <1>2

LEMMA CarriesConcat ==
    ASSUME NEW q \in Seq(Messages), NEW ms \in Seq(Messages), Carries(q), Carries(ms)
    PROVE  Carries(q \o ms)
<1> DEFINE r == q \o ms
<1>1. ASSUME NEW j \in 1..Len(r), r[j].id \in ConfIds
      PROVE  {r[j].val} = Configured(r[j].id)
  <2>1. CASE j \in 1..Len(q)
    <3>1. r[j] = q[j]
      BY <2>1, Concat
    <3> QED BY <1>1, <2>1, <3>1 DEF Carries
  <2>2. CASE j \notin 1..Len(q)
    <3>1. PICK i \in 1..Len(ms) : r[j] = ms[i]
      BY <2>2, Concat
    <3> QED BY <1>1, <3>1 DEF Carries
  <2> QED BY <2>1, <2>2
<1> QED BY <1>1 DEF Carries

LEMMA TailOf ==
    ASSUME NEW q \in Seq(Messages), q # <<>>, NEW r, r = Tail(q)
    PROVE  /\ r \in Seq(Messages) /\ Head(q) = q[1] /\ 1 \in 1..Len(q)
           /\ \A i \in 1..Len(r) : i + 1 \in 1..Len(q) /\ r[i] = q[i + 1]
           /\ \A j \in 1..Len(q) : j = 1 \/ \E i \in 1..Len(r) : j = i + 1
<1>1. /\ r \in Seq(Messages) /\ Head(q) = q[1] /\ Len(q) \in Nat \ {0}
      /\ Len(r) = Len(q) - 1 /\ \A i \in 1..Len(r) : r[i] = q[i + 1]
  BY HeadTailProperties, EmptySeq, LenProperties
<1>2. ASSUME NEW j \in 1..Len(q), j # 1
      PROVE  \E i \in 1..Len(r) : j = i + 1
  <2>1. j - 1 \in 1..Len(r) /\ j = (j - 1) + 1
    BY <1>1, <1>2
  <2> QED BY <2>1
<1> QED BY <1>1, <1>2

LEMMA QueuedTail ==
    ASSUME NEW q \in Seq(Messages), q # <<>>, NEW id
    PROVE  Queued(q, id) <=> Head(q).id = id \/ Queued(Tail(q), id)
<1> DEFINE r == Tail(q)
<1>1. ASSUME Queued(r, id)
      PROVE  Queued(q, id)
  <2>1. PICK i \in 1..Len(r) : r[i].id = id
    BY <1>1 DEF Queued
  <2>2. i + 1 \in 1..Len(q) /\ r[i] = q[i + 1]
    BY TailOf
  <2> QED BY <2>1, <2>2 DEF Queued
<1>2. Head(q).id = id => Queued(q, id)
  BY TailOf DEF Queued
<1>3. ASSUME Queued(q, id), Head(q).id # id
      PROVE  Queued(r, id)
  <2>1. PICK j \in 1..Len(q) : q[j].id = id
    BY <1>3 DEF Queued
  <2>2. j # 1
    BY <1>3, <2>1, TailOf
  <2>3. PICK i \in 1..Len(r) : j = i + 1
    BY <2>2, TailOf
  <2>4. r[i].id = id
    BY <2>1, <2>3, TailOf
  <2> HIDE DEF r
  <2> QED BY <2>4 DEF Queued
<1> QED BY <1>1, <1>2, <1>3

LEMMA LastTail ==
    ASSUME NEW q \in Seq(Messages), q # <<>>, NEW id, NEW val, LastIs(q, id, val)
    PROVE  \/ LastIs(Tail(q), id, val)
           \/ /\ Head(q).id = id /\ {Head(q).val} = val
              /\ ~Queued(Tail(q), id) /\ ~Queued(Tail(q), "ENGINE_UP")
<1> DEFINE r == Tail(q)
<1>1. PICK i \in 1..Len(q) :
          /\ q[i].id = id /\ {q[i].val} = val
          /\ \A j \in 1..Len(q) : j > i => q[j].id \notin {id, "ENGINE_UP"}
  BY DEF LastIs
<1>2. \A j \in 1..Len(r) : j + 1 > i => r[j].id \notin {id, "ENGINE_UP"}
  BY <1>1, TailOf
<1>3. CASE i = 1
  <2>1. \A j \in 1..Len(r) : r[j].id \notin {id, "ENGINE_UP"}
    BY <1>2, <1>3
  <2>2. ~Queued(r, id) /\ ~Queued(r, "ENGINE_UP")
    BY <2>1 DEF Queued
  <2> QED BY <1>1, <1>3, <2>2, TailOf
<1>4. CASE i # 1
  <2>1. PICK k \in 1..Len(r) : i = k + 1
    BY <1>4, TailOf
  <2>2. r[k] = q[i]
    BY <2>1, TailOf
  <2>3. \A j \in 1..Len(r) : j > k => r[j].id \notin {id, "ENGINE_UP"}
    BY <1>2, <2>1
  <2> HIDE DEF r
  <2>4. LastIs(r, id, val)
    BY <1>1, <2>2, <2>3 DEF LastIs
  <2> QED BY <2>4 DEF r
<1> QED BY <1>3, <1>4

LEMMA CarriesTail ==
    ASSUME NEW q \in Seq(Messages), q # <<>>, Carries(q)
    PROVE  /\ Carries(Tail(q))
           /\ Head(q).id \in ConfIds => {Head(q).val} = Configured(Head(q).id)
<1> DEFINE r == Tail(q)
<1>1. ASSUME NEW j \in 1..Len(r), r[j].id \in ConfIds
      PROVE  {r[j].val} = Configured(r[j].id)
  <2>1. j + 1 \in 1..Len(q) /\ r[j] = q[j + 1]
    BY TailOf
  <2> QED BY <1>1, <2>1 DEF Carries
<1>2. Head(q) = q[1] /\ 1 \in 1..Len(q)
  BY TailOf
<1> QED BY <1>1, <1>2 DEF Carries

LEMMA NothingQueued ==
    /\ <<>> \in Seq(Messages) /\ Carries(<<>>)
    /\ \A id : ~Queued(<<>>, id)
    /\ \A q \in Seq(Messages) : q \o <<>> = q
BY ConcatEmptySeq DEF Carries, Queued

LEMMA OneQueued ==
    ASSUME NEW m \in Messages, m.id \notin ConfIds
    PROVE  /\ <<m>> \in Seq(Messages) /\ Carries(<<m>>)
           /\ \A id : Queued(<<m>>, id) <=> m.id = id
           /\ LastIs(<<m>>, m.id, {m.val})
           /\ \A q \in Seq(Messages) : Append(q, m) = q \o <<m>>
<1> DEFINE q1 == <<m>>
<1>1. q1 \in Seq(Messages) /\ Len(q1) = 1 /\ q1[1] = m
  OBVIOUS
<1>2. \A q \in Seq(Messages) : Append(q, m) = q \o q1
  BY AppendIsConcat
<1> HIDE DEF q1
<1>3. \A i \in 1..Len(q1) : i = 1 /\ q1[i] = m
  BY <1>1
<1>4. Carries(q1)
  BY <1>1, <1>3 DEF Carries
<1>5. \A id : Queued(q1, id) <=> m.id = id
  BY <1>1, <1>3 DEF Queued
<1>6. LastIs(q1, m.id, {m.val})
  BY <1>1, <1>3 DEF LastIs
<1> QED BY <1>1, <1>2, <1>4, <1>5, <1>6 DEF q1

LEMMA MsgType ==
    ASSUME NEW id \in Ids, NEW val \in Values
    PROVE  /\ Msg(id, val) \in Messages
           /\ Msg(id, val).id = id /\ Msg(id, val).val = val
BY DEF Msg, Messages

LEMMA SignalType ==
    ASSUME NEW id \in Ids
    PROVE  /\ Signal(id) \in Messages
           /\ Signal(id).id = id
BY MsgType DEF Signal, Values

(* What gps.conf says, and that loc_eng_reinit sends all of it *)
LEMMA ConfiguredIs ==
    /\ Configured("SUPL_VERSION") = {gps_conf.value["SUPL_VER"]}
    /\ Configured("LPP_CONFIG") = {gps_conf.value["LPP_PROFILE"]}
    /\ Configured("SENSOR_CONTROL") = {gps_conf.value["SENSOR_USAGE"]}
    /\ Configured("SENSOR_PERF") = {gps_conf.value["SENSOR_CONTROL_MODE"]}
    /\ Configured("SENSOR_PROPERTIES") =
           IF \E f \in Floats : gps_conf.valid[f] THEN {RandomWalks} ELSE {}
BY DEF Configured

LEMMA ReinitType ==
    ASSUME gps_conf \in Conf
    PROVE  /\ ReinitMessages \in Seq(Messages)
           /\ Carries(ReinitMessages)
           /\ \A id \in ConfIds : Configured(id) = {} \/ Queued(ReinitMessages, id)
           /\ \A id : id \notin ConfIds => ~Queued(ReinitMessages, id)
<1> DEFINE m1 == Msg("SUPL_VERSION", gps_conf.value["SUPL_VER"])
           m2 == Msg("LPP_CONFIG", gps_conf.value["LPP_PROFILE"])
           m3 == Msg("SENSOR_CONTROL", gps_conf.value["SENSOR_USAGE"])
           m4 == Msg("SENSOR_PROPERTIES", RandomWalks)
           m5 == Msg("SENSOR_PERF", gps_conf.value["SENSOR_CONTROL_MODE"])
           a == <<m1, m2, m3>>
           b == IF \E f \in Floats : gps_conf.valid[f] THEN <<m4>> ELSE <<>>
           c == <<m5>>
<1>1. \A p \in Params : gps_conf.value[p] \in Values
  BY DEF Conf, Values
<1>2. {"SUPL_VER", "LPP_PROFILE", "SENSOR_USAGE", "SENSOR_CONTROL_MODE"} \subseteq Params
  BY DEF Params, loc_parameter_table, Numbers
<1>3. RandomWalks \in Values
  <2>1. RandomWalks \in [Floats -> BOOLEAN \X Int]
    BY DEF RandomWalks, Conf, Params, loc_parameter_table
  <2> QED BY <2>1 DEF Values
<1>4. ConfIds \subseteq Ids
  BY DEF Ids, SettingIds
<1>5. /\ m1 \in Messages /\ m1.id = "SUPL_VERSION" /\ {m1.val} = Configured(m1.id)
      /\ m2 \in Messages /\ m2.id = "LPP_CONFIG" /\ {m2.val} = Configured(m2.id)
      /\ m3 \in Messages /\ m3.id = "SENSOR_CONTROL" /\ {m3.val} = Configured(m3.id)
  BY <1>1, <1>2, <1>4, MsgType, ConfiguredIs DEF ConfIds
<1>6. /\ m4 \in Messages /\ m4.id = "SENSOR_PROPERTIES" /\ m4.val = RandomWalks
  BY <1>3, <1>4, MsgType DEF ConfIds
<1>7. /\ m5 \in Messages /\ m5.id = "SENSOR_PERF" /\ {m5.val} = Configured(m5.id)
  BY <1>1, <1>2, <1>4, MsgType, ConfiguredIs DEF ConfIds
<1> HIDE DEF m1, m2, m3, m4, m5
<1>8. a \in Seq(Messages) /\ Carries(a)
      /\ \A id : Queued(a, id) <=> id \in {"SUPL_VERSION", "LPP_CONFIG", "SENSOR_CONTROL"}
  <2>1. a \in Seq(Messages) /\ Len(a) = 3 /\ a[1] = m1 /\ a[2] = m2 /\ a[3] = m3
    BY <1>5
  <2> HIDE DEF a
  <2>2. 1..Len(a) = {1, 2, 3}
    BY <2>1
  <2>3. Carries(a)
    BY <1>5, <2>1, <2>2 DEF Carries
  <2>4. \A id : Queued(a, id) <=> id \in {"SUPL_VERSION", "LPP_CONFIG", "SENSOR_CONTROL"}
    BY <1>5, <2>1, <2>2 DEF Queued
  <2> QED BY <2>1, <2>3, <2>4
<1>9. b \in Seq(Messages) /\ Carries(b)
      /\ \A id : Queued(b, id) <=> id = "SENSOR_PROPERTIES" /\ \E f \in Floats : gps_conf.valid[f]
  <2>1. CASE \E f \in Floats : gps_conf.valid[f]
    <3>1. b \in Seq(Messages) /\ Len(b) = 1 /\ b[1] = m4
      BY <1>6, <2>1
    <3>2. {m4.val} = Configured(m4.id)
      BY <1>6, <2>1, ConfiguredIs
    <3> HIDE DEF b
    <3>3. 1..Len(b) = {1}
      BY <3>1
    <3> QED BY <1>6, <2>1, <3>1, <3>2, <3>3 DEF Carries, Queued
  <2>2. CASE ~\E f \in Floats : gps_conf.valid[f]
    BY <2>2, NothingQueued
  <2> QED BY <2>1, <2>2
<1>10. c \in Seq(Messages) /\ Carries(c) /\ \A id : Queued(c, id) <=> id = "SENSOR_PERF"
  <2>1. c \in Seq(Messages) /\ Len(c) = 1 /\ c[1] = m5
    BY <1>7
  <2> HIDE DEF c
  <2>2. 1..Len(c) = {1}
    BY <2>1
  <2> QED BY <1>7, <2>1, <2>2 DEF Carries, Queued
<1>11. ReinitMessages = (a \o b) \o c
  BY DEF ReinitMessages, m1, m2, m3, m4, m5
<1> HIDE DEF a, b, c
<1>12. a \o b \in Seq(Messages) /\ Carries(a \o b)
  BY <1>8, <1>9, CarriesConcat, Concat
<1>13. (a \o b) \o c \in Seq(Messages) /\ Carries((a \o b) \o c)
  BY <1>10, <1>12, CarriesConcat, Concat
<1>14. \A id : Queued((a \o b) \o c, id) <=> Queued(a, id) \/ Queued(b, id) \/ Queued(c, id)
  BY <1>8, <1>9, <1>10, <1>12, QueuedConcat
<1>15. ~(\E f \in Floats : gps_conf.valid[f]) => Configured("SENSOR_PROPERTIES") = {}
  BY ConfiguredIs
<1> QED BY <1>8, <1>9, <1>10, <1>11, <1>13, <1>14, <1>15 DEF ConfIds

(* Outside the loading gps.conf changes in CAPABILITIES only. *)
ConfStays == \A id \in ConfIds : Configured(id)' = Configured(id)

LEMMA ConfiguredStays ==
    ASSUME gps_conf \in Conf,
           \/ gps_conf' = gps_conf
           \/ \E caps : gps_conf' = [gps_conf EXCEPT !.value["CAPABILITIES"] = caps]
    PROVE  ConfStays
<1>1. \A p \in Params \ {"CAPABILITIES"} : gps_conf.value[p]' = gps_conf.value[p]
  <2>1. CASE gps_conf' = gps_conf
    BY <2>1
  <2>2. CASE \E caps : gps_conf' = [gps_conf EXCEPT !.value["CAPABILITIES"] = caps]
    <3>0. PICK caps : gps_conf' = [gps_conf EXCEPT !.value["CAPABILITIES"] = caps]
      BY <2>2
    <3>1. gps_conf'.value = [gps_conf.value EXCEPT !["CAPABILITIES"] = caps]
      BY <3>0 DEF Conf
    <3> QED BY <3>1 DEF Conf
  <2> QED BY <2>1, <2>2
<1>2. gps_conf.valid' = gps_conf.valid
  BY DEF Conf
<1>3. /\ {"SUPL_VER", "LPP_PROFILE", "SENSOR_USAGE", "SENSOR_CONTROL_MODE"}
             \subseteq Params \ {"CAPABILITIES"}
      /\ Floats \subseteq Params \ {"CAPABILITIES"}
  BY DEF Params, loc_parameter_table, Numbers, Floats
<1>4. RandomWalks' = RandomWalks
  BY <1>1, <1>2, <1>3 DEF RandomWalks
<1>5. ASSUME NEW id \in ConfIds
      PROVE  Configured(id)' = Configured(id)
  BY <1>1, <1>2, <1>3, <1>4 DEF Configured, ConfIds
<1> QED BY <1>5 DEF ConfStays

-----------------------------------------------------------------------------
(* The steps of the invariants about the queue *)

(* Messages ms are appended: they carry the configuration, all of it if    *)
(* the connection is opened, and a value asked for from now on is in them, *)
(* while they leave those asked for earlier alone.                         *)
Posts(ms) ==
    /\ ms \in Seq(Messages) /\ Carries(ms)
    /\ deferred_q' = deferred_q \o ms
    /\ setting' = setting
    /\ client' = "open" /\ client # "open" =>
           \A id \in ConfIds : Configured(id) = {} \/ Queued(ms, id)
    /\ \A id \in SettingIds : asked'[id] # {} =>
           /\ Promised(id)'
           /\ \/ LastIs(ms, id, asked'[id])
              \/ /\ asked'[id] = asked[id]
                 /\ ~Queued(ms, id) /\ ~Queued(ms, "ENGINE_UP")
                 /\ client' = "open" => client = "open"

LEMMA PostsStep ==
    ASSUME HalInv, ConfStays, NEW ms, Posts(ms)
    PROVE  deferred_q' \in Seq(Messages) /\ ConfigInv' /\ SettingsInv'
<1> DEFINE r == deferred_q \o ms
<1>1. deferred_q \in Seq(Messages) /\ ms \in Seq(Messages) /\ deferred_q' = r
  BY DEF HalInv, TypeOK, RestTypes, Posts
<1>2. r \in Seq(Messages)
  BY <1>1, Concat
<1>3. Carries(r)
  BY <1>1, CarriesConcat DEF HalInv, ConfigInv, Posts
<1>4. \A id : Queued(r, id) <=> Queued(deferred_q, id) \/ Queued(ms, id)
  BY <1>1, QueuedConcat
<1>5. \A id, val :
          /\ LastIs(deferred_q, id, val) /\ ~Queued(ms, id) /\ ~Queued(ms, "ENGINE_UP")
                 => LastIs(r, id, val)
          /\ LastIs(ms, id, val) => LastIs(r, id, val)
  BY <1>1, LastConcat
<1> HIDE DEF r
<1>6. Carries(deferred_q)'
  BY <1>1, <1>3 DEF Carries, ConfStays
<1>7. ConfigInv'
  <2>1. \A id \in ConfIds : setting'[id] \in {{}, Configured(id)'}
    BY DEF HalInv, ConfigInv, Posts, ConfStays
  <2>2. ASSUME client' = "open", NEW id \in ConfIds
        PROVE  setting'[id] = Configured(id)' \/ Queued(r, id)
    <3>1. CASE client = "open"
      BY <3>1, <1>4 DEF HalInv, ConfigInv, Posts, ConfStays
    <3>2. CASE client # "open"
      BY <3>2, <2>2, <1>4 DEF HalInv, ConfigInv, Posts, ConfStays
    <3> QED BY <3>1, <3>2
  <2> QED BY <1>1, <1>6, <2>1, <2>2 DEF ConfigInv, Queued
<1>8. ASSUME NEW id \in SettingIds, asked'[id] # {}
      PROVE  Promised(id)' /\ (LastIs(r, id, asked'[id]) \/ Handled(id, asked[id])')
  <2>1. Promised(id)'
    BY <1>8 DEF Posts
  <2>2. CASE LastIs(ms, id, asked'[id])
    BY <2>1, <2>2, <1>5
  <2>3. CASE ~LastIs(ms, id, asked'[id])
    <3>1. /\ asked'[id] = asked[id]
          /\ ~Queued(ms, id) /\ ~Queued(ms, "ENGINE_UP")
          /\ client' = "open" => client = "open"
      BY <1>8, <2>3 DEF Posts
    <3>2. CASE LastIs(deferred_q, id, asked[id])
      BY <3>1, <3>2, <2>1, <1>5
    <3>3. CASE Handled(id, asked[id])
      <4>1. ~Queued(r, id) /\ ~Queued(r, "ENGINE_UP")
        BY <3>1, <3>3, <1>4 DEF Handled
      <4>2. client' = "open" => setting'[id] = asked'[id]
        BY <3>1, <3>3 DEF Handled, Posts
      <4> QED BY <2>1, <4>1, <4>2, <1>1 DEF Handled, Queued
    <3> QED BY <1>8, <3>1, <3>2, <3>3 DEF HalInv, SettingsInv
  <2> QED BY <2>2, <2>3
<1>9. SettingsInv'
  BY <1>1, <1>8 DEF SettingsInv, LastIs
<1> QED BY <1>1, <1>2, <1>7, <1>9

(* Most calls leave what the invariants depend on but the queue. *)
Keeps ==
    /\ setting' = setting /\ client' = client /\ up' = up
    /\ loc_eng_data'.context = loc_eng_data.context
    /\ fw' \in {fw, "dead"}

LEMMA Silent ==
    ASSUME HalInv, Keeps, deferred_q' = deferred_q, asked' = asked
    PROVE  \E ms : Posts(ms)
<1>1. Posts(<<>>)
  BY NothingQueued DEF Posts, Keeps, HalInv, TypeOK, RestTypes, SettingsInv, Promised
<1> QED BY <1>1

LEMMA Quiet ==
    ASSUME HalInv, Keeps, asked' = asked, NEW m \in Messages,
           m.id \in QuietIds \cup {"ENGINE_DOWN"},
           deferred_q' = Append(deferred_q, m)
    PROVE  \E ms : Posts(ms)
<1>1. m.id \notin SettingIds /\ m.id # "ENGINE_UP"
  BY DEF QuietIds, ReportIds, UlpRequestIds, SessionIds, SettingIds, ConfIds, InjectIds,
         OtherIds, ServerTypes
<1>2. ConfIds \subseteq SettingIds
  BY DEF SettingIds
<1>3. Posts(<<m>>)
  BY <1>1, <1>2, OneQueued DEF Posts, Keeps, HalInv, TypeOK, RestTypes, SettingsInv, Promised
<1> QED BY <1>3

LEMMA SetPosts ==
    ASSUME HalInv, Keeps, fw = "idle",
           NEW id \in SettingIds \ ConfIds, NEW val \in Values, Set(id, val)
    PROVE  asked' \in [SettingIds -> SUBSET Values] /\ \E ms : Posts(ms)
<1>1. CASE ~loc_eng_data.context
  BY <1>1, Silent DEF Set, HalInv, TypeOK, RestTypes
<1>2. CASE loc_eng_data.context
  <2> DEFINE m == Msg(id, val)
  <2>1. m \in Messages /\ m.id = id /\ m.val = val
    BY MsgType DEF Ids
  <2> HIDE DEF m
  <2>2. deferred_q' = Append(deferred_q, m) /\ Ask(id, val)
    BY <1>2 DEF Set, m
  <2>3. asked \in [SettingIds -> SUBSET Values]
    BY DEF HalInv, TypeOK, RestTypes
  <2>4. /\ asked' \in [SettingIds -> SUBSET Values]
        /\ asked'[id] # {} => asked'[id] = {val} /\ client = "open"
        /\ \A s \in SettingIds \ {id} : asked'[s] = asked[s]
    BY <2>2, <2>3 DEF Ask
  <2>5. id # "ENGINE_UP"
    BY DEF SettingIds, ConfIds, InjectIds, OtherIds, ServerTypes
  <2>6. /\ <<m>> \in Seq(Messages) /\ Carries(<<m>>) /\ deferred_q' = deferred_q \o <<m>>
        /\ \A s : Queued(<<m>>, s) <=> s = id
        /\ LastIs(<<m>>, id, {val})
    BY <2>1, <2>2, OneQueued DEF HalInv, TypeOK, RestTypes
  <2>7. ASSUME NEW s \in SettingIds, asked'[s] # {}
        PROVE  Promised(s)' /\ (LastIs(<<m>>, s, asked'[s]) \/ (asked'[s] = asked[s] /\ s # id))
    <3>1. CASE s = id
      BY <1>2, <2>4, <2>6, <2>7, <3>1 DEF Promised, Keeps, HalInv, EngineInv
    <3>2. CASE s # id
      BY <2>4, <2>7, <3>2 DEF Promised, Keeps, HalInv, SettingsInv
    <3> QED BY <3>1, <3>2
  <2>8. Posts(<<m>>)
    BY <2>5, <2>6, <2>7 DEF Posts, Keeps
  <2> QED BY <2>4, <2>8
<1> QED BY <1>1, <1>2

(* The steps of the system, those of one form together *)
LEMMA Kinds ==
    ASSUME Next
    PROVE  \/ loc_eng_read_config \/ get_gps_interface
           \/ loc_init \/ loc_cleanup
           \/ \E id \in SettingIds \ ConfIds, val \in Values : Passes(id, val)
           \/ loc_xtra_inject_data
           \/ loc_agps_set_server \/ loc_agps_init
           \/ \E callback \in Callbacks : Registers(callback)
           \/ \E id \in SessionIds : Routes(id)
           \/ \E id \in UlpIds : ToUlp(id)
           \/ loc_ulp_send_network_position \/ loc_ulp_phone_context_settings_update
           \/ OpenClient \/ OpenFails
           \/ \E id \in SettingIds : HandleSetting(id)
           \/ \E id \in QuietIds \cup {"ENGINE_DOWN"} : Consumes(id)
           \/ CallCallback \/ HandleEngineUp
           \/ \E id \in ReportIds \cup UlpRequestIds : ReportsAround(id)
           \/ \E id \in ReportIds : ReportsThrough(id)
           \/ ModemCrashes \/ ModemComesBack \/ UlpForwards
<1>1. ASSUME loc_set_position_mode \/ loc_inject_time \/ loc_inject_location
             \/ loc_agps_ril_update_network_availability
      PROVE  \E id \in SettingIds \ ConfIds, val \in Values : Passes(id, val)
  <2>1. /\ {"POSITION_MODE", "SET_TIME", "INJECT_LOCATION", "ENABLE_DATA"} \subseteq SettingIds \ ConfIds
        /\ {"time", "location"} \cup BOOLEAN \subseteq Values
    BY DEF SettingIds, ConfIds, InjectIds, OtherIds, ServerTypes, Values
  <2>2. \A mode : LocMode(mode) \in Values
    BY DEF LocMode, Values
  <2>3. CASE loc_set_position_mode
    BY <2>1, <2>2, <2>3 DEF loc_set_position_mode
  <2>4. CASE loc_inject_time
    BY <2>1, <2>4 DEF loc_inject_time
  <2>5. CASE loc_inject_location
    BY <2>1, <2>5 DEF loc_inject_location
  <2>6. CASE loc_agps_ril_update_network_availability
    BY <2>1, <2>6 DEF loc_agps_ril_update_network_availability
  <2> QED BY <1>1, <2>3, <2>4, <2>5, <2>6
<1>2. ASSUME loc_xtra_init \/ loc_ulp_phone_context_init \/ loc_ulp_network_init
      PROVE  \E callback \in Callbacks : Registers(callback)
  BY <1>2 DEF loc_xtra_init, loc_ulp_phone_context_init, loc_ulp_network_init, Callbacks
<1>3. ASSUME loc_start \/ loc_stop
      PROVE  \E id \in SessionIds : Routes(id)
  BY <1>3 DEF loc_start, loc_stop, SessionIds
<1>4. ASSUME loc_update_criteria \/ loc_inject_raw_command
      PROVE  \E id \in UlpIds : ToUlp(id)
  BY <1>4 DEF loc_update_criteria, loc_inject_raw_command, UlpIds
<1>5. ASSUME \/ HandleConf \/ HandleServer \/ HandleInjection \/ HandleEnableData
             \/ HandleXtraData \/ HandleExtPower \/ HandleEngineLock
      PROVE  \E id \in SettingIds : HandleSetting(id)
  BY <1>5 DEF HandleConf, HandleServer, HandleInjection, HandleEnableData, HandleXtraData,
              HandleExtPower, HandleEngineLock, SettingIds, OtherIds
<1>6. ASSUME \/ HandleNmea \/ HandleRequestXtra \/ HandleUlpRequest \/ HandleSession
             \/ loc_cb \/ sv_cb \/ HandleEngineDown
      PROVE  \E id \in QuietIds \cup {"ENGINE_DOWN"} : Consumes(id)
  BY <1>6 DEF HandleNmea, HandleRequestXtra, HandleUlpRequest, HandleSession, loc_cb, sv_cb,
              HandleEngineDown, QuietIds, ReportIds, SessionIds
<1>7. ASSUME reportNmea \/ requestXtraData \/ UlpRequests
      PROVE  \E id \in ReportIds \cup UlpRequestIds : ReportsAround(id)
  BY <1>7 DEF reportNmea, requestXtraData, UlpRequests, ReportIds
<1>8. ASSUME reportPosition \/ reportSv
      PROVE  \E id \in ReportIds : ReportsThrough(id)
  BY <1>8 DEF reportPosition, reportSv, ReportIds
<1>9. CASE loc_afw
  BY <1>9, <1>1, <1>2, <1>3, <1>4 DEF loc_afw
<1>10. CASE loc_eng_deferred_action_thread
  BY <1>10, <1>5, <1>6 DEF loc_eng_deferred_action_thread
<1>11. CASE Environment
  BY <1>11, <1>7, <1>8 DEF Environment
<1>12. CASE loc_eng_read_config \/ get_gps_interface \/ OpenClient \/ OpenFails
  BY <1>12
<1> QED BY <1>9, <1>10, <1>11, <1>12 DEF Next

QueueInv ==
    /\ deferred_q \in Seq(Messages)
    /\ setting \in [SettingIds -> SUBSET Values]
    /\ asked \in [SettingIds -> SUBSET Values]
    /\ ConfigInv /\ SettingsInv

LEMMA PostsQueue ==
    ASSUME HalInv, ConfStays,
           asked' \in [SettingIds -> SUBSET Values],
           \E ms : Posts(ms)
    PROVE  QueueInv'
<1>1. PICK ms : Posts(ms)
  OBVIOUS
<1>2. setting' \in [SettingIds -> SUBSET Values]
  BY <1>1 DEF Posts, HalInv, TypeOK, RestTypes
<1> QED BY <1>1, <1>2, PostsStep DEF QueueInv

(* A message is taken off the queue. *)
LEMMA TakesStep ==
    ASSUME HalInv, deferred_q # <<>>, NEW r, r = Tail(deferred_q),
           gps_conf' = gps_conf, client' = client, asked' = asked,
           up' = up, fw' = fw, loc_eng_data' = loc_eng_data,
           deferred_q' = r,
           setting' \in [SettingIds -> SUBSET Values],
           \A id \in SettingIds : setting'[id] =
               IF client = "open" /\ Head(deferred_q).id = id
               THEN {Head(deferred_q).val} ELSE setting[id]
    PROVE  QueueInv'
<1> DEFINE h == Head(deferred_q)
<1>1. deferred_q \in Seq(Messages)
  BY DEF HalInv, TypeOK, RestTypes
<1>2. r \in Seq(Messages)
  BY <1>1, TailOf
<1>3. Carries(r) /\ (h.id \in ConfIds => {h.val} = Configured(h.id))
  BY <1>1, CarriesTail DEF HalInv, ConfigInv
<1>4. \A id : Queued(deferred_q, id) <=> h.id = id \/ Queued(r, id)
  BY <1>1, QueuedTail
<1>5. \A id, val : LastIs(deferred_q, id, val) =>
          \/ LastIs(r, id, val)
          \/ h.id = id /\ {h.val} = val /\ ~Queued(r, id) /\ ~Queued(r, "ENGINE_UP")
  BY <1>1, LastTail
<1> HIDE DEF h
<1>6. \A id \in ConfIds : Configured(id)' = Configured(id)
  BY ConfiguredStays DEF HalInv, TypeOK, RestTypes, ConfStays
<1>7. Carries(deferred_q)'
  BY <1>3, <1>6 DEF Carries
<1>8. ConfIds \subseteq SettingIds
  BY DEF SettingIds
<1>9. \A id \in SettingIds : setting'[id] =
          IF client = "open" /\ h.id = id THEN {h.val} ELSE setting[id]
  BY DEF h
<1>10. \A id \in ConfIds : setting'[id] \in {{}, Configured(id)}
  BY <1>3, <1>8, <1>9 DEF HalInv, ConfigInv
<1>11. ASSUME client = "open", NEW id \in ConfIds
       PROVE  setting'[id] = Configured(id) \/ Queued(r, id)
  <2>1. setting[id] = Configured(id) \/ Queued(deferred_q, id)
    BY <1>11 DEF HalInv, ConfigInv
  <2>2. CASE h.id = id
    BY <1>3, <1>8, <1>9, <1>11, <2>2
  <2>3. CASE h.id # id
    BY <1>4, <1>8, <1>9, <2>1, <2>3
  <2> QED BY <2>2, <2>3
<1>12. ConfigInv'
  BY <1>6, <1>7, <1>10, <1>11 DEF ConfigInv, Queued
<1>13. ASSUME NEW id \in SettingIds, asked[id] # {}
       PROVE  /\ Promised(id)
              /\ \/ LastIs(r, id, asked[id])
                 \/ /\ ~Queued(r, id) /\ ~Queued(r, "ENGINE_UP")
                    /\ client = "open" => setting'[id] = asked[id]
  <2>1. Promised(id) /\ (LastIs(deferred_q, id, asked[id]) \/ Handled(id, asked[id]))
    BY <1>13 DEF HalInv, SettingsInv
  <2>2. CASE LastIs(deferred_q, id, asked[id])
    <3>1. CASE LastIs(r, id, asked[id])
      BY <2>1, <3>1
    <3>2. CASE ~LastIs(r, id, asked[id])
      <4>1. h.id = id /\ {h.val} = asked[id] /\ ~Queued(r, id) /\ ~Queued(r, "ENGINE_UP")
        BY <1>5, <2>2, <3>2
      <4> QED BY <1>9, <2>1, <4>1
    <3> QED BY <3>1, <3>2
  <2>3. CASE Handled(id, asked[id])
    <3>1. /\ h.id # id /\ ~Queued(r, id) /\ ~Queued(r, "ENGINE_UP")
          /\ client = "open" => setting[id] = asked[id]
      BY <1>4, <2>3 DEF Handled
    <3> QED BY <1>9, <2>1, <3>1
  <2> QED BY <2>1, <2>2, <2>3
<1>14. ASSUME NEW id \in SettingIds, asked'[id] # {}
       PROVE  Promised(id)' /\ (LastIs(deferred_q, id, asked[id])' \/ Handled(id, asked[id])')
  <2>1. Promised(id)'
    BY <1>13, <1>14 DEF Promised
  <2>2. CASE LastIs(r, id, asked[id])
    BY <2>1, <2>2 DEF LastIs
  <2>3. CASE /\ ~Queued(r, id) /\ ~Queued(r, "ENGINE_UP")
             /\ client = "open" => setting'[id] = asked[id]
    BY <2>1, <2>3 DEF Handled, Queued
  <2> QED BY <1>13, <1>14, <2>2, <2>3
<1>15. SettingsInv'
  BY <1>14 DEF SettingsInv
<1>16. asked' \in [SettingIds -> SUBSET Values]
  BY DEF HalInv, TypeOK
<1> QED BY <1>2, <1>12, <1>15, <1>16 DEF QueueInv

(* The servers that loc_eng_agps_reinit would send: with a context there   *)
(* are none in the buffer.                                                 *)
LEMMA NoServerLeft ==
    ASSUME HalInv, loc_eng_data.context
    PROVE  loc_eng_agps_reinit = {<<>>}
<1>1. loc_eng_data.host_buf["SUPL_SERVER"] = {} /\ loc_eng_data.host_buf["CDMA_PDE_SERVER"] = {}
  BY DEF HalInv, EngineInv, ServerTypes
<1>2. <<>> \o <<>> = <<>>
  BY NothingQueued
<1> QED BY <1>1, <1>2 DEF loc_eng_agps_reinit

LEMMA QueueStep ==
    ASSUME HalInv, [Next]_vars
    PROVE  QueueInv'
<1> USE DEF data, engine, queues, frame, modem, history
<1>1. /\ deferred_q \in Seq(Messages) /\ ulp_q \in Seq(UlpMessages)
      /\ setting \in [SettingIds -> SUBSET Values]
      /\ asked \in [SettingIds -> SUBSET Values]
      /\ gps_conf \in Conf /\ loc_eng_data \in EngineData
  BY DEF HalInv, TypeOK, RestTypes
<1>2. ASSUME gps_conf' = gps_conf, asked' = asked, \E ms : Posts(ms)
      PROVE  QueueInv'
  BY <1>1, <1>2, ConfiguredStays, PostsQueue
<1>3. ASSUME gps_conf' = gps_conf, Keeps, fw = "idle",
             NEW id \in SettingIds \ ConfIds, NEW val \in Values, Set(id, val)
      PROVE  QueueInv'
  BY <1>1, <1>3, ConfiguredStays, SetPosts, PostsQueue
<1>4. ASSUME gps_conf' = gps_conf, Keeps, asked' = asked,
             NEW m \in Messages, m.id \in QuietIds \cup {"ENGINE_DOWN"},
             deferred_q' \in {deferred_q, Append(deferred_q, m)}
      PROVE  QueueInv'
  <2>1. CASE deferred_q' = deferred_q
    BY <1>2, <1>4, <2>1, Silent
  <2>2. CASE deferred_q' = Append(deferred_q, m)
    BY <1>2, <1>4, <2>2, Quiet
  <2> QED BY <1>4, <2>1, <2>2
<1>5. /\ {"ENGINE_LOCK", "INJECT_XTRA_DATA", "EXT_POWER"} \cup ServerTypes \subseteq SettingIds \ ConfIds
      /\ {0, 1, "data", "charging"} \cup Hosts \subseteq Values
      /\ QuietIds \cup {"ENGINE_DOWN", "ENGINE_UP"} \subseteq Ids
  BY DEF SettingIds, ConfIds, OtherIds, ServerTypes, Values, Ids
<1>6. SessionIds \cup ReportIds \cup UlpRequestIds \subseteq QuietIds
  BY DEF QuietIds
<1>7. ASSUME gps_conf' = gps_conf, Keeps, asked' = asked, deferred_q' = deferred_q
      PROVE  QueueInv'
  BY <1>2, <1>7, Silent
<1>8. CASE loc_eng_read_config \/ get_gps_interface
  <2>1. /\ deferred_q' = <<>> /\ client' = "NULL"
        /\ setting' = setting /\ asked' = asked
        /\ \A id \in SettingIds : setting[id] = {} /\ asked[id] = {}
    BY <1>8 DEF loc_eng_read_config, get_gps_interface, HalInv, LoadingInv
  <2>2. ConfIds \subseteq SettingIds
    BY DEF SettingIds
  <2> QED BY <1>1, <2>1, <2>2 DEF QueueInv, ConfigInv, SettingsInv, Carries
<1>9. CASE loc_init
  <2>1. ConfStays
    BY <1>1, <1>9, ConfiguredStays DEF loc_init
  <2>2. asked' \in [SettingIds -> SUBSET Values] /\ \E ms : Posts(ms)
    <3>1. CASE AlreadyInitialized
      <4>1. Keeps
        BY <1>1, <1>9, <3>1 DEF Keeps, loc_init, AlreadyInitialized, loc_eng_ulp_init, EngineData
      <4> QED BY <1>5, <1>9, <3>1, <4>1, SetPosts
              DEF loc_init, Call, AlreadyInitialized, loc_eng_set_engine_lock
    <3>2. CASE AdapterCreated \/ AdapterMissing
      <4>1. /\ ~loc_eng_data.context /\ client' # "open" /\ asked' = asked
            /\ setting' = setting /\ deferred_q' = deferred_q
        BY <1>9, <3>2 DEF AdapterCreated, AdapterMissing, loc_init
      <4>2. \A id \in SettingIds : asked[id] = {}
        BY <4>1 DEF HalInv, SettingsInv, Promised
      <4>3. Posts(<<>>)
        BY <1>1, <4>1, <4>2, NothingQueued DEF Posts
      <4> QED BY <1>1, <4>1, <4>3
    <3>3. CASE UNCHANGED <<engine, queues, fw, tries, history>>
      BY <1>1, <1>9, <3>3, Silent DEF Keeps, loc_init
    <3> QED BY <1>9, <3>1, <3>2, <3>3 DEF loc_init, loc_eng_init
  <2> QED BY <2>1, <2>2, PostsQueue
<1>10. CASE loc_cleanup
  BY <1>3, <1>5, <1>10 DEF loc_cleanup, Call, Keeps, loc_eng_set_engine_lock
<1>11. CASE \E id \in SettingIds \ ConfIds, val \in Values : Passes(id, val)
  BY <1>3, <1>11 DEF Passes, Ready, Call, Keeps
<1>12. CASE loc_xtra_inject_data
  <2>1. CASE loc_eng_data.context
    BY <1>3, <1>5, <1>12, <2>1 DEF loc_xtra_inject_data, Ready, Call, Keeps
  <2>2. CASE ~loc_eng_data.context
    BY <1>7, <1>12, <2>2 DEF loc_xtra_inject_data, Ready, Call, Keeps
  <2> QED BY <2>1, <2>2
<1>13. CASE loc_agps_set_server
  <2>1. PICK type \in ServerTypes, host \in Hosts : loc_eng_set_server_proxy(type, host)
    BY <1>13 DEF loc_agps_set_server
  <2>2. CASE ~loc_eng_data.context
    BY <1>1, <1>7, <1>13, <2>1, <2>2
       DEF loc_agps_set_server, loc_eng_set_server_proxy, Keeps, EngineData
  <2>3. CASE loc_eng_data.context
    <3>1. PICK msgs \in loc_eng_set_server(type, host) :
              /\ deferred_q' = deferred_q \o msgs
              /\ IF msgs = <<>> THEN asked' = asked ELSE Ask(type, host)
              /\ UNCHANGED loc_eng_data
      BY <2>1, <2>3 DEF loc_eng_set_server_proxy
    <3>2. Keeps /\ gps_conf' = gps_conf /\ fw = "idle"
      BY <1>13, <3>1 DEF Keeps, loc_agps_set_server, Call
    <3>3. CASE msgs = <<>>
      BY <1>1, <1>7, <3>1, <3>2, <3>3, NothingQueued
    <3>4. CASE msgs # <<>>
      <4>1. msgs = <<Msg(type, host)>>
        BY <3>1, <3>4 DEF loc_eng_set_server
      <4>2. Msg(type, host) \in Messages /\ Msg(type, host).id = type
        BY <1>5, MsgType DEF Ids
      <4>3. deferred_q' = Append(deferred_q, Msg(type, host))
        BY <1>1, <1>5, <3>1, <4>1, <4>2, OneQueued
      <4> QED BY <1>3, <1>5, <2>3, <3>1, <3>2, <3>4, <4>3 DEF Set
    <3> QED BY <3>3, <3>4
  <2> QED BY <2>2, <2>3
<1>14. CASE loc_agps_init
  <2>1. deferred_q' = deferred_q
    BY <1>1, <1>14, NoServerLeft, NothingQueued DEF loc_agps_init
  <2> QED BY <1>1, <1>7, <1>14, <2>1 DEF loc_agps_init, Keeps, EngineData
<1>15. CASE \E callback \in Callbacks : Registers(callback)
  BY <1>1, <1>7, <1>15 DEF Registers, Keeps, EngineData
<1>16. CASE \E id \in SessionIds : Routes(id)
  BY <1>4, <1>5, <1>6, <1>16, SignalType DEF Routes, Keeps
<1>17. CASE \E id \in UlpIds : ToUlp(id)
  BY <1>7, <1>17 DEF ToUlp, Keeps
<1>18. CASE loc_ulp_send_network_position
  BY <1>7, <1>18 DEF loc_ulp_send_network_position, Keeps
<1>19. CASE loc_ulp_phone_context_settings_update
  <2>1. /\ Keeps /\ gps_conf' = gps_conf /\ fw = "idle"
        /\ \/ Set("EXT_POWER", "charging")
           \/ UNCHANGED <<deferred_q, asked>>
    BY <1>19 DEF loc_ulp_phone_context_settings_update, Ready, Call, Keeps
  <2> QED BY <1>3, <1>5, <1>7, <2>1
<1>20. CASE OpenClient
  <2> DEFINE m == Msg("ENGINE_LOCK", 1)
             ms == ReinitMessages \o <<m>>
  <2>1. m \in Messages /\ m.id = "ENGINE_LOCK" /\ m.val = 1
    BY <1>5, MsgType DEF Ids
  <2>2. m.id \notin ConfIds
    BY <1>5, <2>1
  <2>3. deferred_q' = (deferred_q \o ReinitMessages) \o <<m>>
    BY <1>20 DEF OpenClient
  <2> HIDE DEF m
  <2>4. /\ <<m>> \in Seq(Messages) /\ Carries(<<m>>) /\ LastIs(<<m>>, "ENGINE_LOCK", {1})
        /\ ReinitMessages \in Seq(Messages) /\ Carries(ReinitMessages)
    BY <1>1, <2>1, <2>2, OneQueued, ReinitType
  <2>5. /\ ms \in Seq(Messages) /\ Carries(ms)
        /\ LastIs(ms, "ENGINE_LOCK", {1})
        /\ \A id \in ConfIds : Configured(id) = {} \/ Queued(ms, id)
    <3>1. ms \in Seq(Messages) /\ Carries(ms)
      BY <2>4, Concat, CarriesConcat
    <3>2. LastIs(ms, "ENGINE_LOCK", {1})
      BY <2>4, LastConcat
    <3>3. \A id \in ConfIds : Configured(id) = {} \/ Queued(ms, id)
      BY <1>1, <2>4, QueuedConcat, ReinitType
    <3> QED BY <3>1, <3>2, <3>3
  <2>6. deferred_q' = deferred_q \o ms
    BY <1>1, <2>3, <2>4, ConcatAssociative
  <2> HIDE DEF ms
  <2>7. \A id \in SettingIds : asked[id] = {}
    BY <1>20 DEF OpenClient, HalInv, SettingsInv, Promised
  <2>8. /\ asked' \in [SettingIds -> SUBSET Values]
        /\ \A id \in SettingIds : asked'[id] # {} => id = "ENGINE_LOCK" /\ asked'[id] = {1}
    BY <1>1, <1>5, <1>20, <2>7 DEF OpenClient
  <2>9. up' /\ fw' = "idle" /\ loc_eng_data'.context
    BY <1>1, <1>20 DEF OpenClient, loc_eng_ulp_init, EngineData, HalInv, EngineInv
  <2>10. Posts(ms)
    BY <1>5, <1>20, <2>5, <2>6, <2>8, <2>9 DEF Posts, OpenClient, Promised
  <2> QED BY <1>1, <1>20, <2>8, <2>10, ConfiguredStays, PostsQueue DEF OpenClient
<1>21. CASE OpenFails
  <2>1. \A id \in SettingIds : asked[id] = {}
    BY <1>21 DEF OpenFails, HalInv, SettingsInv, Promised
  <2>2. Posts(<<>>)
    BY <1>1, <1>21, <2>1, NothingQueued DEF Posts, OpenFails
  <2> QED BY <1>2, <1>21, <2>2 DEF OpenFails
<1>22. ASSUME NEW id \in SettingIds, HandleSetting(id)
       PROVE  QueueInv'
  <2>1. deferred_q # <<>> /\ Head(deferred_q).id = id
    BY <1>22 DEF HandleSetting, Receives
  <2>2. Head(deferred_q) \in Messages
    BY <1>1, <2>1, TailOf, ElementOfSeq
  <2>3. Head(deferred_q).val \in Values
    BY <2>2 DEF Messages
  <2>4. /\ setting' \in [SettingIds -> SUBSET Values]
        /\ \A s \in SettingIds : setting'[s] =
               IF client = "open" /\ Head(deferred_q).id = s
               THEN {Head(deferred_q).val} ELSE setting[s]
    BY <1>1, <1>22, <2>1, <2>3 DEF HandleSetting
  <2> QED BY <1>22, <2>1, <2>4, TakesStep DEF HandleSetting
<1>23. ASSUME NEW id \in QuietIds \cup {"ENGINE_DOWN"}, Consumes(id)
       PROVE  QueueInv'
  <2>1. deferred_q # <<>> /\ Head(deferred_q).id = id
    BY <1>23 DEF Consumes, Receives
  <2>2. id \notin SettingIds
    BY DEF QuietIds, ReportIds, UlpRequestIds, SessionIds, SettingIds, ConfIds, InjectIds,
           OtherIds, ServerTypes
  <2> QED BY <1>1, <1>23, <2>1, <2>2, TakesStep DEF Consumes
<1>24. CASE CallCallback
  BY <1>7, <1>24 DEF CallCallback, Keeps
<1>25. CASE HandleEngineUp
  <2> DEFINE ms == IF client' = "open" THEN ReinitMessages ELSE <<>>
             t == Tail(deferred_q)
             r == t \o ms
  <2>1. deferred_q # <<>> /\ Head(deferred_q).id = "ENGINE_UP"
    BY <1>25 DEF HandleEngineUp, Receives
  <2>2. t \in Seq(Messages) /\ Carries(t)
    BY <1>1, <2>1, TailOf, CarriesTail DEF HalInv, ConfigInv
  <2>3. /\ ms \in Seq(Messages) /\ Carries(ms)
        /\ client' = "open" => \A id \in ConfIds : Configured(id) = {} \/ Queued(ms, id)
        /\ \A id : id \notin ConfIds => ~Queued(ms, id)
    BY <1>1, ReinitType, NothingQueued
  <2>4. deferred_q' = r
    <3>1. PICK msgs \in (IF loc_eng_data.agps_status_cb THEN loc_eng_agps_reinit ELSE {<<>>}) :
              deferred_q' = (t \o ms) \o msgs
      BY <1>25 DEF HandleEngineUp
    <3>2. msgs = <<>>
      BY <3>1, NoServerLeft DEF HalInv, EngineInv
    <3> HIDE DEF t, ms
    <3> QED BY <2>2, <2>3, <3>1, <3>2, Concat, NothingQueued
  <2> HIDE DEF ms
  <2>5. /\ r \in Seq(Messages) /\ Carries(r)
        /\ \A id : Queued(ms, id) => Queued(r, id)
    BY <2>2, <2>3, Concat, CarriesConcat, QueuedConcat
  <2>6. ConfIds \subseteq SettingIds /\ "ENGINE_UP" \notin SettingIds
    BY DEF SettingIds, ConfIds, InjectIds, OtherIds, ServerTypes
  <2>7. ASSUME NEW id \in SettingIds, asked[id] # {}
        PROVE  Promised(id) /\ LastIs(r, id, asked[id])
    <3>1. Promised(id) /\ id \notin ConfIds
      BY <2>7 DEF HalInv, SettingsInv, Promised
    <3>2. LastIs(deferred_q, id, asked[id])
      BY <1>1, <2>1, <2>7, QueuedTail DEF HalInv, SettingsInv, Handled
    <3>3. LastIs(t, id, asked[id])
      BY <1>1, <2>1, <2>6, <3>2, LastTail
    <3>4. "ENGINE_UP" \notin ConfIds
      BY <2>6
    <3> HIDE DEF t
    <3> QED BY <2>2, <2>3, <3>1, <3>3, <3>4, LastConcat
  <2> HIDE DEF r, t
  <2>8. ConfStays
    BY <1>1, <1>25, ConfiguredStays DEF HandleEngineUp
  <2>9. Carries(deferred_q)'
    BY <2>4, <2>5, <2>8 DEF Carries, ConfStays
  <2>10. ConfigInv'
    <3>1. ASSUME client' = "open", NEW id \in ConfIds
          PROVE  setting[id] = Configured(id) \/ Queued(r, id)
      BY <2>3, <2>5, <3>1 DEF HalInv, ConfigInv
    <3> QED BY <1>25, <2>4, <2>8, <2>9, <3>1 DEF ConfigInv, ConfStays, Queued, HandleEngineUp, HalInv
  <2>11. SettingsInv'
    BY <1>25, <2>4, <2>7 DEF SettingsInv, Promised, LastIs, HandleEngineUp
  <2> QED BY <1>1, <1>25, <2>4, <2>5, <2>10, <2>11 DEF QueueInv, HandleEngineUp
<1>26. CASE \E id \in ReportIds \cup UlpRequestIds : ReportsAround(id)
  BY <1>4, <1>5, <1>6, <1>26, SignalType DEF ReportsAround, Report, Keeps
<1>27. CASE \E id \in ReportIds : ReportsThrough(id)
  BY <1>4, <1>5, <1>6, <1>27, SignalType DEF ReportsThrough, Report, Keeps
<1>28. CASE ModemCrashes
  <2>1. /\ asked' = [s \in SettingIds |-> {}] /\ setting' = [s \in SettingIds |-> {}]
        /\ client' # "open" /\ gps_conf' = gps_conf
    BY <1>28 DEF ModemCrashes, HalInv, TypeOK, RestTypes
  <2>2. /\ Signal("ENGINE_DOWN") \in Messages /\ Signal("ENGINE_DOWN").id = "ENGINE_DOWN"
        /\ "ENGINE_DOWN" \notin ConfIds
    BY <1>5, SignalType DEF ConfIds
  <2>3. deferred_q' \in Seq(Messages) /\ Carries(deferred_q')
    <3>1. CASE deferred_q' = deferred_q
      BY <1>1, <3>1 DEF HalInv, ConfigInv
    <3>2. CASE deferred_q' = Append(deferred_q, Signal("ENGINE_DOWN"))
      <4> DEFINE ms == <<Signal("ENGINE_DOWN")>>
      <4>1. ms \in Seq(Messages) /\ Carries(ms) /\ deferred_q' = deferred_q \o ms
        BY <1>1, <2>2, <3>2, OneQueued
      <4>2. Carries(deferred_q)
        BY DEF HalInv, ConfigInv
      <4> HIDE DEF ms
      <4> QED BY <1>1, <4>1, <4>2, Concat, CarriesConcat
    <3> QED BY <1>28, <3>1, <3>2 DEF ModemCrashes
  <2>4. ConfStays
    BY <1>1, <2>1, ConfiguredStays
  <2>5. Carries(deferred_q)'
    BY <2>3, <2>4 DEF Carries, ConfStays
  <2>6. ConfIds \subseteq SettingIds
    BY DEF SettingIds
  <2>7. ConfigInv'
    BY <2>1, <2>5, <2>6 DEF ConfigInv
  <2>8. SettingsInv'
    BY <2>1 DEF SettingsInv
  <2> QED BY <2>1, <2>3, <2>7, <2>8 DEF QueueInv
<1>29. CASE ModemComesBack
  <2>1. \A id \in SettingIds : asked[id] = {}
    BY <1>29 DEF ModemComesBack, HalInv, SettingsInv, Promised
  <2>2. /\ Signal("ENGINE_UP") \in Messages /\ Signal("ENGINE_UP").id = "ENGINE_UP"
        /\ "ENGINE_UP" \notin ConfIds
    BY <1>5, SignalType DEF ConfIds
  <2>3. CASE client = "NULL"
    <3>1. Posts(<<>>)
      BY <1>1, <1>29, <2>1, <2>3, NothingQueued DEF Posts, ModemComesBack
    <3> QED BY <1>2, <1>29, <3>1 DEF ModemComesBack
  <2>4. CASE client # "NULL"
    <3>1. Posts(<<Signal("ENGINE_UP")>>)
      BY <1>1, <1>29, <2>1, <2>2, <2>4, OneQueued DEF Posts, ModemComesBack
    <3> QED BY <1>2, <1>29, <3>1 DEF ModemComesBack
  <2> QED BY <2>3, <2>4
<1>30. CASE UlpForwards
  <2>1. Head(ulp_q) \in UlpMessages
    BY <1>1, <1>30, HeadTailProperties DEF UlpForwards
  <2>2. CASE Head(ulp_q).id \in UlpIds
    BY <1>7, <1>30, <2>2 DEF UlpForwards, Keeps
  <2>3. CASE Head(ulp_q).id \notin UlpIds
    <3>1. Head(ulp_q) \in Messages /\ Head(ulp_q).id \in QuietIds
      BY <1>5, <2>1, <2>3 DEF UlpMessages, Messages, QuietIds
    <3> QED BY <1>4, <1>30, <2>3, <3>1 DEF UlpForwards, Keeps
  <2> QED BY <2>2, <2>3
<1>31. CASE UNCHANGED vars
  BY <1>7, <1>31 DEF vars, Keeps
<1> HIDE DEF data, engine, queues, frame, modem, history
<1> QED
  BY <1>8, <1>9, <1>10, <1>11, <1>12, <1>13, <1>14, <1>15, <1>16, <1>17, <1>18, <1>19, <1>20,
     <1>21, <1>22, <1>23, <1>24, <1>25, <1>26, <1>27, <1>28, <1>29, <1>30, <1>31, Kinds

-----------------------------------------------------------------------------
(* The engine's data *)

LEMMA UlpInitType ==
    ASSUME NEW d \in EngineData, loc_eng_ulp_inf \in BOOLEAN
    PROVE  /\ loc_eng_ulp_init(d) \in EngineData
           /\ loc_eng_ulp_init(d).context = d.context
           /\ loc_eng_ulp_init(d).agps_status_cb = d.agps_status_cb
           /\ loc_eng_ulp_init(d).host_buf = d.host_buf
           /\ loc_eng_ulp_init(d).ulp_initialized = (d.ulp_initialized \/ loc_eng_ulp_inf)
<1>1. (d.ulp_initialized \/ loc_eng_ulp_inf) \in BOOLEAN
  OBVIOUS
<1> QED BY <1>1 DEF loc_eng_ulp_init, EngineData

LEMMA ClearedType ==
    /\ Cleared \in EngineData
    /\ [Cleared EXCEPT !.callbacks = {"nmea"}] \in EngineData
    /\ [Cleared EXCEPT !.context = TRUE, !.callbacks = {"nmea"}] \in EngineData
BY DEF Cleared, EngineData, Callbacks

LEMMA DeviceFile ==
    ASSUME device \in Devices
    PROVE  /\ device.file \in Files /\ device.standalone \in BOOLEAN /\ device.libulp \in BOOLEAN
           /\ Len(device.file.lines) \in Nat
<1>1. device.file \in Files /\ device.standalone \in BOOLEAN /\ device.libulp \in BOOLEAN
  BY HalAssumption
<1>2. device.file.lines \in Seq([name : STRING, operand : Operands])
  BY <1>1 DEF Files
<1> QED BY <1>1, <1>2, LenProperties

LEMMA UlpQueue ==
    ASSUME ulp_q \in Seq(UlpMessages), NEW id \in ReportIds \cup SessionIds \cup UlpIds
    PROVE  Append(ulp_q, Signal(id)) \in Seq(UlpMessages)
<1>1. Signal(id) \in UlpMessages
  BY DEF Signal, Msg, UlpMessages
<1> QED BY <1>1, AppendProperties

LEMMA TypeStep ==
    ASSUME HalInv, [Next]_vars
    PROVE  RestTypes'
<1> USE DEF data, engine, queues, frame, modem, history
<1>1. RestTypes
  BY DEF HalInv, TypeOK, RestTypes
<1>2. CASE loc_eng_read_config
  <2>1. device.file \in Files /\ Len(device.file.lines) \in Nat
    BY <1>1, DeviceFile DEF RestTypes
  <2>2. lines_read' \in 1..Len(device.file.lines) /\ device.file.found
    BY <1>1, <1>2, <2>1 DEF loc_eng_read_config, MoreLines, RestTypes
  <2>3. gps_conf' \in Conf
    BY <1>1, <1>2, <2>1, <2>2, LineType, ReadIsConf DEF loc_eng_read_config, RestTypes
  <2> QED BY <1>1, <1>2, <2>2, <2>3 DEF loc_eng_read_config, RestTypes
<1>3. CASE get_gps_interface
  BY <1>1, <1>3, DeviceFile DEF get_gps_interface, loc_eng_get_ulp_inf, RestTypes
<1>4. CASE loc_init
  <2>1. gps_conf' \in Conf
    <3>1. gps_conf.value["CAPABILITIES"] \in Int
      BY <1>1 DEF RestTypes, Conf, Params, loc_parameter_table, Numbers
    <3>2. MaskAssistance(gps_conf.value["CAPABILITIES"]) \in Int
      BY <3>1, MaskKeeps
    <3> QED BY <1>1, <1>4, <3>2 DEF loc_init, RestTypes, Conf
  <2>2. loc_eng_ulp_init(loc_eng_data) \in EngineData
    BY <1>1, UlpInitType DEF RestTypes
  <2>3. loc_eng_ulp_init([Cleared EXCEPT !.callbacks = {"nmea"}]) \in EngineData
    BY <1>1, UlpInitType, ClearedType DEF RestTypes
  <2>4. CASE AlreadyInitialized
    BY <1>1, <1>4, <2>1, <2>2, <2>4 DEF loc_init, AlreadyInitialized, RestTypes
  <2>5. CASE AdapterCreated
    BY <1>1, <1>4, <2>1, <2>5, ClearedType DEF loc_init, AdapterCreated, RestTypes
  <2>6. CASE AdapterMissing
    BY <1>1, <1>4, <2>1, <2>3, <2>6, ClearedType DEF loc_init, AdapterMissing, drop, RestTypes
  <2>7. CASE UNCHANGED <<engine, queues, fw, tries, history>>
    BY <1>1, <1>4, <2>1, <2>7 DEF loc_init, RestTypes
  <2> QED BY <1>4, <2>4, <2>5, <2>6, <2>7 DEF loc_init, loc_eng_init
<1>5. CASE loc_cleanup
  BY <1>1, <1>5 DEF loc_cleanup, RestTypes
<1>6. CASE \E id \in SettingIds \ ConfIds, val \in Values : Passes(id, val)
  BY <1>1, <1>6 DEF Passes, RestTypes
<1>7. CASE loc_xtra_inject_data
  BY <1>1, <1>7 DEF loc_xtra_inject_data, RestTypes
<1>8. CASE loc_agps_set_server
  <2>1. loc_eng_data' \in EngineData
    BY <1>1, <1>8 DEF loc_agps_set_server, loc_eng_set_server_proxy, RestTypes, EngineData
  <2> QED BY <1>1, <1>8, <2>1 DEF loc_agps_set_server, RestTypes
<1>9. CASE loc_agps_init
  <2>1. loc_eng_data' \in EngineData
    BY <1>1, <1>9 DEF loc_agps_init, RestTypes, EngineData
  <2> QED BY <1>1, <1>9, <2>1 DEF loc_agps_init, RestTypes
<1>10. CASE \E callback \in Callbacks : Registers(callback)
  <2>1. loc_eng_data' \in EngineData
    BY <1>1, <1>10 DEF Registers, RestTypes, EngineData
  <2> QED BY <1>1, <1>10, <2>1 DEF Registers, RestTypes
<1>11. CASE \E id \in SessionIds : Routes(id)
  BY <1>1, <1>11, UlpQueue DEF Routes, RestTypes
<1>12. CASE \E id \in UlpIds : ToUlp(id)
  BY <1>1, <1>12, UlpQueue DEF ToUlp, RestTypes
<1>13. CASE loc_ulp_send_network_position
  BY <1>1, <1>13, UlpQueue DEF loc_ulp_send_network_position, UlpIds, RestTypes
<1>14. CASE loc_ulp_phone_context_settings_update
  BY <1>1, <1>14, UlpQueue DEF loc_ulp_phone_context_settings_update, UlpIds, RestTypes
<1>15. CASE OpenClient
  BY <1>1, <1>15, UlpInitType DEF OpenClient, RestTypes
<1>16. CASE OpenFails
  BY <1>1, <1>16, UlpInitType DEF OpenFails, RestTypes
<1>17. CASE \E id \in SettingIds : HandleSetting(id)
  BY <1>1, <1>17 DEF HandleSetting, RestTypes
<1>18. CASE \E id \in QuietIds \cup {"ENGINE_DOWN"} : Consumes(id)
  BY <1>1, <1>18 DEF Consumes, RestTypes
<1>19. CASE CallCallback
  BY <1>1, <1>19 DEF CallCallback, RestTypes
<1>20. CASE HandleEngineUp
  BY <1>1, <1>20 DEF HandleEngineUp, RestTypes
<1>21. CASE \E id \in ReportIds \cup UlpRequestIds : ReportsAround(id)
  BY <1>1, <1>21 DEF ReportsAround, Report, RestTypes
<1>22. CASE \E id \in ReportIds : ReportsThrough(id)
  BY <1>1, <1>22, UlpQueue DEF ReportsThrough, Report, RestTypes
<1>23. CASE ModemCrashes
  BY <1>1, <1>23 DEF ModemCrashes, RestTypes
<1>24. CASE ModemComesBack
  BY <1>1, <1>24 DEF ModemComesBack, RestTypes
<1>25. CASE UlpForwards
  <2>1. ulp_q' \in Seq(UlpMessages)
    BY <1>1, <1>25, HeadTailProperties DEF UlpForwards, RestTypes
  <2> QED BY <1>1, <1>25, <2>1 DEF UlpForwards, RestTypes
<1>26. CASE UNCHANGED vars
  BY <1>1, <1>26 DEF vars, RestTypes
<1> HIDE DEF data, engine, queues, frame, modem, history
<1> QED
  BY <1>2, <1>3, <1>4, <1>5, <1>6, <1>7, <1>8, <1>9, <1>10, <1>11, <1>12, <1>13, <1>14, <1>15,
     <1>16, <1>17, <1>18, <1>19, <1>20, <1>21, <1>22, <1>23, <1>24, <1>25, <1>26, Kinds

LEMMA CapableStays ==
    ASSUME gps_conf \in Conf, loc_init
    PROVE  /\ UlpCapable' <=> UlpCapable
           /\ gps_conf'.valid = gps_conf.valid
           /\ \A p \in Params \ {"CAPABILITIES"} : gps_conf'.value[p] = gps_conf.value[p]
           /\ \A weight \in ULP_CAPABILITY \cup {GEOFENCING} :
                  HasBit(gps_conf'.value["CAPABILITIES"], weight)
                      <=> HasBit(gps_conf.value["CAPABILITIES"], weight)
           /\ ~device.standalone => gps_conf' = gps_conf
           /\ device.standalone => ~HasBit(gps_conf'.value["CAPABILITIES"], MSA)
                                   /\ ~HasBit(gps_conf'.value["CAPABILITIES"], MSB)
<1> DEFINE caps == gps_conf.value["CAPABILITIES"]
<1>1. CASE ~device.standalone
  BY <1>1 DEF loc_init, get_target_name, UlpCapable
<1>2. CASE device.standalone
  <2>1. gps_conf' = [gps_conf EXCEPT !.value["CAPABILITIES"] = MaskAssistance(caps)]
    BY <1>2 DEF loc_init, get_target_name
  <2>2. caps \in Int /\ "CAPABILITIES" \in Params
    BY DEF Conf, Params, loc_parameter_table, Numbers
  <2>3. /\ gps_conf'.valid = gps_conf.valid
        /\ gps_conf'.value = [gps_conf.value EXCEPT !["CAPABILITIES"] = MaskAssistance(caps)]
    BY <2>1 DEF Conf
  <2>4. /\ gps_conf'.value["CAPABILITIES"] = MaskAssistance(caps)
        /\ \A p \in Params \ {"CAPABILITIES"} : gps_conf'.value[p] = gps_conf.value[p]
    BY <2>2, <2>3 DEF Conf
  <2>5. /\ \A weight \in ULP_CAPABILITY \cup {GEOFENCING} :
               HasBit(MaskAssistance(caps), weight) <=> HasBit(caps, weight)
        /\ ~HasBit(MaskAssistance(caps), MSA) /\ ~HasBit(MaskAssistance(caps), MSB)
    BY <2>2, MaskKeeps
  <2>6. UlpCapable' <=> UlpCapable
    BY <2>4, <2>5 DEF UlpCapable, Capable
  <2> QED BY <1>2, <2>3, <2>4, <2>5, <2>6
<1> QED BY <1>1, <1>2

(* Only loading the library and loc_init write the configuration. *)
LEMMA OthersKeepConf ==
    ASSUME HalInv, Next
    PROVE  \/ loc_eng_read_config \/ get_gps_interface \/ loc_init
           \/ /\ device' = device /\ gps_conf' = gps_conf /\ loc_eng_ulp_inf' = loc_eng_ulp_inf
              /\ gps_cb' \in {gps_cb, FALSE}
              /\ fw # "loading" /\ fw' # "loading"
<1> USE DEF data, engine, queues, frame, modem, history
<1> DEFINE Keep == /\ device' = device /\ gps_conf' = gps_conf /\ loc_eng_ulp_inf' = loc_eng_ulp_inf
                   /\ gps_cb' \in {gps_cb, FALSE}
                   /\ fw # "loading" /\ fw' # "loading"
<1>1. CASE \/ loc_cleanup \/ loc_xtra_inject_data \/ loc_agps_set_server \/ loc_agps_init
           \/ loc_ulp_send_network_position \/ loc_ulp_phone_context_settings_update
  BY <1>1 DEF loc_cleanup, loc_xtra_inject_data, loc_agps_set_server, loc_agps_init,
              loc_ulp_send_network_position, loc_ulp_phone_context_settings_update, Ready, Call
<1>2. CASE \/ \E id \in SettingIds \ ConfIds, val \in Values : Passes(id, val)
           \/ \E callback \in Callbacks : Registers(callback)
           \/ \E id \in SessionIds : Routes(id)
           \/ \E id \in UlpIds : ToUlp(id)
  BY <1>2 DEF Passes, Registers, Routes, ToUlp, Ready, Call
<1>3. CASE OpenClient \/ OpenFails
  BY <1>3 DEF OpenClient, OpenFails
<1>4. CASE \/ \E id \in ReportIds \cup UlpRequestIds : ReportsAround(id)
           \/ \E id \in ReportIds : ReportsThrough(id)
           \/ ModemCrashes \/ ModemComesBack \/ UlpForwards
  BY <1>4 DEF ReportsAround, ReportsThrough, Report, ModemCrashes, ModemComesBack, UlpForwards, Alive
<1>5. CASE \/ \E id \in SettingIds : HandleSetting(id)
           \/ \E id \in QuietIds \cup {"ENGINE_DOWN"} : Consumes(id)
           \/ HandleEngineUp
  BY <1>5 DEF HandleSetting, Consumes, HandleEngineUp, Receives, HalInv, LoadingInv
<1>6. CASE CallCallback
  BY <1>6 DEF CallCallback, HalInv, LoadingInv
<1> HIDE DEF data, engine, queues, frame, modem, history, Keep
<1> QED BY <1>1, <1>2, <1>3, <1>4, <1>5, <1>6, Kinds DEF Keep

LEMMA LoadingStep ==
    ASSUME HalInv, [Next]_vars
    PROVE  LoadingInv'
<1> USE DEF data, engine, queues, frame, modem, history
<1>1. CASE loc_eng_read_config
  <2>1. /\ device.file \in Files /\ Len(device.file.lines) \in Nat
        /\ lines_read \in Nat /\ lines_read < Len(device.file.lines)
        /\ gps_conf = Written(device.file, lines_read)
    BY <1>1, DeviceFile DEF loc_eng_read_config, MoreLines, HalInv, TypeOK, RestTypes, LoadingInv
  <2>2. gps_conf' = Written(device.file, lines_read + 1)
    BY <1>1, <2>1, ReadsOneMore DEF loc_eng_read_config
  <2> QED BY <1>1, <2>2 DEF loc_eng_read_config, HalInv, LoadingInv
<1>2. CASE get_gps_interface
  BY <1>2 DEF get_gps_interface, LoadingInv
<1>3. CASE loc_init
  BY <1>3 DEF loc_init, loc_eng_init, AlreadyInitialized, AdapterCreated, AdapterMissing, drop,
              Call, LoadingInv
<1>4. CASE UNCHANGED vars
  BY <1>4 DEF vars, HalInv, LoadingInv
<1> HIDE DEF data, engine, queues, frame, modem, history
<1> QED BY <1>1, <1>2, <1>3, <1>4, OthersKeepConf DEF LoadingInv

LEMMA FilesStep ==
    ASSUME HalInv, [Next]_vars
    PROVE  ConfigIsTheFiles'
<1> USE DEF data, engine, queues, frame, modem, history
<1>1. CASE loc_eng_read_config
  BY <1>1 DEF loc_eng_read_config, HalInv, ConfigIsTheFiles
<1>2. CASE get_gps_interface
  <2>1. lines_read = IF device.file.found THEN Len(device.file.lines) ELSE 0
    BY <1>2, DeviceFile DEF get_gps_interface, MoreLines, HalInv, TypeOK, RestTypes
  <2>2. gps_conf = Written(device.file, lines_read) /\ ~gps_cb
    BY <1>2 DEF get_gps_interface, HalInv, LoadingInv
  <2> QED BY <1>2, <2>1, <2>2 DEF get_gps_interface, ConfigIsTheFiles
<1>3. CASE loc_init
  <2>1. ConfigIsTheFiles /\ fw # "loading" /\ device' = device
    BY <1>3 DEF loc_init, Call, HalInv
  <2>2. gps_conf \in Conf
    BY DEF HalInv, TypeOK, RestTypes
  <2> HIDE DEF ConfigIsTheFiles
  <2> QED BY <1>3, <2>1, <2>2, CapableStays DEF ConfigIsTheFiles
<1>4. ASSUME /\ device' = device /\ gps_conf' = gps_conf
             /\ gps_cb' \in {gps_cb, FALSE}
             /\ fw # "loading"
      PROVE  ConfigIsTheFiles'
  BY <1>4 DEF HalInv, ConfigIsTheFiles
<1>5. CASE UNCHANGED vars
  BY <1>5 DEF vars, HalInv, ConfigIsTheFiles
<1> HIDE DEF data, engine, queues, frame, modem, history
<1> QED BY <1>1, <1>2, <1>3, <1>4, <1>5, OthersKeepConf

LEMMA EngineStep ==
    ASSUME HalInv, [Next]_vars
    PROVE  EngineInv'
<1> USE DEF data, engine, queues, frame, modem, history
<1>1. /\ EngineInv /\ loc_eng_data \in EngineData /\ loc_eng_ulp_inf \in BOOLEAN
      /\ gps_conf \in Conf
  BY DEF HalInv, TypeOK, RestTypes
<1>2. ASSUME loc_eng_data' = loc_eng_data, sendUlpMsg' = sendUlpMsg, up' = up,
             loc_eng_ulp_inf' = loc_eng_ulp_inf, gps_conf' = gps_conf, client' = client,
             fw' \in {fw, "dead"}
      PROVE  EngineInv'
  BY <1>1, <1>2 DEF EngineInv, UlpCapable
<1>3. CASE loc_eng_read_config
  BY <1>1, <1>3 DEF loc_eng_read_config, EngineInv
<1>4. CASE get_gps_interface
  BY <1>1, <1>4 DEF get_gps_interface, loc_eng_get_ulp_inf, EngineInv, UlpCapable, HalInv, LoadingInv
<1>5. CASE loc_init
  <2>1. (UlpCapable' <=> UlpCapable) /\ loc_eng_ulp_inf' = loc_eng_ulp_inf /\ up' = up /\ fw = "idle"
    BY <1>1, <1>5, CapableStays DEF loc_init, Call
  <2>2. CASE AlreadyInitialized
    BY <1>1, <2>1, <2>2, UlpInitType DEF AlreadyInitialized, EngineInv
  <2>3. CASE AdapterCreated
    BY <1>1, <2>1, <2>3 DEF AdapterCreated, EngineInv, Cleared
  <2>4. CASE AdapterMissing
    <3>1. CASE fw' = "idle" /\ loc_eng_data' = loc_eng_ulp_init([Cleared EXCEPT !.callbacks = {"nmea"}])
      BY <1>1, <2>1, <2>4, <3>1, UlpInitType, ClearedType DEF AdapterMissing, EngineInv, Cleared
    <3>2. CASE fw' = "hung" /\ loc_eng_data' = [Cleared EXCEPT !.context = TRUE, !.callbacks = {"nmea"}]
      BY <1>1, <2>1, <2>4, <3>2 DEF AdapterMissing, EngineInv, Cleared
    <3> QED BY <2>4, <3>1, <3>2 DEF AdapterMissing, drop
  <2>5. CASE UNCHANGED <<engine, queues, fw, tries, history>>
    BY <1>1, <2>1, <2>5 DEF EngineInv
  <2> QED BY <1>5, <2>2, <2>3, <2>4, <2>5 DEF loc_init, loc_eng_init
<1>6. CASE \/ loc_cleanup \/ loc_xtra_inject_data
           \/ loc_ulp_send_network_position \/ loc_ulp_phone_context_settings_update
  BY <1>2, <1>6 DEF loc_cleanup, loc_xtra_inject_data,
                    loc_ulp_send_network_position, loc_ulp_phone_context_settings_update
<1>7. CASE \/ \E id \in SettingIds \ ConfIds, val \in Values : Passes(id, val)
           \/ \E id \in SessionIds : Routes(id)
           \/ \E id \in UlpIds : ToUlp(id)
  BY <1>2, <1>7 DEF Passes, Routes, ToUlp
<1>8. ASSUME NEW callback \in Callbacks, Registers(callback)
      PROVE  EngineInv'
  BY <1>1, <1>8 DEF Registers, EngineInv, EngineData, UlpCapable
<1>9. CASE loc_agps_init
  BY <1>1, <1>9 DEF loc_agps_init, EngineInv, EngineData, UlpCapable
<1>10. CASE loc_agps_set_server
  <2>1. PICK type \in ServerTypes, host \in Hosts : loc_eng_set_server_proxy(type, host)
    BY <1>10 DEF loc_agps_set_server
  <2>2. CASE loc_eng_data.context
    BY <1>2, <1>10, <2>1, <2>2 DEF loc_agps_set_server, loc_eng_set_server_proxy
  <2>3. CASE ~loc_eng_data.context
    BY <1>1, <1>10, <2>1, <2>3
       DEF loc_agps_set_server, loc_eng_set_server_proxy, EngineInv, EngineData, UlpCapable
  <2> QED BY <2>2, <2>3
<1>11. CASE OpenClient
  BY <1>1, <1>11, UlpInitType DEF OpenClient, EngineInv, UlpCapable
<1>12. CASE OpenFails
  BY <1>1, <1>12, UlpInitType DEF OpenFails, EngineInv, UlpCapable
<1>13. CASE \/ \E id \in SettingIds : HandleSetting(id)
            \/ \E id \in QuietIds \cup {"ENGINE_DOWN"} : Consumes(id)
            \/ CallCallback
  BY <1>2, <1>13 DEF HandleSetting, Consumes, CallCallback
<1>14. CASE HandleEngineUp
  BY <1>1, <1>14 DEF HandleEngineUp, EngineInv, UlpCapable
<1>15. CASE \/ \E id \in ReportIds \cup UlpRequestIds : ReportsAround(id)
            \/ \E id \in ReportIds : ReportsThrough(id)
            \/ UlpForwards
  BY <1>2, <1>15 DEF ReportsAround, ReportsThrough, Report, UlpForwards
<1>16. CASE ModemCrashes \/ ModemComesBack
  BY <1>1, <1>16 DEF ModemCrashes, ModemComesBack, EngineInv, UlpCapable
<1>17. CASE UNCHANGED vars
  BY <1>2, <1>17 DEF vars
<1> HIDE DEF data, engine, queues, frame, modem, history
<1> QED
  BY <1>3, <1>4, <1>5, <1>6, <1>7, <1>8, <1>9, <1>10, <1>11, <1>12, <1>13, <1>14, <1>15,
     <1>16, <1>17, Kinds

-----------------------------------------------------------------------------
(* The theorems *)

LEMMA InitHolds == Init => HalInv
<1> SUFFICES ASSUME Init PROVE HalInv
  OBVIOUS
<1>1. /\ device.file \in Files /\ Len(device.file.lines) \in Nat
  BY DeviceFile DEF Init
<1>2. TypeOK
  <2>1. /\ gps_conf \in Conf /\ loc_eng_data \in EngineData
        /\ lines_read \in 0..Len(device.file.lines) /\ lines_read = 0
    BY <1>1, DefaultsAreConf, ClearedType DEF Init
  <2>2. deferred_q \in Seq(Messages) /\ ulp_q \in Seq(UlpMessages)
    BY DEF Init
  <2>3. RestTypes
    BY <2>1, <2>2 DEF Init, RestTypes
  <2>4. [s \in SettingIds |-> {}] \in [SettingIds -> SUBSET Values]
    OBVIOUS
  <2> QED BY <2>2, <2>3, <2>4 DEF Init, TypeOK
<1>3. LoadingInv /\ EngineInv /\ ConfigIsTheFiles
  BY NothingRead DEF Init, LoadingInv, EngineInv, ConfigIsTheFiles, Cleared
<1>4. ConfIds \subseteq SettingIds
  BY DEF SettingIds
<1>5. ConfigInv
  BY <1>4 DEF Init, ConfigInv, Carries
<1>6. SettingsInv
  BY DEF Init, SettingsInv
<1> QED BY <1>2, <1>3, <1>5, <1>6 DEF HalInv

LEMMA StepHolds == HalInv /\ [Next]_vars => HalInv'
<1> SUFFICES ASSUME HalInv, [Next]_vars PROVE HalInv'
  OBVIOUS
<1>1. QueueInv' /\ RestTypes'
  BY QueueStep, TypeStep
<1>2. TypeOK' /\ ConfigInv' /\ SettingsInv'
  BY <1>1 DEF QueueInv, TypeOK
<1> QED BY <1>2, LoadingStep, FilesStep, EngineStep DEF HalInv

LEMMA HalInvariant == Spec => []HalInv
BY InitHolds, StepHolds, PTL DEF Spec

(* The configuration is restored for every configuration file, after any   *)
(* number of failed attempts of loc_eng_init, modem crashes and restarts:  *)
(* whenever the connection is open and the queue empty.                    *)
THEOREM ConfigAlwaysRestored == Spec => []ConfigRestored
<1>1. HalInv => ConfigRestored
  BY DEF HalInv, ConfigInv, ConfigRestored, AtRest, Queued
<1> QED BY <1>1, HalInvariant, PTL

(* A setting the framework made on an open connection (position mode, time,*)
(* engine lock, server, ...) is in force once the queue is empty, unless   *)
(* the modem crashed since, whatever else was queued before and after it.  *)
THEOREM SettingsAlwaysInForce == Spec => []SettingsInForce
<1>1. HalInv => SettingsInForce
  BY DEF HalInv, SettingsInv, SettingsInForce, AtRest, LastIs, Handled
<1> QED BY <1>1, HalInvariant, PTL

(* loc_read_conf leaves what the last line naming a parameter says, for    *)
(* files of any length and content, and loc_init takes the assistance bits *)
(* away from a standalone device without touching another bit.             *)
THEOREM ConfigAlwaysTheFiles == Spec => []ConfigIsTheFiles
BY HalInvariant, PTL DEF HalInv

(* loc_eng_start asks the ULP library for a session exactly if the adapter *)
(* sends it the positions, on every device and after every failed init.    *)
THEOREM AlwaysOneRoute == Spec => []OneRoute
<1>1. HalInv => OneRoute
  BY DEF HalInv, TypeOK, RestTypes, EngineInv, OneRoute, UlpActive
<1> QED BY <1>1, HalInvariant, PTL

=============================================================================
