-------------------------------- MODULE LocCfg --------------------------------
(***************************************************************************)
(* The parser of gps.conf (utils/loc_cfg.cpp) and the parameters loc_eng   *)
(* reads with it.  The loop over the lines is in LocHal, a round a step.   *)
(*                                                                         *)
(* A file is the sequence of lines fgets returns: a line of 80 characters  *)
(* or more counts as several.  A line is what strtok_r and trim_space make *)
(* of it: a name and an operand, "none" when there are no two operands.    *)
(* An operand is decimal, hexadecimal or text without a number.  Of the    *)
(* table's parameters those with the same treatment are represented by     *)
(* one: SENSOR_CONTROL_MODE stands for the ten of the sampling, the two    *)
(* random walks for the five of type 'f'.                                  *)
(***************************************************************************)
EXTENDS Integers, Sequences, FiniteSetsExt

Numbers == {"INTERMEDIATE_POS", "SUPL_VER", "CAPABILITIES",
            "SENSOR_CONTROL_MODE", "SENSOR_USAGE", "LPP_PROFILE"}
Floats == {"GYRO_BIAS_RANDOM_WALK", "ACCEL_RANDOM_WALK_SPECTRAL_DENSITY"}

(* loc_parameter_table: the type of a parameter; only those of type 'f'    *)
(* record whether the file sets them.                                      *)
loc_parameter_table == [p \in Numbers \cup Floats |-> IF p \in Floats THEN "f" ELSE "n"]
Params == DOMAIN loc_parameter_table

loc_default_parameters ==
    [value |-> [p \in Params |-> CASE p = "SUPL_VER" -> 65536
                                   [] p = "CAPABILITIES" -> 7
                                   [] OTHER -> 0],
     valid |-> [p \in Floats |-> FALSE]]

(* The numbers parsed from an operand: a hexadecimal one has no value as a *)
(* float, and what is no number counts as zero.                            *)
param_int_value(operand) == IF operand.kind = "text" THEN 0 ELSE operand.num
param_double_value(operand) == IF operand.kind = "dec" THEN operand.num ELSE 0

(* A line sets a parameter if it names it and has two operands. *)
Sets(line, p) == line.name = p /\ line.operand.kind # "none"

Number(p, operand) ==
    IF loc_parameter_table[p] = "f" THEN param_double_value(operand) ELSE param_int_value(operand)

SetsFirstOnly(conf, p, line) ==
    IF Sets(line, p) /\ ~(p \in Floats /\ conf.valid[p])
    THEN Number(p, line.operand)
    ELSE conf.value[p]

(* One entry of the table against one line: the entry's new value *)
loc_set_config_entry(conf, p, line) ==
    IF Sets(line, p) THEN Number(p, line.operand) ELSE conf.value[p]

(* One round of the loop over the lines: every entry of the table is tried *)
(* and writes no other than its own parameter.                             *)
loc_read_conf(conf, line) ==
    [value |-> [p \in Params |-> loc_set_config_entry(conf, p, line)],
     valid |-> [f \in Floats |-> conf.valid[f] \/ Sets(line, f)]]

(* The reference: after the first n lines of a file a parameter has the    *)
(* value of the last of them that sets it, or its default.                 *)
SetBy(file, n, p) == {i \in 1..n : Sets(file.lines[i], p)}

Written(file, n) ==
    LET Value(p, operand) ==
            IF operand.kind = "dec" \/ (operand.kind = "hex" /\ p \notin Floats)
            THEN operand.num ELSE 0
    IN  [value |-> [p \in Params |->
                        IF SetBy(file, n, p) = {} THEN loc_default_parameters.value[p]
                        ELSE Value(p, file.lines[Max(SetBy(file, n, p))].operand)],
         valid |-> [f \in Floats |-> SetBy(file, n, f) # {}]]

(* A bit of CAPABILITIES, given by its weight *)
HasBit(mask, weight) == (mask \div weight) % 2 = 1
MSB == 2
MSA == 4
GEOFENCING == 32
ULP_CAPABILITY == {1, 8, 16, 128}
=============================================================================
