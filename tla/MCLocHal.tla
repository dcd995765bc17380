------------------------------- MODULE MCLocHal -------------------------------
(* The devices of the runs: configuration files that set a parameter twice, *)
(* in hexadecimal, as text, without operand or not at all.                  *)
EXTENDS LocHal

Line(name, kind, num) == [name |-> name, operand |-> [kind |-> kind, num |-> num]]
File(lines) == [found |-> TRUE, lines |-> lines]

NoFile == [found |-> FALSE, lines |-> <<>>]
Plain == File(<<Line("SUPL_VER", "hex", 131072), Line("CAPABILITIES", "hex", 55),
                Line("SENSOR_USAGE", "dec", 1), Line("GYRO_BIAS_RANDOM_WALK", "dec", 4)>>)
Odd == File(<<Line("GYRO_BIAS_RANDOM_WALK", "dec", 4), Line("LPP_PROFILE", "dec", 1),
              Line("#CAPABILITIES", "dec", 1), Line("LPP_PROFILE", "text", 0),
              Line("GYRO_BIAS_RANDOM_WALK", "hex", 3), Line("SENSOR_USAGE", "none", 0),
              Line("CAPABILITIES", "dec", 38)>>)

MCDevices == {[file |-> Plain, standalone |-> FALSE, csfb |-> TRUE, libulp |-> TRUE],
              [file |-> Odd, standalone |-> TRUE, csfb |-> FALSE, libulp |-> TRUE],
              [file |-> NoFile, standalone |-> FALSE, csfb |-> FALSE, libulp |-> FALSE]}
=============================================================================
