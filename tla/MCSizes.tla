------------------------------ MODULE MCSizes -------------------------------
(* Instances of Sizes for TLC.                                              *)
EXTENDS Sizes

Lines(T, devices, R, M, l, s) ==
    [T: T, devices: devices, R: R, M: M, l: l, s: s]
Lists(S, lengths) == UNION {[1 .. k -> S] : k \in lengths}

(* Every pair of payload sizes up to 8 bytes with every step up to 10.      *)
Sweeps ==
    Lines({"off"}, {<<>>}, {"off"}, {"echo"}, {<<>>},
          {<<>>, <<3>>} \cup {<<a, b>> : a, b \in -1 .. 8}
                        \cup {<<a, b, c>> : a, b \in -1 .. 8, c \in -10 .. 10})

(* Option lengths below, at and above their limits and not multiples of 4,  *)
(* and payloads below, at and above what fits a packet of 100 bytes.        *)
LengthArgs == {<<>>} \cup {<<n>> : n \in {-1, 8, 11, 12, 20, 21, 40, 99}}
PayloadArgs == {<<>>, <<-1>>, <<99>>, <<0, 99, 40>>, <<99, 30, 17>>}
OptionLines ==
    LET anyM == {"echo", "mask", "time"}  anyR == {"off", "on"}
    IN  Lines({"off", "tsonly", "tsandaddr", "unknown"}, {<<>>}, anyR, anyM,
              LengthArgs, PayloadArgs)
        \cup Lines({"tsprespec"}, Lists({"good", "zero", "bad"}, 0 .. 2)
                        \cup Lists({"good"}, 3 .. 4) \cup Lists({"good", "zero"}, {4}),
                    anyR, anyM, LengthArgs, PayloadArgs)

SweepsAndOptions == Sweeps \cup OptionLines

(* The shortest options and payloads at their limits.                       *)
BumpedLines ==
    Lines({"tsandaddr"}, {<<>>}, {"off"}, {"echo"}, LengthArgs, {<<0>>, <<99>>})
=============================================================================
