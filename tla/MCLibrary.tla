----------------------------- MODULE MCLibrary ------------------------------
(***************************************************************************)
(* The parts of ping3 that share no variables, side by side: a behaviour   *)
(* is one of one of them, while the others stay as they begin.             *)
(***************************************************************************)
EXTENDS Options, Payload, Checksum, HeaderOption, OptionWalk, ClockDifference,
        Stats, RingBuffer, Arguments

VARIABLE part

OptionNumbers == {-500, -1, 0, 9, 250, 499, 600}
OptionIntervals == {-7, 0, 3, 900}
RoundTrips == {-2, 0, 1, 8}
ClockOffsets == {-19, -5, 0, 3, 10}
DeviceWords == {[kind |-> "empty", value |-> 0], [kind |-> "address", value |-> 10]}
SizeWords == {[kind |-> "empty", value |-> 0], [kind |-> "junk", value |-> 0],
              [kind |-> "number", value |-> 3], [kind |-> "number", value |-> 7]}

MCInit ==
    /\ part \in {"options", "payload", "checksum", "header", "walk", "clock",
                 "stats", "ring", "arguments"}
    /\ OptionsInit /\ PayloadInit /\ ChecksumInit /\ OptionInit /\ WalkInit
    /\ ClockInit /\ StatsInit /\ RingInit /\ ArgumentInit

MCNext ==
    \/ /\ part = "options" /\ OptionsNext
       /\ UNCHANGED <<part, payloadVars, checksumVars, optionVars, walkVars,
                      clockVars, statsVars, ringVars, argumentVars>>
    \/ /\ part = "payload" /\ PayloadNext
       /\ UNCHANGED <<part, optionsVars, checksumVars, optionVars, walkVars,
                      clockVars, statsVars, ringVars, argumentVars>>
    \/ /\ part = "checksum" /\ ChecksumNext
       /\ UNCHANGED <<part, optionsVars, payloadVars, optionVars, walkVars,
                      clockVars, statsVars, ringVars, argumentVars>>
    \/ /\ part = "header" /\ OptionNext
       /\ UNCHANGED <<part, optionsVars, payloadVars, checksumVars, walkVars,
                      clockVars, statsVars, ringVars, argumentVars>>
    \/ /\ part = "walk" /\ WalkNext
       /\ UNCHANGED <<part, optionsVars, payloadVars, checksumVars, optionVars,
                      clockVars, statsVars, ringVars, argumentVars>>
    \/ /\ part = "clock" /\ ClockNext
       /\ UNCHANGED <<part, optionsVars, payloadVars, checksumVars, optionVars,
                      walkVars, statsVars, ringVars, argumentVars>>
    \/ /\ part = "stats" /\ StatsNext
       /\ UNCHANGED <<part, optionsVars, payloadVars, checksumVars, optionVars,
                      walkVars, clockVars, ringVars, argumentVars>>
    \/ /\ part = "ring" /\ RingNext
       /\ UNCHANGED <<part, optionsVars, payloadVars, checksumVars, optionVars,
                      walkVars, clockVars, statsVars, argumentVars>>
    \/ /\ part = "arguments" /\ ArgumentNext
       /\ UNCHANGED <<part, optionsVars, payloadVars, checksumVars, optionVars,
                      walkVars, clockVars, statsVars, ringVars>>

MCSpec ==
    /\ MCInit
    /\ [][MCNext]_<<part, optionsVars, payloadVars, checksumVars, optionVars, walkVars,
                    clockVars, statsVars, ringVars, argumentVars>>
    /\ WalkFairness

(* The type invariants of the parts.                                        *)
LibraryTypeOK ==
    /\ OptionsTypeOK /\ PayloadTypeOK /\ ChecksumTypeOK /\ OptionTypeOK /\ WalkTypeOK
    /\ ClockTypeOK /\ StatsTypeOK /\ RingTypeOK /\ ArgumentTypeOK
=============================================================================
