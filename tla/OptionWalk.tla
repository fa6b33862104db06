----------------------------- MODULE OptionWalk -----------------------------
(***************************************************************************)
(* The walk over the options of a received IPv4 header that -v 9 prints:   *)
(* displayIpOptionList() and displayIpOptions(), which advance alike.      *)
(* Positions count from 0, as the code's variable count does.              *)
(***************************************************************************)
EXTENDS Integers, Sequences, FiniteSets

CONSTANTS
    AreaMax,        \* bytes of options, at most the 40 that a header has room for
    OptionLengths,  \* lengths of the options that have a length byte
    DataBytes       \* what the other bytes of an option may be

Octet == 0 .. 255

ASSUME AreaAssumption == AreaMax \in 0 .. 40 /\ AreaMax % 4 = 0
ASSUME LengthsAssumption == OptionLengths \subseteq 2 .. AreaMax
ASSUME DataAssumption == DataBytes \subseteq Octet

VARIABLES
    walking,        \* "compose", "walk" or "walked"
    area,           \* the bytes of the options
    starts,         \* history: where the options in the area begin
    known,          \* history: every option in the area is one that ping3 knows
    count,          \* the position of the walk
    visited         \* history: where the walk has been

walkVars == <<walking, area, starts, known, count, visited>>

WalkInit ==
    /\ walking = "compose"
    /\ area = <<>> /\ starts = {} /\ known = TRUE
    /\ count = 0 /\ visited = {}

-----------------------------------------------------------------------------
(* The options of a reply, after RFC 791: well-formed, because the kernel   *)
(* drops a datagram whose options are not                                   *)

EndOfList == 0
NoOperation == 1
Security == 130
StreamId == 136
WithLengthByte == {131, 68, 7, 137}     \* LSRR, time stamp, record route, SSRR
RouterAlert == 148                      \* RFC 2113: not one that ping3 knows

Filled(type, length, b) ==
    [i \in 1 .. length |-> IF i = 1 THEN type ELSE IF i = 2 THEN length ELSE b]

AddOption(bytes) ==
    /\ Len(area) + Len(bytes) <= AreaMax
    /\ area' = area \o bytes
    /\ starts' = starts \cup {Len(area)}

PutOption ==
    /\ walking = "compose"
    /\ EndOfList \notin {area[p + 1] : p \in starts}
    /\ \E b \in DataBytes :
          \/ AddOption(<<NoOperation>>) /\ UNCHANGED known
          \/ AddOption(Filled(Security, 11, b)) /\ UNCHANGED known
          \/ AddOption(Filled(StreamId, 4, b)) /\ UNCHANGED known
          \/ /\ \E type \in WithLengthByte, n \in OptionLengths :
                   AddOption(Filled(type, n, b))
             /\ UNCHANGED known
          \/ AddOption(Filled(RouterAlert, 4, b)) /\ known' = FALSE
    /\ UNCHANGED <<walking, count, visited>>

(* The end of the list and zeros after it, up to a multiple of four bytes.  *)
Pad ==
    /\ walking = "compose" /\ Len(area) % 4 # 0
    /\ area' = Append(area, EndOfList)
    /\ starts' = starts \cup {Len(area)}
    /\ UNCHANGED <<walking, known, count, visited>>

-----------------------------------------------------------------------------
(* After the options comes the ICMP message, whose first byte is its type,  *)
(* 0 in an echo reply.                                                      *)
ByteAt(p) == IF p < Len(area) THEN area[p + 1] ELSE 0

(* The low five bits are the number of the option.                          *)
Number(type) == type % 32

LengthFromPointer(p) == ByteAt(p + 2)                            \* mutant
LengthAt(p) == ByteAt(p + 1)

StreamOfOne == 1                                                 \* mutant
StreamLength == 4

(* Numbers that the switch does not name count as one byte.                 *)
OptionLength(p) ==
    LET n == Number(ByteAt(p))
    IN  IF n = 2 THEN 11
        ELSE IF n \in {3, 4, 7, 9} THEN LengthAt(p)
        ELSE IF n = 8 THEN StreamLength ELSE 1

InsideOrAtEnd(c) == c <= Len(area)                               \* mutant
Inside(c) == c < Len(area)

StartWalk ==
    /\ walking = "compose" /\ area # <<>> /\ Len(area) % 4 = 0
    /\ walking' = "walk"
    /\ count' = 0 /\ visited' = {}
    /\ UNCHANGED <<area, starts, known>>

WalkOption ==
    /\ walking = "walk" /\ Inside(count)
    /\ visited' = visited \cup {count}
    /\ count' = count + OptionLength(count)
    /\ UNCHANGED <<walking, area, starts, known>>

WalkReturns ==
    /\ walking = "walk" /\ ~Inside(count)
    /\ walking' = "walked"
    /\ UNCHANGED <<area, starts, known, count, visited>>

NextHeader ==
    /\ walking = "walked"
    /\ walking' = "compose"
    /\ area' = <<>> /\ starts' = {} /\ known' = TRUE
    /\ count' = 0 /\ visited' = {}

WalkNext ==
    PutOption \/ Pad \/ StartWalk \/ WalkOption \/ WalkReturns \/ NextHeader

(* The loop runs in the main process and nothing in it blocks.              *)
WalkFairness == WF_walkVars(WalkOption) /\ WF_walkVars(WalkReturns)

WalkSpec == WalkInit /\ [][WalkNext]_walkVars /\ WalkFairness

-----------------------------------------------------------------------------
WalkTypeOK ==
    /\ walking \in {"compose", "walk", "walked"}
    /\ area \in Seq(Octet) /\ Len(area) <= AreaMax
    /\ starts \subseteq 0 .. AreaMax - 1 /\ visited \subseteq 0 .. AreaMax - 1
    /\ known \in BOOLEAN /\ count \in Nat

(***************************************************************************)
(* In an area of options that ping3 knows the walk visits the first byte   *)
(* of each of them and no other byte, and ends where the area ends: data   *)
(* is never taken for an option (ipOptionsFun.c:175-190, 199-243).         *)
(***************************************************************************)
VisitsOptions ==
    known => /\ visited \subseteq starts
             /\ walking = "walked" => visited = starts /\ count = Len(area)

(***************************************************************************)
(* The walk over options that ping3 knows returns (ipOptionsFun.c:175,     *)
(* 199).  The fairness of its steps is that of a process that runs.        *)
(***************************************************************************)
WalkEnds == (walking = "walk" /\ known) ~> (walking = "walked")
=============================================================================
