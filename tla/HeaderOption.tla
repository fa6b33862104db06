---------------------------- MODULE HeaderOption ----------------------------
(***************************************************************************)
(* The time stamp or record route option of an IPv4 header, from the       *)
(* request that ping3 builds, past the hops that fill it in, to the lines  *)
(* that ping3 prints of the reply.  Positions count as in RFC 791: the     *)
(* pointer of the option is the number, from 1 on, of its first free byte. *)
(***************************************************************************)
EXTENDS Integers, Sequences, Functions

CONSTANTS
    OptionSizes,    \* values of ip4_HdrOptionSize
    OverflowMax,    \* largest overflow count, 15 in four bits
    MaxHops,        \* bound: hops in one behaviour
    Times           \* times of day that a hop may give

Kinds == {"tsonly", "tsandaddr", "tsprespec", "rr"}

(* Multiples of 4, as processCommandLineOptions() leaves them.              *)
ASSUME OptionSizeAssumption ==
    \A n \in OptionSizes : n \in 8 .. 40 /\ n % 4 = 0
ASSUME HopAssumption == OverflowMax \in Nat /\ MaxHops \in Nat /\ Times \subseteq Nat

VARIABLES
    stage,          \* "idle", "travel", "show" or "shown"
    kind,           \* -T tsonly, tsandaddr or tsprespec, or -R
    ipt_len, ipt_ptr, ipt_oflw,
    stamps,         \* history: what the hops recorded in the option
    hops,           \* history: how many hops there were
    byteCnt,        \* of the loop that prints
    shown,          \* the entries printed so far
    tsOrig,         \* the time of day in the slot of timeSentArray
    delta,          \* deltaTimeStamp
    differences     \* the differences printed beside the entries

option == <<kind, ipt_len, ipt_ptr, ipt_oflw>>
printing == <<byteCnt, shown, delta, differences>>
optionVars == <<stage, option, stamps, hops, tsOrig, printing>>

OptionInit ==
    /\ stage = "idle" /\ kind = "rr"
    /\ ipt_len = 0 /\ ipt_ptr = 0 /\ ipt_oflw = 0
    /\ stamps = <<>> /\ hops = 0
    /\ tsOrig = 0
    /\ byteCnt = 0 /\ shown = <<>> /\ delta = 0 /\ differences = <<>>

(* Bytes before the first entry, and in an entry.                           *)
Header(k) == IF k = "rr" THEN 3 ELSE 4
EntrySize(k) == IF k \in {"tsonly", "rr"} THEN 4 ELSE 8

-----------------------------------------------------------------------------
(* The request                                                              *)

(* The option is trimmed to whole entries; that of -R leaves room for the   *)
(* end of the option list in the four bytes of its header.                  *)
OptionBytes(k, n) ==
    CASE k = "tsonly" -> n
      [] k \in {"tsandaddr", "tsprespec"} ->
            IF n < 12 THEN 12 ELSE 4 + 8 * ((n - 4) \div 8)
      [] k = "rr" -> 4 + 4 * ((n - 1) \div 4)

LengthByte(k, bytes) == IF k = "rr" THEN 3 + 4 * ((bytes - 3) \div 4) ELSE bytes

PointerAtHeader(k) == Header(k)                                  \* mutant
FirstPointer(k) == IF k = "rr" THEN 4 ELSE 5

BuildOption ==
    /\ stage = "idle"
    /\ kind' \in Kinds
    /\ \E n \in OptionSizes : ipt_len' = LengthByte(kind', OptionBytes(kind', n))
    /\ ipt_ptr' = FirstPointer(kind')
    /\ ipt_oflw' = 0
    /\ stage' = "built"
    /\ UNCHANGED <<stamps, hops, tsOrig, printing>>

(* The kernel puts a copy of the option into the header of every request.   *)
SendOption ==
    /\ stage = "built"
    /\ tsOrig' \in Times
    /\ ipt_ptr' = FirstPointer(kind) /\ ipt_oflw' = 0
    /\ stamps' = <<>> /\ hops' = 0
    /\ byteCnt' = 0 /\ shown' = <<>> /\ delta' = 0 /\ differences' = <<>>
    /\ stage' = "travel"
    /\ UNCHANGED <<kind, ipt_len>>

-----------------------------------------------------------------------------
(* The network, after RFC 791                                               *)

(* A hop records itself where the pointer points, while there is room; then *)
(* the time stamp option counts the others.  A pre-specified hop that is    *)
(* not the next one in the list leaves the option alone.                    *)
Hop ==
    /\ stage = "travel" /\ hops < MaxHops
    /\ hops' = hops + 1
    /\ \/ /\ ipt_ptr + EntrySize(kind) - 1 <= ipt_len
          /\ \E t \in Times : stamps' = Append(stamps, t)
          /\ ipt_ptr' = ipt_ptr + EntrySize(kind)
          /\ UNCHANGED ipt_oflw
       \/ /\ ipt_ptr > ipt_len /\ kind # "rr" /\ ipt_oflw < OverflowMax
          /\ ipt_oflw' = ipt_oflw + 1
          /\ UNCHANGED <<stamps, ipt_ptr>>
       \/ /\ kind = "tsprespec" \/ (kind = "rr" /\ ipt_ptr > ipt_len)
          /\ UNCHANGED <<stamps, ipt_ptr, ipt_oflw>>
    /\ UNCHANGED <<stage, kind, ipt_len, tsOrig, printing>>

-----------------------------------------------------------------------------
(* The reply: displayIpOptionTimeStamps(), displayIpOptionRecordRoute()     *)

ByteCount(k, ptr) == ptr - (IF k = "rr" THEN 4 ELSE 5)

(* Bytes of options in the header: a multiple of 4.                         *)
AreaLength(n) == 4 * ((n + 3) \div 4)

(* ping3.c calls displayIpOptionTimeStamps() with the four arguments that   *)
(* ipOptionsFun.h declares: option, length of the options, starting time,   *)
(* verbosity.  ipOptionsFun.c, which does not include its own header,       *)
(* defines it with three.  Arguments are passed in registers, in order: the *)
(* starting time that it sees is the length.                                *)
StartingTimeStamp(length, time) == length

ShowOption ==
    /\ stage = "travel"
    /\ byteCnt' = ByteCount(kind, ipt_ptr)
    /\ delta' = StartingTimeStamp(AreaLength(ipt_len), tsOrig)
    /\ stage' = "show"
    /\ UNCHANGED <<option, stamps, hops, tsOrig, shown, differences>>

(* An entry that no hop has recorded still has the zeros it was built with. *)
Entry(i) == IF i <= Len(stamps) THEN stamps[i] ELSE 0

DifferenceKept(t, previous) == t - previous                      \* mutant
Previous(t, previous) == t

StepOfTimes(k) == 4                                              \* mutant
Step(k) == EntrySize(k)

(* deltaTimeStamp is the difference while it is printed, and then the time  *)
(* of this entry for the next one.                                          *)
ShowEntry ==
    /\ stage = "show" /\ byteCnt > 0
    /\ LET t == Entry(Len(shown) + 1)
       IN  /\ shown' = Append(shown, t)
           /\ differences' = IF kind = "rr" THEN <<>> ELSE Append(differences, t - delta)
           /\ delta' = Previous(t, delta)
    /\ byteCnt' = byteCnt - Step(kind)
    /\ UNCHANGED <<stage, option, stamps, hops, tsOrig>>

ShowEnd ==
    /\ stage = "show" /\ byteCnt <= 0
    /\ stage' = "shown"
    /\ UNCHANGED <<option, stamps, hops, tsOrig, printing>>

(* The next reply brings another copy of the same option.                   *)
NextReply ==
    /\ stage = "shown"
    /\ stage' = "built"
    /\ UNCHANGED <<option, stamps, hops, tsOrig, printing>>

OptionNext ==
    BuildOption \/ SendOption \/ Hop \/ ShowOption \/ ShowEntry \/ ShowEnd \/ NextReply

OptionSpec == OptionInit /\ [][OptionNext]_optionVars

-----------------------------------------------------------------------------
OptionTypeOK ==
    /\ stage \in {"idle", "built", "travel", "show", "shown"} /\ kind \in Kinds
    /\ ipt_len \in 0 .. 40 /\ ipt_ptr \in 0 .. 41 /\ ipt_oflw \in 0 .. OverflowMax
    /\ stamps \in Seq(Times) /\ hops \in 0 .. MaxHops /\ tsOrig \in Times \cup {0}
    /\ byteCnt \in 0 .. 36 /\ shown \in Seq(Times \cup {0})
    /\ delta \in Nat /\ differences \in Seq(Int)

(***************************************************************************)
(* What is printed is what the hops recorded, all of it, in their order    *)
(* and within the option; the option has room for whole entries only       *)
(* (ping3.c:783, 818; ipOptionsFun.c:49-90, 112-126).                      *)
(***************************************************************************)
ShownIsRecorded ==
    /\ stage = "shown" => shown = stamps
    /\ Header(kind) + Len(shown) * EntrySize(kind) <= ipt_len \/ shown = <<>>

(***************************************************************************)
(* Every hop of -T tsonly and tsandaddr is told, as an entry or in the     *)
(* overflow count, as long as the count did not reach its end              *)
(* (ipOptionsFun.c:27-46).                                                 *)
(***************************************************************************)
EveryHopTold ==
    stage = "shown" /\ kind \in {"tsonly", "tsandaddr"} => hops = Len(shown) + ipt_oflw

(***************************************************************************)
(* The difference printed beside an entry is the time since the entry      *)
(* before it, from the second one on (ipOptionsFun.c:62-66, 82-87).        *)
(***************************************************************************)
DifferencesAreSteps ==
    \A i \in 2 .. Len(differences) : differences[i] = shown[i] - shown[i - 1]

(***************************************************************************)
(* The first difference is the time since the request, as the declaration  *)
(* ipOptionsFun.h:14 with its starting time would have it.  It is not: the *)
(* definition takes the length of the options for that time.               *)
(***************************************************************************)
FirstDifferenceFromRequest ==
    differences # <<>> /\ kind # "rr" => differences[1] = shown[1] - tsOrig

(* printTimeDifferenceFromHeaderOption() reads these entries.               *)
FirstRead(ptr) == ptr >= 13
SecondReadEarly(ptr) == ptr > 12                                 \* mutant
SecondRead(ptr) == ptr > 20

(***************************************************************************)
(* The estimate of the clock difference reads only entries that a hop has  *)
(* recorded (ping3.c:526, 549).                                            *)
(***************************************************************************)
EstimateReadsStamps ==
    kind \in {"tsandaddr", "tsprespec"} =>
        /\ FirstRead(ipt_ptr) => Len(stamps) >= 1
        /\ SecondRead(ipt_ptr) => Len(stamps) >= 2

(* What is printed of a reply's option, and computed from it, is what the   *)
(* hops recorded: the four of them together.                                *)
ReplyIsTold ==
    ShownIsRecorded /\ EveryHopTold /\ DifferencesAreSteps /\ EstimateReadsStamps
=============================================================================
