--------------------------- MODULE LibraryProofs ----------------------------
(***************************************************************************)
(* The parts of ping3 that share no variables: what is printed of a header *)
(* option, the circular buffer, the walk over the options of a reply, and  *)
(* the types of all of them side by side.                                  *)
(***************************************************************************)
EXTENDS MCLibrary, NumberProofs, CommandProofs

(* What ping3 prints of a header option                                     *)

Stages == {"idle", "built", "travel", "show", "shown"}

(* The bytes of n entries.                                                  *)
EntryBytes(k, n) == IF k \in {"tsonly", "rr"} THEN 4 * n ELSE 8 * n

OptionShape ==
    /\ stage \in Stages /\ kind \in Kinds
    /\ ipt_len \in Int /\ ipt_ptr \in Int /\ ipt_oflw \in Int
    /\ hops \in Int /\ byteCnt \in Int /\ delta \in Int /\ tsOrig \in Int
    /\ stamps \in Seq(Int) /\ shown \in Seq(Int) /\ differences \in Seq(Int)

(* The pointer is behind the entries that were recorded, which fit.         *)
Recorded ==
    /\ stage = "idle" => /\ kind = "rr" /\ stamps = <<>> /\ shown = <<>>
                         /\ differences = <<>> /\ hops = 0
    /\ stage # "idle" => ipt_ptr = FirstPointer(kind) + EntryBytes(kind, Len(stamps))
    /\ stamps = <<>> \/ Header(kind) + EntryBytes(kind, Len(stamps)) <= ipt_len
    /\ stage # "idle" /\ kind \in {"tsonly", "tsandaddr"} =>
          hops = Len(stamps) + ipt_oflw

(* What was printed is a prefix of what was recorded, and byteCnt the rest. *)
Printed ==
    /\ stage \in {"idle", "built", "shown"} => shown = stamps
    /\ stage = "travel" => shown = <<>>
    /\ Len(shown) <= Len(stamps)
    /\ \A i \in 1 .. Len(shown) : shown[i] = stamps[i]
    /\ stage = "show" => byteCnt = EntryBytes(kind, Len(stamps) - Len(shown))

(* deltaTimeStamp is the entry printed last.                                *)
Differing ==
    /\ Len(differences) = IF kind = "rr" THEN 0 ELSE Len(shown)
    /\ stage = "show" /\ kind # "rr" /\ shown # <<>> => delta = shown[Len(shown)]
    /\ \A i \in 2 .. Len(differences) : differences[i] = shown[i] - shown[i - 1]

OptionInv == OptionShape /\ Recorded /\ Printed /\ Differing

LEMMA OptionInitially == OptionInit => OptionInv
<1> SUFFICES ASSUME OptionInit PROVE OptionInv
  OBVIOUS
<1>1. OptionShape
  BY DEF OptionInit, OptionShape, Stages, Kinds
<1>2. Recorded /\ Printed
  BY DEF OptionInit, Recorded, Printed
<1>3. Differing
  BY DEF OptionInit, Differing
<1> QED BY <1>1, <1>2, <1>3 DEF OptionInv

LEMMA BuildKeeps == OptionInv /\ BuildOption => OptionInv'
<1> SUFFICES ASSUME OptionInv, BuildOption PROVE OptionInv'
  OBVIOUS
<1>1. /\ stage = "idle" /\ stage' = "built" /\ kind' \in Kinds
      /\ ipt_ptr' = FirstPointer(kind') /\ ipt_oflw' = 0
      /\ UNCHANGED <<stamps, hops, tsOrig, byteCnt, shown, delta, differences>>
      /\ stamps = <<>> /\ shown = <<>> /\ differences = <<>> /\ hops = 0
  BY DEF BuildOption, OptionInv, Recorded, printing
<1>2. ipt_len' \in Int
  <2>1. PICK n \in OptionSizes : ipt_len' = LengthByte(kind', OptionBytes(kind', n))
    BY DEF BuildOption
  <2>2. n \in Int
    BY OptionSizeAssumption
  <2>3. OptionBytes(kind', n) \in Int
    BY <1>1, <2>2 DEF OptionBytes, Kinds
  <2> QED BY <2>1, <2>3 DEF LengthByte
<1>3. OptionShape'
  BY <1>1, <1>2 DEF OptionInv, OptionShape, Stages, Kinds, FirstPointer
<1>4. Recorded'
  BY <1>1 DEF Recorded, EntryBytes, FirstPointer
<1>5. Printed' /\ Differing'
  BY <1>1 DEF Printed, Differing
<1> QED BY <1>3, <1>4, <1>5 DEF OptionInv

LEMMA SendKeeps == OptionInv /\ SendOption => OptionInv'
<1> SUFFICES ASSUME OptionInv, SendOption PROVE OptionInv'
  OBVIOUS
<1>1. /\ stage = "built" /\ stage' = "travel" /\ UNCHANGED <<kind, ipt_len>>
      /\ ipt_ptr' = FirstPointer(kind) /\ ipt_oflw' = 0 /\ tsOrig' \in Int
      /\ stamps' = <<>> /\ hops' = 0
      /\ byteCnt' = 0 /\ shown' = <<>> /\ delta' = 0 /\ differences' = <<>>
  BY HopAssumption DEF SendOption
<1>2. OptionShape'
  BY <1>1 DEF OptionInv, OptionShape, Stages, FirstPointer
<1>3. Recorded'
  BY <1>1 DEF Recorded, EntryBytes, FirstPointer
<1>4. Printed' /\ Differing'
  BY <1>1 DEF Printed, Differing
<1> QED BY <1>2, <1>3, <1>4 DEF OptionInv

LEMMA HopKeeps == OptionInv /\ Hop => OptionInv'
<1> SUFFICES ASSUME OptionInv, Hop PROVE OptionInv'
  OBVIOUS
<1>1. /\ stage = "travel" /\ hops' = hops + 1
      /\ UNCHANGED <<stage, kind, ipt_len, tsOrig, byteCnt, shown, delta, differences>>
  BY DEF Hop, printing
<1>2. kind \in Kinds /\ hops \in Int /\ ipt_ptr \in Int /\ ipt_len \in Int
      /\ ipt_oflw \in Int /\ stamps \in Seq(Int) /\ shown = <<>>
  BY <1>1 DEF OptionInv, OptionShape, Printed
<1>3. CASE stamps' = stamps
  <2>1. UNCHANGED <<stamps, ipt_ptr>> /\ ipt_oflw' \in {ipt_oflw, ipt_oflw + 1}
        /\ (kind \in {"tsonly", "tsandaddr"} => ipt_oflw' = ipt_oflw + 1)
    BY <1>2, <1>3 DEF Hop
  <2>2. OptionShape'
    BY <1>1, <1>2, <2>1 DEF OptionInv, OptionShape
  <2>3. Recorded'
    BY <1>1, <1>2, <2>1 DEF OptionInv, Recorded
  <2>4. Printed' /\ Differing'
    BY <1>1, <2>1 DEF OptionInv, Printed, Differing
  <2> QED BY <2>2, <2>3, <2>4 DEF OptionInv
<1>4. CASE stamps' # stamps
  <2>1. PICK t \in Times : stamps' = Append(stamps, t)
    BY <1>4 DEF Hop
  <2>2. /\ ipt_ptr + EntrySize(kind) - 1 <= ipt_len
        /\ ipt_ptr' = ipt_ptr + EntrySize(kind) /\ ipt_oflw' = ipt_oflw
    BY <1>4 DEF Hop
  <2>3. t \in Int /\ stamps' \in Seq(Int) /\ Len(stamps') = Len(stamps) + 1
        /\ Len(stamps) \in Nat
    BY <1>2, <2>1, HopAssumption
  <2>4. OptionShape'
    BY <1>1, <1>2, <2>2, <2>3 DEF OptionInv, OptionShape, EntrySize
  <2>5. Recorded'
    <3>1. ipt_ptr = FirstPointer(kind) + EntryBytes(kind, Len(stamps))
      BY <1>1 DEF OptionInv, Recorded
    <3>2. EntryBytes(kind, Len(stamps')) = EntryBytes(kind, Len(stamps)) + EntrySize(kind)
          /\ EntryBytes(kind, Len(stamps)) \in Int
      BY <1>2, <2>3 DEF EntryBytes, EntrySize, Kinds
    <3>3. FirstPointer(kind) = Header(kind) + 1 /\ EntrySize(kind) \in Int
          /\ Header(kind) \in Int
      BY DEF FirstPointer, Header, EntrySize
    <3>4. /\ ipt_ptr' = FirstPointer(kind) + EntryBytes(kind, Len(stamps'))
          /\ Header(kind) + EntryBytes(kind, Len(stamps')) <= ipt_len
      <4> DEFINE b == EntryBytes(kind, Len(stamps))
                 e == EntrySize(kind)
                 h == Header(kind)
      <4>1. /\ ipt_ptr = h + 1 + b /\ ipt_ptr + e - 1 <= ipt_len /\ ipt_ptr' = ipt_ptr + e
            /\ b \in Int /\ e \in Int /\ h \in Int
        BY <2>2, <3>1, <3>2, <3>3
      <4> HIDE DEF b, e, h
      <4>2. ipt_ptr' = h + 1 + (b + e) /\ h + (b + e) <= ipt_len
        BY <1>2, <4>1
      <4> QED BY <3>2, <3>3, <4>2 DEF b, e, h
    <3>5. kind \in {"tsonly", "tsandaddr"} => hops' = Len(stamps') + ipt_oflw'
      BY <1>1, <1>2, <2>2, <2>3 DEF OptionInv, Recorded
    <3> QED BY <1>1, <3>4, <3>5 DEF Recorded
  <2>6. Printed'
    BY <1>1, <1>2, <2>3 DEF Printed
  <2>7. Differing'
    BY <1>1 DEF OptionInv, Differing
  <2> QED BY <2>4, <2>5, <2>6, <2>7 DEF OptionInv
<1> QED BY <1>3, <1>4

LEMMA ShowKeeps == OptionInv /\ (ShowOption \/ ShowEnd \/ NextReply) => OptionInv'
<1> SUFFICES ASSUME OptionInv, ShowOption \/ ShowEnd \/ NextReply PROVE OptionInv'
  OBVIOUS
<1>1. CASE ShowOption
  <2>1. /\ stage = "travel" /\ stage' = "show"
        /\ byteCnt' = ByteCount(kind, ipt_ptr) /\ delta' \in Int
        /\ UNCHANGED <<kind, ipt_len, ipt_ptr, ipt_oflw, stamps, hops, tsOrig, shown,
                       differences>>
    BY <1>1 DEF ShowOption, option, OptionInv, OptionShape, StartingTimeStamp, AreaLength
  <2>2. ipt_ptr = FirstPointer(kind) + EntryBytes(kind, Len(stamps)) /\ kind \in Kinds
        /\ stamps \in Seq(Int) /\ ipt_ptr \in Int /\ shown = <<>>
    BY <2>1 DEF OptionInv, Recorded, OptionShape, Printed
  <2>3. byteCnt' = EntryBytes(kind, Len(stamps)) /\ byteCnt' \in Int
    BY <2>1, <2>2 DEF ByteCount, FirstPointer, EntryBytes
  <2>4. OptionShape'
    BY <2>1, <2>3 DEF OptionInv, OptionShape, Stages
  <2>5. Recorded'
    BY <2>1 DEF OptionInv, Recorded
  <2>6. Printed'
    BY <2>1, <2>2, <2>3 DEF OptionInv, Printed
  <2>7. Differing'
    BY <2>1, <2>2 DEF OptionInv, Differing
  <2> QED BY <2>4, <2>5, <2>6, <2>7 DEF OptionInv
<1>2. CASE ShowEnd
  <2>1. /\ stage = "show" /\ stage' = "shown" /\ byteCnt <= 0
        /\ UNCHANGED <<kind, ipt_len, ipt_ptr, ipt_oflw, stamps, hops, tsOrig, byteCnt,
                       shown, delta, differences>>
    BY <1>2 DEF ShowEnd, option, printing
  <2>2. Len(shown) = Len(stamps)
    BY <2>1 DEF OptionInv, OptionShape, Printed, EntryBytes
  <2>3. shown = stamps
    BY <2>2 DEF OptionInv, OptionShape, Printed
  <2>4. OptionShape'
    BY <2>1 DEF OptionInv, OptionShape, Stages
  <2>5. Recorded' /\ Printed' /\ Differing'
    BY <2>1, <2>3 DEF OptionInv, Recorded, Printed, Differing
  <2> QED BY <2>4, <2>5 DEF OptionInv
<1>3. CASE NextReply
  <2>1. /\ stage = "shown" /\ stage' = "built"
        /\ UNCHANGED <<kind, ipt_len, ipt_ptr, ipt_oflw, stamps, hops, tsOrig, byteCnt,
                       shown, delta, differences>>
    BY <1>3 DEF NextReply, option, printing
  <2>2. OptionShape'
    BY <2>1 DEF OptionInv, OptionShape, Stages
  <2>3. Recorded' /\ Printed' /\ Differing'
    BY <2>1 DEF OptionInv, Recorded, Printed, Differing
  <2> QED BY <2>2, <2>3 DEF OptionInv
<1> QED BY <1>1, <1>2, <1>3

LEMMA EntryKeeps == OptionInv /\ ShowEntry => OptionInv'
<1> SUFFICES ASSUME OptionInv, ShowEntry PROVE OptionInv'
  OBVIOUS
<1> DEFINE t == Entry(Len(shown) + 1)
<1>1. /\ stage = "show" /\ byteCnt > 0 /\ byteCnt' = byteCnt - Step(kind)
      /\ shown' = Append(shown, t) /\ delta' = t
      /\ differences' = IF kind = "rr" THEN <<>> ELSE Append(differences, t - delta)
      /\ UNCHANGED <<stage, kind, ipt_len, ipt_ptr, ipt_oflw, stamps, hops, tsOrig>>
  BY DEF ShowEntry, option, Previous
<1>2. /\ kind \in Kinds /\ byteCnt \in Int /\ delta \in Int
      /\ stamps \in Seq(Int) /\ shown \in Seq(Int) /\ differences \in Seq(Int)
  BY DEF OptionInv, OptionShape
<1>3. Len(shown) + 1 <= Len(stamps)
  BY <1>1, <1>2 DEF OptionInv, Printed, EntryBytes
<1>4. t = stamps[Len(shown) + 1] /\ t \in Int
  BY <1>2, <1>3 DEF Entry
<1> HIDE DEF t
<1>5. /\ shown' \in Seq(Int) /\ Len(shown') = Len(shown) + 1 /\ Len(shown) \in Nat
      /\ shown'[Len(shown) + 1] = t
      /\ \A i \in 1 .. Len(shown) : shown'[i] = shown[i]
  BY <1>1, <1>2, <1>4
<1>6. OptionShape'
  <2>1. differences' \in Seq(Int)
    BY <1>1, <1>2, <1>4
  <2> QED BY <1>1, <1>2, <1>4, <1>5, <2>1 DEF OptionInv, OptionShape, Step, EntrySize
<1>7. Recorded'
  BY <1>1 DEF OptionInv, Recorded
<1>8. Printed'
  <2>1. byteCnt' = EntryBytes(kind, Len(stamps') - Len(shown'))
    BY <1>1, <1>2, <1>5 DEF OptionInv, Printed, EntryBytes, Step, EntrySize, Kinds
  <2>2. \A i \in 1 .. Len(shown') : shown'[i] = stamps'[i]
    BY <1>1, <1>4, <1>5 DEF OptionInv, Printed
  <2> QED BY <1>1, <1>2, <1>3, <1>5, <2>1, <2>2 DEF OptionInv, Printed
<1>9. Differing'
  <2>1. CASE kind = "rr"
    BY <1>1, <2>1 DEF Differing
  <2>2. CASE kind # "rr"
    <3>1. differences' = Append(differences, t - delta) /\ Len(differences) = Len(shown)
      BY <1>1, <2>2 DEF OptionInv, Differing
    <3>2. /\ Len(differences') = Len(shown) + 1
          /\ differences'[Len(shown) + 1] = t - delta
          /\ \A i \in 1 .. Len(shown) : differences'[i] = differences[i]
      BY <1>2, <1>4, <3>1
    <3>3. Len(shown) >= 1 => delta = shown[Len(shown)]
      BY <1>1, <2>2 DEF OptionInv, Differing
    <3>4. ASSUME NEW i \in 2 .. Len(differences')
          PROVE  differences'[i] = shown'[i] - shown'[i - 1]
      <4>1. CASE i = Len(shown) + 1
        BY <1>5, <3>2, <3>3, <4>1
      <4>2. CASE i # Len(shown) + 1
        <5>1. i \in 2 .. Len(differences) /\ i \in 1 .. Len(shown)
              /\ i - 1 \in 1 .. Len(shown)
          BY <1>5, <3>1, <3>2, <4>2
        <5> QED BY <1>5, <3>2, <5>1 DEF OptionInv, Differing
      <4> QED BY <4>1, <4>2
    <3> QED BY <1>1, <1>5, <2>2, <3>2, <3>4 DEF Differing
  <2> QED BY <2>1, <2>2
<1> QED BY <1>6, <1>7, <1>8, <1>9 DEF OptionInv

LEMMA OptionStep == OptionInv /\ [OptionNext]_optionVars => OptionInv'
<1>1. OptionInv /\ UNCHANGED optionVars => OptionInv'
  BY DEF optionVars, option, printing, OptionInv, OptionShape, Recorded, Printed, Differing
<1> QED BY <1>1, BuildKeeps, SendKeeps, HopKeeps, ShowKeeps, EntryKeeps DEF OptionNext

(***************************************************************************)
(* What is printed is what was recorded, every hop is told, differences    *)
(* are those of neighbours, and no unrecorded entry is read                *)
(* (ipOptionsFun.c:27-126; ping3.c:526, 549).                              *)
(***************************************************************************)
THEOREM ReplyIsAlwaysTold == OptionSpec => []ReplyIsTold
<1>1. OptionInv => ReplyIsTold
  <2> SUFFICES ASSUME OptionInv PROVE ReplyIsTold
    OBVIOUS
  <2>1. /\ kind \in Kinds /\ Len(stamps) \in Nat /\ Len(shown) \in Nat
        /\ ipt_len \in Int /\ ipt_ptr \in Int
        /\ Len(shown) <= Len(stamps)
    BY DEF OptionInv, OptionShape, Printed
  <2>2. ShownIsRecorded
    <3>1. stage = "shown" => shown = stamps
      BY DEF OptionInv, Printed
    <3>2. CASE Len(shown) = 0
      BY <3>1, <3>2 DEF ShownIsRecorded, OptionInv, OptionShape
    <3>3. CASE Len(shown) # 0
      <4>1. Header(kind) + EntryBytes(kind, Len(stamps)) <= ipt_len
        BY <2>1, <3>3 DEF OptionInv, Recorded
      <4>2. Len(shown) * EntrySize(kind) <= EntryBytes(kind, Len(stamps))
        BY <2>1 DEF EntryBytes, EntrySize, Kinds
      <4>3. Header(kind) \in Int /\ EntryBytes(kind, Len(stamps)) \in Int
            /\ Len(shown) * EntrySize(kind) \in Int
        BY <2>1 DEF Header, EntryBytes, EntrySize
      <4> QED BY <2>1, <3>1, <4>1, <4>2, <4>3 DEF ShownIsRecorded
    <3> QED BY <3>2, <3>3
  <2>3. EveryHopTold
    BY DEF OptionInv, Recorded, Printed, EveryHopTold
  <2>4. DifferencesAreSteps
    BY DEF OptionInv, Differing, DifferencesAreSteps
  <2>5. EstimateReadsStamps
    <3> SUFFICES ASSUME kind \in {"tsandaddr", "tsprespec"} 
                 PROVE /\ ipt_ptr >= 13 => Len(stamps) >= 1
                       /\ ipt_ptr > 20 => Len(stamps) >= 2
      BY DEF EstimateReadsStamps, FirstRead, SecondRead
    <3>1. ipt_ptr = 5 + 8 * Len(stamps)
      BY DEF OptionInv, Recorded, FirstPointer, EntryBytes
    <3> QED BY <2>1, <3>1
  <2> QED BY <2>2, <2>3, <2>4, <2>5 DEF ReplyIsTold
<1> QED BY <1>1, OptionInitially, OptionStep, PTL DEF OptionSpec

-----------------------------------------------------------------------------
(* The circular buffer                                                      *)

(* One step around the array.                                               *)
LEMMA MaskedStep ==
    ASSUME NEW i \in Slots
    PROVE  /\ Masked(i + 1) = IF i = ringMask THEN 0 ELSE i + 1
           /\ Masked(i + 1) \in Slots
BY MaskAssumption DEF Masked, ringSize, Slots

LEMMA MaskedDifference ==
    ASSUME NEW a \in Slots, NEW b \in Slots
    PROVE  /\ Masked(a - b) = IF a >= b THEN a - b ELSE a - b + ringSize
           /\ Masked(a - b) \in Slots
BY MaskAssumption DEF Masked, ringSize, Slots

(* The type invariant on which the rest stands, without what bounds the     *)
(* lines.                                                                   *)
RingShape ==
    /\ ringBffr \in [Slots -> Bytes \cup {0}]
    /\ inIndx \in Slots /\ outIndx \in Slots
    /\ line \in Seq(Bytes)
    /\ putCount \in Slots /\ gotCount \in Slots

(* Bytes lie between the indices, as many as were put in and not taken out. *)
RingInv == RingShape /\ UsedIsStored

LEMMA UsedBetween ==
    ASSUME NEW in \in Slots, NEW out \in Slots
    PROVE  /\ ringBffrUsed(in, out) \in 0 .. ringMask
           /\ ringBffrFull(in, out) <=> ringBffrUsed(in, out) = ringMask
           /\ ringBffrEmpty(in, out) <=> ringBffrUsed(in, out) = 0
<1>1. Masked(out + 1) = IF out = ringMask THEN 0 ELSE out + 1
    BY MaskedStep
<1>2. in \in 0 .. ringMask /\ out \in 0 .. ringMask
    BY DEF Slots
<1> QED
    BY <1>1, <1>2, MaskAssumption DEF ringBffrUsed, ringBffrFull, ringBffrEmpty

LEMMA RingInitInv == RingInit => RingInv
<1> SUFFICES ASSUME RingInit PROVE RingInv
    OBVIOUS
<1>1. RingShape
    BY MaskAssumption DEF RingInit, RingShape, Slots
<1>2. ringBffrUsed(inIndx, outIndx) = 0 /\ Masked(putCount - gotCount) = 0
    BY MaskAssumption DEF RingInit, ringBffrUsed, Masked, ringSize
<1> QED
    BY <1>1, <1>2, UsedBetween DEF RingInv, UsedIsStored, RingShape

LEMMA RingShapeStep == RingShape /\ [RingNext]_ringVars => RingShape'
<1> SUFFICES ASSUME RingShape, [RingNext]_ringVars PROVE RingShape'
    OBVIOUS
<1>1. CASE NextLine
  <2>1. line' \in Seq(Bytes)
      BY <1>1 DEF NextLine
  <2> QED
      BY <1>1, <2>1 DEF NextLine, RingShape
<1>2. CASE Load
  <2>1. CASE Full
      BY <1>2, <2>1 DEF Load, RingShape
  <2>2. CASE ~Full
    <3>1. line[1] \in Bytes /\ Tail(line) \in Seq(Bytes)
        BY <1>2 DEF Load, RingShape
    <3>2. inIndx' \in Slots /\ putCount' \in Slots
        BY <1>2, <2>2, MaskedStep DEF Load, RingShape
    <3> QED
        BY <1>2, <2>2, <3>1, <3>2 DEF Load, RingShape
  <2> QED
      BY <2>1, <2>2
<1>3. CASE Take
  <2>1. outIndx' \in Slots /\ gotCount' \in Slots
      BY <1>3, MaskedStep DEF Take, RingShape
  <2> QED
      BY <1>3, <2>1 DEF Take, RingShape
<1>4. CASE UNCHANGED ringVars
    BY <1>4 DEF ringVars, RingShape
<1> QED
    BY <1>1, <1>2, <1>3, <1>4 DEF RingNext

LEMMA RingInvStep == RingInv /\ [RingNext]_ringVars => RingInv'
<1> SUFFICES ASSUME RingInv, [RingNext]_ringVars PROVE RingInv'
    OBVIOUS
<1> USE DEF RingInv
<1>1. RingShape /\ RingShape'
    BY RingShapeStep
<1> DEFINE used == ringBffrUsed(inIndx, outIndx)
<1>2. /\ used' \in 0 .. ringMask
      /\ ringBffrFull(inIndx, outIndx)' <=> used' = ringMask
      /\ ringBffrEmpty(inIndx, outIndx)' <=> used' = 0
    BY <1>1, UsedBetween DEF RingShape
<1>3. used' = Masked(putCount' - gotCount')
  <2>1. used = Masked(putCount - gotCount)
      BY DEF UsedIsStored
  <2>2. CASE Load /\ ~Full
    <3>1. /\ inIndx' = IF inIndx = ringMask THEN 0 ELSE inIndx + 1
          /\ putCount' = IF putCount = ringMask THEN 0 ELSE putCount + 1
          /\ UNCHANGED <<outIndx, gotCount>>
        BY <1>1, <2>2, MaskedStep DEF Load, RingShape
    <3>2. used' = used + 1
        BY <1>1, <2>2, <3>1, MaskAssumption
           DEF RingShape, Full, ringBffrFull, ringBffrUsed, Slots
    <3>3. /\ Masked(putCount - gotCount) =
                IF putCount >= gotCount THEN putCount - gotCount
                ELSE putCount - gotCount + ringSize
          /\ Masked(putCount' - gotCount') =
                IF putCount' >= gotCount' THEN putCount' - gotCount'
                ELSE putCount' - gotCount' + ringSize
        BY <1>1, MaskedDifference DEF RingShape
    <3>4. /\ putCount \in 0 .. ringMask /\ gotCount \in 0 .. ringMask
          /\ used' \in 0 .. ringMask
        BY <1>1, <1>2 DEF RingShape, Slots
    <3> QED
        BY <2>1, <3>1, <3>2, <3>3, <3>4, MaskAssumption DEF ringSize
  <2>3. CASE Take
    <3>1. /\ outIndx' = IF outIndx = ringMask THEN 0 ELSE outIndx + 1
          /\ gotCount' = IF gotCount = ringMask THEN 0 ELSE gotCount + 1
          /\ UNCHANGED <<inIndx, putCount>>
        BY <1>1, <2>3, MaskedStep DEF Take, RingShape
    <3>2. used' = used - 1
        BY <1>1, <2>3, <3>1, MaskedStep, MaskAssumption
           DEF Take, RingShape, ringBffrEmpty, ringBffrUsed, Slots
    <3>3. /\ Masked(putCount - gotCount) =
                IF putCount >= gotCount THEN putCount - gotCount
                ELSE putCount - gotCount + ringSize
          /\ Masked(putCount' - gotCount') =
                IF putCount' >= gotCount' THEN putCount' - gotCount'
                ELSE putCount' - gotCount' + ringSize
        BY <1>1, MaskedDifference DEF RingShape
    <3>4. /\ putCount \in 0 .. ringMask /\ gotCount \in 0 .. ringMask
          /\ used' \in 0 .. ringMask
        BY <1>1, <1>2 DEF RingShape, Slots
    <3> QED
        BY <2>1, <3>1, <3>2, <3>3, <3>4, MaskAssumption DEF ringSize
  <2>4. CASE UNCHANGED <<inIndx, outIndx, putCount, gotCount>>
      BY <2>1, <2>4 DEF ringBffrUsed
  <2> QED
      BY <2>2, <2>3, <2>4 DEF RingNext, NextLine, Load, ringVars
<1> QED
    BY <1>1, <1>2, <1>3 DEF UsedIsStored

(***************************************************************************)
(* ringBffrUsed(), ringBffrFull() and ringBffrEmpty() tell the truth about *)
(* the bytes put in and not taken out, for an array of any length          *)
(* (genFun.c:320-336).                                                     *)
(***************************************************************************)
THEOREM UsedIsAlwaysStored == RingSpec => []UsedIsStored
<1>1. RingInv => UsedIsStored
    BY DEF RingInv
<1> QED
    BY <1>1, RingInitInv, RingInvStep, PTL DEF RingSpec

-----------------------------------------------------------------------------
(* The buffer implements a queue                                            *)

LEMMA MaskedPlace ==
    ASSUME NEW out \in Slots, NEW i \in 0 .. ringMask
    PROVE  /\ Masked(out + i) = IF out + i > ringMask THEN out + i - ringSize ELSE out + i
           /\ Masked(out + i) \in Slots
BY MaskAssumption DEF Masked, ringSize, Slots

(* The places counted from outIndx on come before inIndx, which is the next.*)
LEMMA PlacesStored ==
    ASSUME NEW in \in Slots, NEW out \in Slots, ~ringBffrFull(in, out)
    PROVE  /\ Masked(out + ringBffrUsed(in, out) + 1) = in
           /\ \A i \in 1 .. ringBffrUsed(in, out) : Masked(out + i) # in
<1> DEFINE used == ringBffrUsed(in, out)
<1>1. used \in 0 .. ringMask - 1
    BY UsedBetween, MaskAssumption
<1>2. used = IF in > out THEN in - out - 1 ELSE in - out + ringMask
    BY DEF ringBffrUsed, ringBffrFull
<1>3. in \in 0 .. ringMask /\ out \in 0 .. ringMask /\ ringMask \in Nat \ {0}
    BY MaskAssumption DEF Slots
<1>4. Masked(out + (used + 1)) = in
  <2>1. Masked(out + (used + 1)) =
            IF out + (used + 1) > ringMask THEN out + (used + 1) - ringSize
            ELSE out + (used + 1)
      BY <1>1, <1>3, MaskedPlace
  <2> HIDE DEF used
  <2> QED
      BY <1>1, <1>2, <1>3, <2>1 DEF ringSize, ringBffrFull
<1>5. ASSUME NEW i \in 1 .. used PROVE Masked(out + i) # in
  <2>1. Masked(out + i) = IF out + i > ringMask THEN out + i - ringSize ELSE out + i
      BY <1>1, <1>3, MaskedPlace
  <2> HIDE DEF used
  <2> QED
      BY <1>1, <1>2, <1>3, <2>1 DEF ringSize, ringBffrFull
<1>6. out + used + 1 = out + (used + 1)
    BY <1>1, <1>3
<1> QED
    BY <1>4, <1>5, <1>6

LEMMA QueueInit == RingInit => Stored = <<>>
<1> SUFFICES ASSUME RingInit PROVE Stored = <<>>
    OBVIOUS
<1>1. ringBffrUsed(inIndx, outIndx) = 0
    BY MaskAssumption DEF RingInit, ringBffrUsed
<1> QED
    BY <1>1 DEF Stored

LEMMA StoredIsSeq ==
    ASSUME inIndx \in Slots, outIndx \in Slots
    PROVE  Stored \in Seq({ringBffr[Masked(outIndx + i)] : i \in 1 .. ringMask})
           /\ Len(Stored) = ringBffrUsed(inIndx, outIndx)
           /\ \A i \in 1 .. ringBffrUsed(inIndx, outIndx) :
                  Stored[i] = ringBffr[Masked(outIndx + i)]
<1>1. ringBffrUsed(inIndx, outIndx) \in 0 .. ringMask
    BY UsedBetween
<1> QED
    BY <1>1, MaskAssumption DEF Stored

LEMMA QueueLoad ==
    ASSUME RingInv, RingInv', Load, ~Full
    PROVE  Queue!Put
<1> DEFINE used == ringBffrUsed(inIndx, outIndx)
<1>1. /\ inIndx \in Slots /\ outIndx \in Slots /\ inIndx' \in Slots
      /\ outIndx' = outIndx /\ line \in Seq(Bytes) /\ line # <<>>
      /\ ringBffr \in [Slots -> Bytes \cup {0}]
      /\ ringBffr' = [ringBffr EXCEPT ![inIndx] = line[1]]
      /\ ~ringBffrFull(inIndx, outIndx)
    BY DEF RingInv, RingShape, Load, Full
<1>2. used \in 0 .. ringMask /\ used < ringMask
    BY <1>1, UsedBetween, MaskAssumption
<1>3. used' = used + 1
  <2>1. inIndx' = IF inIndx = ringMask THEN 0 ELSE inIndx + 1
      BY <1>1, MaskedStep DEF Load, Full
  <2>2. /\ inIndx \in 0 .. ringMask /\ outIndx \in 0 .. ringMask
        /\ ringMask \in Nat \ {0} /\ inIndx # outIndx
      BY <1>1, MaskAssumption DEF Slots, ringBffrFull
  <2> QED
      BY <1>1, <2>1, <2>2 DEF ringBffrUsed
<1>4. Len(Stored) < ringMask
    BY <1>1, <1>2, StoredIsSeq
<1>5. Stored' = Append(Stored, line[1])
  <2>1. Stored' = [i \in 1 .. used + 1 |-> ringBffr'[Masked(outIndx + i)]]
      BY <1>1, <1>3 DEF Stored
  <2>2. ASSUME NEW i \in 1 .. used PROVE ringBffr'[Masked(outIndx + i)] = Stored[i]
    <3>1. Masked(outIndx + i) # inIndx
        BY <1>1, PlacesStored
    <3>2. Masked(outIndx + i) \in Slots
      <4>1. i \in 0 .. ringMask
        <5> HIDE DEF used
        <5> QED
            BY <1>2, MaskAssumption
      <4> QED
          BY <1>1, <4>1, MaskedPlace
    <3> QED
        BY <1>1, <3>1, <3>2, StoredIsSeq
  <2>3. ringBffr'[Masked(outIndx + (used + 1))] = line[1]
    <3>1. Masked(outIndx + used + 1) = inIndx /\ outIndx + used + 1 = outIndx + (used + 1)
        BY <1>1, <1>2, PlacesStored DEF Slots
    <3> QED
        BY <1>1, <3>1
  <2>4. Len(Stored) = used /\ Stored = [i \in 1 .. used |-> Stored[i]]
      BY <1>1, StoredIsSeq DEF Stored
  <2> HIDE DEF used
  <2>5. Append(Stored, line[1]) =
            [i \in 1 .. used + 1 |-> IF i = used + 1 THEN line[1] ELSE Stored[i]]
      BY <1>2, <2>4
  <2>6. ASSUME NEW i \in 1 .. used + 1
        PROVE  ringBffr'[Masked(outIndx + i)] = IF i = used + 1 THEN line[1] ELSE Stored[i]
      BY <1>2, <2>2, <2>3
  <2> QED
      BY <2>1, <2>5, <2>6
<1>6. line[1] \in Bytes
    BY <1>1
<1> QED
    BY <1>4, <1>5, <1>6 DEF Queue!Put

LEMMA QueueTake ==
    ASSUME RingInv, RingInv', Take
    PROVE  Queue!Get
<1> DEFINE used == ringBffrUsed(inIndx, outIndx)
<1>1. /\ inIndx \in Slots /\ outIndx \in Slots /\ inIndx' = inIndx
      /\ outIndx' = Masked(outIndx + 1) /\ ringBffr' = ringBffr
      /\ ~ringBffrEmpty(inIndx, outIndx)
    BY DEF RingInv, RingShape, Take
<1>2. used \in 1 .. ringMask
    BY <1>1, UsedBetween, MaskAssumption
<1>3. used' = used - 1
    BY <1>1, MaskedStep, MaskAssumption DEF Take, ringBffrEmpty, ringBffrUsed, Slots
<1>4. Len(Stored) = used
    BY <1>1, StoredIsSeq
<1>5. Stored' = [i \in 1 .. used - 1 |-> ringBffr[Masked(outIndx' + i)]]
    BY <1>1, <1>3 DEF Stored
<1>6. ASSUME NEW i \in 1 .. used - 1
      PROVE  ringBffr[Masked(outIndx' + i)] = Stored[i + 1]
  <2>1. i \in 0 .. ringMask /\ i + 1 \in 0 .. ringMask /\ i + 1 \in 1 .. used
    <3> HIDE DEF used
    <3> QED
        BY <1>2, MaskAssumption
  <2>2. Masked(outIndx' + i) = Masked(outIndx + (i + 1))
    <3>1. outIndx' = IF outIndx = ringMask THEN 0 ELSE outIndx + 1
        BY <1>1, MaskedStep
    <3>2. outIndx' \in Slots
        BY <1>1, MaskedStep
    <3>3. Masked(outIndx' + i) =
              IF outIndx' + i > ringMask THEN outIndx' + i - ringSize ELSE outIndx' + i
        BY <2>1, <3>2, MaskedPlace
    <3>4. Masked(outIndx + (i + 1)) =
              IF outIndx + (i + 1) > ringMask THEN outIndx + (i + 1) - ringSize
              ELSE outIndx + (i + 1)
        BY <1>1, <2>1, MaskedPlace
    <3> HIDE DEF used
    <3> QED
        BY <1>1, <2>1, <3>1, <3>3, <3>4, MaskAssumption DEF ringSize, Slots
  <2> QED
      BY <1>1, <2>1, <2>2, StoredIsSeq
<1>7. Stored \in Seq({ringBffr[Masked(outIndx + i)] : i \in 1 .. ringMask})
    BY <1>1, StoredIsSeq
<1>8. Tail(Stored) = [i \in 1 .. used - 1 |-> Stored[i + 1]]
  <2> DEFINE queue == Stored
             place == {ringBffr[Masked(outIndx + i)] : i \in 1 .. ringMask}
  <2>1. queue \in Seq(place) /\ queue # <<>> /\ Len(queue) = used
      BY <1>2, <1>4, <1>7
  <2> HIDE DEF queue, used, place
  <2>2. /\ Tail(queue) \in Seq(place)
        /\ Len(Tail(queue)) = used - 1
        /\ \A i \in 1 .. used - 1 : Tail(queue)[i] = queue[i + 1]
      BY <2>1, HeadTailProperties
  <2>3. Tail(queue) = [i \in 1 .. Len(Tail(queue)) |-> Tail(queue)[i]]
    <3> DEFINE rest == Tail(queue)
    <3>1. rest \in Seq(place)
        BY <2>2
    <3> HIDE DEF rest
    <3>2. rest = [i \in 1 .. Len(rest) |-> rest[i]]
        BY <3>1
    <3> QED
        BY <3>2 DEF rest
  <2>4. Tail(queue) = [i \in 1 .. used - 1 |-> queue[i + 1]]
      BY <2>2, <2>3
  <2> QED
      BY <2>4 DEF queue
<1>9. Stored # <<>>
    BY <1>2, <1>4
<1> QED
    BY <1>5, <1>6, <1>8, <1>9 DEF Queue!Get

LEMMA QueueStep ==
    RingInv /\ RingInv' /\ [RingNext]_ringVars => [Queue!Put \/ Queue!Get]_Stored
<1> SUFFICES ASSUME RingInv, RingInv', [RingNext]_ringVars
             PROVE  [Queue!Put \/ Queue!Get]_Stored
    OBVIOUS
<1>1. CASE Load /\ ~Full
    BY <1>1, QueueLoad
<1>2. CASE Take
    BY <1>2, QueueTake
<1>3. CASE UNCHANGED <<ringBffr, inIndx, outIndx>>
    BY <1>3 DEF Stored
<1> QED
    BY <1>1, <1>2, <1>3 DEF RingNext, NextLine, Load, ringVars

(***************************************************************************)
(* The circular buffer implements a queue of ringMask bytes, for an array  *)
(* of any length and however producer and consumer alternate: nothing is   *)
(* lost, overwritten, reordered or read twice (genFun.c:315-363).          *)
(***************************************************************************)
THEOREM RingIsQueue == RingSpec => IsQueue
<1>1. RingInit => Stored = <<>>
    BY QueueInit
<1> QED
    BY <1>1, RingInitInv, RingInvStep, QueueStep, PTL DEF RingSpec, IsQueue, Queue!Fifo

-----------------------------------------------------------------------------
(* The walk over the options                                                *)

WithLength == {3, 4, 7, 9}      \* the numbers of the options with a length byte

(* How long ping3 takes an option to be, by its number and its second byte. *)
Lasts(n, second, length) ==
    \/ n = 2 /\ length = 11
    \/ n \in WithLength /\ length >= 2 /\ length = second
    \/ n = 8 /\ length = 4
    \/ n \notin WithLength \cup {2, 8} /\ length = 1

(* The bytes are one option.                                                *)
OneOption(bytes) ==
    /\ bytes \in Seq(Octet) /\ bytes # <<>>
    /\ Lasts(Number(bytes[1]), bytes[2], Len(bytes))

LEMMA LastsAlike ==
    ASSUME NEW n, NEW a, NEW b, NEW length \in Nat, Lasts(n, a, length),
           length >= 2 => a = b
    PROVE  Lasts(n, b, length)
BY DEF Lasts, WithLength

LEMMA FilledIs ==
    ASSUME NEW type \in Octet, NEW n \in 2 .. 40, NEW b \in Octet
    PROVE  /\ Filled(type, n, b) \in Seq(Octet) /\ Len(Filled(type, n, b)) = n
           /\ Filled(type, n, b)[1] = type /\ Filled(type, n, b)[2] = n
           /\ Filled(type, n, b) # <<>>
<1>1. n \in Nat /\ n \in Octet
    BY DEF Octet
<1>2. Filled(type, n, b) \in [1 .. n -> Octet]
    BY <1>1 DEF Filled
<1>3. Filled(type, n, b)[1] = type /\ Filled(type, n, b)[2] = n
    BY <1>1 DEF Filled
<1>4. Filled(type, n, b) \in Seq(Octet) /\ Len(Filled(type, n, b)) = n
  <2> DEFINE f == Filled(type, n, b)
  <2>1. f \in [1 .. n -> Octet]
      BY <1>2
  <2> HIDE DEF f
  <2> QED
      BY <1>1, <2>1 DEF f
<1> QED
    BY <1>3, <1>4

LEMMA FilledOption ==
    ASSUME NEW type \in Octet, NEW n \in 2 .. 40, NEW b \in Octet,
           Lasts(Number(type), n, n)
    PROVE  OneOption(Filled(type, n, b))
BY FilledIs DEF OneOption

LEMMA OptionsAreMade ==
    ASSUME NEW b \in DataBytes
    PROVE  /\ OneOption(<<NoOperation>>) /\ OneOption(<<EndOfList>>)
           /\ OneOption(Filled(Security, 11, b)) /\ OneOption(Filled(StreamId, 4, b))
           /\ \A type \in WithLengthByte, n \in OptionLengths :
                 OneOption(Filled(type, n, b))
<1>1. OneOption(<<NoOperation>>) /\ OneOption(<<EndOfList>>)
  <2>1. NoOperation \in Octet /\ EndOfList \in Octet
      BY DEF NoOperation, EndOfList, Octet
  <2>2. ASSUME NEW c \in Octet, Lasts(Number(c), <<c>>[2], 1)
        PROVE  OneOption(<<c>>)
      BY <2>2 DEF OneOption
  <2>3. Number(NoOperation) = 1 /\ Number(EndOfList) = 0
      BY DEF NoOperation, EndOfList, Number
  <2>4. \A x : Lasts(1, x, 1) /\ Lasts(0, x, 1)
      BY DEF Lasts, WithLength
  <2> QED
      BY <2>1, <2>2, <2>3, <2>4
<1>2. b \in Octet /\ OptionLengths \subseteq 2 .. 40
    BY DataAssumption, LengthsAssumption, AreaAssumption
<1>3. OneOption(Filled(Security, 11, b)) /\ OneOption(Filled(StreamId, 4, b))
  <2>1. Security \in Octet /\ StreamId \in Octet
      BY DEF Security, StreamId, Octet
  <2>2. Number(Security) = 2 /\ Number(StreamId) = 8
      BY DEF Security, StreamId, Number
  <2>3. Lasts(2, 11, 11) /\ Lasts(8, 4, 4)
      BY DEF Lasts
  <2> QED
      BY <1>2, <2>1, <2>2, <2>3, FilledOption
<1>4. ASSUME NEW type \in WithLengthByte, NEW n \in OptionLengths
      PROVE  OneOption(Filled(type, n, b))
  <2>1. type \in Octet /\ Number(type) \in WithLength /\ n \in 2 .. 40
      BY <1>2 DEF WithLengthByte, Number, WithLength, Octet
  <2>2. Lasts(Number(type), n, n)
      BY <2>1 DEF Lasts
  <2> QED
      BY <1>2, <2>1, <2>2, FilledOption
<1> QED
    BY <1>1, <1>3, <1>4

(* The option that starts at p ends before e.                               *)
EndsAt(p, e) == Lasts(Number(area[p + 1]), area[p + 2], e - p)

FollowedBy(p, e) ==
    /\ e \in starts \cup {Len(area)} /\ EndsAt(p, e)
    /\ \A s \in starts : s <= p \/ s >= e

(* The options lie one behind the other, and fill the area.                 *)
Chained ==
    /\ area # <<>> => 0 \in starts
    /\ \A p \in starts : p < Len(area) /\ \E e \in 0 .. Len(area) : FollowedBy(p, e)

(* The walk is where an option starts, or at the end, and was at the starts *)
(* before.                                                                  *)
Walked ==
    /\ walking = "compose" => visited = {}
    /\ walking = "walk" => /\ count \in starts \cup {Len(area)}
                           /\ visited = {s \in starts : s < count}
    /\ walking = "walked" => visited = starts /\ count = Len(area)

WalkInv == WalkTypeOK /\ (known => Chained /\ Walked)

LEMMA WalkInitInv == WalkInit => WalkInv
BY AreaAssumption DEF WalkInit, WalkInv, WalkTypeOK, Chained, Walked

LEMMA WalkStutter == WalkInv /\ UNCHANGED walkVars => WalkInv'
BY DEF WalkInv, WalkTypeOK, Chained, FollowedBy, EndsAt, Walked, walkVars

LEMMA OptionAdded ==
    ASSUME WalkTypeOK, NEW bytes \in Seq(Octet), bytes # <<>>, AddOption(bytes)
    PROVE  /\ area' \in Seq(Octet) /\ Len(area') = Len(area) + Len(bytes)
           /\ Len(area') <= AreaMax /\ Len(bytes) >= 1
           /\ starts' = starts \cup {Len(area)} /\ starts' \subseteq 0 .. AreaMax - 1
           /\ \A i \in 1 .. Len(area) : area'[i] = area[i]
           /\ \A i \in 1 .. Len(bytes) : area'[Len(area) + i] = bytes[i]
<1>1. area \in Seq(Octet) /\ Len(area) + Len(bytes) <= AreaMax /\ area' = area \o bytes
      /\ starts' = starts \cup {Len(area)} /\ starts \subseteq 0 .. AreaMax - 1
      /\ AreaMax \in Nat
    BY AreaAssumption DEF WalkTypeOK, AddOption
<1>2. Len(area) \in Nat /\ Len(bytes) \in Nat /\ Len(bytes) >= 1
    BY <1>1
<1>3. /\ area' \in Seq(Octet) /\ Len(area') = Len(area) + Len(bytes)
      /\ \A i \in 1 .. Len(area) : area'[i] = area[i]
      /\ \A i \in 1 .. Len(bytes) : area'[Len(area) + i] = bytes[i]
    BY <1>1, <1>2
<1>4. starts' \subseteq 0 .. AreaMax - 1
  <2>1. Len(area) \in 0 .. AreaMax - 1
      BY <1>1, <1>2
  <2> QED
      BY <1>1, <2>1
<1>5. Len(area') <= AreaMax
    BY <1>1, <1>3
<1> QED
    BY <1>1, <1>2, <1>3, <1>4, <1>5

LEMMA OptionChained ==
    ASSUME WalkTypeOK, Chained, NEW bytes, OneOption(bytes), AddOption(bytes)
    PROVE  Chained'
<1> PICK n \in Nat : n = Len(area)
    BY DEF WalkTypeOK
<1> PICK m \in Nat : m = n + Len(bytes)
    BY DEF OneOption
<1>0. bytes \in Seq(Octet) /\ bytes # <<>>
    BY DEF OneOption
<1>1. /\ area \in Seq(Octet) /\ n \in Nat /\ starts \subseteq Nat
      /\ area' \in Seq(Octet) /\ Len(area') = m /\ Len(bytes) >= 1
      /\ Len(bytes) \in Nat
      /\ starts' = starts \cup {n}
      /\ \A i \in 1 .. n : area'[i] = area[i]
      /\ \A i \in 1 .. Len(bytes) : area'[n + i] = bytes[i]
    BY <1>0, OptionAdded DEF WalkTypeOK
<1>2. ASSUME NEW p \in starts
      PROVE  p < m /\ \E e \in 0 .. m : FollowedBy(p, e)'
  <2>1. PICK e \in 0 .. n : FollowedBy(p, e)
      BY DEF Chained
  <2>2. p < n /\ p \in Nat
      BY <1>1 DEF Chained
  <2>3. EndsAt(p, e)'
    <3>1. area'[p + 1] = area[p + 1]
        BY <1>1, <2>2
    <3>2. e - p >= 2 => area'[p + 2] = area[p + 2]
        BY <1>1, <2>1, <2>2
    <3>3. Lasts(Number(area[p + 1]), area[p + 2], e - p)
        BY <2>1 DEF FollowedBy, EndsAt
    <3>4. e - p \in Nat
        BY <2>1, <2>2, <3>3 DEF Lasts
    <3>5. Lasts(Number(area'[p + 1]), area'[p + 2], e - p)
        BY <3>1, <3>2, <3>3, <3>4, LastsAlike
    <3> QED
        BY <3>5 DEF EndsAt
  <2>4. e \in starts'
      BY <1>1, <2>1 DEF FollowedBy
  <2>5. \A s \in starts' : s <= p \/ s >= e
      BY <1>1, <2>1 DEF FollowedBy
  <2>6. FollowedBy(p, e)' /\ e \in 0 .. m
      BY <1>1, <2>1, <2>3, <2>4, <2>5 DEF FollowedBy
  <2> QED
      BY <1>1, <2>2, <2>6
<1>3. n < m /\ FollowedBy(n, m)' /\ m \in 0 .. m
  <2>1. area'[n + 1] = bytes[1] /\ (Len(bytes) >= 2 => area'[n + 2] = bytes[2])
      BY <1>1
  <2>2. EndsAt(n, m)'
    <3>1. Lasts(Number(bytes[1]), bytes[2], Len(bytes)) /\ Len(bytes) = m - n
        BY <1>1 DEF OneOption
    <3>2. Lasts(Number(area'[n + 1]), area'[n + 2], Len(bytes))
        BY <1>1, <2>1, <3>1, LastsAlike
    <3> QED
        BY <3>1, <3>2 DEF EndsAt
  <2>3. \A s \in starts' : s <= n
      BY <1>1 DEF Chained
  <2> QED
      BY <1>1, <2>2, <2>3 DEF FollowedBy
<1>4. 0 \in starts'
  <2>1. CASE area = <<>>
      BY <1>1, <2>1
  <2>2. CASE area # <<>>
      BY <1>1, <2>2 DEF Chained
  <2> QED
      BY <2>1, <2>2
<1> QED
    BY <1>1, <1>2, <1>3, <1>4 DEF Chained

LEMMA PutOptionStep == WalkInv /\ PutOption => WalkInv'
<1> SUFFICES ASSUME WalkInv, PutOption PROVE WalkInv'
    OBVIOUS
<1>0. WalkTypeOK /\ walking = "compose" /\ UNCHANGED <<walking, count, visited>>
      /\ (known => Chained /\ Walked)
    BY DEF WalkInv, PutOption
<1>1. PICK b \in DataBytes :
          \/ AddOption(<<NoOperation>>) /\ UNCHANGED known
          \/ AddOption(Filled(Security, 11, b)) /\ UNCHANGED known
          \/ AddOption(Filled(StreamId, 4, b)) /\ UNCHANGED known
          \/ /\ \E type \in WithLengthByte, n \in OptionLengths :
                   AddOption(Filled(type, n, b))
             /\ UNCHANGED known
          \/ AddOption(Filled(RouterAlert, 4, b)) /\ known' = FALSE
    BY DEF PutOption
<1>2. ASSUME NEW bytes \in Seq(Octet), bytes # <<>>, AddOption(bytes), known' \in BOOLEAN
      PROVE  WalkTypeOK'
    BY <1>0, <1>2, OptionAdded DEF WalkTypeOK
<1>3. ASSUME NEW bytes, OneOption(bytes), AddOption(bytes), UNCHANGED known
      PROVE  WalkInv'
  <2>1. WalkTypeOK'
      BY <1>0, <1>2, <1>3 DEF OneOption, WalkTypeOK
  <2>2. known => Chained'
      BY <1>0, <1>3, OptionChained
  <2>3. known => Walked'
      BY <1>0 DEF Walked
  <2> QED
      BY <1>3, <2>1, <2>2, <2>3 DEF WalkInv
<1>4. ASSUME AddOption(Filled(RouterAlert, 4, b)), known' = FALSE
      PROVE  WalkInv'
  <2>1. Filled(RouterAlert, 4, b) \in Seq(Octet) /\ Filled(RouterAlert, 4, b) # <<>>
    <3>1. b \in Octet /\ RouterAlert \in Octet /\ 4 \in Octet
        BY DataAssumption DEF RouterAlert, Octet
    <3> QED
        BY <3>1, FilledIs
  <2> QED
      BY <1>2, <1>4, <2>1 DEF WalkInv
<1> QED
    BY <1>1, <1>3, <1>4, OptionsAreMade

LEMMA PadStep == WalkInv /\ Pad => WalkInv'
<1> SUFFICES ASSUME WalkInv, Pad PROVE WalkInv'
    OBVIOUS
<1> USE DEF Pad
<1>0. WalkTypeOK /\ (known => Chained /\ Walked)
    BY DEF WalkInv
<1>1. OneOption(<<EndOfList>>) /\ <<EndOfList>> \in Seq(Octet) /\ <<EndOfList>> # <<>>
  <2>1. EndOfList \in Octet /\ Number(EndOfList) = 0
      BY DEF EndOfList, Octet, Number
  <2>2. \A x : Lasts(0, x, 1)
      BY DEF Lasts, WithLength
  <2>3. <<EndOfList>> \in Seq(Octet) /\ <<EndOfList>> # <<>>
        /\ <<EndOfList>>[1] = EndOfList /\ Len(<<EndOfList>>) = 1
      BY <2>1
  <2> QED
      BY <2>1, <2>2, <2>3 DEF OneOption
<1>2. AddOption(<<EndOfList>>)
  <2>1. Len(area) + 1 <= AreaMax
      BY <1>0, AreaAssumption DEF WalkTypeOK
  <2>2. Append(area, EndOfList) = area \o <<EndOfList>> /\ Len(<<EndOfList>>) = 1
      BY <1>0 DEF WalkTypeOK, EndOfList
  <2> QED
      BY <2>1, <2>2 DEF AddOption
<1>3. WalkTypeOK'
    BY <1>0, <1>1, <1>2, OptionAdded DEF WalkTypeOK
<1>4. known => Chained'
    BY <1>0, <1>1, <1>2, OptionChained
<1>5. known => Walked'
    BY <1>0 DEF Walked
<1> QED
    BY <1>3, <1>4, <1>5 DEF WalkInv

LEMMA StartWalkStep == WalkInv /\ StartWalk => WalkInv'
<1> SUFFICES ASSUME WalkInv, StartWalk PROVE WalkInv'
    OBVIOUS
<1> USE DEF StartWalk, WalkInv
<1>1. WalkTypeOK'
    BY DEF WalkTypeOK
<1>2. known => Chained'
    BY DEF Chained, FollowedBy, EndsAt
<1>3. known => Walked'
  <2>1. {s \in starts : s < 0} = {}
    <3>1. starts \subseteq Nat
        BY DEF WalkTypeOK
    <3>2. \A s \in starts : ~(s < 0)
        BY <3>1
    <3> QED
        BY <3>2
  <2>2. known => 0 \in starts
      BY DEF Chained
  <2> QED
      BY <2>1, <2>2 DEF Walked
<1> QED
    BY <1>1, <1>2, <1>3

LEMMA OptionLengthIs ==
    ASSUME WalkTypeOK, NEW p \in Nat, p < Len(area)
    PROVE  /\ OptionLength(p) \in Nat
           /\ \A e \in 0 .. Len(area) : EndsAt(p, e) => OptionLength(p) = e - p
<1>0. area \in Seq(Octet) /\ Len(area) \in Nat /\ p + 1 \in Nat /\ 0 \in Octet
    BY DEF WalkTypeOK, Octet
<1>1. ByteAt(p) = area[p + 1]
    BY DEF ByteAt
<1>2. ByteAt(p + 1) \in Octet
  <2>1. CASE p + 1 < Len(area)
    <3>1. p + 2 \in 1 .. Len(area) /\ (p + 1) + 1 = p + 2
        BY <1>0, <2>1
    <3>2. area[p + 2] \in Octet
        BY <1>0, <3>1
    <3>3. ByteAt(p + 1) = area[p + 2]
        BY <2>1, <3>1 DEF ByteAt
    <3> QED
        BY <3>2, <3>3
  <2>2. CASE ~(p + 1 < Len(area))
      BY <1>0, <2>2 DEF ByteAt
  <2> QED
      BY <2>1, <2>2
<1> DEFINE n == Number(ByteAt(p))
           l == OptionLength(p)
<1>4. /\ n = 2 => l = 11
      /\ n \in WithLength => l = ByteAt(p + 1)
      /\ n = 8 => l = 4
      /\ n \notin WithLength \cup {2, 8} => l = 1
    BY DEF OptionLength, WithLength, LengthAt, StreamLength
<1> HIDE DEF n, l
<1>5. l \in Nat
  <2>1. \A x \in Octet : x \in Nat
      BY DEF Octet
  <2> QED
      BY <1>2, <1>4, <2>1
<1>6. ASSUME NEW e \in 0 .. Len(area), EndsAt(p, e)
      PROVE  l = e - p
  <2>1. Lasts(n, area[p + 2], e - p)
      BY <1>1, <1>6 DEF EndsAt, n
  <2>2. e - p >= 2 => ByteAt(p + 1) = area[p + 2]
      BY <1>0 DEF ByteAt
  <2> QED
      BY <1>4, <2>1, <2>2 DEF Lasts, WithLength
<1> QED
    BY <1>5, <1>6 DEF l

LEMMA WalkOptionStep == WalkInv /\ WalkOption => WalkInv'
<1> SUFFICES ASSUME WalkInv, WalkOption PROVE WalkInv'
    OBVIOUS
<1> USE DEF WalkOption
<1>0. WalkTypeOK /\ (known => Chained /\ Walked)
    BY DEF WalkInv
<1>1. count \in Nat /\ count < Len(area)
    BY <1>0 DEF Inside, WalkTypeOK
<1>2. OptionLength(count) \in Nat
    BY <1>0, <1>1, OptionLengthIs
<1>3. WalkTypeOK'
    BY <1>0, <1>1, <1>2, AreaAssumption DEF WalkTypeOK
<1>4. known => Chained'
    BY <1>0 DEF Chained, FollowedBy, EndsAt
<1>5. ASSUME known PROVE Walked'
  <2>0. Chained /\ Walked
      BY <1>0, <1>5
  <2>1. starts \subseteq Nat /\ Len(area) \in Nat
      BY <1>0 DEF WalkTypeOK
  <2>2. count \in starts /\ visited = {s \in starts : s < count}
      BY <1>1, <2>0, <2>1 DEF Walked
  <2>3. PICK e \in 0 .. Len(area) : FollowedBy(count, e)
      BY <2>0, <2>2 DEF Chained
  <2>4. count' = e
      BY <1>0, <1>1, <2>3, OptionLengthIs DEF FollowedBy
  <2>5. e > count
      BY <1>0, <1>1, <2>3 DEF FollowedBy, EndsAt, Lasts
  <2>6. visited' = {s \in starts : s < e}
    <3>1. visited' = visited \cup {count}
        OBVIOUS
    <3>2. ASSUME NEW s \in starts PROVE s < e <=> s < count \/ s = count
        BY <1>1, <2>1, <2>3, <2>5 DEF FollowedBy
    <3> QED
        BY <2>2, <3>1, <3>2
  <2> QED
      BY <2>3, <2>4, <2>6 DEF Walked, FollowedBy
<1> QED
    BY <1>3, <1>4, <1>5 DEF WalkInv

LEMMA WalkReturnsStep == WalkInv /\ WalkReturns => WalkInv'
<1> SUFFICES ASSUME WalkInv, WalkReturns PROVE WalkInv'
    OBVIOUS
<1> USE DEF WalkReturns, WalkInv
<1>1. WalkTypeOK'
    BY DEF WalkTypeOK
<1>2. known => Chained'
    BY DEF Chained, FollowedBy, EndsAt
<1>3. known => Walked'
    BY DEF Walked, Chained, Inside, WalkTypeOK
<1> QED
    BY <1>1, <1>2, <1>3

LEMMA NextHeaderStep == WalkInv /\ NextHeader => WalkInv'
BY AreaAssumption DEF NextHeader, WalkInv, WalkTypeOK, Chained, Walked

LEMMA WalkInvariant == WalkSpec => []WalkInv
<1>1. WalkInv /\ [WalkNext]_walkVars => WalkInv'
    BY WalkStutter, PutOptionStep, PadStep, StartWalkStep, WalkOptionStep, WalkReturnsStep,
       NextHeaderStep DEF WalkNext
<1> QED
    BY <1>1, WalkInitInv, PTL DEF WalkSpec

(* In every area of options that ping3 knows, of whatever lengths and data, *)
(* the walk visits the first byte of each option and no other byte, and     *)
(* ends where the area ends (ipOptionsFun.c:175-190, 199-243).              *)
THEOREM WalkVisitsOptions == WalkSpec => []VisitsOptions
<1>1. WalkInv => VisitsOptions
    BY DEF WalkInv, Walked, VisitsOptions, WalkTypeOK
<1> QED
    BY <1>1, WalkInvariant, PTL

(* Over options that ping3 knows each step takes the walk forward, never    *)
(* past the end of the area: after at most as many steps as there are bytes *)
(* it has nothing left to read (ipOptionsFun.c:175-190, 199-243).           *)
WalkMovesOn ==
    known /\ walking = "walk" /\ walking' = "walk" => count < count' /\ count' <= Len(area)

THEOREM WalkAdvances == WalkSpec => [][WalkMovesOn]_walkVars
<1>1. ASSUME WalkInv, WalkOption PROVE WalkMovesOn
  <2>1. SUFFICES ASSUME known PROVE count < count' /\ count' <= Len(area)
      BY DEF WalkMovesOn
  <2>2. WalkTypeOK /\ Chained /\ Walked
      BY <1>1, <2>1 DEF WalkInv
  <2>3. count \in starts /\ count \in Nat /\ count < Len(area) /\ Len(area) \in Nat
      BY <1>1, <2>2 DEF WalkOption, Inside, Walked, WalkTypeOK
  <2>4. PICK e \in 0 .. Len(area) : FollowedBy(count, e)
      BY <2>2, <2>3 DEF Chained
  <2>5. count' = e
      BY <1>1, <2>2, <2>3, <2>4, OptionLengthIs DEF FollowedBy, WalkOption
  <2> QED
      BY <2>2, <2>3, <2>4, <2>5 DEF FollowedBy, EndsAt, Lasts
<1>2. ASSUME WalkNext, ~WalkOption PROVE WalkMovesOn
    BY <1>2 DEF WalkNext, PutOption, Pad, StartWalk, WalkReturns, NextHeader, AddOption, WalkMovesOn
<1>3. WalkInv /\ [WalkNext]_walkVars => [WalkMovesOn]_walkVars
    BY <1>1, <1>2
<1> QED
    BY <1>3, WalkInvariant, PTL DEF WalkSpec

-----------------------------------------------------------------------------
(* The types of the parts, and all of them side by side                     *)

(* The length byte of an option covers its entries, within 40 bytes.        *)
LEMMA LengthFits ==
    ASSUME NEW k \in Kinds, NEW n \in OptionSizes
    PROVE  LengthByte(k, OptionBytes(k, n)) \in 0 .. 40
<1>1. n \in 8 .. 40 /\ n % 4 = 0
    BY OptionSizeAssumption
<1>2. CASE k = "tsonly"
  <2>1. OptionBytes(k, n) = n
      BY <1>2, Zenon DEF OptionBytes
  <2> QED
      BY <1>1, <1>2, <2>1 DEF LengthByte
<1>3. CASE k \in {"tsandaddr", "tsprespec"}
  <2>1. OptionBytes(k, n) = IF n < 12 THEN 12 ELSE 4 + 8 * ((n - 4) \div 8)
      BY <1>3 DEF OptionBytes
  <2>2. OptionBytes(k, n) \in 0 .. 40
      BY <1>1, <2>1
  <2> QED
      BY <1>3, <2>2 DEF LengthByte
<1>4. CASE k = "rr"
  <2>1. OptionBytes(k, n) = 4 + 4 * ((n - 1) \div 4)
      BY <1>4 DEF OptionBytes
  <2>2. OptionBytes(k, n) \in 4 .. 40
      BY <1>1, <2>1
  <2> QED
      BY <1>4, <2>2 DEF LengthByte
<1> QED
    BY <1>2, <1>3, <1>4 DEF Kinds

(* The entries that fit into an option take at most 36 bytes, and the       *)
(* pointer behind them is at most one past the end.                         *)
LEMMA PointerFits ==
    ASSUME NEW k \in Kinds, NEW n \in Nat, NEW l \in 0 .. 40,
           n = 0 \/ Header(k) + EntryBytes(k, n) <= l
    PROVE  /\ EntryBytes(k, n) \in 0 .. 36
           /\ FirstPointer(k) + EntryBytes(k, n) \in 0 .. 41
<1>1. CASE k = "rr"
    BY <1>1 DEF EntryBytes, Header, FirstPointer
<1>2. CASE k = "tsonly"
    BY <1>2 DEF EntryBytes, Header, FirstPointer
<1>3. CASE k \notin {"rr", "tsonly"}
    BY <1>3 DEF EntryBytes, Header, FirstPointer
<1> QED
    BY <1>1, <1>2, <1>3

(* So it is with the entries that were recorded.                            *)
LEMMA RecordedFits ==
    OptionInv /\ stage # "idle" /\ ipt_len \in 0 .. 40 =>
        /\ EntryBytes(kind, Len(stamps)) \in 0 .. 36
        /\ ipt_ptr \in 0 .. 41
        /\ ipt_ptr = FirstPointer(kind) + EntryBytes(kind, Len(stamps))
<1> SUFFICES ASSUME OptionInv, stage # "idle", ipt_len \in 0 .. 40
             PROVE  /\ EntryBytes(kind, Len(stamps)) \in 0 .. 36
                    /\ ipt_ptr \in 0 .. 41
                    /\ ipt_ptr = FirstPointer(kind) + EntryBytes(kind, Len(stamps))
    OBVIOUS
<1>1. /\ kind \in Kinds /\ stamps \in Seq(Int)
      /\ ipt_ptr = FirstPointer(kind) + EntryBytes(kind, Len(stamps))
      /\ stamps = <<>> \/ Header(kind) + EntryBytes(kind, Len(stamps)) <= ipt_len
    BY DEF OptionInv, OptionShape, Recorded
<1>2. Len(stamps) \in Nat /\ (stamps = <<>> => Len(stamps) = 0)
    BY <1>1
<1>3. /\ EntryBytes(kind, Len(stamps)) \in 0 .. 36
      /\ FirstPointer(kind) + EntryBytes(kind, Len(stamps)) \in 0 .. 41
    BY <1>1, <1>2, PointerFits
<1> QED
    BY <1>1, <1>3

LEMMA RecordedFitsNext ==
    (OptionInv /\ stage # "idle" /\ ipt_len \in 0 .. 40)' => (ipt_ptr \in 0 .. 41)'
<1>1. OptionInv /\ stage # "idle" /\ ipt_len \in 0 .. 40 => ipt_ptr \in 0 .. 41
    BY RecordedFits
<1> QED
    BY <1>1, PTL

LEMMA OptionTypeInit == OptionInit => OptionTypeOK
BY HopAssumption DEF OptionInit, OptionTypeOK, Kinds

LEMMA OptionTypeStep ==
    OptionInv /\ OptionInv' /\ OptionTypeOK /\ [OptionNext]_optionVars => OptionTypeOK'
<1> SUFFICES ASSUME OptionInv, OptionInv', OptionTypeOK, [OptionNext]_optionVars
             PROVE  OptionTypeOK'
    OBVIOUS
<1>0. /\ stage' \in {"idle", "built", "travel", "show", "shown"} /\ kind' \in Kinds
      /\ differences' \in Seq(Int)
    BY DEF OptionInv, OptionShape, Stages
<1>1. CASE BuildOption
  <2>1. ipt_len' \in 0 .. 40
      BY <1>0, <1>1, LengthFits DEF BuildOption
  <2>2. /\ ipt_ptr' \in 0 .. 41 /\ ipt_oflw' \in 0 .. OverflowMax
      BY <1>1, HopAssumption DEF BuildOption, FirstPointer
  <2> QED
      BY <1>0, <1>1, <2>1, <2>2 DEF BuildOption, OptionTypeOK, printing
<1>2. CASE SendOption
  <2>1. /\ ipt_ptr' \in 0 .. 41 /\ ipt_oflw' \in 0 .. OverflowMax
        /\ hops' \in 0 .. MaxHops
        /\ stamps' \in Seq(Times) /\ shown' \in Seq(Times \cup {0})
      BY <1>2, HopAssumption DEF SendOption, FirstPointer
  <2> QED
      BY <1>0, <1>2, <2>1 DEF SendOption, OptionTypeOK
<1>3. CASE Hop
  <2>1. /\ hops' \in 0 .. MaxHops /\ ipt_oflw' \in 0 .. OverflowMax
      BY <1>3, HopAssumption DEF Hop, OptionTypeOK
  <2>2. stamps' \in Seq(Times)
    <3>1. CASE stamps' = stamps
        BY <3>1 DEF OptionTypeOK
    <3>2. CASE \E t \in Times : stamps' = Append(stamps, t)
        BY <3>2 DEF OptionTypeOK
    <3> QED
        BY <1>3, <3>1, <3>2 DEF Hop
  <2>3. stage' # "idle" /\ ipt_len' \in 0 .. 40
      BY <1>3 DEF Hop, OptionTypeOK
  <2>4. ipt_ptr' \in 0 .. 41
      BY <2>3, RecordedFitsNext
  <2> QED
      BY <1>0, <1>3, <2>1, <2>2, <2>3, <2>4 DEF Hop, OptionTypeOK, printing
<1>4. CASE ShowOption
  <2>1. byteCnt' \in 0 .. 36
    <3>1. stage # "idle" /\ ipt_len \in 0 .. 40
        BY <1>4 DEF ShowOption, OptionTypeOK
    <3>2. /\ EntryBytes(kind, Len(stamps)) \in 0 .. 36
          /\ ipt_ptr = FirstPointer(kind) + EntryBytes(kind, Len(stamps))
        BY <3>1, RecordedFits
    <3>3. \A b \in Int : ByteCount(kind, FirstPointer(kind) + b) = b
        BY DEF ByteCount, FirstPointer
    <3>4. byteCnt' = EntryBytes(kind, Len(stamps))
      <4>1. PICK b \in Int : b = EntryBytes(kind, Len(stamps))
          BY <3>2
      <4>2. byteCnt' = ByteCount(kind, FirstPointer(kind) + b)
          BY <1>4, <3>2, <4>1, Zenon DEF ShowOption
      <4> QED
          BY <3>3, <4>1, <4>2
    <3> QED
        BY <3>2, <3>4
  <2>2. delta' \in Nat
      BY <1>4 DEF ShowOption, StartingTimeStamp, AreaLength, OptionTypeOK
  <2> QED
      BY <1>0, <1>4, <2>1, <2>2 DEF ShowOption, OptionTypeOK, option
<1>5. CASE ShowEntry
  <2>1. /\ shown \in Seq(Times \cup {0}) /\ stamps \in Seq(Times) /\ Len(shown) \in Nat
      BY DEF OptionTypeOK
  <2>2. Entry(Len(shown) + 1) \in Times \cup {0}
      BY <2>1 DEF Entry
  <2>3. /\ shown' \in Seq(Times \cup {0}) /\ delta' \in Nat
    <3>1. PICK t \in Times \cup {0} : t = Entry(Len(shown) + 1)
        BY <2>2
    <3>2. shown' = Append(shown, t) /\ delta' = t
        BY <1>5, <3>1 DEF ShowEntry, Previous
    <3> QED
        BY <2>1, <3>2, HopAssumption
  <2>4. byteCnt' \in 0 .. 36
    <3>1. byteCnt' = byteCnt - EntrySize(kind) /\ byteCnt \in 0 .. 36 /\ stage' = "show"
        BY <1>5 DEF ShowEntry, Step, OptionTypeOK
    <3>2. byteCnt' = EntryBytes(kind', Len(stamps') - Len(shown')) /\ Len(shown') <= Len(stamps')
        BY <3>1 DEF OptionInv, Printed
    <3>3. Len(shown') \in Nat /\ Len(stamps') \in Nat
        BY DEF OptionInv, OptionShape
    <3>4. byteCnt' \in Nat
        BY <3>2, <3>3 DEF EntryBytes
    <3> QED
        BY <3>1, <3>4 DEF EntrySize
  <2> QED
      BY <1>0, <1>5, <2>3, <2>4 DEF ShowEntry, OptionTypeOK, option
<1>6. CASE ShowEnd \/ NextReply \/ UNCHANGED optionVars
    BY <1>0, <1>6 DEF ShowEnd, NextReply, optionVars, option, printing, OptionTypeOK
<1> QED
    BY <1>1, <1>2, <1>3, <1>4, <1>5, <1>6 DEF OptionNext

(***************************************************************************)
(* The types of the header option: its pointer stays within or right behind*)
(* the option, and the loop that prints never counts below zero            *)
(* (ipOptionsFun.c:49-90, 112-126).                                        *)
(***************************************************************************)
THEOREM OptionTyped == OptionSpec => []OptionTypeOK
BY OptionInitially, OptionStep, OptionTypeInit, OptionTypeStep, PTL DEF OptionSpec

(* A line that is being loaded is no longer than MaxLine, with what was     *)
(* loaded of it.                                                            *)
RingLines == RingTypeOK /\ loaded + Len(line) <= MaxLine

LEMMA RingTypeInit == RingInit => RingLines
<1> SUFFICES ASSUME RingInit PROVE RingLines
    OBVIOUS
<1>1. RingShape
    BY RingInitInv DEF RingInv
<1>2. line \in Seq(Bytes) /\ Len(line) = 0 /\ loaded = 0
    BY DEF RingInit
<1> QED
    BY <1>1, <1>2, LineAssumption DEF RingShape, RingLines, RingTypeOK

LEMMA RingTypeStep == RingLines /\ [RingNext]_ringVars => RingLines'
<1> SUFFICES ASSUME RingLines, [RingNext]_ringVars PROVE RingLines'
    OBVIOUS
<1>1. RingShape'
    BY RingShapeStep DEF RingShape, RingLines, RingTypeOK
<1>2. /\ line \in Seq(Bytes) /\ Len(line) \in Nat /\ loaded \in Nat
      /\ loaded + Len(line) <= MaxLine /\ MaxLine \in Nat
    BY LineAssumption DEF RingLines, RingTypeOK
<1>3. loaded' \in Nat /\ Len(line') \in Nat /\ loaded' + Len(line') <= MaxLine
  <2>1. CASE NextLine
    <3>1. PICK n \in 1 .. MaxLine : line' \in [1 .. n -> Bytes]
        BY <2>1 DEF NextLine
    <3>2. Len(line') = n
        BY <1>2, <3>1
    <3> QED
        BY <1>2, <2>1, <3>2 DEF NextLine
  <2>2. CASE Load
    <3>1. CASE Full
      <4>1. line' = <<>> /\ loaded' = loaded
          BY <2>2, <3>1 DEF Load
      <4>2. Len(line') = 0
          BY <4>1
      <4> QED
          BY <1>2, <4>1, <4>2
    <3>2. CASE ~Full
      <4>1. line # <<>> /\ line' = Tail(line) /\ loaded' = loaded + 1
          BY <2>2, <3>2 DEF Load
      <4>2. Len(line') = Len(line) - 1 /\ Len(line) >= 1
          BY <1>2, <4>1
      <4> QED
          BY <1>2, <4>1, <4>2
    <3> QED
        BY <3>1, <3>2
  <2>3. CASE Take \/ UNCHANGED ringVars
      BY <1>2, <2>3 DEF Take, ringVars
  <2> QED
      BY <2>1, <2>2, <2>3 DEF RingNext
<1> QED
    BY <1>1, <1>2, <1>3 DEF RingShape, RingLines, RingTypeOK

LEMMA RingTyped == RingSpec => []RingTypeOK
<1>1. RingLines => RingTypeOK
    BY DEF RingLines
<1> QED
    BY <1>1, RingTypeInit, RingTypeStep, PTL DEF RingSpec

-----------------------------------------------------------------------------
(* The parts share no variables: a behaviour of all of them side by side is *)
(* one of each.                                                             *)
libraryVars == <<part, optionsVars, payloadVars, checksumVars, optionVars, walkVars,
                 clockVars, statsVars, ringVars, argumentVars>>

LEMMA PartsBegin ==
    MCInit => /\ OptionsInit /\ PayloadInit /\ ChecksumInit /\ OptionInit /\ WalkInit
              /\ ClockInit /\ StatsInit /\ RingInit /\ ArgumentInit
BY Zenon DEF MCInit

LEMMA PartsStep ==
    ASSUME [MCNext]_libraryVars
    PROVE  /\ [OptionsNext]_optionsVars /\ [PayloadNext]_payloadVars
           /\ [ChecksumNext]_checksumVars /\ [OptionNext]_optionVars
           /\ [WalkNext]_walkVars /\ [ClockNext]_clockVars /\ [StatsNext]_statsVars
           /\ [RingNext]_ringVars /\ [ArgumentNext]_argumentVars
<1>1. CASE MCNext
    BY <1>1 DEF MCNext
<1>2. CASE UNCHANGED libraryVars
    BY <1>2 DEF libraryVars
<1> QED
    BY <1>1, <1>2

(***************************************************************************)
(* The parts that ping3.c calls one after the other keep no variable in    *)
(* common (ping3.c, genFun.c, ipFun.c, ipOptionsFun.c, timeFun.c): a       *)
(* behaviour of the library is one of every part.                          *)
(***************************************************************************)
THEOREM LibraryIsItsParts ==
    MCSpec => /\ OptionsSpec /\ PayloadSpec /\ ChecksumSpec /\ OptionSpec /\ WalkSpec
              /\ ClockSpec /\ StatsSpec /\ RingSpec /\ ArgumentSpec
<1>1. [MCNext]_libraryVars =>
           /\ [OptionsNext]_optionsVars /\ [PayloadNext]_payloadVars
           /\ [ChecksumNext]_checksumVars /\ [OptionNext]_optionVars
           /\ [WalkNext]_walkVars /\ [ClockNext]_clockVars /\ [StatsNext]_statsVars
           /\ [RingNext]_ringVars /\ [ArgumentNext]_argumentVars
    BY PartsStep
<1>2. MCSpec => MCInit /\ [][MCNext]_libraryVars /\ WalkFairness
    BY DEF MCSpec, libraryVars
<1> QED
    BY <1>1, <1>2, PartsBegin, PTL
       DEF OptionsSpec, PayloadSpec, ChecksumSpec, OptionSpec, WalkSpec, ClockSpec,
           StatsSpec, RingSpec, ArgumentSpec

(***************************************************************************)
(* Every variable of every part keeps its type, whatever the lengths, the  *)
(* numbers, the words and the replies.                                     *)
(***************************************************************************)
THEOREM LibraryTyped == MCSpec => []LibraryTypeOK
<1>1. /\ PayloadInv => PayloadTypeOK
      /\ ChecksumInv => ChecksumTypeOK
      /\ WalkInv => WalkTypeOK
      /\ ClockInv => ClockTypeOK
      /\ StatsInv => StatsTypeOK
    BY Zenon DEF PayloadInv, Shape, ChecksumInv, WalkInv, ClockInv, StatsInv
<1>2. /\ OptionsTypeOK /\ PayloadTypeOK /\ ChecksumTypeOK /\ OptionTypeOK /\ WalkTypeOK
      /\ ClockTypeOK /\ StatsTypeOK /\ RingTypeOK /\ ArgumentTypeOK
      => LibraryTypeOK
    BY Zenon DEF LibraryTypeOK
<1> QED
    BY <1>1, <1>2, LibraryIsItsParts, OptionsTyped, PayloadInvariant, ChecksumInvariant,
       OptionTyped, WalkInvariant, ClockInvariant, StatsInvariant, RingTyped,
       ArgumentsTyped, PTL
=============================================================================
