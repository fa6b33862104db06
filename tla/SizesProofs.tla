---------------------------- MODULE SizesProofs -----------------------------
(***************************************************************************)
(* The payload sweep stays in its range and every message fits the         *)
(* transmit buffer, for every command line.                                *)
(***************************************************************************)
EXTENDS Sizes, TLAPS

LEMMA PairExtremes ==
    ASSUME NEW a \in Int, NEW b \in Int
    PROVE  /\ Max({a, b}) = IF a > b THEN a ELSE b
           /\ Min({a, b}) = IF a < b THEN a ELSE b
<1>1. Max({a, b}) = IF a > b THEN a ELSE b
  <2>1. \E x \in {a, b} : \A y \in {a, b} : x >= y
    OBVIOUS
  <2>2. Max({a, b}) \in {a, b} /\ \A y \in {a, b} : Max({a, b}) >= y
    BY <2>1 DEF Max
  <2> QED BY <2>2
<1>2. Min({a, b}) = IF a < b THEN a ELSE b
  <2>1. \E x \in {a, b} : \A y \in {a, b} : x =< y
    OBVIOUS
  <2>2. Min({a, b}) \in {a, b} /\ \A y \in {a, b} : Min({a, b}) =< y
    BY <2>1 DEF Min
  <2> QED BY <2>2
<1> QED BY <1>1, <1>2

(* At most four devices are counted.                                        *)
LEMMA LeadingBound ==
    ASSUME NEW devices, Len(devices) \in 0 .. 4, NEW kinds
    PROVE  Leading(devices, kinds) \in 0 .. 4
<1> DEFINE S == {k \in 0 .. Len(devices) : \A i \in 1 .. k : devices[i] \in kinds}
<1>1. Len(devices) \in 0 .. 4
  OBVIOUS
<1>2. 0 \in S /\ S \subseteq {0, 1, 2, 3, 4}
  BY <1>1
<1> HIDE DEF S
<1>3. \E x \in S : \A y \in S : x >= y
  <2>1. CASE 4 \in S
    BY <1>2, <2>1
  <2>2. CASE 4 \notin S /\ 3 \in S
    BY <1>2, <2>2
  <2>3. CASE 4 \notin S /\ 3 \notin S /\ 2 \in S
    BY <1>2, <2>3
  <2>4. CASE 4 \notin S /\ 3 \notin S /\ 2 \notin S
    BY <1>2, <2>4
  <2> QED BY <2>1, <2>2, <2>3, <2>4
<1>4. Max(S) \in S
  BY <1>3 DEF Max
<1> QED BY <1>2, <1>4 DEF Leading, S

(* The parts of a command line.                                             *)
LEMMA CommandLineParts ==
    ASSUME NEW c \in CommandLines
    PROVE  /\ c.T \in {"off", "tsonly", "tsandaddr", "tsprespec", "unknown"}
           /\ Len(c.devices) \in 0 .. 4
           /\ c.M \in {"echo", "mask", "time"}
           /\ Len(c.l) # 0 => c.l[1] \in Int
           /\ Len(c.s) \in 0 .. 3
           /\ Len(c.s) # 0 => c.s[1] \in Int
           /\ Len(c.s) >= 2 => c.s[2] \in Int
           /\ Len(c.s) = 3 => c.s[3] \in Int
<1>1. /\ c.T \in {"off", "tsonly", "tsandaddr", "tsprespec", "unknown"}
      /\ Len(c.devices) \in 0 .. 4
      /\ c.M \in {"echo", "mask", "time"}
  BY CommandLineAssumption
<1> DEFINE l == c.l
           s == c.s
<1>2. l \in Seq(Int) /\ Len(l) \in 0 .. 1 /\ s \in Seq(Int) /\ Len(s) \in 0 .. 3
  BY CommandLineAssumption
<1>3. Len(l) # 0 => l[1] \in Int
  <2> HIDE DEF l
  <2> QED BY <1>2
<1>4. /\ Len(s) # 0 => s[1] \in Int
      /\ Len(s) >= 2 => s[2] \in Int
      /\ Len(s) = 3 => s[3] \in Int
  <2> HIDE DEF s
  <2> QED BY <1>2
<1> QED BY <1>1, <1>2, <1>3, <1>4

(* The option fits the 40 bytes that an IPv4 header can have.               *)
LEMMA OptionSizeBound ==
    ASSUME NEW c \in CommandLines
    PROVE  OptionSize(c) \in 0 .. MaxOption
<1> DEFINE given == IF Len(c.l) = 0 THEN 0 ELSE LengthGiven(c)
           default(n) == IF Len(c.l) = 0 THEN n ELSE given
           prespec == PrespecSize(Leading(c.devices, {"good", "zero"}))
<1>1. given \in 0 .. MaxOption
  <2>1. ASSUME Len(c.l) # 0 PROVE LengthGiven(c) \in 8 .. MaxOption
    <3> DEFINE words == (c.l[1] + 3) \div 4
    <3>1. c.l[1] \in Int
      BY <2>1, CommandLineParts
    <3>2. words \in Int
      BY <3>1
    <3> HIDE DEF words
    <3>3. LengthGiven(c) = Clamp(4 * words, 8, MaxOption)
      BY DEF LengthGiven, words
    <3> QED BY <3>2, <3>3 DEF Clamp, MaxOption
  <2>2. CASE Len(c.l) = 0
    BY <2>2 DEF MaxOption
  <2>3. CASE Len(c.l) # 0
    <3>1. given = LengthGiven(c) /\ LengthGiven(c) \in 8 .. MaxOption
      BY <2>1, <2>3
    <3> HIDE DEF given
    <3> QED BY <3>1 DEF MaxOption
  <2> QED BY <2>2, <2>3
<1>2. default(40) \in 0 .. MaxOption /\ default(36) \in 0 .. MaxOption
  BY <1>1 DEF MaxOption
<1>3. prespec \in 0 .. MaxOption
  <2>1. Leading(c.devices, {"good", "zero"}) \in 0 .. 4
    BY LeadingBound, CommandLineParts
  <2> QED BY <2>1 DEF PrespecSize, MaxOption
<1>4. c.T \in {"off", "tsonly", "tsandaddr", "tsprespec", "unknown"}
  BY CommandLineParts
<1>5. OptionSize(c) \in {40, given, default(40), default(36), prespec, 0}
  BY <1>4 DEF OptionSize, MaxOption
<1> HIDE DEF given, default, prespec
<1> QED BY <1>1, <1>2, <1>3, <1>5 DEF MaxOption

LEMMA PayloadSizes ==
    ASSUME NEW c \in CommandLines
    PROVE  /\ FirstSize(c) \in Nat
           /\ SecondSize(c) \in Nat
           /\ MessageSize(c) \in {8, 12, 20}
<1>1. MessageSize(c) \in {8, 12, 20}
  BY CommandLineParts DEF MessageSize, IcmpHdr
<1>2. ASSUME NEW n \in Int PROVE Payload(n, c) \in Nat
  <2>1. MaxPacket - (StdHdr + OptionSize(c) + MessageSize(c)) \in Nat
    BY <1>1, OptionSizeBound, PacketAssumption DEF MaxOption, StdHdr
  <2> QED BY <2>1 DEF Payload, Clamp
<1> DEFINE chosen == IF Len(c.s) = 0 THEN DefaultPayload ELSE c.s[1]
<1>3. FirstSize(c) \in Nat
  <2>1. chosen \in Int
    <3>1. CASE Len(c.s) = 0
      BY <3>1 DEF DefaultPayload
    <3>2. CASE Len(c.s) # 0
      BY <3>2, CommandLineParts
    <3> QED BY <3>1, <3>2
  <2>2. FirstSize(c) = Payload(chosen, c)
    BY DEF FirstSize
  <2> HIDE DEF chosen
  <2> QED BY <1>2, <2>1, <2>2
<1>4. SecondSize(c) \in Nat
  <2>1. CASE Len(c.s) >= 2
    <3>1. c.s[2] \in Int
      BY <2>1, CommandLineParts
    <3>2. SecondSize(c) = Payload(c.s[2], c)
      BY <2>1 DEF SecondSize
    <3> QED BY <1>2, <3>1, <3>2
  <2>2. CASE ~(Len(c.s) >= 2)
    <3>1. SecondSize(c) \in {FirstSize(c), 0}
      BY <2>2 DEF SecondSize
    <3> QED BY <1>3, <3>1
  <2> QED BY <2>1, <2>2
<1> QED BY <1>1, <1>3, <1>4

(* The step never exceeds the distance, and points to the second size.      *)
LEMMA StepSizeBound ==
    ASSUME NEW c \in CommandLines
    PROVE  /\ StepSize(c) \in Int
           /\ Magnitude(StepSize(c)) <= Magnitude(FirstSize(c) - SecondSize(c))
           /\ StepSize(c) > 0 => FirstSize(c) < SecondSize(c)
           /\ StepSize(c) < 0 => FirstSize(c) > SecondSize(c)
<1> DEFINE wanted == IF Len(c.s) = 3 THEN Magnitude(c.s[3]) ELSE 1
           distance == Magnitude(FirstSize(c) - SecondSize(c))
           stride == Min({wanted, distance})
<1>1. FirstSize(c) \in Nat /\ SecondSize(c) \in Nat
  BY PayloadSizes
<1>2. wanted \in Nat
  BY CommandLineParts DEF Magnitude
<1>3. distance \in Nat /\ (distance = 0 <=> FirstSize(c) = SecondSize(c))
  BY <1>1 DEF Magnitude
<1>4. StepSize(c) = IF Len(c.s) < 2 THEN 0
                    ELSE IF FirstSize(c) < SecondSize(c) THEN stride ELSE -stride
  BY DEF StepSize
<1> HIDE DEF wanted, distance
<1>5. stride \in Nat /\ stride <= distance
  <2>1. stride = IF wanted < distance THEN wanted ELSE distance
    BY <1>2, <1>3, PairExtremes
  <2> QED BY <1>2, <1>3, <2>1
<1> HIDE DEF stride
<1> QED BY <1>1, <1>3, <1>4, <1>5 DEF Magnitude, distance

-----------------------------------------------------------------------------
(* What the steps rely on: the sizes and the step are numbers, and the      *)
(* transmit buffer holds the larger size.                                   *)
SizesInv ==
    /\ cl \in CommandLines
    /\ first \in Nat /\ second \in Nat /\ step \in Int /\ size \in Int
    /\ icmpHdrID \in Nat
    /\ txICMP_BfrSize = MessageSize(cl) + Max({first, second})
    /\ SweepInv

LEMMA SizesInit == Init => SizesInv
<1> SUFFICES ASSUME Init PROVE SizesInv
  OBVIOUS
<1>1. /\ cl \in CommandLines /\ first = FirstSize(cl) /\ second = SecondSize(cl)
      /\ step = StepSize(cl) /\ size = FirstSize(cl)
      /\ icmpHdrID = 0 /\ txICMP_BfrSize = BufferSize(cl)
  BY DEF Init, first, second, step, size
<1>2. first \in Nat /\ second \in Nat /\ step \in Int /\ size \in Int
  BY <1>1, PayloadSizes, StepSizeBound
<1>3. SweepInv
  <2>1. /\ Magnitude(step) <= Magnitude(first - second)
        /\ step > 0 => first < second
        /\ step < 0 => first > second
    BY <1>1, StepSizeBound
  <2>2. /\ Max({first, second}) = IF first > second THEN first ELSE second
        /\ Min({first, second}) = IF first < second THEN first ELSE second
    BY <1>2, PairExtremes
  <2> QED BY <1>1, <1>2, <2>1, <2>2 DEF SweepInv, Outside
<1> QED BY <1>1, <1>2, <1>3 DEF SizesInv, BufferSize

(* One move of the sweep, at any request number.                            *)
LEMMA SweepKeepsRange ==
    ASSUME first \in Nat, second \in Nat, step \in Int, size \in Int, SweepInv,
           NEW id \in Nat
    PROVE  LET s == Sweep(id).size
               d == Sweep(id).step
           IN  /\ s \in Int /\ d \in Int
               /\ ~Outside(s)
               /\ Magnitude(d) <= Magnitude(first - second)
               /\ d > 0 => s = Min({first, second}) \/ s - d >= Min({first, second})
               /\ d < 0 => s = Max({first, second}) \/ s - d <= Max({first, second})
<1> DEFINE lo == Min({first, second})
           hi == Max({first, second})
<1>1. /\ lo \in Int /\ hi \in Int /\ Magnitude(first - second) = hi - lo
  BY PairExtremes DEF Magnitude
<1> HIDE DEF lo, hi
<1>2. /\ lo <= size /\ size <= hi
      /\ step <= hi - lo /\ -step <= hi - lo
      /\ step > 0 => size = lo \/ size - step >= lo
      /\ step < 0 => size = hi \/ size - step <= hi
  BY <1>1 DEF SweepInv, Outside, Magnitude, lo, hi
<1>3. \A n \in Int : Outside(n) <=> n < lo \/ n > hi
  BY DEF Outside, lo, hi
<1> DEFINE moved == IF id = 1 THEN size ELSE size + step
<1>4. moved \in Int
  OBVIOUS
<1>5. Sweep(id) = IF Outside(moved) THEN [size |-> moved - 2 * step, step |-> -step]
                                    ELSE [size |-> moved, step |-> step]
  BY DEF Sweep
<1>6. CASE Outside(moved)
  <2>1. moved = size + step /\ Sweep(id).size = size - step /\ Sweep(id).step = -step
    BY <1>1, <1>2, <1>3, <1>5, <1>6
  <2>2. lo <= size - step /\ size - step <= hi
    BY <1>1, <1>2, <1>3, <1>6, <2>1
  <2>3. /\ -step > 0 => (size - step) - (-step) >= lo
        /\ -step < 0 => (size - step) - (-step) <= hi
    BY <1>1, <1>2
  <2> QED BY <1>1, <1>2, <1>3, <2>1, <2>2, <2>3 DEF Magnitude, lo, hi
<1>7. CASE ~Outside(moved)
  <2>1. Sweep(id).size = moved /\ Sweep(id).step = step
    BY <1>5, <1>7
  <2>2. /\ step > 0 => moved = lo \/ moved - step >= lo
        /\ step < 0 => moved = hi \/ moved - step <= hi
    BY <1>1, <1>2
  <2> QED BY <1>4, <1>7, <2>1, <2>2 DEF SweepInv, lo, hi
<1> QED BY <1>6, <1>7

LEMMA SizesStep == SizesInv /\ [Next]_vars => SizesInv'
<1> SUFFICES ASSUME SizesInv, [Next]_vars PROVE SizesInv'
  OBVIOUS
<1>1. CASE SendPing
  <2>1. UNCHANGED <<cl, first, second, txICMP_BfrSize>>
    BY <1>1 DEF SendPing, fixed
  <2>2. icmpHdrID' \in Nat
    BY <1>1, SequenceAssumption DEF SendPing, SizesInv
  <2>3. CASE Len(cl.s) # 0 /\ first # second
    <3>1. size' = Sweep(icmpHdrID').size /\ step' = Sweep(icmpHdrID').step
      BY <1>1, <2>3 DEF SendPing, size, step
    <3> QED BY <2>1, <2>2, <3>1, SweepKeepsRange DEF SizesInv, SweepInv, Outside
  <2>4. CASE ~(Len(cl.s) # 0 /\ first # second)
    <3>1. UNCHANGED <<size, step>>
      BY <1>1, <2>4 DEF SendPing, size, step
    <3> QED BY <2>1, <2>2, <3>1 DEF SizesInv, SweepInv, Outside
  <2> QED BY <2>3, <2>4
<1>2. CASE UNCHANGED vars
  BY <1>2 DEF vars, fixed, SizesInv, SweepInv, Outside, first, second, step, size
<1> QED BY <1>1, <1>2 DEF Next

(***************************************************************************)
(* The payload size of -s stays between its two ends.                      *)
(***************************************************************************)
THEOREM SweepStaysInRange == Spec => []SizeInRange
<1>1. SizesInv => SizeInRange
  BY DEF SizesInv, SweepInv, SizeInRange
<1> QED BY <1>1, SizesInit, SizesStep, PTL DEF Spec

(***************************************************************************)
(* No message is longer than the transmit buffer it is built in.           *)
(***************************************************************************)
THEOREM MessagesFit == Spec => []MessageFits
<1>1. SizesInv => MessageFits
  <2> SUFFICES ASSUME SizesInv PROVE MessageFits
    OBVIOUS
  <2>1. size <= Max({first, second}) /\ Max({first, second}) \in Nat
    BY PairExtremes DEF SizesInv, SweepInv, Outside
  <2>2. cl.M \in {"echo", "mask", "time"}
    BY CommandLineParts DEF SizesInv
  <2> QED BY <2>1, <2>2 DEF SizesInv, MessageFits, MessageLength, MessageSize, IcmpHdr
<1> QED BY <1>1, SizesInit, SizesStep, PTL DEF Spec

-----------------------------------------------------------------------------
(* The option, whose size the requests change, and the receive buffer.      *)

LEMMA AdjustedBound ==
    ASSUME NEW c \in CommandLines, NEW n \in 0 .. MaxOption
    PROVE  AdjustedOption(c, n) \in 0 .. MaxOption
<1>1. Leading(c.devices, {"good"}) \in 0 .. 4
  BY LeadingBound, CommandLineParts
<1>2. PrespecSize(Leading(c.devices, {"good"})) \in 0 .. MaxOption
  BY <1>1 DEF PrespecSize, MaxOption
<1>3. /\ (IF n < 12 THEN 12 ELSE 4 + 8 * ((n - 4) \div 8)) \in 0 .. MaxOption
      /\ (IF n < 8 THEN 8 ELSE 4 + 4 * ((n - 1) \div 4)) \in 0 .. MaxOption
  BY DEF MaxOption
<1>4. AdjustedOption(c, n) \in
          {PrespecSize(Leading(c.devices, {"good"})),
           IF n < 12 THEN 12 ELSE 4 + 8 * ((n - 4) \div 8), n,
           IF n < 8 THEN 8 ELSE 4 + 4 * ((n - 1) \div 4)}
  BY DEF AdjustedOption
<1> QED BY <1>2, <1>3, <1>4

(* With neither -l nor a device 0.0.0.0 the size of the option is settled   *)
(* when the buffers are allocated: what goes out is no longer.              *)
Default(c) == Len(c.l) = 0 /\ \A i \in DOMAIN c.devices : c.devices[i] # "zero"
Rounded(c) == c.R = "off" /\ c.T = "tsandaddr" /\ Default(c)

LEMMA DefaultSize ==
    ASSUME NEW c \in CommandLines, Default(c), NEW n \in 0 .. MaxOption,
           Rounded(c) => n = 36
    PROVE  /\ OptionOnWire(c, n) <= OptionSize(c)
           /\ Rounded(c) => OptionSize(c) = 36 /\ AdjustedOption(c, n) = 36
<1>1. Len(c.l) = 0 /\ c.T \in {"off", "tsonly", "tsandaddr", "tsprespec", "unknown"}
      /\ c.R \in {"off", "on"}
  BY CommandLineParts, CommandLineAssumption DEF Default
<1>2. AdjustedOption(c, n) \in 0 .. MaxOption
  BY AdjustedBound
<1>3. CASE c.R = "on"
  <2>1. OptionSize(c) = MaxOption
    BY <1>1, <1>3 DEF OptionSize
  <2> QED BY <1>2, <1>3, <2>1 DEF OptionOnWire, Rounded, MaxOption
<1>4. CASE c.R = "off" /\ c.T \in {"off", "unknown"}
  <2>1. OptionOnWire(c, n) = 0
    BY <1>4 DEF OptionOnWire, TimeStamped
  <2> QED BY <1>4, <2>1, OptionSizeBound DEF Rounded, MaxOption
<1>5. CASE c.R = "off" /\ c.T = "tsonly"
  <2>1. OptionSize(c) = MaxOption
    BY <1>1, <1>5 DEF OptionSize
  <2> QED BY <1>2, <1>5, <2>1 DEF OptionOnWire, Rounded, MaxOption
<1>6. CASE c.R = "off" /\ c.T = "tsandaddr"
  <2>1. OptionSize(c) = 36
    BY <1>1, <1>6 DEF OptionSize, MaxOption
  <2>2. n = 36 /\ AdjustedOption(c, n) = 36
    BY <1>6 DEF Rounded, AdjustedOption
  <2> QED BY <1>6, <2>1, <2>2 DEF OptionOnWire, TimeStamped
<1>7. CASE c.R = "off" /\ c.T = "tsprespec"
  <2>1. OptionSize(c) = PrespecSize(Leading(c.devices, {"good", "zero"}))
    BY <1>1, <1>7 DEF OptionSize
  <2>2. OptionOnWire(c, n) = PrespecSize(Leading(c.devices, {"good"}))
    BY <1>7 DEF OptionOnWire, TimeStamped, AdjustedOption
  <2>3. Leading(c.devices, {"good", "zero"}) = Leading(c.devices, {"good"})
    <3> DEFINE d == c.devices
    <3>1. d \in Seq({"good", "zero", "bad"})
      BY CommandLineAssumption
    <3>2. \A i \in DOMAIN d : d[i] # "zero"
      BY DEF Default
    <3> HIDE DEF d
    <3>3. \A k \in 0 .. Len(d) :
            (\A i \in 1 .. k : d[i] \in {"good", "zero"}) <=> (\A i \in 1 .. k : d[i] \in {"good"})
      BY <3>1, <3>2
    <3>4. {k \in 0 .. Len(d) : \A i \in 1 .. k : d[i] \in {"good", "zero"}}
            = {k \in 0 .. Len(d) : \A i \in 1 .. k : d[i] \in {"good"}}
      BY <3>3
    <3> QED BY <3>4 DEF Leading, d
  <2>4. OptionSize(c) \in 0 .. MaxOption
    BY OptionSizeBound
  <2> QED BY <1>7, <2>1, <2>2, <2>3, <2>4 DEF Rounded, MaxOption
<1> QED BY <1>1, <1>3, <1>4, <1>5, <1>6, <1>7

BufferInv ==
    /\ SizesInv
    /\ icmpHdrID \in 0 .. SeqMod - 1
    /\ ip4_HdrOptionSize \in 0 .. MaxOption
    /\ Rounded(cl) => ip4_HdrOptionSize = 36
    /\ rxIPv4_BfrSize = txICMP_BfrSize + StdHdr + OptionSize(cl)
    /\ datagram \in Nat
    /\ Default(cl) => datagram <= rxIPv4_BfrSize

(* The lengths of messages, whatever the sweep has come to.                 *)
LEMMA LengthBound ==
    ASSUME SizesInv
    PROVE  /\ MessageLength(cl, size) \in Nat
           /\ txICMP_BfrSize \in Nat
           /\ MessageLength(cl, size) <= txICMP_BfrSize
<1>1. size <= Max({first, second}) /\ Max({first, second}) \in Nat /\ size \in Nat
  BY PairExtremes DEF SizesInv, SweepInv, Outside
<1>2. cl.M \in {"echo", "mask", "time"}
  BY CommandLineParts DEF SizesInv
<1> QED BY <1>1, <1>2 DEF SizesInv, MessageLength, MessageSize, IcmpHdr

(* The same bound in the state after a step.                               *)
LengthFits ==
  /\ MessageLength(cl, size) \in Nat
  /\ txICMP_BfrSize \in Nat
  /\ MessageLength(cl, size) <= txICMP_BfrSize

LEMMA LengthBoundNext == SizesInv' => LengthFits'
<1>1. SizesInv => LengthFits
  BY LengthBound DEF LengthFits
<1> QED BY <1>1, PTL

LEMMA BufferInit == Init => BufferInv
<1> SUFFICES ASSUME Init PROVE BufferInv
  OBVIOUS
<1>1. SizesInv /\ cl \in CommandLines
  BY SizesInit DEF Init
<1>2. /\ ip4_HdrOptionSize = OptionSize(cl) /\ datagram = 0 /\ icmpHdrID = 0
      /\ txICMP_BfrSize = BufferSize(cl)
      /\ rxIPv4_BfrSize = BufferSize(cl) + StdHdr + OptionSize(cl)
  BY DEF Init, ReceiveBufferSize
<1>3. OptionSize(cl) \in 0 .. MaxOption /\ txICMP_BfrSize \in Nat
  BY <1>1, OptionSizeBound, LengthBound
<1>4. Rounded(cl) => ip4_HdrOptionSize = 36
  <2> SUFFICES ASSUME Rounded(cl) PROVE OptionSize(cl) = 36
    BY <1>2
  <2> QED BY DEF Rounded, Default, OptionSize, MaxOption
<1> QED BY <1>1, <1>2, <1>3, <1>4, SequenceAssumption DEF BufferInv, StdHdr, MaxOption

LEMMA BufferStep == BufferInv /\ [Next]_vars => BufferInv'
<1> SUFFICES ASSUME BufferInv, [Next]_vars PROVE BufferInv'
  OBVIOUS
<1>1. SizesInv' /\ cl \in CommandLines
  BY SizesStep DEF BufferInv, SizesInv
<1>2. CASE SendPing
  <2>1. /\ UNCHANGED <<cl, txICMP_BfrSize, rxIPv4_BfrSize>>
        /\ icmpHdrID' = (icmpHdrID + 1) % SeqMod
        /\ ip4_HdrOptionSize' = AdjustedOption(cl, ip4_HdrOptionSize)
        /\ datagram' = StdHdr + OptionOnWire(cl, ip4_HdrOptionSize)
                              + MessageLength(cl, size')
    BY <1>2 DEF SendPing, fixed, size
  <2>2. /\ ip4_HdrOptionSize \in 0 .. MaxOption
        /\ ip4_HdrOptionSize' \in 0 .. MaxOption
    BY <1>1, <2>1, AdjustedBound DEF BufferInv
  <2>3. OptionOnWire(cl, ip4_HdrOptionSize) \in 0 .. MaxOption
    BY <2>1, <2>2 DEF OptionOnWire, MaxOption
  <2>4. /\ MessageLength(cl, size') \in Nat /\ txICMP_BfrSize \in Nat
        /\ MessageLength(cl, size') <= txICMP_BfrSize
    BY <1>1, <2>1, LengthBoundNext DEF LengthFits
  <2>5. datagram' \in Nat
    BY <2>1, <2>3, <2>4 DEF StdHdr, MaxOption
  <2>6. Default(cl) => OptionOnWire(cl, ip4_HdrOptionSize) <= OptionSize(cl)
    BY <1>1, <2>2, DefaultSize DEF BufferInv
  <2>7. Default(cl) => datagram' <= rxIPv4_BfrSize'
    <3>1. OptionSize(cl) \in 0 .. MaxOption
      BY <1>1, OptionSizeBound
    <3> QED BY <2>1, <2>3, <2>4, <2>6, <3>1 DEF BufferInv, StdHdr, MaxOption
  <2>8. Rounded(cl) => ip4_HdrOptionSize' = 36
    BY <1>1, <2>1, <2>2, DefaultSize DEF BufferInv, Rounded
  <2>9. icmpHdrID' \in 0 .. SeqMod - 1
    BY <2>1, SequenceAssumption DEF BufferInv
  <2> QED BY <1>1, <2>1, <2>2, <2>5, <2>7, <2>8, <2>9 DEF BufferInv
<1>3. CASE UNCHANGED vars
  BY <1>1, <1>3 DEF vars, fixed, BufferInv
<1> QED BY <1>2, <1>3 DEF Next

(***************************************************************************)
(* Type correctness, for every command line.                               *)
(***************************************************************************)
THEOREM SizesTypeCorrect == Spec => []TypeOK
<1>1. BufferInv => TypeOK
  <2> SUFFICES ASSUME BufferInv PROVE TypeOK
    OBVIOUS
  <2>1. txICMP_BfrSize \in Nat /\ OptionSize(cl) \in 0 .. MaxOption
    BY LengthBound, OptionSizeBound DEF BufferInv, SizesInv
  <2> QED BY <2>1 DEF BufferInv, SizesInv, TypeOK, StdHdr, MaxOption
<1> QED BY <1>1, BufferInit, BufferStep, PTL DEF Spec

(***************************************************************************)
(* Replies fit the receive buffer where the option is not resized upwards  *)
(* (ping3.c:783, 818, 1295).                                               *)
(***************************************************************************)
THEOREM RepliesFitByDefault == Spec => []ReplyFitsByDefault
<1>1. BufferInv => ReplyFitsByDefault
  BY DEF BufferInv, Default, ReplyFitsByDefault
<1> QED BY <1>1, BufferInit, BufferStep, PTL DEF Spec
=============================================================================
