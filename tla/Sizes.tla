------------------------------- MODULE Sizes --------------------------------
(***************************************************************************)
(* The lengths that ping3 computes once from the command line and then     *)
(* relies on for every request: the payload sweep of -s, the IPv4 header   *)
(* option of -l, -T and -R, the message type of -M, and the transmit and   *)
(* receive buffers allocated for them (processCommandLineOptions()).  Each *)
(* sendPing() moves the payload size and may change the option size.       *)
(***************************************************************************)
EXTENDS Integers, Sequences, FiniteSetsExt

CONSTANTS
    MaxPacket,      \* MAX_IP4_PACKET_LEN
    SeqMod,         \* range of the u_short icmpHdrID
    CommandLines    \* what the user may choose, as records (see below)

ASSUME PacketAssumption == MaxPacket \in Nat /\ MaxPacket >= 80
ASSUME SequenceAssumption == SeqMod \in Nat /\ SeqMod > 1
(* A device named after tsprespec resolves to an address ("good"), to       *)
(* 0.0.0.0 ("zero"), or not at all ("bad"); the arguments of -l and -s are  *)
(* lists of numbers, empty when the option is not given.                    *)
ASSUME CommandLineAssumption ==
    \A c \in CommandLines :
        /\ c.T \in {"off", "tsonly", "tsandaddr", "tsprespec", "unknown"}
        /\ c.R \in {"off", "on"}
        /\ c.M \in {"echo", "mask", "time"}
        /\ c.devices \in Seq({"good", "zero", "bad"}) /\ Len(c.devices) \in 0 .. 4
        /\ c.l \in Seq(Int) /\ Len(c.l) \in 0 .. 1
        /\ c.s \in Seq(Int) /\ Len(c.s) \in 0 .. 3

StdHdr == 20            \* STD_IP4_HDR_LEN
MaxOption == 40         \* MAX_IP4_HDR_OPTION_LEN
IcmpHdr == 8            \* ICMP_HDR_LEN
DefaultPayload == 56    \* DEFAULT_ICMP_EXTRA_DATA

Clamp(v, lo, hi) == IF v < lo THEN lo ELSE IF v > hi THEN hi ELSE v
Magnitude(a) == IF a < 0 THEN -a ELSE a

VARIABLES
    cl,                         \* the command line
    icmpFirstExtraDataSizeValue, icmpSecondExtraDataSizeValue,
    icmpStepExtraDataSizeValue, icmpExtraDataSizeValue,
    ip4_HdrOptionSize,
    txICMP_BfrSize, rxIPv4_BfrSize,
    icmpHdrID,
    datagram                    \* length of the last request, 0 before it

first == icmpFirstExtraDataSizeValue
second == icmpSecondExtraDataSizeValue
step == icmpStepExtraDataSizeValue
size == icmpExtraDataSizeValue
fixed == <<cl, first, second, txICMP_BfrSize, rxIPv4_BfrSize>>
vars == <<fixed, step, size, ip4_HdrOptionSize, icmpHdrID, datagram>>

-----------------------------------------------------------------------------
(* processCommandLineOptions()                                              *)

(* How many devices, from the first on, are of these kinds.                 *)
Leading(devices, kinds) ==
    Max({k \in 0 .. Len(devices) : \A i \in 1 .. k : devices[i] \in kinds})

(* Option header, and 8 bytes for each of n devices; the target and the     *)
(* local host if there is none.                                             *)
PrespecSize(n) == IF n = 0 THEN 20 ELSE 4 + 8 * n

LengthGiven(c) == Clamp(4 * ((c.l[1] + 3) \div 4), 8, MaxOption)

OptionSize(c) ==
    LET given == IF Len(c.l) = 0 THEN 0 ELSE LengthGiven(c)
        default(n) == IF Len(c.l) = 0 THEN n ELSE given
        timed == [off |-> given,
                  tsonly |-> default(MaxOption),
                  tsandaddr |-> default(MaxOption - 4),
                  tsprespec |-> PrespecSize(Leading(c.devices, {"good", "zero"})),
                  unknown |-> 0]
    IN  IF c.R = "on" /\ Len(c.l) = 0 THEN MaxOption ELSE timed[c.T]

MessageSize(c) ==
    IcmpHdr + [echo |-> 0, mask |-> 4, time |-> 12][c.M]

PayloadUnlimited(n, c) == n                                      \* mutant
Payload(n, c) == Clamp(n, 0, MaxPacket - (StdHdr + OptionSize(c) + MessageSize(c)))

FirstSize(c) == Payload(IF Len(c.s) = 0 THEN DefaultPayload ELSE c.s[1], c)
SecondSize(c) ==
    IF Len(c.s) >= 2 THEN Payload(c.s[2], c)
    ELSE IF Len(c.s) = 0 /\ c.T = "tsprespec" /\ Len(c.devices) # 0
    THEN FirstSize(c)   \* the word list of -T is still in the array of -s
    ELSE 0

(* The step leads from the first size towards the second one, by no more    *)
(* than the distance between them.                                          *)
StepUnlimited(c) ==                                              \* mutant
    LET wanted == IF Len(c.s) = 3 THEN Magnitude(c.s[3]) ELSE 1
    IN  IF FirstSize(c) < SecondSize(c) THEN wanted ELSE -wanted
StepSize(c) ==
    LET wanted == IF Len(c.s) = 3 THEN Magnitude(c.s[3]) ELSE 1
        stride == Min({wanted, Magnitude(FirstSize(c) - SecondSize(c))})
    IN  IF Len(c.s) < 2 THEN 0
        ELSE IF FirstSize(c) < SecondSize(c) THEN stride ELSE -stride

(* The command line c has been processed, and the buffers allocated.        *)
BufferOfFirstSize(c) == MessageSize(c) + FirstSize(c)            \* mutant
BufferSize(c) == MessageSize(c) + Max({FirstSize(c), SecondSize(c)})

ReceiveBufferWithoutOption(c) == BufferSize(c) + StdHdr          \* mutant
ReceiveBufferSize(c) == BufferSize(c) + StdHdr + OptionSize(c)

Init ==
    /\ cl \in CommandLines
    /\ icmpFirstExtraDataSizeValue = FirstSize(cl)
    /\ icmpSecondExtraDataSizeValue = SecondSize(cl)
    /\ icmpStepExtraDataSizeValue = StepSize(cl)
    /\ icmpExtraDataSizeValue = FirstSize(cl)
    /\ ip4_HdrOptionSize = OptionSize(cl)
    /\ txICMP_BfrSize = BufferSize(cl)
    /\ rxIPv4_BfrSize = ReceiveBufferSize(cl)
    /\ icmpHdrID = 0
    /\ datagram = 0

-----------------------------------------------------------------------------
(* sendPing()                                                               *)

TimeStamped(c) == c.T \in {"tsonly", "tsandaddr", "tsprespec"}

(* The two functions that send with an option adjust its size first.        *)
AdjustedOption(c, n) ==
    CASE c.T = "tsprespec" -> PrespecSize(Leading(c.devices, {"good"}))
      [] c.T = "tsandaddr" -> IF n < 12 THEN 12 ELSE 4 + 8 * ((n - 4) \div 8)
      [] c.T = "tsonly" -> n
      [] ~TimeStamped(c) /\ c.R = "on" -> IF n < 8 THEN 8 ELSE 4 + 4 * ((n - 1) \div 4)
      [] OTHER -> n

OptionOnWire(c, n) == IF TimeStamped(c) \/ c.R = "on" THEN AdjustedOption(c, n) ELSE 0

(* sendICMP_Request(): time stamp and mask requests have a fixed length.    *)
MessageLength(c, payload) ==
    [echo |-> IcmpHdr + payload, mask |-> 12, time |-> 20][c.M]

Outside(n) == n < Min({first, second}) \/ n > Max({first, second})

(* After the first request the size moves by the step and turns round       *)
(* instead of leaving the range.                                            *)
SweepWithoutTurning(id) ==                                       \* mutant
    LET moved == IF id = 1 THEN size ELSE size + step
    IN  [size |-> IF Outside(moved) THEN size ELSE moved, step |-> step]
Sweep(id) ==
    LET moved == IF id = 1 THEN size ELSE size + step
    IN  IF Outside(moved) THEN [size |-> moved - 2 * step, step |-> -step]
                          ELSE [size |-> moved, step |-> step]

SendPing ==
    /\ icmpHdrID' = (icmpHdrID + 1) % SeqMod
    /\ LET moved == IF Len(cl.s) # 0 /\ first # second
                    THEN Sweep(icmpHdrID') ELSE [size |-> size, step |-> step]
       IN  /\ icmpExtraDataSizeValue' = moved.size
           /\ icmpStepExtraDataSizeValue' = moved.step
    /\ ip4_HdrOptionSize' = AdjustedOption(cl, ip4_HdrOptionSize)
    /\ datagram' = StdHdr + OptionOnWire(cl, ip4_HdrOptionSize)
                          + MessageLength(cl, icmpExtraDataSizeValue')
    /\ UNCHANGED fixed

Next == SendPing
Spec == Init /\ [][Next]_vars
FairSpec == Spec /\ WF_vars(SendPing)

-----------------------------------------------------------------------------
TypeOK ==
    /\ cl \in CommandLines
    /\ first \in Nat /\ second \in Nat /\ step \in Int /\ size \in Int
    /\ ip4_HdrOptionSize \in 0 .. MaxOption
    /\ txICMP_BfrSize \in Nat /\ rxIPv4_BfrSize \in Nat
    /\ icmpHdrID \in 0 .. SeqMod - 1
    /\ datagram \in Nat

(***************************************************************************)
(* The sweep never leaves the range between the two sizes, whatever step   *)
(* the user gave (ping3.c:942-956).                                        *)
(***************************************************************************)
SizeInRange == ~Outside(size)

(***************************************************************************)
(* Why it never does: a step upwards starts at the low end or a full step  *)
(* above it, so that turning back from the high end cannot overshoot the   *)
(* low one; and the same downwards.                                        *)
(***************************************************************************)
SweepInv ==
    /\ ~Outside(size)
    /\ Magnitude(step) <= Magnitude(first - second)
    /\ step > 0 => size = Min({first, second}) \/ size - step >= Min({first, second})
    /\ step < 0 => size = Max({first, second}) \/ size - step <= Max({first, second})

(***************************************************************************)
(* Every message is built within the transmit buffer (ping3.c:1294).       *)
(***************************************************************************)
MessageFits == MessageLength(cl, size) <= txICMP_BfrSize

(***************************************************************************)
(* Without -l and without a device 0.0.0.0 the reply to every request,     *)
(* which has the length of the request, fits the receive buffer, although  *)
(* the option is resized after the buffer was (ping3.c:783, 818, 1295).    *)
(***************************************************************************)
ReplyFitsByDefault ==
    Len(cl.l) = 0 /\ (\A i \in DOMAIN cl.devices : cl.devices[i] # "zero") =>
        datagram <= rxIPv4_BfrSize

(***************************************************************************)
(* The sweep goes on for ever between both ends (ping3.1:85): it comes     *)
(* within a step of each of them again and again.                          *)
(***************************************************************************)
SweepGoesOn ==
    step # 0 =>
        /\ []<>(size - Magnitude(step) < Min({first, second}))
        /\ []<>(size + Magnitude(step) > Max({first, second}))

(* ping3.c:1295: the receive buffer holds the reply to any request.         *)
ReplyFits == datagram <= rxIPv4_BfrSize
=============================================================================
