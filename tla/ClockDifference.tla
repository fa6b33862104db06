--------------------------- MODULE ClockDifference --------------------------
(***************************************************************************)
(* The estimate of the difference between the local clock and that of the  *)
(* remote device, from the times of day in an ICMP Time Stamp reply or in  *)
(* the time stamp option of the reply's header, and half the round trip    *)
(* time: printSentVsReceiveDeviceClockDifferenceEstimate() and its two     *)
(* callers.  Moments are counted in ticks, Tick of them in a millisecond.  *)
(***************************************************************************)
EXTENDS Integers

CONSTANTS
    Tick,           \* ticks in a millisecond
    Day,            \* milliseconds in a day
    MaxDelay,       \* bound: ticks on the way in one direction
    Offsets         \* ticks by which the remote clock is ahead of the local one

ASSUME TickAssumption == Tick \in Nat \ {0} /\ Day \in Nat \ {0}
ASSUME DelayAssumption == MaxDelay \in Nat
ASSUME OffsetAssumption == \A o \in Offsets : o \in Int /\ o + Tick * Day >= 0

VARIABLES
    leg,            \* "idle", "request", "reply" or "estimate"
    method,         \* "ICMP" or "option": which of the two callers
    now,            \* the true time, by the local clock
    sentAt, turnedAt,   \* history: when the request was sent, and answered
    offset,
    tsOriginate,    \* local time of day in the request
    tsRemote,       \* remote time of day in the reply
    timeDifference  \* the estimate: milliseconds that the local clock is ahead

clockVars == <<leg, method, now, sentAt, turnedAt, offset, tsOriginate, tsRemote,
               timeDifference>>

(* calcMillisecondsSinceMidnightFromTimeSpec(): whole milliseconds since    *)
(* the last midnight, by a clock that is ahead of the local one.            *)
DayNotCut(t) == t \div Tick                                      \* mutant
SinceMidnight(t) == (t \div Tick) % Day

ClockInit ==
    /\ leg = "idle" /\ method = "ICMP"
    /\ now = 0 /\ sentAt = 0 /\ turnedAt = 0 /\ offset = 0
    /\ tsOriginate = 0 /\ tsRemote = 0 /\ timeDifference = 0

(* A day after the start, so that a clock that is behind has a time, too.   *)
SendTimed ==
    /\ leg = "idle"
    /\ method' \in {"ICMP", "option"} /\ offset' \in Offsets
    /\ \E t \in 0 .. Tick * Day - 1 : now' = Tick * Day + t
    /\ sentAt' = now'
    /\ tsOriginate' = SinceMidnight(now')
    /\ leg' = "request"
    /\ UNCHANGED <<turnedAt, tsRemote, timeDifference>>

TurnAround ==
    /\ leg = "request"
    /\ \E d \in 0 .. MaxDelay : now' = now + d
    /\ turnedAt' = now'
    /\ tsRemote' = SinceMidnight(now' + offset)
    /\ leg' = "reply"
    /\ UNCHANGED <<method, sentAt, offset, tsOriginate, timeDifference>>

(* round( roundTripTime * 500 ): halves go away from zero.                  *)
HalfRoundTrip(rtt) == (rtt + Tick) \div (2 * Tick)

(* The two callers give the times in opposite orders, and half the round    *)
(* trip with opposite signs.                                                *)
Estimate(sentTime, recvTime, half) == recvTime - (sentTime + half)

HalfAdded(half) == half                                          \* mutant
HalfTakenBack(half) == -half

(* With the local device pre-specified after the remote one, its time stamp *)
(* in the option stands for the time of the receipt: the same reading, of   *)
(* the same clock.                                                          *)
ReceiveTimed ==
    /\ leg = "reply"
    /\ \E d \in 0 .. MaxDelay : now' = now + d
    /\ LET half == HalfRoundTrip(now' - sentAt)
           tsReceive == SinceMidnight(now')
       IN  timeDifference' =
              IF method = "ICMP"
              THEN Estimate(tsRemote, tsOriginate, HalfTakenBack(half))
              ELSE Estimate(tsRemote, tsReceive, half)
    /\ leg' = "estimate"
    /\ UNCHANGED <<method, sentAt, turnedAt, offset, tsOriginate, tsRemote>>

NextTimed ==
    /\ leg = "estimate"
    /\ leg' = "idle" /\ method' = "ICMP"
    /\ now' = 0 /\ sentAt' = 0 /\ turnedAt' = 0 /\ offset' = 0
    /\ tsOriginate' = 0 /\ tsRemote' = 0 /\ timeDifference' = 0

ClockNext == SendTimed \/ TurnAround \/ ReceiveTimed \/ NextTimed
ClockSpec == ClockInit /\ [][ClockNext]_clockVars

-----------------------------------------------------------------------------
ClockTypeOK ==
    /\ leg \in {"idle", "request", "reply", "estimate"}
    /\ method \in {"ICMP", "option"}
    /\ {now, sentAt, turnedAt} \subseteq Nat /\ offset \in Offsets \cup {0}
    /\ {tsOriginate, tsRemote} \subseteq 0 .. Day - 1
    /\ timeDifference \in Int

Distance(n) == IF n < 0 THEN -n ELSE n

(* How many midnights the remote clock's reading is ahead of the local one  *)
(* that the estimate compares it with.                                      *)
Days(t) == (t \div Tick) \div Day
MidnightsBetween ==
    Days(turnedAt + offset) - Days(IF method = "ICMP" THEN sentAt ELSE now)

(* How much longer one way took than the other.                             *)
Asymmetry == Distance((now - turnedAt) - (turnedAt - sentAt))

(***************************************************************************)
(* The estimate is off by no more than half of what one way took longer    *)
(* than the other, and by less than two milliseconds of rounding; a        *)
(* midnight between the two readings puts a whole day on top of it         *)
(* (timeFun.c:111, 190-191; ping3.c:553; icmpFun.c:289).                   *)
(***************************************************************************)
EstimateIsClose ==
    leg = "estimate" =>
        2 * Distance(Tick * (timeDifference - Day * MidnightsBetween) + offset)
            < Asymmetry + 4 * Tick
=============================================================================
