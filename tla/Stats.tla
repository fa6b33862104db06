------------------------------- MODULE Stats --------------------------------
(***************************************************************************)
(* trackStats(), the statistics of the round trip times, statement by      *)
(* statement, and printStats(), which a signal may start between any two   *)
(* of them.  The program is built without optimisation (configure), so     *)
(* that its stores are made in the order of the source.                    *)
(*                                                                         *)
(* Times are whole numbers and every quotient is exact: a time of 1 stands *)
(* for Scale, which all the sample counts up to MaxSamples divide.  What   *)
(* floating point rounds is not modelled.                                  *)
(***************************************************************************)
EXTENDS Integers, Sequences, FiniteSetsExt, Functions

CONSTANTS
    RTTs,           \* round trip times, negative when the clock was set back
    MaxSamples,     \* bound: replies in one behaviour
    Scale           \* a common multiple of 1 .. MaxSamples

DoubleMax == 10000 * Scale              \* DBL_MAX, larger than every time

ASSUME RTTAssumption == RTTs \subseteq Int /\ \A t \in RTTs : t * Scale < DoubleMax
ASSUME ScaleAssumption ==
    /\ MaxSamples \in Nat /\ Scale \in Nat \ {0}
    /\ \A n \in 1 .. MaxSamples : Scale % n = 0

VARIABLES
    tracking,       \* the statement of trackStats() that comes next
    latestRTT, previousMeanRTT,
    statsSamplesReceived, statsMaximumRTT, statsMinimumRTT,
    statsRunningMeanRTT,        \* in units of 1 / Scale
    statsRunningVarianceRTT,    \* in units of 1 / Scale^2
    rtts,           \* history: the samples, scaled
    printed         \* what printStats() printed last

figures == <<statsSamplesReceived, statsMaximumRTT, statsMinimumRTT,
             statsRunningMeanRTT, statsRunningVarianceRTT>>
statsVars == <<tracking, latestRTT, previousMeanRTT, figures, rtts, printed>>

Nothing == [n |-> 0, min |-> 0, mean |-> 0, max |-> 0, variance |-> 0]

StatsInit ==
    /\ tracking = "idle" /\ latestRTT = 0 /\ previousMeanRTT = 0
    /\ statsSamplesReceived = 0
    /\ statsMaximumRTT = 0 /\ statsMinimumRTT = DoubleMax
    /\ statsRunningMeanRTT = 0 /\ statsRunningVarianceRTT = 0
    /\ rtts = <<>>
    /\ printed = Nothing

-----------------------------------------------------------------------------
(* trackStats( latestRTT )                                                  *)

TrackStats ==
    /\ tracking = "idle" /\ Len(rtts) < MaxSamples
    /\ \E t \in RTTs : latestRTT' = t * Scale /\ rtts' = Append(rtts, t * Scale)
    /\ tracking' = "count"
    /\ UNCHANGED <<previousMeanRTT, figures, printed>>

CountSample ==
    /\ tracking = "count"
    /\ statsSamplesReceived' = statsSamplesReceived + 1
    /\ tracking' = "max"
    /\ UNCHANGED <<latestRTT, previousMeanRTT, statsMaximumRTT, statsMinimumRTT,
                   statsRunningMeanRTT, statsRunningVarianceRTT, rtts, printed>>

Larger(a, b) == IF a > b THEN a ELSE b
SmallerOrLatest(a, b) == a                                       \* mutant
Smaller(a, b) == IF a < b THEN a ELSE b

TrackMaximum ==
    /\ tracking = "max"
    /\ statsMaximumRTT' = Larger(latestRTT, statsMaximumRTT)
    /\ tracking' = "min"
    /\ UNCHANGED <<latestRTT, previousMeanRTT, statsSamplesReceived, statsMinimumRTT,
                   statsRunningMeanRTT, statsRunningVarianceRTT, rtts, printed>>

TrackMinimum ==
    /\ tracking = "min"
    /\ statsMinimumRTT' = Smaller(latestRTT, statsMinimumRTT)
    /\ tracking' = "mean"
    /\ UNCHANGED <<latestRTT, previousMeanRTT, statsSamplesReceived, statsMaximumRTT,
                   statsRunningMeanRTT, statsRunningVarianceRTT, rtts, printed>>

MeanOfOneMore(mean, latest, n) == mean + (latest - mean) \div (n + 1)   \* mutant
Mean(mean, latest, n) == mean + (latest - mean) \div n

TrackMean ==
    /\ tracking = "mean"
    /\ previousMeanRTT' = statsRunningMeanRTT
    /\ statsRunningMeanRTT' =
          Mean(statsRunningMeanRTT, latestRTT, statsSamplesReceived)
    /\ tracking' = "variance"
    /\ UNCHANGED <<latestRTT, statsSamplesReceived, statsMaximumRTT, statsMinimumRTT,
                   statsRunningVarianceRTT, rtts, printed>>

SpreadOfSigns(latest, mean, previous) ==                         \* mutant
    (mean - latest) * (latest - previous)
Spread(latest, mean, previous) == (latest - mean) * (latest - previous)

TrackVariance ==
    /\ tracking = "variance"
    /\ statsRunningVarianceRTT' = statsRunningVarianceRTT
          + Spread(latestRTT, statsRunningMeanRTT, previousMeanRTT)
    /\ tracking' = "idle"
    /\ UNCHANGED <<latestRTT, previousMeanRTT, statsSamplesReceived, statsMaximumRTT,
                   statsMinimumRTT, statsRunningMeanRTT, rtts, printed>>

(* printStats() prints minimum, mean and maximum of two samples or more.    *)
EnoughOne(n) == n > 0                                            \* mutant
Enough(n) == n > 1

PrintStats ==
    /\ Enough(statsSamplesReceived)
    /\ printed' = [n |-> statsSamplesReceived,
                   min |-> statsMinimumRTT, mean |-> statsRunningMeanRTT,
                   max |-> statsMaximumRTT, variance |-> statsRunningVarianceRTT]
    /\ UNCHANGED <<tracking, latestRTT, previousMeanRTT, figures, rtts>>

StatsNext ==
    \/ TrackStats \/ CountSample \/ TrackMaximum \/ TrackMinimum
    \/ TrackMean \/ TrackVariance \/ PrintStats

StatsSpec == StatsInit /\ [][StatsNext]_statsVars

-----------------------------------------------------------------------------
StatsTypeOK ==
    /\ tracking \in {"idle", "count", "max", "min", "mean", "variance"}
    /\ statsSamplesReceived \in 0 .. MaxSamples
    /\ {latestRTT, previousMeanRTT, statsMaximumRTT, statsMinimumRTT,
        statsRunningMeanRTT} \subseteq Int
    /\ statsRunningVarianceRTT \in Nat
    /\ rtts \in Seq(Int) /\ Len(rtts) <= MaxSamples

Sum(s) == FoldFunction(LAMBDA a, b : a + b, 0, s)

(***************************************************************************)
(* Between two samples the running mean and variance are those of all the  *)
(* samples, computed from sums (ping3.c:277-279).                          *)
(***************************************************************************)
RunningEqualsTotal ==
    LET n == Len(rtts)
        squares == [i \in 1 .. n |-> rtts[i] * rtts[i]]
    IN  tracking = "idle" =>
            /\ statsSamplesReceived = n
            /\ n * statsRunningMeanRTT = Sum(rtts)
            /\ n * statsRunningVarianceRTT = n * Sum(squares) - Sum(rtts) * Sum(rtts)

(***************************************************************************)
(* Between two samples the extremes are samples, but for the maximum of    *)
(* times that are all negative, which stays at 0 (ping3.c:275, 1371).      *)
(***************************************************************************)
ExtremesAreSamples ==
    tracking = "idle" /\ rtts # <<>> =>
        /\ statsMinimumRTT = Min(Range(rtts))
        /\ statsMaximumRTT = Max(Range(rtts) \cup {0})

(***************************************************************************)
(* Whenever a signal makes printStats() run, in the middle of trackStats() *)
(* or not, the mean printed lies between the extremes printed, and the     *)
(* variance has a square root (ping3.c:861-864, 894).                      *)
(***************************************************************************)
PrintedIsConsistent ==
    printed # Nothing =>
        /\ printed.min <= printed.mean /\ printed.mean <= printed.max
        /\ printed.variance >= 0

(* The figures are those of the samples so far, at the end of trackStats()  *)
(* and whenever they are printed: the three of them together.               *)
StatsTellSamples == RunningEqualsTotal /\ ExtremesAreSamples /\ PrintedIsConsistent
=============================================================================
