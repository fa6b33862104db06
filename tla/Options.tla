------------------------------ MODULE Options -------------------------------
(***************************************************************************)
(* The options of the command line whose argument is a number, from        *)
(* getopt() over the conversion of the text to the value that the rest of  *)
(* ping3 works with.  What -l, -s, -T, -R and -M mean for the sizes is in  *)
(* Sizes, the pattern of -p in Payload.                                    *)
(***************************************************************************)
EXTENDS Integers, Sequences

CONSTANTS
    IntMax,         \* INT_MAX; an int has 2 * IntMax + 2 values
    Numbers,        \* what the arguments of -v, -c, -l, -t and -w convert to
    Intervals,      \* what those of -i convert to, in units of MinInterval
    MaxGiven        \* bound: options on the command line

ASSUME IntAssumption == IntMax \in Nat /\ IntMax > 300
ASSUME NumberAssumption == Numbers \subseteq Int /\ Intervals \subseteq Int
ASSUME GivenAssumption == MaxGiven \in Nat

IntMin == -IntMax - 1

(* The interval is 0.1 to 60 seconds.                                       *)
MinInterval == 1
MaxInterval == 600 * MinInterval

(* The text of an argument: nothing, no number at its start, or a number.   *)
(* "nan" is one for strtod() only.                                          *)
Letters == {"v", "c", "i", "l", "t", "w"}
TextOf(letter) ==
    [kind : {"empty", "junk", "nan"}, value : {0}]
        \cup [kind : {"number"}, value : IF letter = "i" THEN Intervals ELSE Numbers]
Converts(letter, text) == text.kind = "number" \/ (letter = "i" /\ text.kind = "nan")

VARIABLES
    parsing,        \* "argv", the option whose setting is made next, or "done"
    words,          \* history: the options that getopt() has given so far
    flag, strng,    \* v_Flag, c_Flag, ... and v_Strng, c_Strng, ...
    setting         \* the global variables that the options set

optionsVars == <<parsing, words, flag, strng, setting>>

(* setGlobalFlagDefaults() makes every flag FALSE and every string NULL.    *)
NoString == [kind |-> "empty", value |-> 0]

OptionsInit ==
    /\ parsing = "argv" /\ words = <<>>
    /\ flag = [l \in Letters |-> FALSE]
    /\ strng = [l \in Letters |-> NoString]
    /\ setting = [verbosityLevel |-> 0, debugFlag |-> FALSE, quietFlag |-> FALSE,
                  pingSendAttemptsLeft |-> 3, continousPingMode |-> FALSE,
                  intervalBwPings |-> 10 * MinInterval,
                  ip4_HdrOptionSize |-> 0, ip4_HeaderTTL_Value |-> 1,
                  waitTimeInSec |-> 2]

-----------------------------------------------------------------------------
FirstCounts(old, new, seen) == IF seen THEN old ELSE new         \* mutant
LastCounts(old, new, seen) == new

(* getopt() gives the options in their order; one that it does not know, or *)
(* whose argument is missing, is ignored.                                   *)
GetOption ==
    /\ parsing = "argv" /\ Len(words) < MaxGiven
    /\ \/ \E l \in Letters : \E text \in TextOf(l) :
             /\ flag' = [flag EXCEPT ![l] = TRUE]
             /\ strng' = [strng EXCEPT ![l] = LastCounts(@, text, flag[l])]
             /\ words' = Append(words, <<l, text>>)
       \/ words' = Append(words, <<"?", NoString>>) /\ UNCHANGED <<flag, strng>>
    /\ UNCHANGED <<parsing, setting>>

EndOfOptions ==
    /\ parsing = "argv"
    /\ parsing' = "v"
    /\ UNCHANGED <<words, flag, strng, setting>>

Clamp(n, lo, hi) == IF n < lo THEN lo ELSE IF n > hi THEN hi ELSE n

(* convertOptionStringToInteger() goes over a long; what does not fit an    *)
(* int is brought to the end of the range of ints.                          *)
IntOf(n) == Clamp(n, IntMin, IntMax)

FlagLeft(l) == flag[l]                                           \* mutant
FlagOfText(l) == flag[l] /\ Converts(l, strng[l])

Converted(l, default) == IF FlagOfText(l) THEN IntOf(strng[l].value) ELSE default

(* One option after the other; a text that does not convert resets its flag.*)
Parse(l, next) ==
    /\ parsing = l
    /\ parsing' = next
    /\ flag' = [flag EXCEPT ![l] = FlagOfText(l)]
    /\ UNCHANGED <<words, strng>>

ParseVerbosity ==
    /\ Parse("v", "c")
    /\ LET level == Clamp(Converted("v", 0), -9, 9)
       IN  setting' = [setting EXCEPT !.verbosityLevel = level,
                          !.debugFlag = level >= 9, !.quietFlag = level <= -5]

ParseCount ==
    /\ Parse("c", "i")
    /\ LET count == Clamp(Converted("c", 3), 0, 100)
       IN  setting' = [setting EXCEPT !.pingSendAttemptsLeft = count,
                          !.continousPingMode = count = 0]

(* NaN passes every comparison of the first limit.  As an unsigned long it  *)
(* is 2^63 on x86-64 and 0 on arm64, which the second limit takes in.       *)
IntervalUnlimited(n) == n                                        \* mutant
IntervalLimited(n) == Clamp(n, MinInterval, MaxInterval)

LargeOrZero == {0, 2 * MaxInterval}

ParseInterval ==
    /\ Parse("i", "l")
    /\ \E n \in IF ~flag'["i"] THEN {10 * MinInterval}
                ELSE IF strng["i"].kind = "nan" THEN LargeOrZero
                ELSE {Clamp(strng["i"].value, MinInterval, MaxInterval)} :
          setting' = [setting EXCEPT !.intervalBwPings = IntervalLimited(n)]

(* An int wraps around; its quotient goes towards zero.                     *)
Wrapped(n) == ((n - IntMin) % (IntMax - IntMin + 1)) + IntMin
Quarter(n) == IF n < 0 THEN -((-n) \div 4) ELSE n \div 4

RoundedDown(n) == 4 * Quarter(n)                                 \* mutant
RoundedUp(n) == 4 * Quarter(Wrapped(n + 3))

ParseLength ==
    /\ Parse("l", "t")
    /\ setting' = [setting EXCEPT !.ip4_HdrOptionSize =
          IF flag'["l"] THEN Clamp(RoundedUp(Converted("l", 0)), 8, 40) ELSE 0]

ParseTimeToLive ==
    /\ Parse("t", "w")
    /\ setting' = [setting EXCEPT !.ip4_HeaderTTL_Value = Clamp(Converted("t", 1), 0, 255)]

ParseWait ==
    /\ Parse("w", "done")
    /\ setting' = [setting EXCEPT !.waitTimeInSec = Clamp(Converted("w", 2), 1, 20)]

(* Another start of the program.                                            *)
NextStart ==
    /\ parsing = "done"
    /\ parsing' = "argv" /\ words' = <<>>
    /\ flag' = [l \in Letters |-> FALSE]
    /\ strng' = [l \in Letters |-> NoString]
    /\ setting' = [setting EXCEPT !.verbosityLevel = 0, !.debugFlag = FALSE,
          !.quietFlag = FALSE, !.pingSendAttemptsLeft = 3, !.continousPingMode = FALSE,
          !.intervalBwPings = 10 * MinInterval, !.ip4_HdrOptionSize = 0,
          !.ip4_HeaderTTL_Value = 1, !.waitTimeInSec = 2]

OptionsNext ==
    \/ GetOption \/ EndOfOptions \/ ParseVerbosity \/ ParseCount \/ ParseInterval
    \/ ParseLength \/ ParseTimeToLive \/ ParseWait \/ NextStart

OptionsSpec == OptionsInit /\ [][OptionsNext]_optionsVars

-----------------------------------------------------------------------------
OptionsTypeOK ==
    /\ parsing \in Letters \cup {"argv", "done"}
    /\ Len(words) <= MaxGiven
    /\ flag \in [Letters -> BOOLEAN]
    /\ \A l \in Letters : strng[l] \in TextOf(l)
    /\ setting.verbosityLevel \in -9 .. 9
    /\ setting.pingSendAttemptsLeft \in 0 .. 100
    /\ setting.intervalBwPings \in MinInterval .. MaxInterval
    /\ setting.ip4_HdrOptionSize \in {0} \cup 8 .. 40
    /\ setting.ip4_HeaderTTL_Value \in 0 .. 255
    /\ setting.waitTimeInSec \in 1 .. 20

(* What the command line says last of an option, <<>> if it says nothing.   *)
LastWord(l) ==
    LET at == {i \in DOMAIN words : words[i][1] = l}
    IN  IF at = {} THEN <<>>
        ELSE words[CHOOSE i \in at : \A j \in at : j <= i]
Says(l) == LastWord(l) # <<>> /\ Converts(l, LastWord(l)[2])

Far(a, b) == IF a > b THEN a - b ELSE b - a
Nearest(n, range) ==
    CHOOSE v \in range : \A w \in {v - 1, v + 1} \cap range : Far(v, n) <= Far(w, n)

(* The number that is said, or the default if none is.                      *)
Wanted(l, default, range) ==
    IF Says(l) THEN Nearest(LastWord(l)[2].value, range) ELSE default

(***************************************************************************)
(* Of each option the last word on the command line counts, at the nearest *)
(* value that the help allows, whatever other options stand between; if it *)
(* does not convert, the default does, even when an earlier word would     *)
(* (ping3.c:1121-1153, 1166-1167, 1247-1248; genFun.c:189-262).  Nothing is*)
(* claimed of a time to live below 1: line 1167 lets 0 through, which the  *)
(* help does not allow (1099: "1 <= XX <= 255").                           *)
(***************************************************************************)
LastWordCounts ==
    parsing = "done" =>
        /\ \A l \in Letters : flag[l] <=> Says(l)
        /\ setting.verbosityLevel = Wanted("v", 0, -9 .. 9)
        /\ setting.pingSendAttemptsLeft = Wanted("c", 3, 0 .. 100)
        /\ setting.continousPingMode <=> Wanted("c", 3, 0 .. 100) = 0
        /\ (Says("t") => LastWord("t")[2].value >= 1) =>
              setting.ip4_HeaderTTL_Value = Wanted("t", 1, 1 .. 255)
        /\ setting.waitTimeInSec = Wanted("w", 2, 1 .. 20)

(***************************************************************************)
(* The interval is one that setitimer() takes, the nearest to what is      *)
(* asked for, and of those even if that is not a number: an interval of    *)
(* zero would never fire (ping3.c:1155-1158, 286-302).                     *)
(***************************************************************************)
IntervalIsSafe ==
    parsing = "done" =>
        IF Says("i") /\ LastWord("i")[2].kind = "nan"
        THEN setting.intervalBwPings \in {MinInterval, MaxInterval}
        ELSE setting.intervalBwPings =
                Wanted("i", 10 * MinInterval, MinInterval .. MaxInterval)

(***************************************************************************)
(* The length of -l is the nearest that an option can have, not less than  *)
(* asked for if there is one, except for the three largest ints, which     *)
(* overflow to the shortest option (ping3.c:1162-1163).                    *)
(***************************************************************************)
LengthIsNearest ==
    parsing = "done" /\ Says("l") =>
        LET asked == LastWord("l")[2].value
            enough == {n \in 8 .. 40 : n % 4 = 0 /\ n >= asked}
        IN  setting.ip4_HdrOptionSize =
                IF asked > IntMax - 3 THEN 8
                ELSE IF enough = {} THEN 40
                ELSE CHOOSE n \in enough : \A k \in enough : n <= k

(* Each option does what the user said last, whatever the text and however  *)
(* large the number: the three of them together.                            *)
OptionsAsGiven == LastWordCounts /\ IntervalIsSafe /\ LengthIsNearest
=============================================================================
