--------------------------- MODULE CommandProofs ----------------------------
(***************************************************************************)
(* The command line, for all that can be said on it: the numbers of the    *)
(* options, the pattern of the payload, and the lists of -T and -s.        *)
(***************************************************************************)
EXTENDS Options, Payload, Arguments, WellFoundedInduction, SequenceTheorems,
        FiniteSetTheorems, TLAPS

(* A number is brought to the nearest that is allowed, over an int or not.  *)
LEMMA ClampIsNearest ==
    ASSUME NEW n \in Int, NEW lo \in Int, NEW hi \in Int, lo <= hi
    PROVE  Clamp(n, lo, hi) = Nearest(n, lo .. hi)
<1> DEFINE c == Clamp(n, lo, hi)
           Near(v) == \A w \in {v - 1, v + 1} \cap (lo .. hi) : Far(v, n) <= Far(w, n)
<1>1. c \in lo .. hi
    BY DEF Clamp
<1>2. Near(c)
  <2>1. ASSUME NEW w \in {c - 1, c + 1} \cap (lo .. hi)
        PROVE  Far(c, n) <= Far(w, n)
      BY DEF Clamp, Far
  <2> QED
      BY <2>1
<1>3. ASSUME NEW v \in lo .. hi, Near(v)
      PROVE  v = c
  <2>1. CASE v < n /\ v < hi
    <3>1. v + 1 \in {v - 1, v + 1} \cap (lo .. hi)
        BY <2>1
    <3>2. Far(v, n) <= Far(v + 1, n)
        BY <1>3, <3>1
    <3> QED
        BY <2>1, <3>2 DEF Far
  <2>2. CASE v > n /\ v > lo
    <3>1. v - 1 \in {v - 1, v + 1} \cap (lo .. hi)
        BY <2>2
    <3>2. Far(v, n) <= Far(v - 1, n)
        BY <1>3, <3>1
    <3> QED
        BY <2>2, <3>2 DEF Far
  <2>3. CASE ~(v < n /\ v < hi) /\ ~(v > n /\ v > lo)
      BY <2>3 DEF Clamp
  <2> QED
      BY <2>1, <2>2, <2>3
<1> HIDE DEF c
<1>4. c = CHOOSE v \in lo .. hi : Near(v)
  <2> HIDE DEF Near
  <2> QED
      BY <1>1, <1>2, <1>3
<1> QED
    BY <1>4 DEF Nearest, c

LEMMA ClampTwice ==
    ASSUME NEW n \in Int, NEW lo \in Int, NEW hi \in Int, lo <= hi, -300 <= lo, hi <= 300
    PROVE  Clamp(IntOf(n), lo, hi) = Clamp(n, lo, hi) /\ Clamp(n, lo, hi) \in lo .. hi
BY IntAssumption DEF Clamp, IntOf, IntMin

-----------------------------------------------------------------------------
Texts == [kind : {"empty", "junk", "nan", "number"}, value : Int]
Word == (Letters \cup {"?"}) \X Texts
Settings ==
    [verbosityLevel : -9 .. 9, debugFlag : BOOLEAN, quietFlag : BOOLEAN,
     pingSendAttemptsLeft : 0 .. 100, continousPingMode : BOOLEAN,
     intervalBwPings : MinInterval .. MaxInterval,
     ip4_HdrOptionSize : {0} \cup 8 .. 40, ip4_HeaderTTL_Value : 0 .. 255,
     waitTimeInSec : 1 .. 20]

LEMMA TextsAre ==
    ASSUME NEW l \in Letters
    PROVE  TextOf(l) \subseteq Texts /\ NoString \in TextOf(l)
<1>1. NoString \in [kind : {"empty", "junk", "nan"}, value : {0}]
    BY DEF NoString
<1>2. [kind : {"empty", "junk", "nan"}, value : {0}] \subseteq Texts
    BY DEF Texts
<1>3. [kind : {"number"}, value : IF l = "i" THEN Intervals ELSE Numbers] \subseteq Texts
    BY NumberAssumption DEF Texts
<1> QED
    BY <1>1, <1>2, <1>3 DEF TextOf

(* A bounded set of numbers has a largest one.                              *)
LEMMA HasLargest ==
    ASSUME NEW n \in Nat, NEW S, S \subseteq 1 .. n, S # {}
    PROVE  \E i \in S : \A j \in S : j <= i
<1> DEFINE T == {n - i : i \in S}
<1>1. T \subseteq Nat /\ T # {}
  <2>1. \A i \in S : n - i \in Nat /\ n - i \in T
      OBVIOUS
  <2>2. T \subseteq Nat
      BY <2>1
  <2> QED
      BY <2>1, <2>2
<1>2. PICK m \in T : \A k \in T : <<k, m>> \notin OpToRel(<, Nat)
  <2> HIDE DEF T
  <2> QED
      BY <1>1, NatLessThanWellFounded, WFMin
<1>3. \A k \in T : ~(k < m)
    BY <1>1, <1>2 DEF OpToRel
<1>4. PICK i \in S : m = n - i
    BY <1>2
<1>5. ASSUME NEW j \in S PROVE j <= i
  <2>1. n - j \in T /\ i \in Int /\ j \in Int
      OBVIOUS
  <2> QED
      BY <1>3, <1>4, <2>1
<1> QED
    BY <1>5

LEMMA LastWordAppended ==
    ASSUME words \in Seq(Word), NEW w \in Word, words' = Append(words, w), NEW l
    PROVE  LastWord(l)' = IF w[1] = l THEN w ELSE LastWord(l)
<1> PICK n \in Nat : n = Len(words)
    OBVIOUS
<1> DEFINE at == {i \in DOMAIN words : words[i][1] = l}
           later == {i \in 1 .. n + 1 : words'[i][1] = l}
<1>1. /\ DOMAIN words = 1 .. n /\ DOMAIN words' = 1 .. n + 1 /\ words'[n + 1] = w
      /\ \A i \in 1 .. n : words'[i] = words[i]
    OBVIOUS
<1>2. LastWord(l)' = IF later = {} THEN <<>>
                     ELSE words'[CHOOSE i \in later : \A j \in later : j <= i]
    BY <1>1 DEF LastWord
<1>3. LastWord(l) = IF at = {} THEN <<>>
                    ELSE words[CHOOSE i \in at : \A j \in at : j <= i]
    BY DEF LastWord
<1>4. CASE w[1] = l
  <2>1. n + 1 \in later /\ \A j \in later : j <= n + 1
      BY <1>1, <1>4
  <2>2. \A i \in later : (\A j \in later : j <= i) => i = n + 1
      BY <2>1
  <2>3. later # {}
      BY <2>1
  <2> HIDE DEF later
  <2>4. (CHOOSE i \in later : \A j \in later : j <= i) = n + 1
      BY <2>1, <2>2
  <2> QED
      BY <1>1, <1>2, <1>4, <2>3, <2>4
<1>5. CASE w[1] # l
  <2>1. later = at
    <3>1. \A i \in 1 .. n + 1 : i \in later <=> i \in at
        BY <1>1, <1>5
    <3>2. later \subseteq 1 .. n + 1 /\ at \subseteq 1 .. n + 1
        BY <1>1
    <3> QED
        BY <3>1, <3>2
  <2>2. at \subseteq 1 .. n
      BY <1>1
  <2> HIDE DEF at, later
  <2>3. CASE at = {}
      BY <1>2, <1>3, <1>5, <2>1, <2>3
  <2>4. CASE at # {}
    <3> DEFINE k == CHOOSE i \in at : \A j \in at : j <= i
    <3>1. k \in 1 .. n
      <4>1. \E i \in at : \A j \in at : j <= i
          BY <2>2, <2>4, HasLargest
      <4> QED
          BY <2>2, <4>1
    <3> HIDE DEF k
    <3>2. words'[k] = words[k]
        BY <1>1, <3>1
    <3> QED
        BY <1>2, <1>3, <1>5, <2>1, <2>4, <3>2 DEF k
  <2> QED
      BY <2>3, <2>4
<1> QED
    BY <1>4, <1>5

-----------------------------------------------------------------------------
(* The options whose setting is still to be made.                           *)
Pending ==
    IF parsing \in {"argv", "v"} THEN {"v", "c", "i", "l", "t", "w"}
    ELSE IF parsing = "c" THEN {"c", "i", "l", "t", "w"}
    ELSE IF parsing = "i" THEN {"i", "l", "t", "w"}
    ELSE IF parsing = "l" THEN {"l", "t", "w"}
    ELSE IF parsing = "t" THEN {"t", "w"}
    ELSE IF parsing = "w" THEN {"w"} ELSE {}

(* The string of an option is its last word, and its flag is set if there   *)
(* is one, until the string is converted.                                   *)
Heard(l) ==
    /\ strng[l] \in TextOf(l)
    /\ strng[l] = IF LastWord(l) = <<>> THEN NoString ELSE LastWord(l)[2]
    /\ flag[l] <=> IF l \in Pending THEN LastWord(l) # <<>> ELSE Says(l)

VerbositySet == setting.verbosityLevel = Wanted("v", 0, -9 .. 9)
CountSet ==
    /\ setting.pingSendAttemptsLeft = Wanted("c", 3, 0 .. 100)
    /\ setting.continousPingMode <=> Wanted("c", 3, 0 .. 100) = 0
IntervalSet ==
    IF Says("i") /\ LastWord("i")[2].kind = "nan"
    THEN setting.intervalBwPings \in {MinInterval, MaxInterval}
    ELSE setting.intervalBwPings = Wanted("i", 10 * MinInterval, MinInterval .. MaxInterval)
LongEnough(asked) == {n \in 8 .. 40 : n % 4 = 0 /\ n >= asked}
LengthOf(asked) ==
    IF asked > IntMax - 3 THEN 8
    ELSE IF LongEnough(asked) = {} THEN 40
    ELSE CHOOSE n \in LongEnough(asked) : \A k \in LongEnough(asked) : n <= k
LengthSet == Says("l") => setting.ip4_HdrOptionSize = LengthOf(LastWord("l")[2].value)
TimeToLiveSet == setting.ip4_HeaderTTL_Value = Wanted("t", 1, 0 .. 255)
WaitSet == setting.waitTimeInSec = Wanted("w", 2, 1 .. 20)

SetSoFar ==
    /\ "v" \notin Pending => VerbositySet
    /\ "c" \notin Pending => CountSet
    /\ "i" \notin Pending => IntervalSet
    /\ "l" \notin Pending => LengthSet
    /\ "t" \notin Pending => TimeToLiveSet
    /\ "w" \notin Pending => WaitSet

CommandLine ==
    /\ parsing \in Letters \cup {"argv", "done"}
    /\ words \in Seq(Word) /\ Len(words) <= MaxGiven
    /\ flag \in [Letters -> BOOLEAN] /\ strng \in [Letters -> Texts]
    /\ setting \in Settings
    /\ \A l \in Letters : Heard(l)

OptionsInv == CommandLine /\ SetSoFar

LEMMA NothingSaid ==
    ASSUME words = <<>>, parsing = "argv", flag = [l \in Letters |-> FALSE],
           strng = [l \in Letters |-> NoString], setting \in Settings
    PROVE  OptionsInv
<1>1. \A l : LastWord(l) = <<>>
    BY DEF LastWord
<1>2. Pending = Letters
    BY DEF Pending, Letters
<1>3. \A l \in Letters : Heard(l)
  <2>1. \A l \in Letters : strng[l] = NoString /\ ~flag[l] /\ NoString \in TextOf(l)
      BY TextsAre
  <2> QED
      BY <1>1, <1>2, <2>1 DEF Heard
<1>4. flag \in [Letters -> BOOLEAN] /\ strng \in [Letters -> Texts]
  <2>1. NoString \in Texts
      BY DEF NoString, Texts
  <2> QED
      BY <2>1
<1>5. words \in Seq(Word) /\ Len(words) <= MaxGiven
    BY GivenAssumption
<1>6. SetSoFar
    BY <1>2 DEF SetSoFar, Letters
<1> QED
    BY <1>3, <1>4, <1>5, <1>6 DEF OptionsInv, CommandLine

LEMMA OptionsInitInv == OptionsInit => OptionsInv
<1> SUFFICES ASSUME OptionsInit PROVE OptionsInv
    OBVIOUS
<1>1. setting \in Settings
    BY DEF OptionsInit, Settings, MinInterval, MaxInterval
<1> QED
    BY <1>1, NothingSaid DEF OptionsInit

(* What is said does not change while nothing more is read.                 *)
LEMMA SaidKept ==
    ASSUME words' = words
    PROVE  /\ \A l : LastWord(l)' = LastWord(l)
           /\ \A l : Says(l)' <=> Says(l)
           /\ \A l, default, range : Wanted(l, default, range)' = Wanted(l, default, range)
<1>1. \A l : LastWord(l)' = LastWord(l)
    BY DEF LastWord
<1>2. \A l : Says(l)' <=> Says(l)
    BY <1>1 DEF Says, Converts
<1>3. \A l, default, range : Wanted(l, default, range)' = Wanted(l, default, range)
    BY <1>1, <1>2 DEF Wanted
<1> QED
    BY <1>1, <1>2, <1>3

LEMMA VerbosityKept ==
    ASSUME words' = words, setting'.verbosityLevel = setting.verbosityLevel, VerbositySet
    PROVE  VerbositySet'
BY SaidKept DEF VerbositySet

LEMMA CountKept ==
    ASSUME words' = words, setting'.pingSendAttemptsLeft = setting.pingSendAttemptsLeft,
           setting'.continousPingMode = setting.continousPingMode, CountSet
    PROVE  CountSet'
BY SaidKept DEF CountSet

LEMMA IntervalKept ==
    ASSUME words' = words, setting'.intervalBwPings = setting.intervalBwPings, IntervalSet
    PROVE  IntervalSet'
BY SaidKept DEF IntervalSet

LEMMA LengthKept ==
    ASSUME words' = words, setting'.ip4_HdrOptionSize = setting.ip4_HdrOptionSize, LengthSet
    PROVE  LengthSet'
BY SaidKept DEF LengthSet

LEMMA TimeToLiveKept ==
    ASSUME words' = words, setting'.ip4_HeaderTTL_Value = setting.ip4_HeaderTTL_Value,
           TimeToLiveSet
    PROVE  TimeToLiveSet'
BY SaidKept DEF TimeToLiveSet

LEMMA WaitKept ==
    ASSUME words' = words, setting'.waitTimeInSec = setting.waitTimeInSec, WaitSet
    PROVE  WaitSet'
BY SaidKept DEF WaitSet

LEMMA OptionsStutter == OptionsInv /\ UNCHANGED optionsVars => OptionsInv'
<1> SUFFICES ASSUME OptionsInv, UNCHANGED optionsVars PROVE OptionsInv'
    OBVIOUS
<1>1. /\ parsing' = parsing /\ words' = words /\ flag' = flag /\ strng' = strng
      /\ setting' = setting
    BY DEF optionsVars
<1>2. Pending' = Pending
    BY <1>1 DEF Pending
<1>3. ASSUME NEW l \in Letters PROVE Heard(l)'
  <2>1. Heard(l)
      BY DEF OptionsInv, CommandLine
  <2> QED
      BY <1>1, <1>2, <2>1, SaidKept DEF Heard
<1>4. CommandLine'
    BY <1>1, <1>3 DEF OptionsInv, CommandLine
<1>5. SetSoFar'
    BY <1>1, <1>2, VerbosityKept, CountKept, IntervalKept, LengthKept, TimeToLiveKept, WaitKept
       DEF OptionsInv, SetSoFar
<1> QED
    BY <1>4, <1>5 DEF OptionsInv

LEMMA GetOptionStep == OptionsInv /\ GetOption => OptionsInv'
<1> SUFFICES ASSUME OptionsInv, GetOption PROVE OptionsInv'
    OBVIOUS
<1>0. /\ parsing = "argv" /\ parsing' = parsing /\ setting' = setting /\ setting \in Settings
      /\ words \in Seq(Word) /\ Len(words) < MaxGiven
      /\ flag \in [Letters -> BOOLEAN] /\ strng \in [Letters -> Texts]
      /\ \A l \in Letters : Heard(l)
    BY DEF OptionsInv, CommandLine, GetOption
<1>1. Pending = Letters /\ Pending' = Letters
    BY <1>0 DEF Pending, Letters
<1>2. SetSoFar'
    BY <1>1 DEF SetSoFar, Letters
<1>3. ASSUME NEW w \in Word, words' = Append(words, w)
      PROVE  words' \in Seq(Word) /\ Len(words') <= MaxGiven
    BY <1>0, <1>3, GivenAssumption
<1>4. ASSUME NEW l \in Letters, NEW text \in TextOf(l),
             flag' = [flag EXCEPT ![l] = TRUE],
             strng' = [strng EXCEPT ![l] = LastCounts(@, text, flag[l])],
             words' = Append(words, <<l, text>>)
      PROVE  OptionsInv'
  <2> DEFINE w == <<l, text>>
  <2>1. text \in Texts /\ w \in Word /\ w[1] = l /\ w[2] = text /\ w # <<>>
    <3>1. text \in Texts
        BY TextsAre
    <3> QED
        BY <3>1 DEF Word
  <2> HIDE DEF w
  <2>2. words' = Append(words, w)
      BY <1>4 DEF w
  <2>3. ASSUME NEW k \in Letters PROVE Heard(k)'
    <3>0. Heard(k) /\ LastWord(k)' = IF l = k THEN w ELSE LastWord(k)
        BY <1>0, <2>1, <2>2, LastWordAppended
    <3>1. CASE k = l
      <4>1. strng'[k] = text /\ flag'[k] = TRUE /\ LastWord(k)' = w
          BY <1>0, <1>4, <3>0, <3>1 DEF LastCounts
      <4> QED
          BY <1>1, <2>1, <3>1, <4>1 DEF Heard
    <3>2. CASE k # l
      <4>1. strng'[k] = strng[k] /\ flag'[k] = flag[k] /\ LastWord(k)' = LastWord(k)
          BY <1>0, <1>4, <3>0, <3>2
      <4> QED
          BY <1>1, <3>0, <4>1 DEF Heard
    <3> QED
        BY <3>1, <3>2
  <2>4. flag' \in [Letters -> BOOLEAN] /\ strng' \in [Letters -> Texts]
      BY <1>0, <1>4, <2>1 DEF LastCounts
  <2> QED
      BY <1>0, <1>2, <1>3, <2>1, <2>2, <2>3, <2>4 DEF OptionsInv, CommandLine
<1>5. ASSUME words' = Append(words, <<"?", NoString>>), UNCHANGED <<flag, strng>>
      PROVE  OptionsInv'
  <2> DEFINE w == <<"?", NoString>>
  <2>1. w \in Word /\ w[1] = "?" /\ "?" \notin Letters
      BY DEF Word, NoString, Texts, Letters
  <2> HIDE DEF w
  <2>2. words' = Append(words, w)
      BY <1>5 DEF w
  <2>3. ASSUME NEW k \in Letters PROVE Heard(k)'
    <3>1. Heard(k) /\ LastWord(k)' = LastWord(k)
        BY <1>0, <2>1, <2>2, LastWordAppended
    <3> QED
        BY <1>1, <1>5, <3>1 DEF Heard
  <2> QED
      BY <1>0, <1>2, <1>3, <1>5, <2>1, <2>2, <2>3 DEF OptionsInv, CommandLine
<1> QED
    BY <1>4, <1>5 DEF GetOption

LEMMA EndOfOptionsStep == OptionsInv /\ EndOfOptions => OptionsInv'
<1> SUFFICES ASSUME OptionsInv, EndOfOptions PROVE OptionsInv'
    OBVIOUS
<1> USE DEF OptionsInv, EndOfOptions
<1>1. Pending' = Pending /\ Pending = Letters
    BY DEF Pending, Letters
<1>2. \A l : LastWord(l)' = LastWord(l)
    BY DEF LastWord
<1>3. CommandLine'
    BY <1>1, <1>2 DEF CommandLine, Heard, Letters
<1>4. SetSoFar'
    BY <1>1 DEF SetSoFar, Letters
<1> QED
    BY <1>3, <1>4

(* What every conversion leaves, but for the setting.                       *)
LEMMA Parsed ==
    ASSUME OptionsInv, NEW l, NEW next,
           <<l, next>> \in {<<"v", "c">>, <<"c", "i">>, <<"i", "l">>, <<"l", "t">>,
                            <<"t", "w">>, <<"w", "done">>},
           Parse(l, next), setting' \in Settings
    PROVE  /\ CommandLine' /\ Pending' = Pending \ {l}
           /\ l \in Letters /\ Heard(l) /\ l \in Pending
           /\ \A k : LastWord(k)' = LastWord(k)
           /\ FlagOfText(l) <=> Says(l)
           /\ flag'[l] = FlagOfText(l)
<1>0. /\ parsing = l /\ parsing' = next /\ words' = words /\ strng' = strng
      /\ flag' = [flag EXCEPT ![l] = FlagOfText(l)] /\ flag \in [Letters -> BOOLEAN]
      /\ CommandLine
    BY DEF Parse, OptionsInv, CommandLine
<1>1. /\ l \in Letters /\ next \in Letters \cup {"argv", "done"} /\ l \in Pending
      /\ Pending' = Pending \ {l}
    BY <1>0 DEF Letters, Pending
<1>2. \A k : LastWord(k)' = LastWord(k)
    BY <1>0 DEF LastWord
<1>3. Heard(l)
    BY <1>0, <1>1 DEF CommandLine
<1>4. FlagOfText(l) <=> Says(l)
    BY <1>1, <1>3 DEF Heard, FlagOfText, Says
<1>5. FlagOfText(l) \in BOOLEAN /\ flag'[l] = FlagOfText(l)
    BY <1>0, <1>1 DEF FlagOfText
<1>6. ASSUME NEW k \in Letters PROVE Heard(k)'
  <2>1. Heard(k) /\ (Says(k)' <=> Says(k))
      BY <1>0, <1>2 DEF CommandLine, Says, Converts
  <2>2. CASE k = l
      BY <1>0, <1>1, <1>2, <1>4, <1>5, <2>1, <2>2 DEF Heard
  <2>3. CASE k # l
    <3>1. flag'[k] = flag[k] /\ (k \in Pending' <=> k \in Pending)
        BY <1>0, <1>1, <2>3
    <3> QED
        BY <1>0, <1>2, <2>1, <3>1 DEF Heard
  <2> QED
      BY <2>2, <2>3
<1>7. flag' \in [Letters -> BOOLEAN]
    BY <1>0, <1>1, <1>5
<1>8. CommandLine'
    BY <1>0, <1>1, <1>6, <1>7 DEF CommandLine
<1> QED
    BY <1>1, <1>2, <1>3, <1>4, <1>5, <1>8

(* A number that is said is brought to the nearest, and a default is.       *)
Allowed(default, lo, hi) ==
    /\ lo \in Int /\ hi \in Int /\ -300 <= lo /\ lo <= hi /\ hi <= 300
    /\ default \in lo .. hi

LEMMA ConvertedIsWanted ==
    ASSUME NEW l \in Letters, l # "i", Heard(l), FlagOfText(l) <=> Says(l),
           NEW lo, NEW hi, NEW default, Allowed(default, lo, hi)
    PROVE  /\ Clamp(Converted(l, default), lo, hi) = Wanted(l, default, lo .. hi)
           /\ Clamp(Converted(l, default), lo, hi) \in lo .. hi
<1> USE DEF Allowed
<1>1. CASE Says(l)
  <2>1. strng[l] = LastWord(l)[2]
      BY <1>1 DEF Heard, Says
  <2>2. strng[l].value \in Int
      BY TextsAre DEF Heard, Texts
  <2>3. Converted(l, default) = IntOf(strng[l].value)
      BY <1>1 DEF Converted
  <2>4. Clamp(strng[l].value, lo, hi) = Nearest(strng[l].value, lo .. hi)
      BY <2>2, ClampIsNearest
  <2> QED
      BY <1>1, <2>1, <2>2, <2>3, <2>4, ClampTwice DEF Wanted
<1>2. CASE ~Says(l)
    BY <1>2 DEF Converted, Wanted, Clamp
<1> QED
    BY <1>1, <1>2

-----------------------------------------------------------------------------
(* What the conversion of one option makes of the settings.                 *)
VerbosityMakes(t, s, v, d, q) ==
    t = [s EXCEPT !.verbosityLevel = v, !.debugFlag = d, !.quietFlag = q]
CountMakes(t, s, v, d) ==
    t = [s EXCEPT !.pingSendAttemptsLeft = v, !.continousPingMode = d]
IntervalMakes(t, s, v) == t = [s EXCEPT !.intervalBwPings = v]
LengthMakes(t, s, v) == t = [s EXCEPT !.ip4_HdrOptionSize = v]
TimeToLiveMakes(t, s, v) == t = [s EXCEPT !.ip4_HeaderTTL_Value = v]
WaitMakes(t, s, v) == t = [s EXCEPT !.waitTimeInSec = v]

LEMMA VerbosityMade ==
    ASSUME NEW s \in Settings, NEW v \in -9 .. 9, NEW d \in BOOLEAN, NEW q \in BOOLEAN,
           NEW t, VerbosityMakes(t, s, v, d, q)
    PROVE  t \in Settings /\ t.verbosityLevel = v
<1> DEFINE a == [s EXCEPT !.verbosityLevel = v]
           b == [a EXCEPT !.debugFlag = d]
           c == [b EXCEPT !.quietFlag = q]
<1>1. a \in Settings /\ a.verbosityLevel = v
    BY SMT DEF Settings
<1>2. t = c
    BY DEF VerbosityMakes
<1> HIDE DEF a
<1>3. b \in Settings /\ b.verbosityLevel = v
    BY <1>1, SMT DEF Settings
<1> HIDE DEF b
<1>4. c \in Settings /\ c.verbosityLevel = v
    BY <1>3, SMT DEF Settings
<1> HIDE DEF c
<1> QED
    BY <1>2, <1>4

LEMMA CountMade ==
    ASSUME NEW s \in Settings, NEW v \in 0 .. 100, NEW d \in BOOLEAN,
           NEW t, CountMakes(t, s, v, d)
    PROVE  /\ t \in Settings /\ t.verbosityLevel = s.verbosityLevel
           /\ t.pingSendAttemptsLeft = v /\ t.continousPingMode = d
<1> DEFINE a == [s EXCEPT !.pingSendAttemptsLeft = v]
           b == [a EXCEPT !.continousPingMode = d]
<1>1. /\ a \in Settings /\ a.pingSendAttemptsLeft = v
      /\ a.verbosityLevel = s.verbosityLevel
    BY SMT DEF Settings
<1>2. t = b
    BY DEF CountMakes
<1> HIDE DEF a
<1>3. /\ b \in Settings /\ b.pingSendAttemptsLeft = v /\ b.continousPingMode = d
      /\ b.verbosityLevel = s.verbosityLevel
    BY <1>1, SMT DEF Settings
<1> HIDE DEF b
<1> QED
    BY <1>2, <1>3

LEMMA IntervalMade ==
    ASSUME NEW s \in Settings, NEW v \in MinInterval .. MaxInterval, NEW t, IntervalMakes(t, s, v)
    PROVE  /\ t \in Settings /\ t.intervalBwPings = v
           /\ t.verbosityLevel = s.verbosityLevel
           /\ t.pingSendAttemptsLeft = s.pingSendAttemptsLeft
           /\ t.continousPingMode = s.continousPingMode
BY SMT DEF Settings, IntervalMakes

LEMMA LengthMade ==
    ASSUME NEW s \in Settings, NEW v \in {0} \cup 8 .. 40, NEW t, LengthMakes(t, s, v)
    PROVE  /\ t \in Settings /\ t.ip4_HdrOptionSize = v
           /\ t.verbosityLevel = s.verbosityLevel
           /\ t.pingSendAttemptsLeft = s.pingSendAttemptsLeft
           /\ t.continousPingMode = s.continousPingMode
           /\ t.intervalBwPings = s.intervalBwPings
BY SMT DEF Settings, LengthMakes

LEMMA TimeToLiveMade ==
    ASSUME NEW s \in Settings, NEW v \in 0 .. 255, NEW t, TimeToLiveMakes(t, s, v)
    PROVE  /\ t \in Settings /\ t.ip4_HeaderTTL_Value = v
           /\ t.verbosityLevel = s.verbosityLevel
           /\ t.pingSendAttemptsLeft = s.pingSendAttemptsLeft
           /\ t.continousPingMode = s.continousPingMode
           /\ t.intervalBwPings = s.intervalBwPings
           /\ t.ip4_HdrOptionSize = s.ip4_HdrOptionSize
BY SMT DEF Settings, TimeToLiveMakes

LEMMA WaitMade ==
    ASSUME NEW s \in Settings, NEW v \in 1 .. 20, NEW t, WaitMakes(t, s, v)
    PROVE  /\ t \in Settings /\ t.waitTimeInSec = v
           /\ t.verbosityLevel = s.verbosityLevel
           /\ t.pingSendAttemptsLeft = s.pingSendAttemptsLeft
           /\ t.continousPingMode = s.continousPingMode
           /\ t.intervalBwPings = s.intervalBwPings
           /\ t.ip4_HdrOptionSize = s.ip4_HdrOptionSize
           /\ t.ip4_HeaderTTL_Value = s.ip4_HeaderTTL_Value
BY SMT DEF Settings, WaitMakes

LEMMA ParseVerbosityStep == OptionsInv /\ ParseVerbosity => OptionsInv'
<1> SUFFICES ASSUME OptionsInv, ParseVerbosity PROVE OptionsInv'
    OBVIOUS
<1> DEFINE level == Clamp(Converted("v", 0), -9, 9)
           loud == level >= 9
           silent == level <= -5
<1>1. /\ Parse("v", "c") /\ parsing = "v" /\ words' = words /\ setting \in Settings
      /\ setting' = [setting EXCEPT !.verbosityLevel = level,
                        !.debugFlag = loud, !.quietFlag = silent]
    BY DEF ParseVerbosity, Parse, OptionsInv, CommandLine
<1>2. "v" \in Letters /\ Pending = Letters /\ Heard("v")
    BY <1>1 DEF Letters, Pending, OptionsInv, CommandLine
<1>3. FlagOfText("v") <=> Says("v")
    BY <1>2 DEF Heard, FlagOfText, Says
<1>4. level = Wanted("v", 0, -9 .. 9) /\ level \in -9 .. 9
  <2>1. Allowed(0, -9, 9)
      BY DEF Allowed
  <2> QED
      BY <1>2, <1>3, <2>1, ConvertedIsWanted
<1>5. loud \in BOOLEAN /\ silent \in BOOLEAN
    OBVIOUS
<1> HIDE DEF level, loud, silent
<1>6. setting' \in Settings /\ setting'.verbosityLevel = level
  <2>1. VerbosityMakes(setting', setting, level, loud, silent)
      BY <1>1, Zenon DEF VerbosityMakes
  <2> QED
      BY <1>1, <1>4, <1>5, <2>1, VerbosityMade
<1>7. CommandLine' /\ Pending' = Letters \ {"v"}
    BY <1>1, <1>2, <1>6, Parsed
<1>8. VerbositySet'
    BY <1>1, <1>4, <1>6, SaidKept DEF VerbositySet
<1>9. SetSoFar'
    BY <1>7, <1>8 DEF SetSoFar, Letters
<1> QED
    BY <1>7, <1>9 DEF OptionsInv

LEMMA ParseCountStep == OptionsInv /\ ParseCount => OptionsInv'
<1> SUFFICES ASSUME OptionsInv, ParseCount PROVE OptionsInv'
    OBVIOUS
<1> DEFINE count == Clamp(Converted("c", 3), 0, 100)
           forever == count = 0
<1>1. /\ Parse("c", "i") /\ parsing = "c" /\ words' = words /\ setting \in Settings
      /\ setting' = [setting EXCEPT !.pingSendAttemptsLeft = count,
                                    !.continousPingMode = forever]
    BY DEF ParseCount, Parse, OptionsInv, CommandLine
<1>2. "c" \in Letters /\ Pending = Letters \ {"v"} /\ Heard("c")
    BY <1>1 DEF Letters, Pending, OptionsInv, CommandLine
<1>3. FlagOfText("c") <=> Says("c")
    BY <1>2 DEF Heard, FlagOfText, Says
<1>4. count = Wanted("c", 3, 0 .. 100) /\ count \in 0 .. 100
  <2>1. Allowed(3, 0, 100)
      BY DEF Allowed
  <2> QED
      BY <1>2, <1>3, <2>1, ConvertedIsWanted
<1>5. forever \in BOOLEAN
    OBVIOUS
<1> HIDE DEF count, forever
<1>6. /\ setting' \in Settings /\ setting'.verbosityLevel = setting.verbosityLevel
      /\ setting'.pingSendAttemptsLeft = count /\ setting'.continousPingMode = forever
  <2>1. CountMakes(setting', setting, count, forever)
      BY <1>1, Zenon DEF CountMakes
  <2>2. setting \in Settings /\ count \in 0 .. 100 /\ forever \in BOOLEAN
      BY <1>1, <1>4, <1>5, Zenon
  <2> QED
      BY <2>1, <2>2, CountMade, SMTT(30)
<1>7. CommandLine' /\ Pending' = Letters \ {"v", "c"}
    BY <1>1, <1>2, <1>6, Parsed
<1>8. CountSet'
  <2>1. Wanted("c", 3, 0 .. 100)' = count
      BY <1>1, <1>4, SaidKept
  <2>2. setting'.continousPingMode <=> count = 0
      BY <1>6 DEF forever
  <2> QED
      BY <1>6, <2>1, <2>2 DEF CountSet
<1>9. VerbositySet'
    BY <1>1, <1>2, <1>6, VerbosityKept DEF OptionsInv, SetSoFar, Letters
<1>10. SetSoFar'
    BY <1>7, <1>8, <1>9 DEF SetSoFar, Letters
<1> QED
    BY <1>7, <1>10 DEF OptionsInv

LEMMA ParseIntervalStep == OptionsInv /\ ParseInterval => OptionsInv'
<1> SUFFICES ASSUME OptionsInv, ParseInterval PROVE OptionsInv'
    OBVIOUS
<1>1. PICK n \in IF ~flag'["i"] THEN {10 * MinInterval}
                 ELSE IF strng["i"].kind = "nan" THEN LargeOrZero
                 ELSE {Clamp(strng["i"].value, MinInterval, MaxInterval)} :
            setting' = [setting EXCEPT !.intervalBwPings = IntervalLimited(n)]
    BY DEF ParseInterval
<1>2. Parse("i", "l") /\ parsing = "i" /\ words' = words /\ setting \in Settings
    BY DEF ParseInterval, Parse, OptionsInv, CommandLine
<1>3. "i" \in Letters /\ Pending = {"i", "l", "t", "w"} /\ Heard("i")
    BY <1>2 DEF Letters, Pending, OptionsInv, CommandLine
<1>4. (FlagOfText("i") <=> Says("i")) /\ (flag'["i"] <=> Says("i"))
  <2>1. FlagOfText("i") <=> Says("i")
      BY <1>3 DEF Heard, FlagOfText, Says
  <2>2. flag' = [flag EXCEPT !["i"] = FlagOfText("i")] /\ flag \in [Letters -> BOOLEAN]
      BY <1>2 DEF Parse, OptionsInv, CommandLine
  <2>3. flag'["i"] = FlagOfText("i")
      BY <1>3, <2>2
  <2> QED
      BY <2>1, <2>3
<1>5. strng["i"].value \in Int
    BY <1>3, TextsAre DEF Heard, Texts
<1>6. Says("i") => strng["i"] = LastWord("i")[2]
    BY <1>3 DEF Heard, Says
<1> DEFINE v == IntervalLimited(n)
<1>7. /\ v \in MinInterval .. MaxInterval
      /\ IF Says("i") /\ LastWord("i")[2].kind = "nan"
         THEN v \in {MinInterval, MaxInterval}
         ELSE v = Wanted("i", 10 * MinInterval, MinInterval .. MaxInterval)
  <2>1. CASE ~Says("i")
      BY <1>1, <1>4, <2>1 DEF IntervalLimited, Clamp, MinInterval, MaxInterval, Wanted
  <2>2. CASE Says("i") /\ strng["i"].kind = "nan"
      BY <1>1, <1>4, <1>6, <2>2
         DEF IntervalLimited, LargeOrZero, Clamp, MinInterval, MaxInterval
  <2>3. CASE Says("i") /\ strng["i"].kind # "nan"
    <3>1. n = Clamp(strng["i"].value, MinInterval, MaxInterval)
        BY <1>1, <1>4, <2>3
    <3>2. v = n /\ v \in MinInterval .. MaxInterval
        BY <1>5, <3>1 DEF IntervalLimited, Clamp, MinInterval, MaxInterval
    <3>3. n = Nearest(strng["i"].value, MinInterval .. MaxInterval)
      <4>1. MinInterval \in Int /\ MaxInterval \in Int /\ MinInterval <= MaxInterval
          BY DEF MinInterval, MaxInterval
      <4> QED
          BY <1>5, <3>1, <4>1, ClampIsNearest
    <3> QED
        BY <1>6, <2>3, <3>2, <3>3 DEF Wanted
  <2> QED
      BY <2>1, <2>2, <2>3
<1>8. setting' = [setting EXCEPT !.intervalBwPings = v]
    BY <1>1
<1> HIDE DEF v
<1>9. /\ setting' \in Settings /\ setting'.intervalBwPings = v
      /\ setting'.verbosityLevel = setting.verbosityLevel
      /\ setting'.pingSendAttemptsLeft = setting.pingSendAttemptsLeft
      /\ setting'.continousPingMode = setting.continousPingMode
  <2>1. IntervalMakes(setting', setting, v) /\ v \in MinInterval .. MaxInterval
      BY <1>7, <1>8, Zenon DEF IntervalMakes
  <2> QED
      BY <1>2, <2>1, IntervalMade
<1>10. CommandLine' /\ Pending' = {"l", "t", "w"}
    BY <1>2, <1>3, <1>9, Parsed
<1>11. IntervalSet'
    BY <1>2, <1>7, <1>9, SaidKept DEF IntervalSet
<1>12. VerbositySet' /\ CountSet'
    BY <1>2, <1>3, <1>9, VerbosityKept, CountKept DEF OptionsInv, SetSoFar
<1>13. SetSoFar'
    BY <1>10, <1>11, <1>12 DEF SetSoFar
<1> QED
    BY <1>10, <1>13 DEF OptionsInv

-----------------------------------------------------------------------------
(* An int that does not fit wraps around once.                              *)
LEMMA WrappedIs ==
    ASSUME NEW n \in Int, IntMin <= n, n <= IntMax + 3
    PROVE  Wrapped(n) = IF n <= IntMax THEN n ELSE n - 2 * IntMax - 2
<1> DEFINE m == 2 * IntMax + 2
           x == n - IntMin
<1>1. m \in Nat /\ m > 0 /\ x \in Nat /\ x < 2 * m /\ IntMax - IntMin + 1 = m
    BY IntAssumption DEF IntMin
<1>2. (x % m) = IF x < m THEN x ELSE x - m
  <2> HIDE DEF m, x
  <2>1. x = m * (x \div m) + (x % m) /\ 0 <= (x % m) /\ (x % m) < m /\ (x \div m) \in Int
      BY <1>1
  <2>2. 0 <= (x \div m) /\ (x \div m) < 2
      BY <1>1, <2>1
  <2>3. (x \div m) = 0 \/ (x \div m) = 1
      BY <2>1, <2>2
  <2> QED
      BY <1>1, <2>1, <2>3
<1>3. Wrapped(n) = (x % m) + IntMin
    BY <1>1 DEF Wrapped
<1> QED
    BY <1>2, <1>3, IntAssumption DEF IntMin

LEMMA LengthIsNext ==
    ASSUME NEW asked \in Int
    PROVE  /\ Clamp(RoundedUp(IntOf(asked)), 8, 40) = LengthOf(asked)
           /\ Clamp(RoundedUp(IntOf(asked)), 8, 40) \in 8 .. 40
<1> DEFINE n == IntOf(asked)
           w == Wrapped(n + 3)
           c == Clamp(4 * Quarter(w), 8, 40)
<1>0. Clamp(RoundedUp(IntOf(asked)), 8, 40) = c
    BY DEF RoundedUp
<1>1. n \in Int /\ IntMin <= n /\ n <= IntMax /\ IntMin \in Int /\ IntMin < -300
    BY IntAssumption DEF IntOf, Clamp, IntMin
<1>2. w = IF n + 3 <= IntMax THEN n + 3 ELSE n + 3 - 2 * IntMax - 2
    BY <1>1, WrappedIs, IntAssumption
<1>3. CASE asked > IntMax - 3
  <2>1. n > IntMax - 3
      BY <1>3, IntAssumption DEF IntOf, Clamp, IntMin
  <2>2. w \in Int /\ w < 0
      BY <1>1, <1>2, <2>1, IntAssumption
  <2> HIDE DEF w
  <2>3. c = 8
      BY <2>2 DEF Quarter, Clamp
  <2> QED
      BY <1>0, <1>3, <2>3 DEF LengthOf
<1>4. CASE ~(asked > IntMax - 3)
  <2>1. n = IF asked < IntMin THEN IntMin ELSE asked
      BY <1>4, IntAssumption DEF IntOf, Clamp, IntMin
  <2>2. w = n + 3
      BY <1>1, <1>2, <1>4, <2>1, IntAssumption
  <2> HIDE DEF w, n
  <2>3. CASE asked > 40
    <3>1. n > 40
        BY <1>1, <2>1, <2>3
    <3>2. c = 40
        BY <1>1, <2>2, <3>1 DEF Quarter, Clamp
    <3>3. LongEnough(asked) = {}
        BY <2>3 DEF LongEnough
    <3> QED
        BY <1>0, <1>4, <3>2, <3>3 DEF LengthOf
  <2>4. CASE asked <= 40
    <3>1. c \in LongEnough(asked)
        BY <1>1, <2>1, <2>2, <2>4 DEF Quarter, Clamp, LongEnough
    <3>2. ASSUME NEW k \in LongEnough(asked) PROVE c <= k
        BY <1>1, <2>1, <2>2, <2>4 DEF Quarter, Clamp, LongEnough
    <3>3. LongEnough(asked) \subseteq Int
        BY DEF LongEnough
    <3>4. c \in 8 .. 40
        BY <3>1 DEF LongEnough
    <3> HIDE DEF c
    <3>5. \A k \in LongEnough(asked) : (\A j \in LongEnough(asked) : k <= j) => k = c
        BY <3>1, <3>2, <3>3
    <3>6. c = CHOOSE k \in LongEnough(asked) : \A j \in LongEnough(asked) : k <= j
        BY <3>1, <3>2, <3>5
    <3> QED
        BY <1>0, <1>4, <3>1, <3>4, <3>6 DEF LengthOf
  <2> QED
      BY <2>3, <2>4
<1> QED
    BY <1>3, <1>4

LEMMA ParseLengthStep == OptionsInv /\ ParseLength => OptionsInv'
<1> SUFFICES ASSUME OptionsInv, ParseLength PROVE OptionsInv'
    OBVIOUS
<1> DEFINE v == IF flag'["l"] THEN Clamp(RoundedUp(Converted("l", 0)), 8, 40) ELSE 0
<1>1. /\ Parse("l", "t") /\ parsing = "l" /\ words' = words /\ setting \in Settings
      /\ setting' = [setting EXCEPT !.ip4_HdrOptionSize = v]
    BY DEF ParseLength, Parse, OptionsInv, CommandLine
<1>2. "l" \in Letters /\ Pending = {"l", "t", "w"} /\ Heard("l")
    BY <1>1 DEF Letters, Pending, OptionsInv, CommandLine
<1>3. (FlagOfText("l") <=> Says("l")) /\ (flag'["l"] <=> Says("l"))
  <2>1. FlagOfText("l") <=> Says("l")
      BY <1>2 DEF Heard, FlagOfText, Says
  <2>2. flag' = [flag EXCEPT !["l"] = FlagOfText("l")] /\ flag \in [Letters -> BOOLEAN]
      BY <1>1 DEF Parse, OptionsInv, CommandLine
  <2>3. flag'["l"] = FlagOfText("l")
      BY <1>2, <2>2
  <2> QED
      BY <2>1, <2>3
<1>4. /\ Says("l") => v = LengthOf(LastWord("l")[2].value)
      /\ v \in {0} \cup 8 .. 40
  <2>1. CASE Says("l")
    <3>1. strng["l"] = LastWord("l")[2] /\ strng["l"].value \in Int
        BY <1>2, <2>1, TextsAre DEF Heard, Says, Texts
    <3>2. Converted("l", 0) = IntOf(strng["l"].value)
        BY <1>3, <2>1 DEF Converted
    <3>3. v = Clamp(RoundedUp(IntOf(strng["l"].value)), 8, 40)
        BY <1>3, <2>1, <3>2
    <3> HIDE DEF v
    <3> QED
        BY <3>1, <3>3, LengthIsNext
  <2>2. CASE ~Says("l")
      BY <1>3, <2>2
  <2> QED
      BY <2>1, <2>2
<1> HIDE DEF v
<1>5. /\ setting' \in Settings /\ setting'.ip4_HdrOptionSize = v
      /\ setting'.verbosityLevel = setting.verbosityLevel
      /\ setting'.pingSendAttemptsLeft = setting.pingSendAttemptsLeft
      /\ setting'.continousPingMode = setting.continousPingMode
      /\ setting'.intervalBwPings = setting.intervalBwPings
  <2>1. LengthMakes(setting', setting, v)
      BY <1>1, Zenon DEF LengthMakes
  <2> QED
      BY <1>1, <1>4, <2>1, LengthMade
<1>6. CommandLine' /\ Pending' = {"t", "w"}
    BY <1>1, <1>2, <1>5, Parsed
<1>7. LengthSet'
    BY <1>1, <1>4, <1>5, SaidKept DEF LengthSet
<1>8. VerbositySet' /\ CountSet' /\ IntervalSet'
    BY <1>1, <1>2, <1>5, VerbosityKept, CountKept, IntervalKept DEF OptionsInv, SetSoFar
<1>9. SetSoFar'
    BY <1>6, <1>7, <1>8 DEF SetSoFar
<1> QED
    BY <1>6, <1>9 DEF OptionsInv

(* So for -t, whose default is a hop limit of 1 and whose limits are 0 and 255. *)
LEMMA TimeToLiveIsWanted ==
    ASSUME Heard("t"), FlagOfText("t") <=> Says("t")
    PROVE  /\ Clamp(Converted("t", 1), 0, 255) = Wanted("t", 1, 0 .. 255)
           /\ Clamp(Converted("t", 1), 0, 255) \in 0 .. 255
<1>1. "t" \in Letters /\ "t" # "i"
    BY DEF Letters
<1>2. Allowed(1, 0, 255)
    BY DEF Allowed
<1> QED
    BY <1>1, <1>2, ConvertedIsWanted

LEMMA ParseTimeToLiveStep == OptionsInv /\ ParseTimeToLive => OptionsInv'
<1> SUFFICES ASSUME OptionsInv, ParseTimeToLive PROVE OptionsInv'
    OBVIOUS
<1> DEFINE v == Clamp(Converted("t", 1), 0, 255)
<1>1. /\ Parse("t", "w") /\ parsing = "t" /\ words' = words /\ setting \in Settings
      /\ setting' = [setting EXCEPT !.ip4_HeaderTTL_Value = v]
    BY DEF ParseTimeToLive, Parse, OptionsInv, CommandLine
<1>2. "t" \in Letters /\ Pending = {"t", "w"} /\ Heard("t")
    BY <1>1 DEF Letters, Pending, OptionsInv, CommandLine
<1>3. FlagOfText("t") <=> Says("t")
    BY <1>2 DEF Heard, FlagOfText, Says
<1>4. v = Wanted("t", 1, 0 .. 255) /\ v \in 0 .. 255
  <2>1. /\ Clamp(Converted("t", 1), 0, 255) = Wanted("t", 1, 0 .. 255)
        /\ Clamp(Converted("t", 1), 0, 255) \in 0 .. 255
      BY <1>2, <1>3, TimeToLiveIsWanted
  <2> QED
      BY <2>1, Zenon
<1> HIDE DEF v
<1>5. /\ setting' \in Settings /\ setting'.ip4_HeaderTTL_Value = v
      /\ setting'.verbosityLevel = setting.verbosityLevel
      /\ setting'.pingSendAttemptsLeft = setting.pingSendAttemptsLeft
      /\ setting'.continousPingMode = setting.continousPingMode
      /\ setting'.intervalBwPings = setting.intervalBwPings
      /\ setting'.ip4_HdrOptionSize = setting.ip4_HdrOptionSize
  <2>1. TimeToLiveMakes(setting', setting, v)
      BY <1>1, Zenon DEF TimeToLiveMakes
  <2>2. v \in 0 .. 255 /\ setting \in Settings
      BY <1>1, <1>4
  <2> QED
      BY <2>1, <2>2, TimeToLiveMade, SMTT(30)
<1>6. CommandLine' /\ Pending' = {"w"}
    BY <1>1, <1>2, <1>5, Parsed
<1>7. TimeToLiveSet'
    BY <1>1, <1>4, <1>5, SaidKept DEF TimeToLiveSet
<1>8. VerbositySet' /\ CountSet' /\ IntervalSet' /\ LengthSet'
    BY <1>1, <1>2, <1>5, VerbosityKept, CountKept, IntervalKept, LengthKept
       DEF OptionsInv, SetSoFar
<1>9. SetSoFar'
    BY <1>6, <1>7, <1>8 DEF SetSoFar
<1> QED
    BY <1>6, <1>9 DEF OptionsInv

LEMMA ParseWaitStep == OptionsInv /\ ParseWait => OptionsInv'
<1> SUFFICES ASSUME OptionsInv, ParseWait PROVE OptionsInv'
    OBVIOUS
<1> DEFINE v == Clamp(Converted("w", 2), 1, 20)
<1>1. /\ Parse("w", "done") /\ parsing = "w" /\ words' = words /\ setting \in Settings
      /\ setting' = [setting EXCEPT !.waitTimeInSec = v]
    BY DEF ParseWait, Parse, OptionsInv, CommandLine
<1>2. "w" \in Letters /\ Pending = {"w"} /\ Heard("w")
    BY <1>1 DEF Letters, Pending, OptionsInv, CommandLine
<1>3. FlagOfText("w") <=> Says("w")
    BY <1>2 DEF Heard, FlagOfText, Says
<1>4. v = Wanted("w", 2, 1 .. 20) /\ v \in 1 .. 20
  <2>1. Allowed(2, 1, 20)
      BY DEF Allowed
  <2> QED
      BY <1>2, <1>3, <2>1, ConvertedIsWanted
<1> HIDE DEF v
<1>5. /\ setting' \in Settings /\ setting'.waitTimeInSec = v
      /\ setting'.verbosityLevel = setting.verbosityLevel
      /\ setting'.pingSendAttemptsLeft = setting.pingSendAttemptsLeft
      /\ setting'.continousPingMode = setting.continousPingMode
      /\ setting'.intervalBwPings = setting.intervalBwPings
      /\ setting'.ip4_HdrOptionSize = setting.ip4_HdrOptionSize
      /\ setting'.ip4_HeaderTTL_Value = setting.ip4_HeaderTTL_Value
  <2>1. WaitMakes(setting', setting, v)
      BY <1>1, Zenon DEF WaitMakes
  <2> QED
      BY <1>1, <1>4, <2>1, WaitMade
<1>6. CommandLine' /\ Pending' = {}
    BY <1>1, <1>2, <1>5, Parsed
<1>7. WaitSet'
    BY <1>1, <1>4, <1>5, SaidKept DEF WaitSet
<1>8. VerbositySet' /\ CountSet' /\ IntervalSet' /\ LengthSet' /\ TimeToLiveSet'
    BY <1>1, <1>2, <1>5, VerbosityKept, CountKept, IntervalKept, LengthKept, TimeToLiveKept
       DEF OptionsInv, SetSoFar
<1>9. SetSoFar'
    BY <1>7, <1>8 DEF SetSoFar
<1> QED
    BY <1>6, <1>9 DEF OptionsInv

DefaultsMake(t, s) ==
    t = [s EXCEPT !.verbosityLevel = 0, !.debugFlag = FALSE,
            !.quietFlag = FALSE, !.pingSendAttemptsLeft = 3, !.continousPingMode = FALSE,
            !.intervalBwPings = 10 * MinInterval, !.ip4_HdrOptionSize = 0,
            !.ip4_HeaderTTL_Value = 1, !.waitTimeInSec = 2]

LEMMA SwitchMade ==
    ASSUME NEW s \in Settings, NEW b \in BOOLEAN
    PROVE  /\ [s EXCEPT !.debugFlag = b] \in Settings
           /\ [s EXCEPT !.quietFlag = b] \in Settings
           /\ [s EXCEPT !.continousPingMode = b] \in Settings
BY SMT DEF Settings

LEMMA DefaultsMade ==
    ASSUME NEW s \in Settings, NEW t, DefaultsMake(t, s)
    PROVE  t \in Settings
<1> DEFINE s1 == [s EXCEPT !.verbosityLevel = 0]
           s2 == [s1 EXCEPT !.debugFlag = FALSE]
           s3 == [s2 EXCEPT !.quietFlag = FALSE]
           s4 == [s3 EXCEPT !.pingSendAttemptsLeft = 3]
           s5 == [s4 EXCEPT !.continousPingMode = FALSE]
           s6 == [s5 EXCEPT !.intervalBwPings = 10 * MinInterval]
           s7 == [s6 EXCEPT !.ip4_HdrOptionSize = 0]
           s8 == [s7 EXCEPT !.ip4_HeaderTTL_Value = 1]
           s9 == [s8 EXCEPT !.waitTimeInSec = 2]
<1>0. t = s9
    BY DEF DefaultsMake
<1>1. s1 \in Settings
    BY SMT DEF Settings, MinInterval, MaxInterval
<1> HIDE DEF s1
<1>2. s2 \in Settings
    BY <1>1, SwitchMade, Zenon
<1> HIDE DEF s2
<1>3. s3 \in Settings
    BY <1>2, SwitchMade, Zenon
<1> HIDE DEF s3
<1>4. s4 \in Settings
    BY <1>3, SMT DEF Settings, MinInterval, MaxInterval
<1> HIDE DEF s4
<1>5. s5 \in Settings
    BY <1>4, SwitchMade, Zenon
<1> HIDE DEF s5
<1>6. s6 \in Settings
    BY <1>5, SMT DEF Settings, MinInterval, MaxInterval
<1> HIDE DEF s6
<1>7. s7 \in Settings
    BY <1>6, SMT DEF Settings, MinInterval, MaxInterval
<1> HIDE DEF s7
<1>8. s8 \in Settings
    BY <1>7, SMT DEF Settings, MinInterval, MaxInterval
<1> HIDE DEF s8
<1>9. s9 \in Settings
    BY <1>8, SMT DEF Settings, MinInterval, MaxInterval
<1> HIDE DEF s9
<1> QED
    BY <1>0, <1>9

LEMMA NextStartStep == OptionsInv /\ NextStart => OptionsInv'
<1> SUFFICES ASSUME OptionsInv, NextStart PROVE OptionsInv'
    OBVIOUS
<1>1. /\ words' = <<>> /\ parsing' = "argv"
      /\ flag' = [l \in Letters |-> FALSE] /\ strng' = [l \in Letters |-> NoString]
    BY DEF NextStart
<1>2. setting' \in Settings
  <2>1. setting \in Settings
      BY DEF OptionsInv, CommandLine
  <2>2. DefaultsMake(setting', setting)
      BY DEF NextStart, DefaultsMake
  <2> QED
      BY <2>1, <2>2, DefaultsMade
<1>3. \A l : LastWord(l)' = <<>>
    BY <1>1 DEF LastWord
<1>4. Pending' = Letters
    BY <1>1 DEF Pending, Letters
<1>5. \A l \in Letters : Heard(l)'
  <2>1. \A l \in Letters : strng'[l] = NoString /\ ~flag'[l] /\ NoString \in TextOf(l)
      BY <1>1, TextsAre
  <2> QED
      BY <1>3, <1>4, <2>1 DEF Heard
<1>6. flag' \in [Letters -> BOOLEAN] /\ strng' \in [Letters -> Texts]
  <2>1. NoString \in Texts
      BY DEF NoString, Texts
  <2> QED
      BY <1>1, <2>1
<1>7. words' \in Seq(Word) /\ Len(words') <= MaxGiven
    BY <1>1, GivenAssumption
<1>8. CommandLine'
    BY <1>1, <1>2, <1>5, <1>6, <1>7 DEF CommandLine
<1>9. SetSoFar'
    BY <1>4 DEF SetSoFar, Letters
<1> QED
    BY <1>8, <1>9 DEF OptionsInv

-----------------------------------------------------------------------------
LEMMA OptionsInvariant == OptionsSpec => []OptionsInv
<1>1. OptionsInv /\ [OptionsNext]_optionsVars => OptionsInv'
    BY GetOptionStep, EndOfOptionsStep, ParseVerbosityStep, ParseCountStep,
       ParseIntervalStep, ParseLengthStep, ParseTimeToLiveStep, ParseWaitStep,
       NextStartStep, OptionsStutter DEF OptionsNext
<1> QED
    BY <1>1, OptionsInitInv, PTL DEF OptionsSpec

(* The limits of the code and of the help differ below 1 only.              *)
LEMMA NearestTimesToLive ==
    ASSUME NEW n \in Int, n >= 1
    PROVE  Nearest(n, 0 .. 255) = Nearest(n, 1 .. 255)
<1>1. ASSUME NEW lo \in {0, 1}, NEW hi, hi = 255
      PROVE  Clamp(n, lo, hi) = Nearest(n, lo .. hi)
    BY <1>1, ClampIsNearest
<1>2. Clamp(n, 0, 255) = Nearest(n, 0 .. 255) /\ Clamp(n, 1, 255) = Nearest(n, 1 .. 255)
    BY <1>1, Zenon
<1>3. Clamp(n, 0, 255) = Clamp(n, 1, 255)
    BY DEF Clamp
<1> QED
    BY <1>2, <1>3, Zenon

(* A time to live of 1 or more is brought to the nearest that the help      *)
(* allows.                                                                  *)
LEMMA TimeToLiveInLimits ==
    ASSUME TimeToLiveSet,
           Says("t") => LastWord("t")[2].value \in Int /\ LastWord("t")[2].value >= 1
    PROVE  setting.ip4_HeaderTTL_Value = Wanted("t", 1, 1 .. 255)
<1>1. CASE Says("t")
  <2> DEFINE n == LastWord("t")[2].value
  <2>1. n \in Int /\ n >= 1
      BY <1>1
  <2>2. setting.ip4_HeaderTTL_Value = Nearest(n, 0 .. 255)
      BY <1>1 DEF TimeToLiveSet, Wanted
  <2>3. Wanted("t", 1, 1 .. 255) = Nearest(n, 1 .. 255)
      BY <1>1 DEF Wanted
  <2> HIDE DEF n
  <2>4. Nearest(n, 0 .. 255) = Nearest(n, 1 .. 255)
      BY <2>1, NearestTimesToLive
  <2> QED
      BY <2>2, <2>3, <2>4, Zenon
<1>2. CASE ~Says("t")
    BY <1>2 DEF TimeToLiveSet, Wanted
<1> QED
    BY <1>1, <1>2

LEMMA OptionsAsGivenOf == OptionsInv => OptionsAsGiven
<1> SUFFICES ASSUME OptionsInv PROVE OptionsAsGiven
    OBVIOUS
<1>1. CASE parsing # "done"
    BY <1>1 DEF OptionsAsGiven, LastWordCounts, IntervalIsSafe, LengthIsNearest
<1>2. CASE parsing = "done"
  <2>1. Pending = {}
      BY <1>2 DEF Pending
  <2>2. VerbositySet /\ CountSet /\ IntervalSet /\ LengthSet /\ TimeToLiveSet /\ WaitSet
      BY <2>1 DEF OptionsInv, SetSoFar
  <2>3. \A l \in Letters : flag[l] <=> Says(l)
      BY <2>1 DEF OptionsInv, CommandLine, Heard
  <2>4. LastWordCounts
    <3>1. Says("t") => LastWord("t")[2].value \in Int
      <4>1. "t" \in Letters /\ Heard("t")
          BY DEF OptionsInv, CommandLine, Letters
      <4>2. strng["t"] \in Texts
          BY <4>1, TextsAre DEF Heard
      <4> QED
          BY <4>1, <4>2 DEF Heard, Says, Texts
    <3>2. (Says("t") => LastWord("t")[2].value >= 1) =>
              setting.ip4_HeaderTTL_Value = Wanted("t", 1, 1 .. 255)
        BY <2>2, <3>1, TimeToLiveInLimits
    <3> QED
        BY <2>2, <2>3, <3>2 DEF LastWordCounts, VerbositySet, CountSet, WaitSet
  <2>5. IntervalIsSafe
      BY <2>2 DEF IntervalIsSafe, IntervalSet
  <2>6. LengthIsNearest
      BY <2>2 DEF LengthIsNearest, LengthSet, LengthOf, LongEnough
  <2> QED
      BY <2>4, <2>5, <2>6 DEF OptionsAsGiven
<1> QED
    BY <1>1, <1>2

(* Each option of the command line does what the user said last, at the     *)
(* nearest value that the help allows, 0 for a time to live below 1, for    *)
(* all numbers of the arguments, all lengths of the command line and every  *)
(* int that holds the limits: getopt(), convertOptionStringToInteger() and  *)
(* limitIntegerValue() together (ping3.c:1121-1248, genFun.c:189-262).      *)
THEOREM CommandLineCounts == OptionsSpec => []OptionsAsGiven
BY OptionsInvariant, OptionsAsGivenOf, PTL

(* Every setting stays in its range, whatever is asked for.                 *)
THEOREM OptionsTyped == OptionsSpec => []OptionsTypeOK
<1>1. OptionsInv => OptionsTypeOK
    BY DEF OptionsInv, CommandLine, Heard, Settings, OptionsTypeOK
<1> QED
    BY <1>1, OptionsInvariant, PTL

-----------------------------------------------------------------------------
(* The pattern and the payload                                              *)

(* What a byte of the payload may be filled with.                           *)
Fillings == [source : {"count", "timespec", "random", "hex", "time"}, place : Nat]

Shape ==
    /\ PayloadTypeOK /\ Len(chars) <= MaxChars /\ payload \in Seq(Fillings)
    /\ filling = "idle" => ~p_Flag /\ patternType = "none" /\ hexStrng = 1 /\ pattern = <<>>
    /\ filling \in {"upper", "lower"} => p_Flag /\ patternType = "hex"
    /\ filling \in {"idle", "upper", "lower"} => payload = <<>>
    /\ filling \in {"fill", "time", "filled"} =>
          /\ p_Flag <=> patternType # "none"
          /\ patternType = "hex" => pattern # <<>>

(* The pairs taken so far end before the next character, and before the     *)
(* first digit of a pair that is half read.                                 *)
Pairs ==
    /\ PatternIsPairs
    /\ filling = "upper" => \A k \in DOMAIN pattern : pattern[k] + 2 <= hexStrng
    /\ filling = "lower" =>
          /\ Len(pattern) < MaxPattern
          /\ hexStrng \in 2 .. Len(chars) /\ chars[hexStrng - 1]
          /\ \A k \in DOMAIN pattern : pattern[k] + 2 <= hexStrng - 1

(* What the fill loops put at a place.                                      *)
RightByte(i, b) ==
    /\ patternType \in {"hex", "time"} =>
          b = From(patternType, SourceBytes[((i - 1) % Len(SourceBytes)) + 1])
    /\ patternType = "none" =>
          (b.source = "timespec" <=>
              filling = "filled" /\ i <= TimeSpec /\ payloadSize >= TimeSpec)

FilledRight ==
    /\ Len(payload) <= payloadSize
    /\ filling \in {"time", "filled"} => Len(payload) = payloadSize
    /\ \A i \in 1 .. Len(payload) : RightByte(i, payload[i])

PayloadInv == Shape /\ Pairs /\ FilledRight

LEMMA PayloadInitInv == PayloadInit => PayloadInv
<1> SUFFICES ASSUME PayloadInit PROVE PayloadInv
    OBVIOUS
<1> USE PatternAssumption, PayloadAssumption DEF PayloadInit
<1>1. PayloadTypeOK
  <2>1. \A S : <<>> \in Seq(S)
      OBVIOUS
  <2>2. chars \in Seq(BOOLEAN) /\ pattern \in Seq(CharPlaces)
      BY <2>1
  <2>3. Len(chars) = 0 /\ Len(pattern) = 0 /\ Len(payload) = 0
      OBVIOUS
  <2>4. p_Flag \in BOOLEAN
      BY Zenon
  <2>5. /\ hexStrng \in 1 .. Len(chars) + 1 /\ Len(pattern) <= MaxPattern
        /\ payloadSize \in 0 .. MaxPayload /\ cnt = Len(payload)
      BY <2>3
  <2> QED
      BY <2>2, <2>4, <2>5, Zenon DEF PayloadTypeOK, Types
<1>2. Shape
    BY <1>1 DEF Shape
<1>3. Pairs /\ FilledRight
    BY DEF Pairs, PatternIsPairs, FilledRight
<1> QED
    BY <1>2, <1>3 DEF PayloadInv

LEMMA PayloadStutter == PayloadInv /\ UNCHANGED payloadVars => PayloadInv'
<1> SUFFICES ASSUME PayloadInv, UNCHANGED payloadVars PROVE PayloadInv'
    OBVIOUS
<1> USE DEF PayloadInv, payloadVars, patternVars
<1>1. Shape' /\ Pairs'
    BY DEF Shape, PayloadTypeOK, Pairs, PatternIsPairs
<1>2. \A i, c : RightByte(i, c) => RightByte(i, c)'
    BY DEF RightByte, SourceBytes
<1>3. FilledRight'
    BY <1>2 DEF FilledRight
<1> QED
    BY <1>1, <1>3

(* Nothing is filled yet.                                                   *)
LEMMA NothingFilled ==
    ASSUME payload = <<>>, payloadSize \in Nat, filling \notin {"time", "filled"}
    PROVE  FilledRight
BY DEF FilledRight

LEMMA NoPatternStep == PayloadInv /\ (NoPattern \/ NamedPattern \/ HexPattern) => PayloadInv'
<1> SUFFICES ASSUME PayloadInv, NoPattern \/ NamedPattern \/ HexPattern PROVE PayloadInv'
    OBVIOUS
<1>0. /\ PayloadTypeOK /\ payload = <<>> /\ pattern = <<>> /\ hexStrng = 1 /\ filling = "idle"
      /\ ~p_Flag /\ patternType = "none" /\ payload \in Seq(Fillings)
      /\ payload' = payload /\ pattern' = pattern /\ hexStrng' = 1 /\ cnt' = cnt
      /\ Len(chars) <= MaxChars
    BY DEF PayloadInv, Shape, NoPattern, NamedPattern, HexPattern, patternVars
<1>1. chars' \in Seq(BOOLEAN) /\ Len(chars') <= MaxChars
  <2>1. CASE chars' = chars
      BY <1>0, <2>1 DEF PayloadTypeOK
  <2>2. CASE HexPattern
      BY <2>2, PatternAssumption DEF HexPattern
  <2> QED
      BY <2>1, <2>2 DEF NoPattern, NamedPattern, patternVars
<1>2. PayloadTypeOK' /\ payloadSize' \in 0 .. MaxPayload
  <2>1. p_Flag' \in BOOLEAN /\ patternType' \in Types /\ payloadSize' \in 0 .. MaxPayload
        /\ filling' \in {"upper", "fill"}
      BY <1>0 DEF PayloadTypeOK, Types, NoPattern, NamedPattern, HexPattern, patternVars
  <2>2. hexStrng' \in 1 .. Len(chars') + 1 /\ Len(pattern) = 0 /\ MaxPattern \in Nat
      BY <1>0, <1>1, PatternAssumption
  <2> QED
      BY <1>0, <1>1, <2>1, <2>2 DEF PayloadTypeOK
<1>3. Shape'
    BY <1>0, <1>1, <1>2 DEF Shape, NoPattern, NamedPattern, HexPattern, patternVars
<1>4. Pairs'
    BY <1>0 DEF Pairs, PatternIsPairs, NoPattern, NamedPattern, HexPattern
<1>5. FilledRight'
    BY <1>0, <1>2 DEF FilledRight, NoPattern, NamedPattern, HexPattern
<1> QED
    BY <1>3, <1>4, <1>5 DEF PayloadInv

LEMMA UpperNibbleStep == PayloadInv /\ UpperNibble => PayloadInv'
<1> SUFFICES ASSUME PayloadInv, UpperNibble PROVE PayloadInv'
    OBVIOUS
<1> USE DEF UpperNibble
<1>0. /\ PayloadTypeOK /\ Shape /\ Pairs /\ payload = <<>> /\ p_Flag /\ patternType = "hex"
      /\ hexStrng \in 1 .. Len(chars) /\ Len(pattern) < MaxPattern
      /\ chars \in Seq(BOOLEAN) /\ Len(chars) \in Nat
      /\ pattern \in Seq(CharPlaces) /\ payloadSize \in Nat
    BY PatternAssumption DEF PayloadInv, Shape, PayloadTypeOK, AtEnd, PatternFull
<1>1. \A k \in DOMAIN pattern : pattern[k] \in Int /\ pattern[k] + 2 <= hexStrng
  <2>1. \A x \in CharPlaces : x \in Int
      BY PatternAssumption DEF CharPlaces
  <2> QED
      BY <1>0, <2>1 DEF Pairs
<1>2. Shape'
    BY <1>0 DEF Shape, PayloadTypeOK
<1>3. Pairs'
    BY <1>0, <1>1 DEF Pairs, PatternIsPairs, IsDigit, AtEnd
<1>4. FilledRight'
    BY <1>0 DEF FilledRight
<1> QED
    BY <1>2, <1>3, <1>4 DEF PayloadInv

LEMMA LowerNibbleStep == PayloadInv /\ LowerNibble => PayloadInv'
<1> SUFFICES ASSUME PayloadInv, LowerNibble PROVE PayloadInv'
    OBVIOUS
<1> USE DEF LowerNibble
<1>0. /\ PayloadTypeOK /\ Shape /\ Pairs /\ payload = <<>> /\ p_Flag /\ patternType = "hex"
      /\ hexStrng \in 2 .. Len(chars) /\ Len(pattern) < MaxPattern /\ chars[hexStrng - 1]
      /\ chars \in Seq(BOOLEAN) /\ Len(chars) \in Nat /\ Len(chars) <= MaxChars
      /\ pattern \in Seq(CharPlaces) /\ payloadSize \in Nat
      /\ MaxChars \in Nat /\ MaxPattern \in Nat
    BY PatternAssumption, PayloadAssumption DEF PayloadInv, Shape, PayloadTypeOK, Pairs
<1>1. \A k \in DOMAIN pattern : pattern[k] \in Int /\ pattern[k] + 2 <= hexStrng - 1
  <2>1. \A x \in CharPlaces : x \in Int
      BY <1>0 DEF CharPlaces
  <2> QED
      BY <1>0, <2>1 DEF Pairs
<1>2. /\ pattern' \in Seq(CharPlaces) /\ Len(pattern') <= MaxPattern
      /\ PatternIsPairs' /\ \A k \in DOMAIN pattern' : pattern'[k] + 2 <= hexStrng'
  <2>1. CASE IsDigit(chars[hexStrng])
    <3> DEFINE n == Len(pattern)
    <3>1. pattern' = Append(pattern, hexStrng - 1) /\ hexStrng - 1 \in CharPlaces
        BY <1>0, <2>1 DEF CharPlaces
    <3>2. /\ pattern' \in Seq(CharPlaces) /\ Len(pattern') = n + 1 /\ n \in Nat
          /\ pattern'[n + 1] = hexStrng - 1 /\ \A k \in 1 .. n : pattern'[k] = pattern[k]
        BY <1>0, <3>1
    <3>3. DOMAIN pattern' = 1 .. n + 1 /\ DOMAIN pattern = 1 .. n
        BY <1>0, <3>2
    <3> HIDE DEF n
    <3>4. ASSUME NEW k \in 1 .. n + 1
          PROVE  /\ chars[pattern'[k]] /\ chars[pattern'[k] + 1]
                 /\ pattern'[k] + 2 <= hexStrng'
      <4>1. CASE k = n + 1
        <5>1. (hexStrng - 1) + 1 = hexStrng
            BY <1>0
        <5> QED
            BY <1>0, <2>1, <3>2, <4>1, <5>1 DEF IsDigit
      <4>2. CASE k \in 1 .. n
        <5>1. chars[pattern[k]] /\ chars[pattern[k] + 1]
            BY <1>0, <3>3, <4>2, Zenon DEF Pairs, PatternIsPairs
        <5>2. pattern'[k] = pattern[k]
            BY <3>2, <4>2, Zenon
        <5>3. pattern[k] \in Int /\ pattern[k] + 2 <= hexStrng - 1
            BY <1>1, <3>3, <4>2, Zenon
        <5>4. hexStrng' \in {hexStrng, hexStrng + 1} /\ hexStrng \in Int
            BY <1>0
        <5>5. pattern[k] + 2 <= hexStrng'
            BY <5>3, <5>4
        <5> QED
            BY <5>1, <5>2, <5>5, Zenon
      <4> QED
          BY <3>2, <4>1, <4>2
    <3>5. ASSUME NEW k \in 2 .. n + 1
          PROVE  pattern'[k] >= pattern'[k - 1] + 2
      <4>1. CASE k = n + 1
        <5>1. k - 1 \in 1 .. n /\ k - 1 = n
            BY <3>2, <4>1
        <5>2. pattern[n] \in Int /\ pattern[n] + 2 <= hexStrng - 1
            BY <1>1, <3>3, <5>1
        <5> QED
            BY <1>0, <3>2, <4>1, <5>1, <5>2
      <4>2. CASE k \in 2 .. n
        <5>1. pattern[k] >= pattern[k - 1] + 2
            BY <1>0, <4>2 DEF Pairs, PatternIsPairs, n
        <5>2. k \in 1 .. n /\ k - 1 \in 1 .. n
            BY <3>2, <4>2
        <5> QED
            BY <3>2, <5>1, <5>2
      <4> QED
          BY <3>2, <4>1, <4>2
    <3>6. PatternIsPairs'
        BY <3>2, <3>3, <3>4, <3>5 DEF PatternIsPairs
    <3> QED
        BY <1>0, <3>2, <3>3, <3>4, <3>6 DEF n
  <2>2. CASE ~IsDigit(chars[hexStrng])
      BY <1>0, <1>1, <2>2 DEF Pairs, PatternIsPairs
  <2> QED
      BY <2>1, <2>2
<1>3. Shape'
    BY <1>0, <1>2 DEF Shape, PayloadTypeOK
<1>4. Pairs'
    BY <1>2 DEF Pairs
<1>5. FilledRight'
    BY <1>0 DEF FilledRight
<1> QED
    BY <1>3, <1>4, <1>5 DEF PayloadInv

LEMMA PatternDoneStep == PayloadInv /\ PatternDone => PayloadInv'
<1> SUFFICES ASSUME PayloadInv, PatternDone PROVE PayloadInv'
    OBVIOUS
<1> USE DEF PatternDone
<1>0. /\ PayloadTypeOK /\ Shape /\ Pairs /\ payload = <<>> /\ p_Flag /\ patternType = "hex"
      /\ pattern \in Seq(CharPlaces)
    BY DEF PayloadInv, Shape, PayloadTypeOK
<1>1. /\ p_Flag' \in BOOLEAN /\ (p_Flag' <=> pattern # <<>>)
      /\ patternType' = IF pattern # <<>> THEN "hex" ELSE "none"
  <2>1. Len(pattern) > 0 <=> pattern # <<>>
      BY <1>0
  <2>2. p_Flag' \in BOOLEAN
      BY DEF FlagOf
  <2>3. p_Flag' <=> Len(pattern) > 0
      BY DEF FlagOf
  <2>4. patternType' = IF p_Flag' THEN "hex" ELSE "none"
      BY <1>0, Zenon
  <2> QED
      BY <2>1, <2>2, <2>3, <2>4, Zenon
<1>2. Shape'
    BY <1>0, <1>1 DEF Shape, PayloadTypeOK, Types
<1>3. Pairs'
    BY <1>0 DEF Pairs, PatternIsPairs
<1>4. FilledRight'
    BY <1>0, PayloadAssumption DEF FilledRight, PayloadTypeOK
<1> QED
    BY <1>2, <1>3, <1>4 DEF PayloadInv

LEMMA SourceBytesAre ==
    ASSUME Shape, patternType \in {"hex", "time"}, filling = "fill"
    PROVE  /\ SourceBytes \in Seq(Nat) /\ Len(SourceBytes) \in Nat \ {0}
           /\ \A n \in Nat : SourceBytes[(n % Len(SourceBytes)) + 1] \in Nat
<1>1. SourceBytes \in Seq(Nat) /\ Len(SourceBytes) \in Nat \ {0}
  <2>1. CASE patternType = "hex"
    <3>1. pattern \in Seq(CharPlaces) /\ pattern # <<>> /\ CharPlaces \subseteq Nat
        BY <2>1, PatternAssumption DEF Shape, PayloadTypeOK, CharPlaces
    <3>2. \A i \in 1 .. Len(pattern) : pattern[i] \in Nat
      <4>1. \A i \in 1 .. Len(pattern) : pattern[i] \in CharPlaces
          BY <3>1
      <4> QED
          BY <3>1, <4>1, Zenon
    <3>3. Len(pattern) \in Nat \ {0} /\ pattern = [i \in 1 .. Len(pattern) |-> pattern[i]]
        BY <3>1
    <3>4. pattern \in Seq(Nat)
        BY <3>2, <3>3
    <3> QED
        BY <2>1, <3>3, <3>4 DEF SourceBytes
  <2>2. CASE patternType = "time"
      BY <2>2 DEF SourceBytes, IntSize
  <2> QED
      BY <2>1, <2>2
<1> DEFINE l == Len(SourceBytes)
<1>2. ASSUME NEW n \in Nat PROVE SourceBytes[(n % l) + 1] \in Nat
  <2>1. l \in Nat \ {0}
      BY <1>1
  <2> HIDE DEF l
  <2>2. (n % l) \in 0 .. l - 1
      BY <2>1
  <2>3. (n % l) + 1 \in 1 .. l
      BY <2>1, <2>2
  <2> QED
      BY <1>1, <2>3 DEF l
<1> QED
    BY <1>1, <1>2

LEMMA FillByteStep == PayloadInv /\ FillByte => PayloadInv'
<1> SUFFICES ASSUME PayloadInv, FillByte PROVE PayloadInv'
    OBVIOUS
<1>0. /\ PayloadTypeOK /\ Shape /\ Pairs /\ FilledRight
      /\ filling = "fill" /\ cnt < payloadSize /\ patternType # "random"
      /\ cnt' = cnt + 1 /\ UNCHANGED <<filling, patternVars, payloadSize>>
    BY DEF PayloadInv, Shape, FillByte
<1> DEFINE b == IF ~p_Flag THEN From("count", cnt % 256)
                ELSE From(patternType, SourceBytes[Turned(cnt, Len(SourceBytes)) + 1])
<1>1. payload' = Append(payload, b)
    BY DEF FillByte
<1>2. payload \in Seq(Fillings) /\ cnt = Len(payload) /\ cnt \in Nat /\ payloadSize \in Nat
    BY <1>0, PayloadAssumption DEF Shape, PayloadTypeOK
<1>3. p_Flag <=> patternType # "none"
    BY <1>0 DEF Shape
<1>4. b \in Fillings /\ RightByte(cnt + 1, b)
  <2>1. CASE ~p_Flag
    <3>1. cnt % 256 \in Nat /\ b = From("count", cnt % 256)
        BY <1>2, <2>1
    <3> QED
        BY <1>0, <1>3, <2>1, <3>1 DEF Fillings, From, RightByte
  <2>2. CASE p_Flag
    <3>1. patternType \in {"hex", "time"}
        BY <1>0, <1>3, <2>2 DEF Shape, PayloadTypeOK, Types
    <3>2. SourceBytes[(cnt % Len(SourceBytes)) + 1] \in Nat
        BY <1>0, <1>2, <3>1, SourceBytesAre
    <3>3. b = From(patternType, SourceBytes[(cnt % Len(SourceBytes)) + 1])
        BY <2>2 DEF Turned
    <3>4. (cnt + 1) - 1 = cnt
        BY <1>2
    <3> HIDE DEF b
    <3>5. b \in Fillings
        BY <3>1, <3>2, <3>3 DEF Fillings, From
    <3>6. RightByte(cnt + 1, b)
        BY <3>1, <3>3, <3>4 DEF RightByte
    <3> QED
        BY <3>5, <3>6
  <2> QED
      BY <2>1, <2>2
<1> HIDE DEF b
<1>5. /\ payload' \in Seq(Fillings) /\ Len(payload') = cnt + 1 /\ payload'[cnt + 1] = b
      /\ \A i \in 1 .. cnt : payload'[i] = payload[i]
    BY <1>1, <1>2, <1>4
<1>6. Shape'
    BY <1>0, <1>5 DEF Shape, PayloadTypeOK, patternVars
<1>7. Pairs'
    BY <1>0 DEF Pairs, PatternIsPairs, patternVars
<1>8. \A i, c : RightByte(i, c) => RightByte(i, c)'
    BY <1>0 DEF RightByte, SourceBytes, patternVars
<1>9. FilledRight'
  <2>1. ASSUME NEW i \in 1 .. cnt + 1 PROVE RightByte(i, payload'[i])
    <3>1. CASE i = cnt + 1
        BY <1>4, <1>5, <3>1
    <3>2. CASE i \in 1 .. cnt
        BY <1>0, <1>2, <1>5, <3>2 DEF FilledRight
    <3> QED
        BY <1>2, <3>1, <3>2
  <2>2. Len(payload') <= payloadSize'
      BY <1>0, <1>2, <1>5
  <2> QED
      BY <1>0, <1>5, <1>8, <2>1, <2>2 DEF FilledRight
<1> QED
    BY <1>6, <1>7, <1>9 DEF PayloadInv

LEMMA FillRandomStep == PayloadInv /\ FillRandom => PayloadInv'
<1> SUFFICES ASSUME PayloadInv, FillRandom PROVE PayloadInv'
    OBVIOUS
<1> DEFINE n == IF WholeInt(cnt) THEN IntSize ELSE payloadSize - cnt
           bytes == [i \in 1 .. n |-> From("random", i)]
<1>0. /\ PayloadTypeOK /\ Shape /\ Pairs /\ FilledRight
      /\ filling = "fill" /\ cnt < payloadSize /\ patternType = "random"
      /\ payload' = payload \o bytes
      /\ cnt' = cnt + n /\ UNCHANGED <<filling, patternVars, payloadSize>>
    BY DEF PayloadInv, Shape, FillRandom
<1>1. payload \in Seq(Fillings) /\ cnt = Len(payload) /\ cnt \in Nat /\ payloadSize \in Nat
    BY <1>0, PayloadAssumption DEF Shape, PayloadTypeOK
<1>2. n \in Nat /\ cnt + n <= payloadSize
    BY <1>0, <1>1 DEF WholeInt, IntSize
<1> HIDE DEF n
<1>3. bytes \in [1 .. n -> Fillings]
  <2>1. \A i \in 1 .. n : From("random", i) \in Fillings
      BY <1>2 DEF From, Fillings
  <2> QED
      BY <2>1
<1> HIDE DEF bytes
<1>4. payload' \in Seq(Fillings) /\ Len(payload') = cnt + n
  <2>1. bytes \in Seq(Fillings) /\ Len(bytes) = n
      BY <1>2, <1>3
  <2>2. payload \o bytes \in Seq(Fillings) /\ Len(payload \o bytes) = Len(payload) + Len(bytes)
      BY <1>1, <2>1, ConcatProperties
  <2> QED
      BY <1>0, <1>1, <2>1, <2>2
<1>5. Shape'
    BY <1>0, <1>4 DEF Shape, PayloadTypeOK, patternVars
<1>6. Pairs'
    BY <1>0 DEF Pairs, PatternIsPairs, patternVars
<1>7. FilledRight'
  <2>1. \A i, c : RightByte(i, c)'
      BY <1>0 DEF RightByte, patternVars
  <2> QED
      BY <1>0, <1>1, <1>2, <1>4, <2>1 DEF FilledRight
<1> QED
    BY <1>5, <1>6, <1>7 DEF PayloadInv

LEMMA FillEndsStep == PayloadInv /\ FillEnds => PayloadInv'
<1> SUFFICES ASSUME PayloadInv, FillEnds PROVE PayloadInv'
    OBVIOUS
<1> USE DEF FillEnds, patternVars
<1>0. PayloadTypeOK /\ Shape /\ Pairs /\ FilledRight
    BY DEF PayloadInv, Shape
<1>1. Shape' /\ Pairs'
    BY <1>0 DEF Shape, PayloadTypeOK, Pairs, PatternIsPairs
<1>2. FilledRight'
  <2>1. \A i, c : RightByte(i, c) => RightByte(i, c)'
      BY DEF RightByte, SourceBytes
  <2>2. Len(payload) = payloadSize
      BY <1>0, PayloadAssumption DEF FilledRight, PayloadTypeOK
  <2> QED
      BY <1>0, <2>1, <2>2 DEF FilledRight
<1> QED
    BY <1>1, <1>2 DEF PayloadInv

LEMMA FillTimeStep == PayloadInv /\ FillTime => PayloadInv'
<1> SUFFICES ASSUME PayloadInv, FillTime PROVE PayloadInv'
    OBVIOUS
<1>0. /\ PayloadTypeOK /\ Shape /\ Pairs /\ FilledRight
      /\ filling = "time" /\ filling' = "filled"
      /\ UNCHANGED <<patternVars, payloadSize, cnt>>
      /\ payload' = IF p_Flag \/ ~TimeFits(payloadSize) THEN payload
                    ELSE [i \in 1 .. TimeSpec |-> From("timespec", i)]
                         \o SubSeq(payload, TimeSpec + 1, Len(payload))
    BY DEF PayloadInv, Shape, FillTime
<1>1. /\ payload \in Seq(Fillings) /\ Len(payload) \in Nat /\ payloadSize \in Nat
      /\ Len(payload) = payloadSize /\ (p_Flag <=> patternType # "none")
      /\ TimeSpec \in Nat \ {0} /\ cnt = Len(payload)
    BY <1>0, PayloadAssumption DEF Shape, PayloadTypeOK, FilledRight
<1>2. /\ payload' \in Seq(Fillings) /\ Len(payload') = Len(payload)
      /\ \A i \in 1 .. Len(payload) : RightByte(i, payload[i])'
  <2>1. CASE p_Flag \/ ~TimeFits(payloadSize)
    <3>1. \A i \in 1 .. Len(payload) : \A c : RightByte(i, c) => RightByte(i, c)'
        BY <1>0, <1>1, <2>1 DEF RightByte, SourceBytes, patternVars, TimeFits
    <3> QED
        BY <1>0, <1>1, <2>1, <3>1 DEF FilledRight
  <2>2. CASE ~p_Flag /\ TimeFits(payloadSize)
    <3> DEFINE f == [i \in 1 .. TimeSpec |-> From("timespec", i)]
               g == SubSeq(payload, TimeSpec + 1, Len(payload))
    <3>1. f \in [1 .. TimeSpec -> Fillings] /\ \A i \in 1 .. TimeSpec : f[i].source = "timespec"
        BY <1>1 DEF From, Fillings
    <3> HIDE DEF f
    <3>2. f \in Seq(Fillings) /\ Len(f) = TimeSpec
        BY <1>1, <3>1
    <3>3. TimeSpec <= Len(payload)
        BY <1>1, <2>2 DEF TimeFits
    <3>4. /\ g \in Seq(Fillings) /\ Len(g) = Len(payload) - TimeSpec
          /\ \A i \in 1 .. Len(payload) - TimeSpec : g[i] = payload[TimeSpec + i]
        BY <1>1, <3>3, SubSeqProperties
    <3> HIDE DEF g
    <3>5. payload' = f \o g
        BY <1>0, <2>2 DEF f, g
    <3>6. payload' \in Seq(Fillings) /\ Len(payload') = Len(payload)
      <4>1. f \o g \in Seq(Fillings) /\ Len(f \o g) = Len(f) + Len(g)
          BY <3>2, <3>4, ConcatProperties
      <4> QED
          BY <1>1, <3>2, <3>3, <3>4, <3>5, <4>1
    <3>7. ASSUME NEW i \in 1 .. Len(payload) PROVE RightByte(i, payload[i])'
      <4>1. patternType' = "none" /\ payloadSize' >= TimeSpec
          BY <1>0, <1>1, <2>2, <3>3 DEF patternVars
      <4>2. CASE i <= TimeSpec
        <5>1. payload'[i] = f[i] /\ i \in 1 .. TimeSpec
            BY <1>1, <3>2, <3>4, <3>5, <4>2
        <5> QED
            BY <1>0, <3>1, <4>1, <4>2, <5>1 DEF RightByte
      <4>3. CASE i > TimeSpec
        <5>1. payload'[i] = g[i - TimeSpec] /\ i - TimeSpec \in 1 .. Len(payload) - TimeSpec
            BY <1>1, <3>2, <3>4, <3>5, <4>3
        <5>2. TimeSpec + (i - TimeSpec) = i
            BY <1>1
        <5>3. payload'[i] = payload[i]
            BY <3>4, <5>1, <5>2
        <5>4. payload[i].source # "timespec"
            BY <1>0, <1>1, <2>2 DEF FilledRight, RightByte
        <5>5. ~(i <= TimeSpec) /\ payload'[i].source # "timespec"
            BY <1>1, <4>3, <5>3, <5>4
        <5>6. patternType' \notin {"hex", "time"}
            BY <4>1
        <5> QED
            BY <5>5, <5>6 DEF RightByte
      <4> QED
          BY <1>1, <4>2, <4>3
    <3> QED
        BY <3>6, <3>7
  <2> QED
      BY <2>1, <2>2
<1>3. Shape'
    BY <1>0, <1>1, <1>2 DEF Shape, PayloadTypeOK, patternVars
<1>4. Pairs'
    BY <1>0 DEF Pairs, PatternIsPairs, patternVars
<1>5. FilledRight'
    BY <1>0, <1>1, <1>2 DEF FilledRight
<1> QED
    BY <1>3, <1>4, <1>5 DEF PayloadInv

LEMMA NextPayloadStep == PayloadInv /\ NextPayload => PayloadInv'
<1> SUFFICES ASSUME PayloadInv, NextPayload PROVE PayloadInv'
    OBVIOUS
<1> USE DEF NextPayload, patternVars
<1>0. PayloadTypeOK /\ Shape /\ Pairs /\ FilledRight
    BY DEF PayloadInv, Shape
<1>1. Shape' /\ Pairs'
    BY <1>0 DEF Shape, PayloadTypeOK, Pairs, PatternIsPairs
<1>2. FilledRight'
    BY PayloadAssumption DEF FilledRight
<1> QED
    BY <1>1, <1>2 DEF PayloadInv

LEMMA PayloadInvariant == PayloadSpec => []PayloadInv
<1>1. PayloadInv /\ [PayloadNext]_payloadVars => PayloadInv'
    BY PayloadStutter, NoPatternStep, UpperNibbleStep, LowerNibbleStep, PatternDoneStep,
       FillByteStep, FillRandomStep, FillEndsStep, FillTimeStep, NextPayloadStep
       DEF PayloadNext
<1> QED
    BY <1>1, PayloadInitInv, PTL DEF PayloadSpec

(* Whatever text is given to -p and however long it is, the pattern is made *)
(* of pairs of digits that do not overlap, and an empty one is never used   *)
(* (genFun.c:281-291; ping3.c:1211).                                        *)
THEOREM PayloadPattern == PayloadSpec => []PatternIsSound
<1>1. PayloadInv => PatternIsSound
    BY DEF PayloadInv, Shape, Pairs, PatternIsSound, NoEmptyPattern
<1> QED
    BY <1>1, PayloadInvariant, PTL

(* A payload of every size is filled to its end and no further, from the    *)
(* place in the pattern that belongs there (genFun.c:26, 41, 56-69;         *)
(* ping3.c:416-439).                                                        *)
THEOREM PayloadFilled == PayloadSpec => []PayloadIsRight
<1>1. PayloadInv => PayloadIsRight
  <2> SUFFICES ASSUME PayloadInv PROVE PayloadIsRight
      OBVIOUS
  <2>1. PayloadStaysInside
      BY DEF PayloadInv, FilledRight, PayloadStaysInside
  <2>2. payload \in Seq(Fillings) /\ DOMAIN payload = 1 .. Len(payload)
      BY DEF PayloadInv, Shape
  <2>3. PayloadIsRepeated
      BY <2>2 DEF PayloadInv, FilledRight, RightByte, PayloadIsRepeated
  <2> QED
      BY <2>1, <2>3 DEF PayloadIsRight
<1> QED
    BY <1>1, PayloadInvariant, PTL

-----------------------------------------------------------------------------
(* The lists of -T and -s                                                   *)

(* What the provers need to know of a piece.                                *)
Pieces == DevicePieces \cup SizePieces \cup {Keyword}

LEMMA PiecesAre ==
    /\ Pieces \subseteq Piece /\ Keyword \in Pieces /\ Keyword.kind # "empty"
    /\ Null \notin Pieces /\ Null.kind # "empty" /\ ~IsNumber(Null)
    /\ DefaultSize \in Nat /\ \A w \in Pieces : w.value \in Int
<1>1. Pieces \subseteq Piece
    BY PieceAssumption DEF Pieces, Piece, Keyword
<1>2. Null \notin Piece
    BY DEF Null, Piece
<1>3. \A w \in Piece : w.value \in Int
    BY DEF Piece
<1> QED
    BY <1>1, <1>2, <1>3, PiecesAssumption DEF Pieces, Null, Keyword, IsNumber

-----------------------------------------------------------------------------
(* The pieces that are not empty: how many there are up to a place, and     *)
(* which is the k-th.                                                       *)
LEMMA NamedCount ==
    ASSUME NEW s, NEW i \in Nat
    PROVE  /\ NamedUpTo(s, i) \in Nat /\ NamedUpTo(s, 0) = 0
           /\ NamedUpTo(s, i + 1) = IF s[i + 1].kind = "empty" THEN NamedUpTo(s, i)
                                    ELSE NamedUpTo(s, i) + 1
<1> DEFINE Up(n) == {j \in 1 .. n : s[j].kind # "empty"}
<1>1. \A n \in Nat : IsFiniteSet(Up(n)) /\ Cardinality(Up(n)) \in Nat
  <2> TAKE n \in Nat
  <2>1. IsFiniteSet(1 .. n)
      BY FS_Interval
  <2> QED
      BY <2>1, FS_Subset, FS_CardinalityType
<1>2. Up(0) = {} /\ Cardinality({}) = 0
    BY FS_EmptySet
<1>3. i + 1 \notin Up(i)
    OBVIOUS
<1>4. Up(i + 1) = IF s[i + 1].kind = "empty" THEN Up(i) ELSE Up(i) \cup {i + 1}
  <2>1. 1 .. i + 1 = (1 .. i) \cup {i + 1}
      OBVIOUS
  <2> QED
      BY <2>1
<1>5. \A n : NamedUpTo(s, n) = Cardinality(Up(n))
    BY DEF NamedUpTo
<1> HIDE DEF Up
<1>6. Cardinality(Up(i) \cup {i + 1}) = Cardinality(Up(i)) + 1
    BY <1>1, <1>3, FS_AddElement
<1> QED
    BY <1>1, <1>2, <1>4, <1>5, <1>6

LEMMA NamedBefore ==
    ASSUME NEW s, NEW i \in Nat \ {0}, s[i].kind # "empty"
    PROVE  NamedUpTo(s, i) = NamedUpTo(s, i - 1) + 1 /\ NamedUpTo(s, i - 1) \in Nat
<1>1. PICK m \in Nat : m = i - 1
    OBVIOUS
<1>2. i = m + 1
    BY <1>1
<1> QED
    BY <1>1, <1>2, NamedCount

LEMMA NamedGrows ==
    ASSUME NEW s, NEW i \in Nat, NEW j \in Nat, i <= j
    PROVE  NamedUpTo(s, i) <= NamedUpTo(s, j)
<1> DEFINE Up(n) == {k \in 1 .. n : s[k].kind # "empty"}
<1>1. Up(i) \subseteq Up(j) /\ Up(j) \subseteq 1 .. j
    OBVIOUS
<1>2. IsFiniteSet(Up(j))
  <2>1. IsFiniteSet(1 .. j)
      BY FS_Interval
  <2> HIDE DEF Up
  <2> QED
      BY <1>1, <2>1, FS_Subset
<1>3. \A n : NamedUpTo(s, n) = Cardinality(Up(n))
    BY DEF NamedUpTo
<1> HIDE DEF Up
<1> QED
    BY <1>1, <1>2, <1>3, FS_Subset

LEMMA NamedShape ==
    ASSUME NEW s, Len(s) \in Nat
    PROVE  /\ Len(Named(s)) \in Nat /\ Len(Named(s)) = NamedUpTo(s, Len(s))
           /\ DOMAIN Named(s) = 1 .. Len(Named(s))
           /\ \E S : Named(s) \in Seq(S)
<1> DEFINE n == NamedUpTo(s, Len(s))
           At(k) == s[CHOOSE i \in DOMAIN s : s[i].kind # "empty" /\ NamedUpTo(s, i) = k]
<1>1. n \in Nat
    BY NamedCount
<1>2. Named(s) = [k \in 1 .. n |-> At(k)]
    BY DEF Named
<1> HIDE DEF n, At
<1>3. Named(s) \in Seq({At(k) : k \in 1 .. n})
    BY <1>1, <1>2
<1>4. Len(Named(s)) = n /\ DOMAIN Named(s) = 1 .. n
    BY <1>1, <1>2
<1> QED
    BY <1>1, <1>3, <1>4 DEF n

LEMMA NamedIs ==
    ASSUME NEW s, Len(s) \in Nat, DOMAIN s = 1 .. Len(s),
           NEW i \in 1 .. Len(s), s[i].kind # "empty"
    PROVE  /\ NamedUpTo(s, i) \in 1 .. Len(Named(s))
           /\ Named(s)[NamedUpTo(s, i)] = s[i]
<1> DEFINE k == NamedUpTo(s, i)
           Is(j) == s[j].kind # "empty" /\ NamedUpTo(s, j) = k
<1>1. k = NamedUpTo(s, i - 1) + 1 /\ k \in Nat /\ NamedUpTo(s, i - 1) \in Nat
    BY NamedBefore
<1>2. k <= NamedUpTo(s, Len(s))
    BY NamedGrows
<1>3. ASSUME NEW j \in 1 .. Len(s), Is(j) PROVE j = i
  <2>1. NamedUpTo(s, j) = NamedUpTo(s, j - 1) + 1 /\ NamedUpTo(s, j - 1) \in Nat
      BY <1>3, NamedBefore
  <2>2. CASE j < i
    <3>1. NamedUpTo(s, j) <= NamedUpTo(s, i - 1)
        BY <2>2, NamedGrows
    <3> QED
        BY <1>1, <1>3, <3>1
  <2>3. CASE i < j
    <3>1. NamedUpTo(s, i) <= NamedUpTo(s, j - 1)
        BY <2>3, NamedGrows
    <3> QED
        BY <1>1, <1>3, <2>1, <3>1
  <2> QED
      BY <2>2, <2>3
<1>4. (CHOOSE j \in DOMAIN s : Is(j)) = i
    BY <1>3
<1>5. k \in 1 .. NamedUpTo(s, Len(s))
    BY <1>1, <1>2, NamedCount
<1>6. Named(s)[k] = s[CHOOSE j \in DOMAIN s : Is(j)]
    BY <1>5 DEF Named
<1> QED
    BY <1>4, <1>5, <1>6, NamedShape

-----------------------------------------------------------------------------
(* The first m pieces that are not empty stand in the array.                *)
Kept(g, m, array) ==
    \A k \in 1 .. m : /\ k <= Len(Named(g)) /\ array[k - 1] = Named(g)[k]
                      /\ array[k - 1] \in Pieces /\ array[k - 1].kind # "empty"

(* While the pieces are read, what is left of the string is the end of what *)
(* was given, and argPtr counts what was stored.                            *)
ReadsOn(g, string, room, array, ptr) ==
    /\ string \in Seq(Pieces) /\ Len(string) <= Len(g)
    /\ \A i \in 1 .. Len(string) : string[i] = g[Len(g) - Len(string) + i]
    /\ ptr = NamedUpTo(g, Len(g) - Len(string)) /\ ptr < room
    /\ Kept(g, ptr, array)

(* Afterwards the array has all of them, or as many as there is room for.   *)
Held(g, room, array) ==
    IF Len(Named(g)) < room
    THEN Kept(g, Len(Named(g)), array) /\ array[Len(Named(g))] = Null
    ELSE Kept(g, room, array)

Array == [Places -> Pieces \cup {Null}]

Puts(later, array, ptr, piece) == later = [array EXCEPT ![ptr] = piece]

LEMMA ReadAll ==
    ASSUME NEW g \in Seq(Pieces), NEW room \in 1 .. 5, NEW array \in Array, NEW ptr,
           ReadsOn(g, <<>>, room, array, ptr), NEW later, Puts(later, array, ptr, Null)
    PROVE  later \in Array /\ Held(g, room, later)
<1> DEFINE names == Named(g)
<1>1. Len(g) \in Nat /\ Len(<<>>) = 0 /\ Len(g) - 0 = Len(g)
    OBVIOUS
<1>2. ptr = Len(names) /\ ptr < room /\ Kept(g, ptr, array) /\ Len(names) \in Nat
    BY <1>1, NamedShape DEF ReadsOn
<1>3. ptr \in Places
    BY <1>2 DEF Places
<1>4. later \in Array /\ later[ptr] = Null
    BY <1>3 DEF Array, Puts
<1>5. ASSUME NEW k \in 1 .. ptr PROVE later[k - 1] = array[k - 1]
    BY <1>2, <1>3, <1>5 DEF Array, Places, Puts
<1> HIDE DEF names
<1>6. Kept(g, ptr, later)
    BY <1>2, <1>5 DEF Kept
<1>7. Held(g, room, later)
    BY <1>2, <1>4, <1>6 DEF Held, names
<1> QED
    BY <1>4, <1>7

LEMMA ReadMore ==
    ASSUME NEW g \in Seq(Pieces), NEW room \in 1 .. 5, NEW array \in Array, NEW ptr,
           NEW string, string # <<>>, ReadsOn(g, string, room, array, ptr),
           NEW later, Puts(later, array, ptr, string[1])
    PROVE  /\ later \in Array
           /\ IF FullAt(ptr + Counts(string[1]), room) THEN Held(g, room, later)
              ELSE ReadsOn(g, Tail(string), room, later, ptr + Counts(string[1]))
<1> DEFINE place == ptr + Counts(string[1])
<1>1. PICK n \in Nat : n = Len(g) - Len(string)
  <2>1. Len(g) \in Nat /\ Len(string) \in Nat /\ Len(string) <= Len(g)
      BY DEF ReadsOn
  <2> QED
      BY <2>1
<1>2. /\ string \in Seq(Pieces) /\ Len(string) \in Nat /\ Len(string) # 0
      /\ n + 1 \in 1 .. Len(g) /\ string[1] = g[n + 1] /\ string[1] \in Pieces
    BY <1>1 DEF ReadsOn
<1>3. /\ ptr = NamedUpTo(g, n) /\ ptr \in Nat /\ ptr < room /\ Kept(g, ptr, array)
      /\ NamedUpTo(g, n + 1) = place /\ place \in {ptr, ptr + 1}
  <2>1. ptr = NamedUpTo(g, n) /\ ptr \in Nat /\ ptr < room /\ Kept(g, ptr, array)
      BY <1>1, NamedCount DEF ReadsOn
  <2>2. NamedUpTo(g, n + 1) = IF g[n + 1].kind = "empty" THEN NamedUpTo(g, n)
                              ELSE NamedUpTo(g, n) + 1
      BY NamedCount
  <2> QED
      BY <1>2, <2>1, <2>2 DEF Counts
<1>4. ptr \in Places
    BY <1>3 DEF Places
<1>5. later \in Array /\ later[ptr] = string[1]
    BY <1>2, <1>4 DEF Array, Puts
<1>6. ASSUME NEW k \in 1 .. ptr PROVE later[k - 1] = array[k - 1]
    BY <1>3, <1>4 DEF Array, Places, Puts
<1>7. Kept(g, place, later)
  <2>1. Kept(g, ptr, later)
      BY <1>3, <1>6 DEF Kept
  <2>2. CASE string[1].kind = "empty"
      BY <1>3, <2>1, <2>2 DEF Counts
  <2>3. CASE string[1].kind # "empty"
    <3>1. place = ptr + 1
        BY <2>3 DEF Counts
    <3>2. place <= Len(Named(g)) /\ Named(g)[place] = string[1]
        BY <1>2, <1>3, <2>3, NamedIs
    <3>3. later[place - 1] = string[1]
        BY <1>3, <1>5, <3>1
    <3>4. 1 .. place = (1 .. ptr) \cup {place}
        BY <1>3, <3>1
    <3> HIDE DEF place
    <3> QED
        BY <1>2, <2>1, <2>3, <3>2, <3>3, <3>4 DEF Kept
  <2> QED
      BY <2>2, <2>3
<1>8. Len(Named(g)) \in Nat /\ place <= Len(Named(g))
  <2>1. place = NamedUpTo(g, n + 1) /\ Len(Named(g)) = NamedUpTo(g, Len(g))
      BY <1>3, NamedShape
  <2>2. NamedUpTo(g, n + 1) <= NamedUpTo(g, Len(g))
      BY <1>2, NamedGrows
  <2> QED
      BY <2>1, <2>2, NamedShape
<1>9. ASSUME place >= room PROVE Held(g, room, later)
  <2>1. place = room
      BY <1>3, <1>9
  <2> HIDE DEF place
  <2> QED
      BY <1>7, <1>8, <2>1 DEF Held
<1>10. ASSUME ~(place >= room) PROVE ReadsOn(g, Tail(string), room, later, place)
  <2>1. /\ Tail(string) \in Seq(Pieces) /\ Len(Tail(string)) = Len(string) - 1
        /\ \A i \in 1 .. Len(string) - 1 : Tail(string)[i] = string[i + 1]
      BY <1>2
  <2>2. Len(g) - Len(Tail(string)) = n + 1
      BY <1>1, <1>2, <2>1
  <2>3. ASSUME NEW i \in 1 .. Len(Tail(string))
        PROVE  Tail(string)[i] = g[Len(g) - Len(Tail(string)) + i]
    <3>1. i + 1 \in 1 .. Len(string) /\ Tail(string)[i] = string[i + 1]
        BY <1>2, <2>1
    <3>2. string[i + 1] = g[n + (i + 1)]
        BY <1>1, <3>1 DEF ReadsOn
    <3>3. n + (i + 1) = (n + 1) + i
        OBVIOUS
    <3> QED
        BY <2>2, <3>1, <3>2, <3>3
  <2>4. Len(Tail(string)) <= Len(g)
      BY <1>1, <1>2, <2>1
  <2>5. place < room
      BY <1>3, <1>10
  <2> HIDE DEF place
  <2> QED
      BY <1>3, <1>7, <2>1, <2>2, <2>3, <2>4, <2>5 DEF ReadsOn
<1> QED
    BY <1>5, <1>9, <1>10 DEF FullAt

LEMMA SplitOnce ==
    ASSUME NEW g \in Seq(Pieces), NEW room \in 1 .. 5, NEW string, NEW next,
           argArray \in Array, ReadsOn(g, string, room, argArray, argPtr),
           Split(string, room, next)
    PROVE  /\ argArray' \in Array
           /\ \/ splitting' = next /\ argPtr' = 0 /\ Held(g, room, argArray')
              \/ /\ splitting' = splitting
                 /\ ReadsOn(g, Rest(string), room, argArray', argPtr')
<1>1. CASE string = <<>>
  <2>1. Puts(argArray', argArray, argPtr, Null) /\ argPtr' = 0 /\ splitting' = next
      BY <1>1 DEF Split, Puts
  <2> QED
      BY <1>1, <2>1, ReadAll
<1>2. CASE string # <<>>
  <2> DEFINE place == argPtr + Counts(string[1])
  <2>1. /\ Puts(argArray', argArray, argPtr, string[1])
        /\ argPtr' = IF FullAt(place, room) THEN 0 ELSE place
        /\ splitting' = IF FullAt(place, room) THEN next ELSE splitting
        /\ Rest(string) = Tail(string)
      BY <1>2 DEF Split, Puts, Rest
  <2>2. /\ argArray' \in Array
        /\ IF FullAt(place, room) THEN Held(g, room, argArray')
           ELSE ReadsOn(g, Tail(string), room, argArray', place)
      BY <1>2, <2>1, ReadMore
  <2> HIDE DEF place
  <2> QED
      BY <2>1, <2>2
<1> QED
    BY <1>1, <1>2

LEMMA HeldIs ==
    ASSUME NEW g \in Seq(Pieces), NEW room \in 1 .. 5, NEW array,
           Held(g, room, array), NEW p \in 0 .. room - 1
    PROVE  /\ p < Len(Named(g)) => /\ array[p] = Named(g)[p + 1]
                                   /\ array[p] \in Pieces /\ array[p].kind # "empty"
           /\ p = Len(Named(g)) => array[p] = Null
<1> DEFINE n == Len(Named(g))
<1>1. n \in Nat
    BY NamedShape
<1>2. ASSUME p < n
      PROVE  array[p] = Named(g)[p + 1] /\ array[p] \in Pieces /\ array[p].kind # "empty"
  <2>1. PICK m \in Nat : Kept(g, m, array) /\ p < m
      BY <1>1, <1>2 DEF Held
  <2>2. p + 1 \in 1 .. m /\ (p + 1) - 1 = p
      BY <2>1
  <2> QED
      BY <2>1, <2>2 DEF Kept
<1>3. ASSUME p = n PROVE array[p] = Null
    BY <1>1, <1>3 DEF Held
<1> QED
    BY <1>2, <1>3

-----------------------------------------------------------------------------
(* How many devices can be looked up, and which those are that were.        *)
Devices(g) ==
    IF Len(Named(g)) = 0 THEN 0
    ELSE IF Len(Named(g)) > 5 THEN 4 ELSE Len(Named(g)) - 1
LooksUp(g, devices) ==
    /\ devices \in Seq(Pieces) /\ Len(devices) <= Devices(g)
    /\ \A i \in 1 .. Len(devices) : devices[i] = Named(g)[i + 1]

(* What was said of the sizes.                                              *)
SaidOf(g, i, default) ==
    IF i <= Len(Named(g)) /\ IsNumber(Named(g)[i]) THEN Named(g)[i].value ELSE default
FirstSaid(g) == Len(Named(g)) > 0 /\ IsNumber(Named(g)[1])
SignOf(z) == IF z.second > z.first THEN 1 ELSE IF z.second < z.first THEN -1 ELSE 0
AllSized(g, known, z) ==
    /\ known <=> FirstSaid(g)
    /\ z.first = SaidOf(g, 1, DefaultSize)
    /\ known /\ Len(Named(g)) > 1 =>
          z.second = SaidOf(g, 2, z.first) /\ z.step = SaidOf(g, 3, SignOf(z))
    /\ known /\ Len(Named(g)) = 1 => z.step = 0
    /\ ~known => z.step = 0 /\ z.second \in {0, z.first}

ArgTypes ==
    /\ splitting \in {"given", "T", "devices", "s", "first", "second", "step", "sized"}
    /\ T_Given \in Seq(Pieces) /\ s_Given \in Seq(Pieces)
    /\ T_Given # <<>> => T_Given[1] = Keyword
    /\ argArray \in Array /\ s_Flag \in BOOLEAN
    /\ sizes \in [first : Int, second : Int, step : Int]

(* What the array and the strings hold, phase by phase.                     *)
SplitPhase ==
    /\ splitting \notin {"T", "s"} => argPtr = 0
    /\ splitting \in {"given", "T"} => looked = <<>>
    /\ splitting = "T" => ReadsOn(T_Given, T_Strng, 5, argArray, argPtr)
    /\ splitting = "devices" => Held(T_Given, 5, argArray)
    /\ splitting \in {"T", "devices"} => T_Given # <<>> /\ s_Strng = s_Given
    /\ splitting = "s" => ReadsOn(s_Given, s_Strng, 3, argArray, argPtr)
    /\ splitting \in {"first", "second", "step"} => Held(s_Given, 3, argArray)

SizePhase ==
    /\ splitting \in {"given", "T", "devices", "s", "first"} => sizes = Unsized
    /\ splitting \in {"T", "devices", "s", "first"} => (s_Flag <=> s_Given # <<>>)
    /\ splitting \in {"second", "step"} =>
          /\ s_Flag <=> FirstSaid(s_Given)
          /\ sizes.first = SaidOf(s_Given, 1, DefaultSize) /\ sizes.step = 0
          /\ argArray[1] # Null
    /\ splitting = "step" => sizes.second = SizeOf(argArray[1], sizes.first)
    /\ splitting = "sized" => AllSized(s_Given, s_Flag, sizes)

ArgumentInv == ArgTypes /\ LooksUp(T_Given, looked) /\ SplitPhase /\ SizePhase

LEMMA NothingNamed ==
    /\ Len(Named(<<>>)) = 0 /\ <<>> \in Seq(Pieces)
    /\ \A g \in Seq(Pieces) : Len(Named(g)) \in Nat /\ LooksUp(g, <<>>)
<1>1. Len(<<>>) = 0 /\ Len(<<>>) \in Nat /\ <<>> \in Seq(Pieces)
    OBVIOUS
<1>2. Len(Named(<<>>)) = 0
    BY <1>1, NamedShape, NamedCount
<1>3. ASSUME NEW g \in Seq(Pieces) PROVE Len(Named(g)) \in Nat /\ LooksUp(g, <<>>)
  <2>1. Len(Named(g)) \in Nat
      BY NamedShape
  <2> QED
      BY <1>1, <2>1 DEF LooksUp, Devices
<1> QED
    BY <1>1, <1>2, <1>3

LEMMA FreshArray ==
    [p \in Places |-> Null] \in Array /\ Unsized \in [first : Int, second : Int, step : Int]
BY DEF Array, Unsized

LEMMA ArgumentInitInv == ArgumentInit => ArgumentInv
<1> SUFFICES ASSUME ArgumentInit PROVE ArgumentInv
    OBVIOUS
<1>1. ArgTypes
    BY NothingNamed, FreshArray DEF ArgumentInit, ArgTypes
<1>2. LooksUp(T_Given, looked)
    BY NothingNamed DEF ArgumentInit
<1>3. SplitPhase /\ SizePhase
    BY DEF ArgumentInit, SplitPhase, SizePhase
<1> QED
    BY <1>1, <1>2, <1>3 DEF ArgumentInv

LEMMA ArgumentStutter == ArgumentInv /\ UNCHANGED argumentVars => ArgumentInv'
BY DEF ArgumentInv, ArgTypes, SplitPhase, SizePhase, SizeOf, argumentVars

(* The first piece of an argument that is read is the first that was given. *)
LEMMA ReadingStarts ==
    ASSUME NEW g \in Seq(Pieces), NEW room \in 1 .. 5, NEW array
    PROVE  ReadsOn(g, g, room, array, 0)
<1>1. Len(g) \in Nat /\ Len(g) - Len(g) = 0 /\ \A i \in 1 .. Len(g) : 0 + i = i
    OBVIOUS
<1>2. NamedUpTo(g, 0) = 0 /\ 0 < room /\ Kept(g, 0, array)
    BY NamedCount DEF Kept
<1> QED
    BY <1>1, <1>2 DEF ReadsOn

LEMMA GiveArgumentsStep == ArgumentInv /\ GiveArguments => ArgumentInv'
<1> SUFFICES ASSUME ArgumentInv, GiveArguments PROVE ArgumentInv'
    OBVIOUS
<1>0. /\ splitting = "given" /\ T_Given' = T_Strng' /\ s_Given' = s_Strng'
      /\ s_Flag' = (s_Strng' # <<>>) /\ splitting' = IF T_Strng' = <<>> THEN "s" ELSE "T"
      /\ argArray' = argArray /\ argPtr' = argPtr /\ looked' = looked /\ sizes' = sizes
    BY DEF GiveArguments
<1>1. /\ argPtr = 0 /\ looked = <<>> /\ sizes = Unsized /\ argArray \in Array
    BY <1>0 DEF ArgumentInv, SplitPhase, SizePhase, ArgTypes
<1>2. T_Strng' \in Seq(Pieces) /\ (T_Strng' # <<>> => T_Strng'[1] = Keyword)
  <2>1. PICK n \in 0 .. MaxDevicePieces :
           \E pieces \in [1 .. n -> DevicePieces] :
              T_Strng' \in {<<>>, <<Keyword>> \o pieces}
      BY DEF GiveArguments
  <2> PICK pieces \in [1 .. n -> DevicePieces] : T_Strng' \in {<<>>, <<Keyword>> \o pieces}
      BY <2>1
  <2>2. pieces \in Seq(Pieces) /\ <<Keyword>> \in Seq(Pieces) /\ Len(<<Keyword>>) = 1
    <3>1. n \in Nat /\ pieces \in [1 .. n -> Pieces] /\ Keyword \in Pieces
        BY PiecesAssumption DEF Pieces
    <3> QED
        BY <3>1
  <2>3. <<Keyword>> \o pieces \in Seq(Pieces) /\ (<<Keyword>> \o pieces)[1] = Keyword
      BY <2>2
  <2>4. CASE T_Strng' = <<>>
      BY <2>4, NothingNamed
  <2>5. CASE T_Strng' = <<Keyword>> \o pieces
      BY <2>3, <2>5, Zenon
  <2> QED
      BY <2>4, <2>5
<1>3. s_Strng' \in Seq(Pieces)
  <2>1. PICK n \in 0 .. MaxSizePieces : s_Strng' \in [1 .. n -> SizePieces]
      BY DEF GiveArguments
  <2>2. n \in Nat /\ s_Strng' \in [1 .. n -> Pieces]
      BY <2>1, PiecesAssumption DEF Pieces
  <2> QED
      BY <2>2
<1>4. ArgTypes'
    BY <1>0, <1>1, <1>2, <1>3, FreshArray DEF ArgTypes
<1>5. LooksUp(T_Given, looked)'
    BY <1>0, <1>1, <1>2, NothingNamed
<1>6. SplitPhase'
    BY <1>0, <1>1, <1>2, <1>3, ReadingStarts DEF SplitPhase
<1>7. SizePhase'
    BY <1>0, <1>1 DEF SizePhase
<1> QED
    BY <1>4, <1>5, <1>6, <1>7 DEF ArgumentInv

LEMMA NextCommandStep == ArgumentInv /\ NextCommand => ArgumentInv'
<1> SUFFICES ASSUME ArgumentInv, NextCommand PROVE ArgumentInv'
    OBVIOUS
<1>1. ArgTypes'
    BY NothingNamed, FreshArray DEF NextCommand, ArgTypes
<1>2. LooksUp(T_Given, looked)'
    BY NothingNamed DEF NextCommand
<1>3. SplitPhase' /\ SizePhase'
    BY DEF NextCommand, SplitPhase, SizePhase
<1> QED
    BY <1>1, <1>2, <1>3 DEF ArgumentInv

LEMMA SplitDevicesStep == ArgumentInv /\ SplitDevices => ArgumentInv'
<1> SUFFICES ASSUME ArgumentInv, SplitDevices PROVE ArgumentInv'
    OBVIOUS
<1>0. /\ splitting = "T" /\ Split(T_Strng, 5, "devices") /\ T_Strng' = Rest(T_Strng)
      /\ s_Strng' = s_Strng /\ s_Flag' = s_Flag /\ looked' = looked /\ sizes' = sizes
      /\ T_Given' = T_Given /\ s_Given' = s_Given
    BY DEF SplitDevices, given
<1>1. /\ T_Given \in Seq(Pieces) /\ argArray \in Array /\ ArgTypes
      /\ ReadsOn(T_Given, T_Strng, 5, argArray, argPtr)
      /\ T_Given # <<>> /\ s_Strng = s_Given /\ looked = <<>>
    BY <1>0 DEF ArgumentInv, SplitPhase, ArgTypes
<1>2. /\ argArray' \in Array
      /\ \/ /\ splitting' = "devices" /\ argPtr' = 0
            /\ Held(T_Given, 5, argArray')
         \/ /\ splitting' = "T"
            /\ ReadsOn(T_Given, T_Strng', 5, argArray', argPtr')
    BY <1>0, <1>1, SplitOnce
<1>3. ArgTypes'
    BY <1>0, <1>1, <1>2 DEF ArgTypes
<1>4. LooksUp(T_Given, looked)'
    BY <1>0 DEF ArgumentInv
<1>5. SplitPhase'
    BY <1>0, <1>1, <1>2 DEF SplitPhase
<1>6. SizePhase'
    BY <1>0, <1>2 DEF ArgumentInv, SizePhase
<1> QED
    BY <1>3, <1>4, <1>5, <1>6 DEF ArgumentInv

LEMMA SplitSizesStep == ArgumentInv /\ SplitSizes => ArgumentInv'
<1> SUFFICES ASSUME ArgumentInv, SplitSizes PROVE ArgumentInv'
    OBVIOUS
<1>0. /\ splitting = "s" /\ Split(s_Strng, 3, "first") /\ s_Strng' = Rest(s_Strng)
      /\ T_Strng' = T_Strng /\ s_Flag' = s_Flag /\ looked' = looked /\ sizes' = sizes
      /\ T_Given' = T_Given /\ s_Given' = s_Given
    BY DEF SplitSizes, given
<1>1. /\ s_Given \in Seq(Pieces) /\ argArray \in Array /\ ArgTypes
      /\ ReadsOn(s_Given, s_Strng, 3, argArray, argPtr)
    BY <1>0 DEF ArgumentInv, SplitPhase, ArgTypes
<1>2. /\ argArray' \in Array
      /\ \/ /\ splitting' = "first" /\ argPtr' = 0
            /\ Held(s_Given, 3, argArray')
         \/ /\ splitting' = "s"
            /\ ReadsOn(s_Given, s_Strng', 3, argArray', argPtr')
    BY <1>0, <1>1, SplitOnce
<1>3. ArgTypes'
    BY <1>0, <1>1, <1>2 DEF ArgTypes
<1>4. LooksUp(T_Given, looked)'
    BY <1>0 DEF ArgumentInv
<1>5. SplitPhase'
    BY <1>0, <1>1, <1>2 DEF SplitPhase
<1>6. SizePhase'
    BY <1>0, <1>2 DEF ArgumentInv, SizePhase
<1> QED
    BY <1>3, <1>4, <1>5, <1>6 DEF ArgumentInv

(* The next device is the next that was named, as long as there is one.     *)
LEMMA NextDeviceIs ==
    ASSUME ArgumentInv, splitting = "devices"
    PROVE  /\ Len(looked) \in 0 .. Devices(T_Given)
           /\ Len(looked) < Devices(T_Given) =>
                 /\ NextDevice = Named(T_Given)[Len(looked) + 2]
                 /\ NextDevice \in Pieces /\ NextDevice.kind # "empty"
           /\ Len(looked) = Devices(T_Given) => NextDevice = Null
<1> DEFINE n == Len(Named(T_Given))
           p == Len(looked) + 1
<1>1. /\ T_Given \in Seq(Pieces) /\ T_Given # <<>> /\ T_Given[1] = Keyword
      /\ Held(T_Given, 5, argArray) /\ looked \in Seq(Pieces)
      /\ Len(looked) <= Devices(T_Given)
    BY DEF ArgumentInv, ArgTypes, SplitPhase, LooksUp
<1>2. n \in Nat /\ n >= 1
  <2>1. 1 \in 1 .. Len(T_Given) /\ T_Given[1].kind # "empty"
      BY <1>1, PiecesAre
  <2>2. NamedUpTo(T_Given, 1) \in 1 .. n
      BY <1>1, <2>1, NamedIs
  <2> QED
      BY <1>1, <2>2, NamedShape
<1>3. /\ Len(looked) \in Nat /\ Devices(T_Given) = IF n > 5 THEN 4 ELSE n - 1
      /\ Len(looked) \in 0 .. Devices(T_Given)
    BY <1>1, <1>2 DEF Devices
<1>4. ASSUME Len(looked) < 4
      PROVE  /\ NextDevice = argArray[p] /\ p \in 0 .. 5 - 1
             /\ p < n => /\ argArray[p] = Named(T_Given)[p + 1]
                         /\ argArray[p] \in Pieces /\ argArray[p].kind # "empty"
             /\ p = n => argArray[p] = Null
  <2>1. NextDevice = argArray[p] /\ p \in 0 .. 5 - 1 /\ 5 \in 1 .. 5
      BY <1>3, <1>4 DEF NextDevice
  <2> HIDE DEF p, n
  <2> QED
      BY <1>1, <2>1, HeldIs DEF n
<1>5. p + 1 = Len(looked) + 2
    BY <1>3
<1>6. CASE Len(looked) < Devices(T_Given)
  <2>1. Len(looked) < 4 /\ p < n /\ Len(looked) # Devices(T_Given)
    <3>1. Devices(T_Given) \in Int /\ Len(looked) # Devices(T_Given)
      <4> HIDE DEF n, p
      <4>1. Devices(T_Given) \in Int
        <5>1. CASE n > 5
            BY <1>3, <5>1
        <5>2. CASE ~(n > 5)
          <6>1. n - 1 \in Int
              BY <1>2
          <6> QED
              BY <1>3, <5>2, <6>1
        <5> QED
            BY <5>1, <5>2
      <4>2. \A d \in Int, k \in Nat : k < d => k # d
          OBVIOUS
      <4> QED
          BY <1>3, <1>6, <4>1, <4>2, Zenon
    <3>2. Len(looked) < 4 /\ Len(looked) < n - 1
      <4> HIDE DEF n
      <4>1. CASE n > 5
          BY <1>2, <1>3, <1>6, <4>1
      <4>2. CASE ~(n > 5)
        <5>1. Devices(T_Given) = n - 1
            BY <1>3, <4>2, Zenon
        <5> QED
            BY <1>2, <1>3, <1>6, <4>2, <5>1
      <4> QED
          BY <4>1, <4>2
    <3> HIDE DEF n
    <3> QED
        BY <1>2, <1>3, <3>1, <3>2
  <2>2. /\ NextDevice = Named(T_Given)[p + 1]
        /\ NextDevice \in Pieces /\ NextDevice.kind # "empty"
    <3> HIDE DEF n, p
    <3> QED
        BY <1>4, <2>1
  <2>3. NextDevice = Named(T_Given)[Len(looked) + 2]
      BY <1>5, <2>2, Zenon
  <2> HIDE DEF n, p
  <2> QED
      BY <1>3, <2>1, <2>2, <2>3
<1>7. CASE Len(looked) = Devices(T_Given)
  <2>1. CASE n > 5
      BY <1>3, <1>7, <2>1 DEF NextDevice
  <2>2. CASE ~(n > 5)
    <3>1. p = n
        BY <1>2, <1>3, <1>7, <2>2
    <3>2. CASE Len(looked) < 4
        BY <1>3, <1>4, <1>7, <3>1, <3>2
    <3>3. CASE ~(Len(looked) < 4)
        BY <1>3, <1>7, <3>3 DEF NextDevice
    <3> QED
        BY <3>2, <3>3
  <2> QED
      BY <2>1, <2>2
<1> QED
    BY <1>3, <1>6, <1>7

LEMMA LookUpDeviceStep == ArgumentInv /\ LookUpDevice => ArgumentInv'
<1> SUFFICES ASSUME ArgumentInv, LookUpDevice PROVE ArgumentInv'
    OBVIOUS
<1>0. /\ splitting = "devices" /\ NextDevice # Null /\ looked' = Append(looked, NextDevice)
      /\ splitting' \in {"devices", "s"} /\ s_Strng' = s_Strng /\ T_Strng' = T_Strng
      /\ argArray' = argArray /\ argPtr' = argPtr /\ s_Flag' = s_Flag
      /\ sizes' = sizes /\ T_Given' = T_Given /\ s_Given' = s_Given
    BY DEF LookUpDevice, given
<1>1. /\ ArgTypes /\ Held(T_Given, 5, argArray) /\ argPtr = 0 /\ T_Given # <<>>
      /\ s_Strng = s_Given /\ s_Given \in Seq(Pieces) /\ LooksUp(T_Given, looked)
    BY <1>0 DEF ArgumentInv, SplitPhase, ArgTypes
<1>2. ArgTypes'
    BY <1>0, <1>1 DEF ArgTypes
<1>3. LooksUp(T_Given, looked')
  <2>1. /\ Len(looked) < Devices(T_Given) /\ Len(looked) \in Nat /\ NextDevice \in Pieces
        /\ NextDevice = Named(T_Given)[Len(looked) + 2] /\ Devices(T_Given) \in Int
    <3>1. Devices(T_Given) \in Int
        BY <1>1, NothingNamed DEF ArgTypes, Devices
    <3> QED
        BY <1>0, <3>1, NextDeviceIs
  <2>2. looked \in Seq(Pieces)
      BY <1>1 DEF LooksUp
  <2>3. /\ looked' \in Seq(Pieces) /\ Len(looked') = Len(looked) + 1
        /\ looked'[Len(looked) + 1] = NextDevice
        /\ \A i \in 1 .. Len(looked) : looked'[i] = looked[i]
      BY <1>0, <2>1, <2>2
  <2>4. ASSUME NEW i \in 1 .. Len(looked')
        PROVE  looked'[i] = Named(T_Given)[i + 1]
    <3>1. CASE i = Len(looked) + 1
        BY <2>1, <2>3, <3>1
    <3>2. CASE i # Len(looked) + 1
      <4>1. i \in 1 .. Len(looked)
          BY <2>1, <2>3, <3>2
      <4> QED
          BY <1>1, <2>3, <4>1 DEF LooksUp
    <3> QED
        BY <3>1, <3>2
  <2> QED
      BY <2>1, <2>3, <2>4 DEF LooksUp
<1>4. SplitPhase'
    BY <1>0, <1>1, ReadingStarts DEF SplitPhase
<1>5. SizePhase'
    BY <1>0 DEF ArgumentInv, SizePhase
<1> QED
    BY <1>0, <1>2, <1>3, <1>4, <1>5 DEF ArgumentInv

LEMMA DevicesDoneStep == ArgumentInv /\ DevicesDone => ArgumentInv'
<1> SUFFICES ASSUME ArgumentInv, DevicesDone PROVE ArgumentInv'
    OBVIOUS
<1>0. /\ splitting = "devices" /\ splitting' = "s" /\ s_Strng' = s_Strng
      /\ argArray' = argArray /\ argPtr' = argPtr /\ s_Flag' = s_Flag /\ looked' = looked
      /\ sizes' = sizes /\ T_Given' = T_Given /\ s_Given' = s_Given
    BY DEF DevicesDone, given
<1>1. /\ ArgTypes /\ argPtr = 0 /\ T_Given # <<>> /\ s_Strng = s_Given
      /\ s_Given \in Seq(Pieces)
    BY <1>0 DEF ArgumentInv, SplitPhase, ArgTypes
<1>2. ArgTypes' /\ LooksUp(T_Given, looked)'
    BY <1>0 DEF ArgumentInv, ArgTypes
<1>3. SplitPhase'
    BY <1>0, <1>1, ReadingStarts DEF SplitPhase
<1>4. SizePhase'
    BY <1>0 DEF ArgumentInv, SizePhase
<1> QED
    BY <1>2, <1>3, <1>4 DEF ArgumentInv

-----------------------------------------------------------------------------
(* What a place of the array says of a size.                                *)
LEMMA PlaceSays ==
    ASSUME NEW g \in Seq(Pieces), NEW array, Held(g, 3, array), NEW p \in 0 .. 2,
           p <= Len(Named(g)), NEW default
    PROVE  /\ (IF IsNumber(array[p]) THEN array[p].value ELSE default)
                 = SaidOf(g, p + 1, default)
           /\ IsNumber(array[p]) => p < Len(Named(g))
           /\ array[p] = Null <=> p = Len(Named(g))
           /\ default \in Int => SaidOf(g, p + 1, default) \in Int
<1> DEFINE n == Len(Named(g))
<1>1. n \in Nat
    BY NamedShape
<1>2. /\ p < n => /\ array[p] = Named(g)[p + 1]
                  /\ array[p] \in Pieces /\ array[p].kind # "empty"
      /\ p = n => array[p] = Null
  <2>1. p \in 0 .. 3 - 1 /\ 3 \in 1 .. 5
      OBVIOUS
  <2> QED
      BY <2>1, HeldIs
<1> HIDE DEF n
<1>3. CASE p < n
  <2>1. array[p] = Named(g)[p + 1] /\ array[p] \in Pieces /\ p + 1 <= n /\ p # n
      BY <1>1, <1>2, <1>3
  <2>2. array[p] # Null /\ array[p].value \in Int
      BY <2>1, PiecesAre
  <2> QED
      BY <1>3, <2>1, <2>2 DEF SaidOf, n
<1>4. CASE p = n
  <2>1. array[p] = Null /\ ~IsNumber(array[p]) /\ ~(p + 1 <= n)
      BY <1>1, <1>2, <1>4, PiecesAre
  <2> QED
      BY <1>4, <2>1 DEF SaidOf, n
<1> QED
    BY <1>1, <1>3, <1>4 DEF n

LEMMA FirstSizeStep == ArgumentInv /\ FirstSize => ArgumentInv'
<1> SUFFICES ASSUME ArgumentInv, FirstSize PROVE ArgumentInv'
    OBVIOUS
<1> DEFINE first == SizeOf(argArray[0], DefaultSize)
           n == Len(Named(s_Given))
<1>0. /\ splitting = "first" /\ sizes' = [sizes EXCEPT !.first = first]
      /\ s_Flag' = (s_Flag /\ IsNumber(argArray[0]))
      /\ splitting' = IF argArray[1] = Null THEN "sized" ELSE "second"
      /\ argArray' = argArray /\ argPtr' = argPtr /\ looked' = looked
      /\ T_Given' = T_Given /\ s_Given' = s_Given
    BY DEF FirstSize, given
<1>1. /\ ArgTypes /\ argPtr = 0 /\ sizes = Unsized /\ (s_Flag <=> s_Given # <<>>)
      /\ Held(s_Given, 3, argArray) /\ s_Given \in Seq(Pieces)
    BY <1>0 DEF ArgumentInv, SplitPhase, SizePhase, ArgTypes
<1>2. n \in Nat /\ (n > 0 => s_Given # <<>>)
    BY <1>1, NothingNamed
<1>3. /\ IsNumber(argArray[0]) <=> FirstSaid(s_Given)
      /\ FirstSaid(s_Given) => s_Flag
      /\ first = SaidOf(s_Given, 1, DefaultSize) /\ first \in Int
  <2>1. /\ (IF IsNumber(argArray[0]) THEN argArray[0].value ELSE DefaultSize)
                 = SaidOf(s_Given, 1, DefaultSize)
        /\ IsNumber(argArray[0]) => 0 < n
        /\ SaidOf(s_Given, 1, DefaultSize) \in Int
    <3>1. 0 \in 0 .. 2 /\ 0 <= n /\ 0 + 1 = 1 /\ DefaultSize \in Int
        BY <1>2, PiecesAre
    <3> HIDE DEF n
    <3> QED
        BY <1>1, <3>1, PlaceSays DEF n
  <2>2. 0 < n => argArray[0] = Named(s_Given)[1]
    <3>1. 0 \in 0 .. 3 - 1 /\ 0 + 1 = 1 /\ 3 \in 1 .. 5
        OBVIOUS
    <3> QED
        BY <1>1, <3>1, HeldIs
  <2>3. IsNumber(argArray[0]) <=> FirstSaid(s_Given)
      BY <1>2, <2>1, <2>2 DEF FirstSaid
  <2>4. FirstSaid(s_Given) => s_Flag
      BY <1>1, <1>2 DEF FirstSaid
  <2>5. first = IF IsNumber(argArray[0]) THEN argArray[0].value ELSE DefaultSize
      BY <2>3, <2>4 DEF SizeOf
  <2> HIDE DEF first
  <2> QED
      BY <2>1, <2>3, <2>4, <2>5
<1>4. s_Flag' \in BOOLEAN /\ (s_Flag' <=> FirstSaid(s_Given))
    BY <1>0, <1>1, <1>3 DEF IsNumber
<1>5. /\ sizes' \in [first : Int, second : Int, step : Int]
      /\ sizes'.first = first /\ sizes'.second = 0 /\ sizes'.step = 0
  <2>1. first \in Int
      BY <1>3
  <2> HIDE DEF first
  <2> QED
      BY <1>0, <1>1, <2>1 DEF Unsized
<1>6. argArray[1] = Null /\ FirstSaid(s_Given) => n = 1
  <2>1. 1 \in 0 .. 2 /\ DefaultSize \in Int
      BY PiecesAre
  <2>2. FirstSaid(s_Given) => 1 <= n
      BY <1>2 DEF FirstSaid
  <2> HIDE DEF n
  <2> QED
      BY <1>1, <2>1, <2>2, PlaceSays DEF n
<1> HIDE DEF first
<1>7. ArgTypes'
    BY <1>0, <1>1, <1>4, <1>5 DEF ArgTypes
<1>8. LooksUp(T_Given, looked)'
    BY <1>0 DEF ArgumentInv
<1>9. SplitPhase'
    BY <1>0, <1>1 DEF SplitPhase
<1>10. ASSUME argArray[1] = Null PROVE AllSized(s_Given, s_Flag', sizes')
  <2>1. /\ s_Flag' <=> FirstSaid(s_Given)
        /\ sizes'.first = SaidOf(s_Given, 1, DefaultSize)
        /\ sizes'.second = 0 /\ sizes'.step = 0
      BY <1>3, <1>4, <1>5
  <2>2. FirstSaid(s_Given) => n = 1 /\ ~(n > 1)
    <3> HIDE DEF n
    <3> QED
        BY <1>6, <1>10
  <2> QED
      BY <2>1, <2>2 DEF AllSized
<1>11. SizePhase'
    BY <1>0, <1>3, <1>4, <1>5, <1>10 DEF SizePhase
<1> QED
    BY <1>7, <1>8, <1>9, <1>11 DEF ArgumentInv

LEMMA SecondSizeStep == ArgumentInv /\ SecondSize => ArgumentInv'
<1> SUFFICES ASSUME ArgumentInv, SecondSize PROVE ArgumentInv'
    OBVIOUS
<1> DEFINE second == SizeOf(argArray[1], sizes.first)
<1>0. /\ splitting = "second" /\ splitting' = "step"
      /\ sizes' = [sizes EXCEPT !.second = second]
      /\ argArray' = argArray /\ argPtr' = argPtr /\ looked' = looked /\ s_Flag' = s_Flag
      /\ T_Given' = T_Given /\ s_Given' = s_Given
    BY DEF SecondSize, given
<1>1. /\ ArgTypes /\ argPtr = 0 /\ Held(s_Given, 3, argArray)
      /\ s_Flag <=> FirstSaid(s_Given)
      /\ sizes.first = SaidOf(s_Given, 1, DefaultSize) /\ sizes.step = 0
      /\ argArray[1] # Null /\ argArray \in Array
      /\ sizes \in [first : Int, second : Int, step : Int]
    BY <1>0 DEF ArgumentInv, SplitPhase, SizePhase, ArgTypes
<1>2. second \in Int
  <2>1. argArray[1] \in Pieces
      BY <1>1 DEF Array, Places
  <2>2. argArray[1].value \in Int /\ sizes.first \in Int
      BY <1>1, <2>1, PiecesAre
  <2> QED
      BY <2>2 DEF SizeOf
<1>3. second = SizeOf(argArray[1], sizes.first)
    OBVIOUS
<1> HIDE DEF second
<1>4. /\ sizes' \in [first : Int, second : Int, step : Int]
      /\ sizes'.first = sizes.first /\ sizes'.second = second /\ sizes'.step = 0
    BY <1>0, <1>1, <1>2
<1>5. ArgTypes'
    BY <1>0, <1>1, <1>4 DEF ArgTypes
<1>6. LooksUp(T_Given, looked)'
    BY <1>0 DEF ArgumentInv
<1>7. SplitPhase'
    BY <1>0, <1>1 DEF SplitPhase
<1>8. SizePhase'
    BY <1>0, <1>1, <1>3, <1>4 DEF SizePhase, SizeOf
<1> QED
    BY <1>5, <1>6, <1>7, <1>8 DEF ArgumentInv

LEMMA StepSizeStep == ArgumentInv /\ StepSize => ArgumentInv'
<1> SUFFICES ASSUME ArgumentInv, StepSize PROVE ArgumentInv'
    OBVIOUS
<1> DEFINE step == IF argArray[2] = Null THEN Direction ELSE SizeOf(argArray[2], Direction)
           n == Len(Named(s_Given))
<1>0. /\ splitting = "step" /\ splitting' = "sized"
      /\ sizes' = [sizes EXCEPT !.step = step]
      /\ argArray' = argArray /\ argPtr' = argPtr /\ looked' = looked /\ s_Flag' = s_Flag
      /\ T_Given' = T_Given /\ s_Given' = s_Given
    BY DEF StepSize, given
<1>1. /\ ArgTypes /\ argPtr = 0 /\ Held(s_Given, 3, argArray) /\ s_Given \in Seq(Pieces)
      /\ s_Flag <=> FirstSaid(s_Given)
      /\ sizes.first = SaidOf(s_Given, 1, DefaultSize)
      /\ sizes.second = SizeOf(argArray[1], sizes.first)
      /\ argArray[1] # Null /\ argArray \in Array
      /\ sizes \in [first : Int, second : Int, step : Int]
    BY <1>0 DEF ArgumentInv, SplitPhase, SizePhase, ArgTypes
<1>2. n \in Nat /\ Direction \in {-1, 0, 1} /\ Direction = SignOf(sizes)
    BY <1>1, NothingNamed DEF Direction, SignOf
<1>3. step \in Int
  <2>1. argArray[2] \in Pieces \cup {Null}
      BY <1>1 DEF Array, Places
  <2>2. argArray[2] # Null => argArray[2].value \in Int
      BY <2>1, PiecesAre
  <2> QED
      BY <1>2, <2>2 DEF SizeOf
<1>4. ASSUME s_Flag
      PROVE  /\ FirstSaid(s_Given) /\ 1 < n
             /\ sizes.second = SaidOf(s_Given, 2, sizes.first)
             /\ step = SaidOf(s_Given, 3, Direction)
  <2>1. FirstSaid(s_Given) /\ 1 <= n
      BY <1>1, <1>2, <1>4 DEF FirstSaid
  <2>2. 1 < n /\ sizes.second = SaidOf(s_Given, 2, sizes.first)
    <3>1. 1 \in 0 .. 2 /\ 1 + 1 = 2
        OBVIOUS
    <3>2. /\ (IF IsNumber(argArray[1]) THEN argArray[1].value ELSE sizes.first)
                   = SaidOf(s_Given, 2, sizes.first)
          /\ argArray[1] = Null <=> 1 = n
        BY <1>1, <2>1, <3>1, PlaceSays
    <3>3. sizes.second = IF IsNumber(argArray[1]) THEN argArray[1].value ELSE sizes.first
        BY <1>1, <1>4 DEF SizeOf
    <3>4. sizes.second = SaidOf(s_Given, 2, sizes.first)
        BY <3>2, <3>3, Zenon
    <3>5. 1 # n
        BY <1>1, <3>2, Zenon
    <3> HIDE DEF n
    <3> QED
        BY <1>2, <2>1, <3>4, <3>5
  <2>3. step = SaidOf(s_Given, 3, Direction)
    <3>1. 2 \in 0 .. 2 /\ 2 + 1 = 3 /\ 2 <= n
        BY <1>2, <2>2
    <3>2. (IF IsNumber(argArray[2]) THEN argArray[2].value ELSE Direction)
                   = SaidOf(s_Given, 3, Direction)
        BY <1>1, <3>1, PlaceSays
    <3>3. step = IF IsNumber(argArray[2]) THEN argArray[2].value ELSE Direction
        BY <1>4, PiecesAre DEF SizeOf
    <3> QED
        BY <3>2, <3>3
  <2> QED
      BY <2>1, <2>2, <2>3
<1>5. ASSUME ~s_Flag PROVE sizes.second = sizes.first /\ step = 0
  <2>1. sizes.second = sizes.first /\ step = Direction
      BY <1>1, <1>5 DEF SizeOf
  <2>2. Direction = 0
      BY <1>1, <2>1 DEF Direction
  <2> QED
      BY <2>1, <2>2
<1> HIDE DEF step, n
<1>6. /\ sizes' \in [first : Int, second : Int, step : Int]
      /\ sizes'.first = sizes.first /\ sizes'.second = sizes.second /\ sizes'.step = step
    BY <1>0, <1>1, <1>3
<1>7. SignOf(sizes') = Direction
    BY <1>2, <1>6 DEF SignOf
<1>8. AllSized(s_Given, s_Flag, sizes')
  <2>1. CASE s_Flag
    <3>1. ~(n = 1)
        BY <1>2, <1>4, <2>1
    <3>2. sizes'.step = SaidOf(s_Given, 3, SignOf(sizes'))
        BY <1>4, <1>6, <1>7, <2>1
    <3> QED
        BY <1>1, <1>4, <1>6, <2>1, <3>1, <3>2 DEF AllSized, n
  <2>2. CASE ~s_Flag
      BY <1>1, <1>5, <1>6, <2>2 DEF AllSized
  <2> QED
      BY <2>1, <2>2
<1>9. ArgTypes'
    BY <1>0, <1>1, <1>6 DEF ArgTypes
<1>10. LooksUp(T_Given, looked)'
    BY <1>0 DEF ArgumentInv
<1>11. SplitPhase'
    BY <1>0, <1>1 DEF SplitPhase
<1>12. SizePhase'
    BY <1>0, <1>8 DEF SizePhase
<1> QED
    BY <1>9, <1>10, <1>11, <1>12 DEF ArgumentInv

-----------------------------------------------------------------------------
LEMMA ArgumentInvariant == ArgumentSpec => []ArgumentInv
<1>1. ArgumentInv /\ [ArgumentNext]_argumentVars => ArgumentInv'
    BY GiveArgumentsStep, SplitDevicesStep, LookUpDeviceStep, DevicesDoneStep,
       SplitSizesStep, FirstSizeStep, SecondSizeStep, StepSizeStep, NextCommandStep,
       ArgumentStutter DEF ArgumentNext
<1> QED
    BY <1>1, ArgumentInitInv, PTL DEF ArgumentSpec

LEMMA DevicesOf == ArgumentInv => DevicesAreThoseNamed
<1> SUFFICES ASSUME ArgumentInv PROVE DevicesAreThoseNamed
    OBVIOUS
<1> DEFINE names == Named(T_Given)
           n == Len(names)
           last == IF n > 5 THEN 5 ELSE n
           wanted == SubSeq(names, 2, last)
           d == Devices(T_Given)
<1>1. T_Given \in Seq(Pieces) /\ LooksUp(T_Given, looked)
    BY DEF ArgumentInv, ArgTypes
<1>2. n \in Nat /\ DOMAIN names = 1 .. n
    BY <1>1, NamedShape
<1>3. last \in 0 .. n /\ d \in Nat /\ d = IF last = 0 THEN 0 ELSE last - 1
  <2>1. d = IF n = 0 THEN 0 ELSE IF n > 5 THEN 4 ELSE n - 1
      BY DEF Devices
  <2> HIDE DEF n, d
  <2> QED
      BY <1>2, <2>1
<1>4. /\ Len(wanted) = d /\ \A i \in 1 .. d : wanted[i] = names[i + 1]
      /\ \E S : wanted \in Seq(S)
  <2>1. PICK S : names \in Seq(S)
      BY <1>1, NamedShape
  <2>2. \A i \in 2 .. last : names[i] \in S
    <3>1. \A i \in 2 .. last : i \in 1 .. n
      <4> HIDE DEF n, last
      <4> QED
          BY <1>2, <1>3
    <3> HIDE DEF last
    <3> QED
        BY <2>1, <3>1
  <2>3. last \in Int
      BY <1>3
  <2> HIDE DEF names, last, d
  <2>4. /\ wanted \in Seq(S) /\ Len(wanted) = IF 2 <= last THEN last - 2 + 1 ELSE 0
        /\ \A i \in 1 .. last - 2 + 1 : wanted[i] = names[2 + i - 1]
      BY <2>2, <2>3, SubSeqProperties
  <2> HIDE DEF wanted
  <2> QED
      BY <1>2, <1>3, <2>4
<1>5. Len(looked) \in Nat /\ Len(looked) <= d
    BY <1>1 DEF LooksUp
<1> HIDE DEF names, n, last, wanted, d
<1>6. looked = SubSeq(wanted, 1, Len(looked))
  <2>1. PICK m \in Nat : m = Len(looked)
      BY <1>5
  <2>2. \A i \in 1 .. m : wanted[i] = looked[i] /\ looked[i] \in Pieces
    <3>1. \A i \in 1 .. m : wanted[i] = names[i + 1]
        BY <1>3, <1>4, <1>5, <2>1
    <3> QED
        BY <1>1, <2>1, <3>1 DEF LooksUp, names
  <2>3. /\ SubSeq(wanted, 1, m) \in Seq(Pieces) /\ Len(SubSeq(wanted, 1, m)) = m
        /\ \A i \in 1 .. m : SubSeq(wanted, 1, m)[i] = wanted[i]
    <3>1. /\ SubSeq(wanted, 1, m) \in Seq(Pieces)
          /\ Len(SubSeq(wanted, 1, m)) = IF 1 <= m THEN m - 1 + 1 ELSE 0
          /\ \A i \in 1 .. m - 1 + 1 : SubSeq(wanted, 1, m)[i] = wanted[1 + i - 1]
        BY <2>1, <2>2, SubSeqProperties
    <3> QED
        BY <2>1, <3>1
  <2>4. looked \in Seq(Pieces)
      BY <1>1 DEF LooksUp
  <2> QED
      BY <2>1, <2>2, <2>3, <2>4
<1>7. splitting = "devices" =>
         NextDevice = IF looked = wanted THEN Null ELSE wanted[Len(looked) + 1]
  <2> SUFFICES ASSUME splitting = "devices"
               PROVE  NextDevice = IF looked = wanted THEN Null ELSE wanted[Len(looked) + 1]
      OBVIOUS
  <2>1. CASE Len(looked) = d
    <3>1. looked = wanted
      <4>1. SubSeq(wanted, 1, Len(wanted)) = wanted
        <5>1. PICK S : wanted \in Seq(S)
            BY <1>4
        <5> QED
            BY <5>1
      <4> QED
          BY <1>4, <1>6, <2>1, <4>1
    <3>2. NextDevice = Null
        BY <2>1, NextDeviceIs DEF d
    <3> QED
        BY <3>1, <3>2
  <2>2. CASE Len(looked) # d
    <3>1. looked # wanted /\ Len(looked) < d
        BY <1>3, <1>4, <1>5, <2>2
    <3>2. NextDevice = names[Len(looked) + 2]
        BY <3>1, NextDeviceIs DEF d, names
    <3>3. wanted[Len(looked) + 1] = names[Len(looked) + 2]
        BY <1>3, <1>4, <1>5, <3>1
    <3> QED
        BY <3>1, <3>2, <3>3
  <2> QED
      BY <2>1, <2>2
<1>8. Len(looked) <= Len(wanted)
    BY <1>4, <1>5
<1> QED
    BY <1>6, <1>7, <1>8 DEF DevicesAreThoseNamed, names, n, last, wanted

LEMMA SizesOf == ArgumentInv => SizesAreThoseOfS
<1> SUFFICES ASSUME ArgumentInv, splitting = "sized" PROVE SizesAreThoseOfS
    BY DEF SizesAreThoseOfS
<1> DEFINE names == Named(s_Given)
           n == Len(names)
<1>1. AllSized(s_Given, s_Flag, sizes) /\ s_Given \in Seq(Pieces)
    BY DEF ArgumentInv, SizePhase, ArgTypes
<1>2. n \in Nat /\ (names # <<>> <=> n > 0)
  <2>1. PICK S : names \in Seq(S)
      BY <1>1, NamedShape
  <2> HIDE DEF names
  <2> QED
      BY <2>1
<1>3. \A i, default : Said(i, default) = SaidOf(s_Given, i, default)
    BY DEF Said, SaidOf
<1>4. Direction = SignOf(sizes)
    BY DEF Direction, SignOf
<1> HIDE DEF n, names
<1>5. s_Flag <=> names # <<>> /\ IsNumber(names[1])
    BY <1>1, <1>2 DEF AllSized, FirstSaid, names, n
<1>6. sizes.first = Said(1, DefaultSize)
    BY <1>1, <1>3 DEF AllSized
<1>7. s_Flag /\ n > 1 =>
         sizes.second = Said(2, sizes.first) /\ sizes.step = Said(3, Direction)
    BY <1>1, <1>3, <1>4 DEF AllSized, names, n
<1>8. /\ s_Flag /\ n = 1 => sizes.step = 0
      /\ ~s_Flag => sizes.step = 0 /\ sizes.second \in {0, sizes.first}
    BY <1>1 DEF AllSized, names, n
<1> QED
    BY <1>5, <1>6, <1>7, <1>8 DEF SizesAreThoseOfS, names, n

(* The lists of -T and of -s, though they are split into one array one      *)
(* after the other, are each read as they were given: for all pieces and    *)
(* all lengths of both (ping3.c:1181-1193, 1251-1274).                      *)
THEOREM ArgumentsRead == ArgumentSpec => []ArgumentsAsGiven
<1>1. ArgumentInv => ArgumentsAsGiven
    BY DevicesOf, SizesOf DEF ArgumentsAsGiven
<1> QED
    BY <1>1, ArgumentInvariant, PTL

(* The pointer into the array that both lists share never leaves it.        *)
THEOREM ArgumentsTyped == ArgumentSpec => []ArgumentTypeOK
<1>1. ArgumentInv => ArgumentTypeOK
  <2> SUFFICES ASSUME ArgumentInv PROVE ArgumentTypeOK
      OBVIOUS
  <2>1. argPtr \in Places
    <3>1. splitting \notin {"T", "s"} => argPtr = 0
        BY DEF ArgumentInv, SplitPhase
    <3>2. ASSUME NEW g \in Seq(Pieces), NEW string, NEW room \in {3, 5},
                 ReadsOn(g, string, room, argArray, argPtr)
          PROVE  argPtr \in Places
      <4>1. Len(g) - Len(string) \in Nat
        <5>1. Len(g) \in Nat /\ Len(string) \in Nat /\ Len(string) <= Len(g)
            BY <3>2 DEF ReadsOn
        <5> QED
            BY <5>1
      <4>2. argPtr \in Nat /\ argPtr < room
          BY <3>2, <4>1, NamedCount DEF ReadsOn
      <4> QED
          BY <4>2 DEF Places
    <3>3. /\ splitting = "T" => ReadsOn(T_Given, T_Strng, 5, argArray, argPtr)
          /\ splitting = "s" => ReadsOn(s_Given, s_Strng, 3, argArray, argPtr)
          /\ T_Given \in Seq(Pieces) /\ s_Given \in Seq(Pieces)
        BY DEF ArgumentInv, SplitPhase, ArgTypes
    <3> QED
        BY <3>1, <3>2, <3>3 DEF Places
  <2>2. Len(looked) \in 0 .. 4
    <3>1. /\ Len(looked) \in Nat /\ Len(looked) <= Devices(T_Given)
          /\ Len(Named(T_Given)) \in Nat
        BY NothingNamed DEF ArgumentInv, ArgTypes, LooksUp
    <3>2. Devices(T_Given) \in 0 .. 4
      <4>1. PICK n \in Nat : n = Len(Named(T_Given))
          BY <3>1
      <4>2. Devices(T_Given) = IF n = 0 THEN 0 ELSE IF n > 5 THEN 4 ELSE n - 1
          BY <4>1 DEF Devices
      <4> QED
          BY <4>1, <4>2
    <3>3. PICK m \in Nat : m = Len(looked)
        BY <3>1
    <3>4. PICK d \in 0 .. 4 : d = Devices(T_Given)
        BY <3>2
    <3>5. m <= d
        BY <3>1, <3>3, <3>4, Zenon
    <3>6. m \in 0 .. 4
        BY <3>3, <3>4, <3>5
    <3> QED
        BY <3>3, <3>6, Zenon
  <2>3. argArray \in [Places -> DevicePieces \cup SizePieces \cup {Null, Keyword}]
    <3>1. Pieces \cup {Null} = DevicePieces \cup SizePieces \cup {Null, Keyword}
        BY DEF Pieces
    <3> QED
        BY <3>1 DEF ArgumentInv, ArgTypes, Array
  <2> QED
      BY <2>1, <2>2, <2>3 DEF ArgumentInv, ArgTypes, ArgumentTypeOK
<1> QED
    BY <1>1, ArgumentInvariant, PTL
=============================================================================
