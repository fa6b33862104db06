------------------------------ MODULE Payload -------------------------------
(***************************************************************************)
(* The payload of an ICMP Echo request, from the argument of -p to the     *)
(* last byte: convertHexByteStringToByteArray(), and the fill loops of     *)
(* genFun.c as sendICMP_EchoRequest() uses them.                           *)
(***************************************************************************)
EXTENDS Integers, Sequences, FiniteSets

CONSTANTS
    MaxPattern,     \* ICMP_PAYLOAD_MAX_PATTERN_SIZE
    MaxChars,       \* bound: characters after -p
    MaxPayload,     \* bound: bytes of payload
    TimeSpec        \* sizeof( struct timespec )

ASSUME PatternAssumption == MaxPattern \in Nat \ {0} /\ MaxChars \in Nat
ASSUME PayloadAssumption == MaxPayload \in Nat /\ TimeSpec \in Nat \ {0}

IntSize == 4            \* __SIZEOF_INT__

VARIABLES
    filling,        \* "idle", "upper", "lower", "fill", "time" or "filled"
    p_Flag, patternType,
    chars,          \* the characters after -p: TRUE for a hexadecimal digit
    hexStrng,       \* the next one of them
    pattern,        \* stored bytes, each as the place of its first digit
    payloadSize,
    cnt,            \* bytes filled so far
    payload         \* what each byte of the payload was filled with

CharPlaces == 1 .. MaxChars

patternVars == <<p_Flag, patternType, chars, hexStrng, pattern>>
payloadVars == <<filling, patternVars, payloadSize, cnt, payload>>

Types == {"none", "random", "time", "hex"}

PayloadInit ==
    /\ filling = "idle"
    /\ p_Flag = FALSE /\ patternType = "none"
    /\ chars = <<>> /\ hexStrng = 1 /\ pattern = <<>>
    /\ payloadSize = 0 /\ cnt = 0 /\ payload = <<>>

-----------------------------------------------------------------------------
(* -p                                                                       *)

NoPattern ==
    /\ filling = "idle"
    /\ filling' = "fill"
    /\ payloadSize' \in 0 .. MaxPayload
    /\ UNCHANGED <<patternVars, cnt, payload>>

NamedPattern ==
    /\ filling = "idle"
    /\ p_Flag' = TRUE /\ patternType' \in {"random", "time"}
    /\ filling' = "fill"
    /\ payloadSize' \in 0 .. MaxPayload
    /\ UNCHANGED <<chars, hexStrng, pattern, cnt, payload>>

HexPattern ==
    /\ filling = "idle"
    /\ p_Flag' = TRUE /\ patternType' = "hex"
    /\ \E n \in 0 .. MaxChars : chars' \in [1 .. n -> BOOLEAN]
    /\ filling' = "upper"
    /\ UNCHANGED <<hexStrng, pattern, payloadSize, cnt, payload>>

AtEnd(place) == place > Len(chars)

NeverFull(bytes) == FALSE                                      \* mutant
PatternFull(bytes) == Len(bytes) >= MaxPattern

AnyDigit(c) == TRUE                                              \* mutant
IsDigit(c) == c

(* A character that is no digit is passed over where the first digit of a   *)
(* byte is expected, and takes that digit along where the second one is.    *)
UpperNibble ==
    /\ filling = "upper" /\ ~PatternFull(pattern) /\ ~AtEnd(hexStrng)
    /\ hexStrng' = hexStrng + 1
    /\ filling' = IF IsDigit(chars[hexStrng]) /\ ~AtEnd(hexStrng + 1) THEN "lower" ELSE "upper"
    /\ UNCHANGED <<p_Flag, patternType, chars, pattern, payloadSize, cnt, payload>>

LowerNibble ==
    /\ filling = "lower"
    /\ hexStrng' = hexStrng + 1
    /\ pattern' = IF IsDigit(chars[hexStrng]) THEN Append(pattern, hexStrng - 1) ELSE pattern
    /\ filling' = "upper"
    /\ UNCHANGED <<p_Flag, patternType, chars, payloadSize, cnt, payload>>

FlagKept(size) == TRUE                                           \* mutant
FlagOf(size) == size > 0

PatternDone ==
    /\ filling = "upper" /\ (PatternFull(pattern) \/ AtEnd(hexStrng))
    /\ p_Flag' = FlagOf(Len(pattern))
    /\ patternType' = IF p_Flag' THEN patternType ELSE "none"
    /\ filling' = "fill"
    /\ payloadSize' \in 0 .. MaxPayload
    /\ UNCHANGED <<chars, hexStrng, pattern, cnt, payload>>

-----------------------------------------------------------------------------
(* sendICMP_EchoRequest(): each byte is filled with a record that tells     *)
(* where it is from                                                         *)

From(source, place) == [source |-> source, place |-> place]

SourceBytes == IF patternType = "hex" THEN pattern ELSE [i \in 1 .. IntSize |-> i]

TurnedForGood(n, size) == IF n < size THEN n ELSE 0              \* mutant
Turned(n, size) == n % size

(* Byte cnt of an incrementing payload, and of a pattern that repeats.      *)
FillByte ==
    /\ filling = "fill" /\ cnt < payloadSize /\ patternType # "random"
    /\ payload' = Append(payload,
          IF ~p_Flag THEN From("count", cnt % 256)
          ELSE From(patternType, SourceBytes[Turned(cnt, Len(SourceBytes)) + 1]))
    /\ cnt' = cnt + 1
    /\ UNCHANGED <<filling, patternVars, payloadSize>>

WholeIntAlways(n) == TRUE                                        \* mutant
WholeInt(n) == n + IntSize <= payloadSize

(* rand() gives four bytes at a time, and at the end as many as fit.        *)
FillRandom ==
    /\ filling = "fill" /\ cnt < payloadSize /\ patternType = "random"
    /\ LET n == IF WholeInt(cnt) THEN IntSize ELSE payloadSize - cnt
       IN  /\ payload' = payload \o [i \in 1 .. n |-> From("random", i)]
           /\ cnt' = cnt + n
    /\ UNCHANGED <<filling, patternVars, payloadSize>>

FillEnds ==
    /\ filling = "fill" /\ cnt >= payloadSize
    /\ filling' = "time"
    /\ UNCHANGED <<patternVars, payloadSize, cnt, payload>>

TimeFits(size) == size >= TimeSpec

(* Without -p the time of sending takes the first bytes, if it fits.        *)
FillTime ==
    /\ filling = "time"
    /\ payload' = IF p_Flag \/ ~TimeFits(payloadSize) THEN payload
                  ELSE [i \in 1 .. TimeSpec |-> From("timespec", i)]
                       \o SubSeq(payload, TimeSpec + 1, Len(payload))
    /\ filling' = "filled"
    /\ UNCHANGED <<patternVars, payloadSize, cnt>>

(* The next request is filled from the same pattern, maybe to another size. *)
NextPayload ==
    /\ filling = "filled"
    /\ filling' = "fill"
    /\ payloadSize' \in 0 .. MaxPayload
    /\ cnt' = 0 /\ payload' = <<>>
    /\ UNCHANGED patternVars

PayloadNext ==
    \/ NoPattern \/ NamedPattern \/ HexPattern \/ UpperNibble \/ LowerNibble
    \/ PatternDone \/ FillByte \/ FillRandom \/ FillEnds \/ FillTime \/ NextPayload

PayloadSpec == PayloadInit /\ [][PayloadNext]_payloadVars

-----------------------------------------------------------------------------
PayloadTypeOK ==
    /\ filling \in {"idle", "upper", "lower", "fill", "time", "filled"}
    /\ p_Flag \in BOOLEAN /\ patternType \in Types
    /\ chars \in Seq(BOOLEAN) /\ hexStrng \in 1 .. Len(chars) + 1
    /\ pattern \in Seq(CharPlaces) /\ Len(pattern) <= MaxPattern
    /\ payloadSize \in 0 .. MaxPayload /\ cnt = Len(payload)

(***************************************************************************)
(* The pattern is made of pairs of adjacent digits that do not overlap, in *)
(* their order (genFun.c:281-291).                                         *)
(***************************************************************************)
PatternIsPairs ==
    /\ \A k \in DOMAIN pattern : chars[pattern[k]] /\ chars[pattern[k] + 1]
    /\ \A k \in 2 .. Len(pattern) : pattern[k] >= pattern[k - 1] + 2

(***************************************************************************)
(* No fill runs with an empty pattern, by whose size it would take a       *)
(* remainder (ping3.c:1211; genFun.c:42).                                  *)
(***************************************************************************)
NoEmptyPattern ==
    filling = "fill" /\ p_Flag /\ patternType = "hex" => pattern # <<>>

(***************************************************************************)
(* A payload ends where its size says, whatever it is filled with          *)
(* (genFun.c:26, 41, 56-69; ping3.c:436).                                  *)
(***************************************************************************)
PayloadStaysInside == Len(payload) <= payloadSize

(***************************************************************************)
(* A filled payload holds, at every place, the byte of the source that     *)
(* belongs there: patterns repeat from the first byte on (ping3.c:416-439).*)
(***************************************************************************)
PayloadIsRepeated ==
    filling = "filled" =>
        /\ Len(payload) = payloadSize
        /\ patternType \in {"hex", "time"} => \A i \in DOMAIN payload :
              payload[i] = From(patternType, SourceBytes[((i - 1) % Len(SourceBytes)) + 1])
        /\ patternType = "none" => \A i \in DOMAIN payload :
              payload[i].source = "timespec" <=> i <= TimeSpec /\ payloadSize >= TimeSpec

(* The pattern of -p is sound, whatever its text: both of them together.    *)
PatternIsSound == PatternIsPairs /\ NoEmptyPattern

(* The payload is filled from its source, all of it and no further.         *)
PayloadIsRight == PayloadStaysInside /\ PayloadIsRepeated
=============================================================================
