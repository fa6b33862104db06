------------------------------ MODULE Checksum ------------------------------
(***************************************************************************)
(* calcCheckSum() word by word, on the way of an ICMP message: built with  *)
(* an empty checksum field, summed and completed by the sender, perhaps    *)
(* damaged in one word by the network, and summed again by the receiver.   *)
(***************************************************************************)
EXTENDS Integers, Sequences, Functions

CONSTANTS
    Byte,           \* values of a byte, 2^8
    MaxWords        \* longest message in words, an odd byte at its end included

Base == Byte * Byte                     \* values of an unsigned short
SumMax == (Base * Base) \div 2 - 1      \* INT_MAX

ASSUME ByteAssumption == Byte \in Nat \ {0, 1}
(* The longest IPv4 datagram, of 65535 bytes, has 2^15 words; the checksum  *)
(* field is one.                                                            *)
ASSUME LengthAssumption == MaxWords \in Nat \ {0} /\ 2 * MaxWords <= Byte * Byte

VARIABLES
    summing,        \* the place in calcCheckSum() and around it
    message,        \* the words that it sums; the first is the checksum field
    tail,           \* the odd byte at the end, <<>> if there is none
    wrdPtr, sum,    \* the variables of calcCheckSum()
    sent,           \* history: message and tail as sent, <<>> before that
    answer          \* what calcCheckSum() returned last

checksumVars == <<summing, message, tail, wrdPtr, sum, sent, answer>>

Words == 0 .. Base - 1

ChecksumInit ==
    /\ summing = "idle"
    /\ message = <<0>> /\ tail = <<>> /\ wrdPtr = 1 /\ sum = 0
    /\ sent = <<>> /\ answer = 0

FieldLeft(field) == field                                        \* mutant
FieldCleared(field) == 0

SumKept == sum                                                   \* mutant
SumOfNone == 0

(* fill_ICMP_HdrPreChkSum() clears the field in which an earlier message    *)
(* may have left a checksum, and the rest of the message is filled in.      *)
Compose ==
    /\ summing = "idle"
    /\ \E n \in 1 .. MaxWords, old \in {0, 1} : \E data \in [2 .. n -> Words] :
          message' = [i \in 1 .. n |-> IF i = 1 THEN FieldCleared(old) ELSE data[i]]
    /\ tail' \in {<<>>} \cup (IF Len(message') < MaxWords
                              THEN {<<b>> : b \in 0 .. Byte - 1} ELSE {})
    /\ summing' = "add"
    /\ wrdPtr' = 1 /\ sum' = SumOfNone
    /\ UNCHANGED <<sent, answer>>

AddWord ==
    /\ summing = "add" /\ wrdPtr <= Len(message)
    /\ sum' = sum + message[wrdPtr]
    /\ wrdPtr' = wrdPtr + 1
    /\ UNCHANGED <<summing, message, tail, sent, answer>>

TailIgnored(odd) == 0                                            \* mutant
TailWord(odd) == IF odd = <<>> THEN 0 ELSE odd[1]

AddTail ==
    /\ summing = "add" /\ wrdPtr > Len(message)
    /\ sum' = sum + TailWord(tail)
    /\ summing' = "fold"
    /\ UNCHANGED <<message, tail, wrdPtr, sent, answer>>

(* Twice the high word is added to the low one; the last truncation to 16   *)
(* bits takes the carry of the second time away.                            *)
High(n) == n \div Base
Low(n) == n % Base

FoldOnce(n) == n                                                 \* mutant
FoldAgain(n) == n + High(n)

Fold ==
    /\ summing = "fold"
    /\ sum' = High(sum) + Low(sum)
    /\ summing' = "carry"
    /\ UNCHANGED <<message, tail, wrdPtr, sent, answer>>

Carry ==
    /\ summing = "carry"
    /\ sum' = FoldAgain(sum)
    /\ summing' = IF sent = <<>> THEN "send" ELSE "verify"
    /\ UNCHANGED <<message, tail, wrdPtr, sent, answer>>

ComplementOfInt(n) == Base - 1 - n                               \* mutant
Complement(n) == Base - 1 - Low(n)

(* The sender's answer becomes the checksum field.                          *)
Send ==
    /\ summing = "send"
    /\ answer' = Complement(sum)
    /\ message' = [message EXCEPT ![1] = answer']
    /\ sent' = <<message', tail>>
    /\ summing' = "network"
    /\ UNCHANGED <<tail, wrdPtr, sum>>

(* The network delivers the message as it was, or with one word changed.    *)
Deliver ==
    /\ summing = "network"
    /\ \/ UNCHANGED <<message, tail>>
       \/ /\ \E i \in DOMAIN message, w \in Words : message' = [message EXCEPT ![i] = w]
          /\ UNCHANGED tail
       \/ /\ tail # <<>> /\ \E b \in 0 .. Byte - 1 : tail' = <<b>>
          /\ UNCHANGED message
    /\ summing' = "add"
    /\ wrdPtr' = 1 /\ sum' = SumOfNone
    /\ UNCHANGED <<sent, answer>>

Verify ==
    /\ summing = "verify"
    /\ answer' = Complement(sum)
    /\ summing' = "verified"
    /\ UNCHANGED <<message, tail, wrdPtr, sum, sent>>

Again ==
    /\ summing = "verified"
    /\ summing' = "idle" /\ message' = <<0>> /\ tail' = <<>>
    /\ wrdPtr' = 1 /\ sum' = 0 /\ sent' = <<>> /\ answer' = 0

ChecksumNext ==
    \/ Compose \/ AddWord \/ AddTail \/ Fold \/ Carry
    \/ Send \/ Deliver \/ Verify \/ Again

ChecksumSpec == ChecksumInit /\ [][ChecksumNext]_checksumVars

-----------------------------------------------------------------------------
ChecksumTypeOK ==
    /\ summing \in {"idle", "add", "fold", "carry", "send", "network", "verify",
                    "verified"}
    /\ message \in Seq(Words) /\ Len(message) \in 1 .. MaxWords
    /\ tail \in Seq(0 .. Byte - 1) /\ Len(tail) \in 0 .. 1
    /\ Len(message) + Len(tail) <= MaxWords
    /\ wrdPtr \in 1 .. Len(message) + 1
    /\ sum \in Nat
    /\ answer \in Words

(* So many words have been added so far.                                    *)
Added == IF summing = "add" THEN wrdPtr - 1 ELSE Len(message) + Len(tail)

(***************************************************************************)
(* The accumulator is a signed int (ipFun.c:26): it holds no more than the *)
(* words added so far, and so the sum of the longest datagram does not     *)
(* overflow it, by one part in 2^15.                                       *)
(***************************************************************************)
SumInRange ==
    /\ sum <= SumMax
    /\ summing \in {"add", "fold"} => sum <= Added * (Base - 1)

Total == FoldFunction(LAMBDA a, b : a + b, 0, message) + TailWord(tail)

(* The ones' complement sum, folded until nothing is carried.               *)
OnesComplement(n) == IF n = 0 THEN 0 ELSE ((n - 1) % (Base - 1)) + 1

(***************************************************************************)
(* Two folds give what folding until nothing is carried would, whatever    *)
(* was summed (ipFun.c:49-50), and what is lost above 16 bits is no carry. *)
(***************************************************************************)
FoldsSuffice ==
    summing \in {"send", "verify"} => Low(sum) = OnesComplement(Total)

(***************************************************************************)
(* The receiver of a message as it was sent gets 0, whatever an earlier    *)
(* message left in the checksum field (ping3.c:313, 599, 638;              *)
(* icmpFun.c:250).                                                         *)
(***************************************************************************)
SentVerifies ==
    summing = "verified" /\ sent = <<message, tail>> => answer = 0

(***************************************************************************)
(* A change of one word, the odd byte included, is seen, except between    *)
(* the two zeros of ones' complement (ping3.c:599, 638).                   *)
(***************************************************************************)
ChangeSeen ==
    summing = "verified" /\ answer = 0 =>
        /\ tail = sent[2]
        /\ \A i \in DOMAIN message :
              message[i] = sent[1][i] \/ {message[i], sent[1][i]} = {0, Base - 1}

(* What is computed is the ones' complement sum, with no overflow.          *)
SumIsRight == SumInRange /\ FoldsSuffice

(* What the receiver concludes from it is right in both directions.         *)
VerdictIsRight == SentVerifies /\ ChangeSeen
=============================================================================
