----------------------------- MODULE RingBuffer -----------------------------
(***************************************************************************)
(* The circular buffer of genFun.c: two indices into an array whose length *)
(* is a power of two, one slot of which is given up so that equal indices  *)
(* mean "full".  loadRingBffrWithBytesFromLineOfAsciiHex() is its producer;*)
(* genFun.c has no consumer, and the one here takes a byte at a time       *)
(* between any two steps of the producer, as the tests of the indices      *)
(* allow it.                                                               *)
(***************************************************************************)
EXTENDS Integers, Sequences

CONSTANTS
    ringMask,       \* one less than the length of the array
    Bytes,          \* the values that two hexadecimal digits are converted to
    MaxLine         \* bound: bytes in a line

(* The program wants the length to be a power of two, for its masks to be   *)
(* remainders; nothing else depends on that.                                *)
ASSUME MaskAssumption == ringMask \in Nat \ {0}
ASSUME BytesAssumption == Bytes \subseteq 0 .. 255 /\ 255 \in Bytes
ASSUME LineAssumption == MaxLine \in Nat

ringSize == ringMask + 1
Slots == 0 .. ringMask

VARIABLES
    ringBffr, inIndx, outIndx,
    line,           \* the bytes of the line still to be loaded
    loaded,         \* bytes loaded of this line
    putCount, gotCount  \* history: bytes put in and taken out, modulo ringSize

ringVars == <<ringBffr, inIndx, outIndx, line, loaded, putCount, gotCount>>

(* The mask works as the remainder by a power of two.                       *)
MaskLeftOut(n) == n                                              \* mutant
Masked(n) == n % ringSize

ringBffrFull(in, out) == in = out
ringBffrEmpty(in, out) == Masked(out + 1) = in
UsedWithoutGap(in, out) ==                                       \* mutant
    IF in = out THEN ringMask
    ELSE IF in > out THEN in - out ELSE in - out + ringMask
ringBffrUsed(in, out) ==
    IF in = out THEN ringMask
    ELSE IF in > out THEN in - out - 1 ELSE in - out + ringMask

(* Empty; genFun.c leaves the first indices to its caller.                  *)
RingInit ==
    /\ ringBffr = [i \in Slots |-> 0]
    /\ inIndx = 1 /\ outIndx = 0
    /\ line = <<>> /\ loaded = 0
    /\ putCount = 0 /\ gotCount = 0

(* A new line; two characters that are no digits are converted to -1, of    *)
(* which 255 is stored.                                                     *)
NextLine ==
    /\ line = <<>>
    /\ \E n \in 1 .. MaxLine : line' \in [1 .. n -> Bytes]
    /\ loaded' = 0
    /\ UNCHANGED <<ringBffr, inIndx, outIndx, putCount, gotCount>>

FullTooLate == FALSE                                             \* mutant
Full == ringBffrFull(inIndx, outIndx)

(* The loop over the line stops early when the buffer is full; what is left *)
(* of the line is not loaded.                                               *)
Load ==
    /\ line # <<>>
    /\ IF Full
       THEN line' = <<>> /\ UNCHANGED <<ringBffr, inIndx, loaded, putCount>>
       ELSE /\ ringBffr' = [ringBffr EXCEPT ![inIndx] = line[1]]
            /\ inIndx' = Masked(inIndx + 1)
            /\ line' = Tail(line)
            /\ loaded' = loaded + 1
            /\ putCount' = Masked(putCount + 1)
    /\ UNCHANGED <<outIndx, gotCount>>

(* The consumer looks whether there is a byte, and takes the next one.      *)
Take ==
    /\ ~ringBffrEmpty(inIndx, outIndx)
    /\ outIndx' = Masked(outIndx + 1)
    /\ gotCount' = Masked(gotCount + 1)
    /\ UNCHANGED <<ringBffr, inIndx, line, loaded, putCount>>

RingNext == NextLine \/ Load \/ Take
RingSpec == RingInit /\ [][RingNext]_ringVars

-----------------------------------------------------------------------------
RingTypeOK ==
    /\ ringBffr \in [Slots -> Bytes \cup {0}]
    /\ inIndx \in Slots /\ outIndx \in Slots
    /\ line \in Seq(Bytes) /\ Len(line) <= MaxLine
    /\ loaded \in 0 .. MaxLine
    /\ putCount \in Slots /\ gotCount \in Slots

(***************************************************************************)
(* ringBffrUsed() is the number of bytes put in and not taken out yet,     *)
(* wherever the two indices are, and agrees with the tests for full and    *)
(* empty (genFun.c:315-333).                                               *)
(***************************************************************************)
UsedIsStored ==
    /\ ringBffrUsed(inIndx, outIndx) = Masked(putCount - gotCount)
    /\ ringBffrFull(inIndx, outIndx) <=> ringBffrUsed(inIndx, outIndx) = ringMask
    /\ ringBffrEmpty(inIndx, outIndx) <=> ringBffrUsed(inIndx, outIndx) = 0

(* The bytes stored, oldest first.                                          *)
Stored == [i \in 1 .. ringBffrUsed(inIndx, outIndx) |-> ringBffr[Masked(outIndx + i)]]

Queue == INSTANCE BoundedFifo WITH
    Elements <- Bytes, Capacity <- ringMask, queue <- Stored

(***************************************************************************)
(* The buffer is a queue of ringMask bytes: they come out in the order in  *)
(* which they went in, none is lost, overwritten or read twice, however    *)
(* the producer and the consumer alternate (genFun.c:310-363).             *)
(***************************************************************************)
IsQueue == Queue!Fifo
=============================================================================
