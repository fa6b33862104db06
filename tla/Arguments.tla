----------------------------- MODULE Arguments ------------------------------
(***************************************************************************)
(* The arguments of -T tsprespec and -s that are lists of words, split by  *)
(* strsep() into one array of pointers that processCommandLineOptions()    *)
(* uses for both, one after the other, without clearing it in between.     *)
(* What the sizes are limited to, and what they are used for, is in Sizes. *)
(***************************************************************************)
EXTENDS Integers, Sequences, FiniteSets

CONSTANTS
    DevicePieces,   \* pieces of the argument of -T, after "tsprespec"
    SizePieces,     \* pieces of the argument of -s
    MaxDevicePieces, MaxSizePieces,     \* bounds: how many of them
    DefaultSize     \* DEFAULT_ICMP_EXTRA_DATA

(* Two separators in a row have an empty piece between them.  An address    *)
(* begins with a number, which is all that strtol() would see of it.        *)
Piece == [kind : {"empty", "junk", "address", "number"}, value : Int]
ASSUME PieceAssumption == DevicePieces \cup SizePieces \subseteq Piece
ASSUME PiecesAssumption == {MaxDevicePieces, MaxSizePieces, DefaultSize} \subseteq Nat

Null == [kind |-> "null", value |-> 0]
Keyword == [kind |-> "junk", value |-> 0]       \* tsprespec
Places == 0 .. 4

VARIABLES
    splitting,      \* "given", "T", "devices", "s", "first", ... or "sized"
    T_Strng, s_Strng,           \* what is left of the arguments, <<>> for NULL
    argArray, argPtr,
    s_Flag,
    looked,                     \* the devices that were looked up
    sizes,                      \* first, second and step, as they are settled
    T_Given, s_Given            \* history: the arguments

argumentVars == <<splitting, T_Strng, s_Strng, argArray, argPtr, s_Flag, looked,
                  sizes, T_Given, s_Given>>
given == <<T_Given, s_Given>>

Unsized == [first |-> 0, second |-> 0, step |-> 0]

ArgumentInit ==
    /\ splitting = "given"
    /\ T_Strng = <<>> /\ s_Strng = <<>> /\ T_Given = <<>> /\ s_Given = <<>>
    /\ argArray = [p \in Places |-> Null] /\ argPtr = 0
    /\ s_Flag = FALSE /\ looked = <<>> /\ sizes = Unsized

(* Either option may be missing.  A string has at least one piece.          *)
GiveArguments ==
    /\ splitting = "given"
    /\ \E n \in 0 .. MaxDevicePieces : \E pieces \in [1 .. n -> DevicePieces] :
          T_Strng' \in {<<>>, <<Keyword>> \o pieces}
    /\ \E n \in 0 .. MaxSizePieces : s_Strng' \in [1 .. n -> SizePieces]
    /\ T_Given' = T_Strng' /\ s_Given' = s_Strng'
    /\ s_Flag' = (s_Strng' # <<>>)
    /\ splitting' = IF T_Strng' = <<>> THEN "s" ELSE "T"
    /\ UNCHANGED <<argArray, argPtr, looked, sizes>>

(* strsep() gives the next piece, which is stored; an empty one is stored   *)
(* over by the one after it, and NULL ends the list if there is room for it.*)
EmptyCounts(piece) == 1                                          \* mutant
Counts(piece) == IF piece.kind = "empty" THEN 0 ELSE 1

FullLate(place, room) == place > room                            \* mutant
FullAt(place, room) == place >= room

Split(string, room, next) ==
    IF string = <<>>
    THEN /\ argArray' = [argArray EXCEPT ![argPtr] = Null]
         /\ argPtr' = 0 /\ splitting' = next
    ELSE LET place == argPtr + Counts(string[1])
         IN  /\ argArray' = [argArray EXCEPT ![argPtr] = string[1]]
             /\ argPtr' = IF FullAt(place, room) THEN 0 ELSE place
             /\ splitting' = IF FullAt(place, room) THEN next ELSE splitting

Rest(string) == IF string = <<>> THEN <<>> ELSE Tail(string)

SplitDevices ==
    /\ splitting = "T"
    /\ Split(T_Strng, 5, "devices")
    /\ T_Strng' = Rest(T_Strng)
    /\ UNCHANGED <<s_Strng, s_Flag, looked, sizes, given>>

(* Up to four devices, until one is not found.                              *)
NextDevice == IF Len(looked) < 4 THEN argArray[Len(looked) + 1] ELSE Null

LookUpDevice ==
    /\ splitting = "devices" /\ NextDevice \notin {Null} /\ NextDevice.kind # "empty"
    /\ looked' = Append(looked, NextDevice)
    /\ splitting' \in {"devices", "s"}
    /\ UNCHANGED <<T_Strng, s_Strng, argArray, argPtr, s_Flag, sizes, given>>

DevicesDone ==
    /\ splitting = "devices" /\ (NextDevice = Null \/ NextDevice.kind = "empty")
    /\ splitting' = "s"
    /\ UNCHANGED <<T_Strng, s_Strng, argArray, argPtr, s_Flag, looked, sizes, given>>

SplitSizes ==
    /\ splitting = "s"
    /\ Split(s_Strng, 3, "first")
    /\ s_Strng' = Rest(s_Strng)
    /\ UNCHANGED <<T_Strng, s_Flag, looked, sizes, given>>

-----------------------------------------------------------------------------
(* The conversions use the flag of -s, which the first of them resets when  *)
(* there is nothing to convert.                                             *)
IsNumber(piece) == piece.kind \in {"number", "address"}

ConvertedAnyway(piece, default) ==                               \* mutant
    IF IsNumber(piece) THEN piece.value ELSE default
SizeOf(piece, default) == IF s_Flag /\ IsNumber(piece) THEN piece.value ELSE default

FirstSize ==
    /\ splitting = "first"
    /\ sizes' = [sizes EXCEPT !.first = SizeOf(argArray[0], DefaultSize)]
    /\ s_Flag' = (s_Flag /\ IsNumber(argArray[0]))
    /\ splitting' = IF argArray[1] = Null THEN "sized" ELSE "second"
    /\ UNCHANGED <<T_Strng, s_Strng, argArray, argPtr, looked, given>>

SecondSize ==
    /\ splitting = "second"
    /\ sizes' = [sizes EXCEPT !.second = SizeOf(argArray[1], sizes.first)]
    /\ splitting' = "step"
    /\ UNCHANGED <<T_Strng, s_Strng, argArray, argPtr, s_Flag, looked, given>>

Direction == IF sizes.second > sizes.first THEN 1
             ELSE IF sizes.second < sizes.first THEN -1 ELSE 0

StepSize ==
    /\ splitting = "step"
    /\ sizes' = [sizes EXCEPT !.step =
          IF argArray[2] = Null THEN Direction ELSE SizeOf(argArray[2], Direction)]
    /\ splitting' = "sized"
    /\ UNCHANGED <<T_Strng, s_Strng, argArray, argPtr, s_Flag, looked, given>>

(* Another start of the program.                                            *)
NextCommand ==
    /\ splitting = "sized"
    /\ splitting' = "given"
    /\ T_Strng' = <<>> /\ s_Strng' = <<>> /\ T_Given' = <<>> /\ s_Given' = <<>>
    /\ argArray' = [p \in Places |-> Null] /\ argPtr' = 0
    /\ s_Flag' = FALSE /\ looked' = <<>> /\ sizes' = Unsized

ArgumentNext ==
    \/ GiveArguments \/ SplitDevices \/ LookUpDevice \/ DevicesDone \/ SplitSizes
    \/ FirstSize \/ SecondSize \/ StepSize \/ NextCommand

ArgumentSpec == ArgumentInit /\ [][ArgumentNext]_argumentVars

-----------------------------------------------------------------------------
(* One type invariant; argPtr is always a place of the array.               *)
ArgumentTypeOK ==
    /\ splitting \in {"given", "T", "devices", "s", "first", "second", "step", "sized"}
    /\ argArray \in [Places -> DevicePieces \cup SizePieces \cup {Null, Keyword}]
    /\ argPtr \in Places
    /\ s_Flag \in BOOLEAN /\ Len(looked) \in 0 .. 4
    /\ sizes \in [first : Int, second : Int, step : Int]

(* The pieces that are not empty, in their order.                           *)
NamedUpTo(pieces, i) == Cardinality({j \in 1 .. i : pieces[j].kind # "empty"})
Named(pieces) ==
    [k \in 1 .. NamedUpTo(pieces, Len(pieces)) |->
        pieces[CHOOSE i \in DOMAIN pieces :
                  pieces[i].kind # "empty" /\ NamedUpTo(pieces, i) = k]]

(***************************************************************************)
(* The devices looked up are those named after tsprespec, in their order,  *)
(* whatever separators stand between them: the first four of them, unless  *)
(* one is not found (ping3.c:1181-1193).                                   *)
(***************************************************************************)
DevicesAreThoseNamed ==
    LET names == Named(T_Given)
        wanted == SubSeq(names, 2, IF Len(names) > 5 THEN 5 ELSE Len(names))
    IN  /\ Len(looked) <= Len(wanted) /\ looked = SubSeq(wanted, 1, Len(looked))
        /\ splitting = "devices" =>
              NextDevice = IF looked = wanted THEN Null ELSE wanted[Len(looked) + 1]

(* What the user said of the sizes, without the array.                      *)
Said(i, default) ==
    LET words == Named(s_Given)
    IN  IF i <= Len(words) /\ IsNumber(words[i]) THEN words[i].value ELSE default

(***************************************************************************)
(* The sizes are those of -s, even when words of -T are left in the array: *)
(* no address is taken for a size, and without a first size there is no    *)
(* sweep (ping3.c:1251-1274).                                              *)
(***************************************************************************)
SizesAreThoseOfS ==
    splitting = "sized" =>
        /\ s_Flag <=> Named(s_Given) # <<>> /\ IsNumber(Named(s_Given)[1])
        /\ sizes.first = Said(1, DefaultSize)
        /\ s_Flag /\ Len(Named(s_Given)) > 1 =>
              sizes.second = Said(2, sizes.first) /\ sizes.step = Said(3, Direction)
        /\ s_Flag /\ Len(Named(s_Given)) = 1 => sizes.step = 0
        /\ ~s_Flag => sizes.step = 0 /\ sizes.second \in {0, sizes.first}

(* Both lists are read as they were given, for all that they share.         *)
ArgumentsAsGiven == DevicesAreThoseNamed /\ SizesAreThoseOfS
=============================================================================
