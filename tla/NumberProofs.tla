---------------------------- MODULE NumberProofs ----------------------------
(***************************************************************************)
(* Sums over sequences, which the checksum and the statistics of the round *)
(* trip times are defined by, quotients, and theorems about both and about *)
(* the estimate of the clock difference.  Induction is over sets here: of  *)
(* the counterexamples the least one is taken.                             *)
(***************************************************************************)
EXTENDS Checksum, Stats, ClockDifference, FiniteSetTheorems, TLAPS

(* Induction over the natural numbers, for a set of them.                   *)
LEMMA NaturalsFollow ==
    ASSUME NEW T, 0 \in T, \A n \in Nat : n \in T => n + 1 \in T
    PROVE  \A n \in Nat : n \in T
<1> DEFINE Out == {n \in Nat : n \notin T}
<1>1. SUFFICES ASSUME Out # {} PROVE FALSE
    OBVIOUS
<1>2. PICK n \in Out : \A m \in Out : <<m, n>> \notin OpToRel(<, Nat)
  <2>1. Out \subseteq Nat
    OBVIOUS
  <2> HIDE DEF Out
  <2> QED
    BY <1>1, <2>1, NatLessThanWellFounded, WFMin
<1>3. \A m \in Out : ~(m < n)
    BY <1>2 DEF OpToRel
<1>4. n # 0 /\ n - 1 \in Nat /\ n - 1 \notin Out
    BY <1>3
<1> QED
    BY <1>4

-----------------------------------------------------------------------------
(* Sums                                                                     *)

(* The sums of the parts of a function: what FoldFunction() computes with.  *)
SumOfPart(F, f, s) ==
    IF s = {} THEN 0 ELSE F[CHOOSE x \in s : TRUE] + f[s \ {CHOOSE x \in s : TRUE}]
Small(S, n) == {s \in SUBSET S : Cardinality(s) <= n}
PartialSums(F, S) == CHOOSE f : f = [s \in SUBSET S |-> SumOfPart(F, f, s)]
HasSums(F, parts) == \E f : f = [s \in parts |-> SumOfPart(F, f, s)]

LEMMA SmallSumsExist ==
    ASSUME NEW S, IsFiniteSet(S), NEW F, NEW n \in Nat
    PROVE  HasSums(F, Small(S, n))
<1> DEFINE T == {k \in Nat : \E f : f = [s \in Small(S, k) |-> SumOfPart(F, f, s)]}
<1>1. 0 \in T
  <2>1. \A s \in Small(S, 0) : s = {}
      BY FS_EmptySet, FS_Subset, FS_CardinalityType DEF Small
  <2> DEFINE g == [s \in Small(S, 0) |-> 0]
  <2>2. g = [s \in Small(S, 0) |-> SumOfPart(F, g, s)]
      BY <2>1 DEF SumOfPart
  <2> QED
      BY <2>2
<1>2. ASSUME NEW k \in Nat, k \in T
      PROVE  k + 1 \in T
  <2>1. PICK f : f = [s \in Small(S, k) |-> SumOfPart(F, f, s)]
      BY <1>2
  <2> DEFINE g == [s \in Small(S, k + 1) |-> SumOfPart(F, f, s)]
  <2>2. ASSUME NEW s \in Small(S, k + 1)
        PROVE  g[s] = SumOfPart(F, g, s)
    <3>1. CASE s = {}
        BY <3>1 DEF SumOfPart
    <3>2. CASE s # {}
      <4> DEFINE c == CHOOSE x \in s : TRUE
      <4>1. c \in s
          BY <3>2
      <4>2. s \ {c} \in Small(S, k) /\ s \ {c} \in Small(S, k + 1)
          BY <4>1, FS_RemoveElement, FS_Subset, FS_CardinalityType DEF Small
      <4>3. g[s \ {c}] = f[s \ {c}]
          BY <2>1, <4>2
      <4> HIDE DEF g
      <4>4. g[s] = SumOfPart(F, f, s)
          BY DEF g
      <4> QED
          BY <4>3, <4>4 DEF SumOfPart
    <3> QED
        BY <3>1, <3>2
  <2>3. g = [s \in Small(S, k + 1) |-> SumOfPart(F, g, s)]
      BY <2>2
  <2>4. \E h : h = [s \in Small(S, k + 1) |-> SumOfPart(F, h, s)]
    <3> HIDE DEF g
    <3> QED
        BY <2>3
  <2> QED
      BY <2>4
<1> HIDE DEF T
<1>3. n \in T
    BY <1>1, <1>2, NaturalsFollow
<1> QED
    BY <1>3 DEF T, HasSums

LEMMA PartialSumsDef ==
    ASSUME NEW S, IsFiniteSet(S), NEW F
    PROVE  PartialSums(F, S) = [s \in SUBSET S |-> SumOfPart(F, PartialSums(F, S), s)]
<1>1. Cardinality(S) \in Nat /\ Small(S, Cardinality(S)) = SUBSET S
    BY FS_CardinalityType, FS_Subset DEF Small
<1>2. HasSums(F, Small(S, Cardinality(S)))
    BY <1>1, SmallSumsExist
<1>3. HasSums(F, SUBSET S)
    BY <1>1, <1>2
<1> QED
    BY <1>3 DEF HasSums, PartialSums

(* The induction over the parts of a finite set.                            *)
LEMMA PartsFollow ==
    ASSUME NEW S, IsFiniteSet(S), NEW T,
           \A U \in SUBSET S : (\A V \in SUBSET U : V # U => V \in T) => U \in T
    PROVE  \A U \in SUBSET S : U \in T
<1> DEFINE Out == {U \in SUBSET S : U \notin T}
<1>1. IsWellFoundedOn(StrictSubsetOrdering(S), SUBSET S)
    BY FS_StrictSubsetOrderingWellFounded, FS_FiniteSubsetsOfFinite
<1>2. SUFFICES ASSUME Out # {} PROVE FALSE
    OBVIOUS
<1>3. PICK U \in Out : \A V \in Out : <<V, U>> \notin StrictSubsetOrdering(S)
  <2>1. Out \subseteq SUBSET S
      OBVIOUS
  <2> HIDE DEF Out
  <2> QED
      BY <1>1, <1>2, <2>1, WFMin
<1>4. \A V \in SUBSET U : V # U => V \in T
    BY <1>3 DEF StrictSubsetOrdering
<1> QED
    BY <1>3, <1>4

(* Numbers on a finite set, and their sums: which element is added first    *)
(* does not matter.                                                         *)
Numbered(F, S) == IsFiniteSet(S) /\ \A x \in S : F[x] \in Int
AddsUp(f, F, S) ==
    /\ f \in [SUBSET S -> Int]
    /\ f[{}] = 0
    /\ \A s \in SUBSET S : \A x \in s : f[s] = F[x] + f[s \ {x}]

LEMMA SumsAddUp ==
    ASSUME NEW S, NEW F, Numbered(F, S)
    PROVE  AddsUp(PartialSums(F, S), F, S)
<1> DEFINE f == PartialSums(F, S)
           T == {s \in SUBSET S : f[s] \in Int /\ \A x \in s : f[s] = F[x] + f[s \ {x}]}
<1> USE DEF Numbered
<1>1. f = [s \in SUBSET S |-> SumOfPart(F, f, s)]
    BY PartialSumsDef
<1> HIDE DEF f
<1>2. ASSUME NEW U \in SUBSET S, \A V \in SUBSET U : V # U => V \in T
      PROVE  U \in T
  <2>1. CASE U = {}
      BY <1>1, <2>1 DEF SumOfPart
  <2>2. CASE U # {}
    <3>1. PICK c \in U : f[U] = F[c] + f[U \ {c}]
        BY <1>1, <2>2 DEF SumOfPart
    <3>2. \A y \in U : U \ {y} \in T /\ F[y] \in Int /\ f[U \ {y}] \in Int
        BY <1>2
    <3>3. ASSUME NEW x \in U
          PROVE  f[U] = F[x] + f[U \ {x}]
      <4>1. CASE x = c
          BY <3>1, <4>1
      <4>2. CASE x # c
        <5>1. (U \ {c}) \ {x} = (U \ {x}) \ {c}
            OBVIOUS
        <5>2. f[U \ {c}] = F[x] + f[(U \ {c}) \ {x}]
            BY <3>2, <4>2
        <5>3. f[U \ {x}] = F[c] + f[(U \ {x}) \ {c}]
            BY <3>2, <4>2
        <5>4. f[(U \ {c}) \ {x}] \in Int /\ F[c] \in Int /\ F[x] \in Int
            BY <1>2
        <5>5. \A a, b, d \in Int : a + (b + d) = b + (a + d)
            OBVIOUS
        <5>6. f[U] = F[c] + (F[x] + f[(U \ {c}) \ {x}])
            BY <3>1, <5>2
        <5>7. f[U \ {x}] = F[c] + f[(U \ {c}) \ {x}]
            BY <5>1, <5>3
        <5> QED
            BY <5>4, <5>5, <5>6, <5>7
      <4> QED
          BY <4>1, <4>2
    <3>4. f[U] \in Int
        BY <3>1, <3>2
    <3> QED
        BY <3>3, <3>4
  <2> QED
      BY <2>1, <2>2
<1>3. \A U \in SUBSET S : U \in T
  <2> HIDE DEF T
  <2> QED
    BY <1>2, PartsFollow
<1>4. f \in [SUBSET S -> Int]
    BY <1>1, <1>3
<1>5. f[{}] = 0
    BY <1>1 DEF SumOfPart
<1> QED
    BY <1>3, <1>4, <1>5 DEF f, AddsUp

(* Sums over equal parts of two functions are equal.                        *)
LEMMA EqualSums ==
    ASSUME NEW S, NEW F, Numbered(F, S), NEW R, NEW G, Numbered(G, R),
           NEW P \in SUBSET S, P \subseteq R, \A x \in P : F[x] = G[x]
    PROVE  PartialSums(F, S)[P] = PartialSums(G, R)[P]
<1> DEFINE f == PartialSums(F, S)
           g == PartialSums(G, R)
           T == {s \in SUBSET P : f[s] = g[s]}
<1>1. AddsUp(f, F, S) /\ AddsUp(g, G, R)
    BY SumsAddUp
<1> HIDE DEF f, g
<1>2. ASSUME NEW U \in SUBSET P, \A V \in SUBSET U : V # U => V \in T
      PROVE  U \in T
  <2>1. CASE U = {}
      BY <1>1, <2>1 DEF AddsUp
  <2>2. CASE U # {}
    <3>1. PICK x \in U : TRUE
        BY <2>2
    <3>2. f[U] = F[x] + f[U \ {x}] /\ g[U] = G[x] + g[U \ {x}]
        BY <1>1 DEF AddsUp
    <3>3. U \ {x} \in T /\ F[x] = G[x]
        BY <1>2
    <3> QED
        BY <3>2, <3>3
  <2> QED
      BY <2>1, <2>2
<1>3. IsFiniteSet(P)
    BY FS_Subset DEF Numbered
<1>4. \A U \in SUBSET P : U \in T
  <2> HIDE DEF T
  <2> QED
      BY <1>2, <1>3, PartsFollow
<1> QED
    BY <1>4 DEF f, g

(* The sum of the first k elements of a sequence, and of all of them.       *)
SumTo(s, k) == PartialSums(s, DOMAIN s)[1 .. k]
SumOf(s) == FoldFunction(LAMBDA a, b : a + b, 0, s)

LEMMA SumOfDef ==
    ASSUME NEW s \in Seq(Int)
    PROVE  SumOf(s) = SumTo(s, Len(s))
<1>1. SumOf(s) = PartialSums(s, DOMAIN s)[DOMAIN s]
    BY DEF SumOf, PartialSums, SumOfPart, FoldFunction, FoldFunctionOnSet, MapThenFoldSet
<1> QED
    BY <1>1 DEF SumTo

LEMMA Elements ==
    ASSUME NEW s \in Seq(Int)
    PROVE  DOMAIN s = 1 .. Len(s) /\ Numbered(s, DOMAIN s)
BY FS_Interval DEF Numbered

LEMMA SumToSteps ==
    ASSUME NEW s \in Seq(Int)
    PROVE  /\ SumTo(s, 0) = 0
           /\ \A k \in 0 .. Len(s) : SumTo(s, k) \in Int
           /\ \A k \in 1 .. Len(s) : SumTo(s, k) = SumTo(s, k - 1) + s[k]
<1> DEFINE f == PartialSums(s, DOMAIN s)
<1>1. DOMAIN s = 1 .. Len(s) /\ \A k \in 1 .. Len(s) : s[k] \in Int
    OBVIOUS
<1>2. AddsUp(f, s, DOMAIN s)
    BY Elements, SumsAddUp
<1> HIDE DEF f
<1>3. 1 .. 0 = {}
    OBVIOUS
<1>4. \A k \in 0 .. Len(s) : 1 .. k \in SUBSET (DOMAIN s)
    BY <1>1
<1>5. \A k \in 0 .. Len(s) : f[1 .. k] \in Int
    BY <1>2, <1>4 DEF AddsUp
<1>6. ASSUME NEW k \in 1 .. Len(s)
      PROVE  f[1 .. k] = f[1 .. k - 1] + s[k]
  <2> DEFINE U == 1 .. k
             V == 1 .. k - 1
  <2>1. U \in SUBSET (DOMAIN s) /\ k \in U /\ U \ {k} = V
      BY <1>1
  <2>2. f[V] \in Int /\ s[k] \in Int
      BY <1>1, <1>5
  <2> HIDE DEF U, V
  <2>3. f[U] = s[k] + f[V]
      BY <1>2, <2>1 DEF AddsUp
  <2>4. f[U] = f[V] + s[k]
      BY <2>2, <2>3
  <2> QED
      BY <2>4 DEF U, V
<1>7. f[{}] = 0
    BY <1>2 DEF AddsUp
<1> QED
    BY <1>3, <1>5, <1>6, <1>7 DEF SumTo, f

(* One element changed.                                                     *)
LEMMA SumChanged ==
    ASSUME NEW s \in Seq(Int), NEW i \in DOMAIN s, NEW w \in Int
    PROVE  SumOf([s EXCEPT ![i] = w]) = SumOf(s) - s[i] + w
<1> DEFINE D == DOMAIN s
           t == [s EXCEPT ![i] = w]
<1>1. t \in Seq(Int) /\ DOMAIN t = D /\ t[i] = w /\ \A x \in D \ {i} : t[x] = s[x]
    OBVIOUS
<1>2. i \in D /\ s[i] \in Int
    OBVIOUS
<1> HIDE DEF t
<1>3. /\ DOMAIN s = 1 .. Len(s) /\ DOMAIN t = 1 .. Len(t)
      /\ Numbered(s, D) /\ Numbered(t, DOMAIN t)
    BY <1>1, Elements
<1>4. SumOf(s) = PartialSums(s, D)[D] /\ SumOf(t) = PartialSums(t, D)[D]
    BY <1>1, <1>3, SumOfDef DEF SumTo
<1> HIDE DEF D
<1>5. Numbered(s, D) /\ Numbered(t, D)
    BY <1>1, <1>3
<1>6. AddsUp(PartialSums(s, D), s, D) /\ AddsUp(PartialSums(t, D), t, D)
    BY <1>5, SumsAddUp
<1>7. /\ PartialSums(s, D)[D] = s[i] + PartialSums(s, D)[D \ {i}]
      /\ PartialSums(t, D)[D] = t[i] + PartialSums(t, D)[D \ {i}]
      /\ PartialSums(s, D)[D \ {i}] \in Int
    BY <1>2, <1>6 DEF AddsUp
<1>8. PartialSums(s, D)[D \ {i}] = PartialSums(t, D)[D \ {i}]
  <2>1. D \ {i} \in SUBSET D /\ D \ {i} \subseteq D
      OBVIOUS
  <2> QED
      BY <1>1, <1>5, <2>1, EqualSums
<1>9. SumOf(t) = SumOf(s) - s[i] + w
    BY <1>1, <1>2, <1>4, <1>7, <1>8
<1> QED
    BY <1>9 DEF t

(* One element more.                                                        *)
LEMMA SumToAppended ==
    ASSUME NEW s \in Seq(Int), NEW w \in Int
    PROVE  /\ \A k \in 0 .. Len(s) : SumTo(Append(s, w), k) = SumTo(s, k)
           /\ SumTo(Append(s, w), Len(s) + 1) = SumTo(s, Len(s)) + w
<1> DEFINE t == Append(s, w)
           n == Len(s)
<1>1. t \in Seq(Int) /\ Len(t) = n + 1 /\ t[n + 1] = w /\ n \in Nat
      /\ \A x \in 1 .. n : t[x] = s[x]
    OBVIOUS
<1> HIDE DEF t
<1>2. ASSUME NEW k \in 0 .. n
      PROVE  SumTo(t, k) = SumTo(s, k)
  <2>1. /\ DOMAIN s = 1 .. n /\ DOMAIN t = 1 .. n + 1
        /\ Numbered(s, DOMAIN s) /\ Numbered(t, DOMAIN t)
      BY <1>1, Elements
  <2> DEFINE P == 1 .. k
  <2>2. P \in SUBSET (DOMAIN s) /\ P \subseteq DOMAIN t /\ \A x \in P : s[x] = t[x]
      BY <1>1, <2>1
  <2> HIDE DEF P
  <2>3. PartialSums(s, DOMAIN s)[P] = PartialSums(t, DOMAIN t)[P]
      BY <2>1, <2>2, EqualSums
  <2> QED
      BY <2>3 DEF SumTo, P
<1>3. SumTo(t, n + 1) = SumTo(t, n) + w
    BY <1>1, SumToSteps
<1> QED
    BY <1>1, <1>2, <1>3 DEF t

(* Sums of multiples are multiples.                                         *)
Multiple(c, x) == \E t \in Int : x = c * t

LEMMA MultiplesAdd ==
    ASSUME NEW c \in Int, NEW x, NEW y, Multiple(c, x), Multiple(c, y)
    PROVE  Multiple(c, x + y)
<1>1. PICK t \in Int : x = c * t
    BY DEF Multiple
<1>2. PICK u \in Int : y = c * u
    BY DEF Multiple
<1>3. x + y = c * (t + u) /\ t + u \in Int
    BY <1>1, <1>2
<1> QED
    BY <1>3, Zenon DEF Multiple

LEMMA SumOfMultiples ==
    ASSUME NEW s \in Seq(Int), NEW c \in Int, NEW k \in 0 .. Len(s),
           \A i \in 1 .. Len(s) : Multiple(c, s[i])
    PROVE  Multiple(c, SumTo(s, k))
<1> DEFINE T == {j \in Nat : j <= Len(s) => Multiple(c, SumTo(s, j))}
<1>1. 0 \in T
  <2>1. SumTo(s, 0) = c * 0 /\ 0 \in Int
      BY SumToSteps
  <2>2. Multiple(c, SumTo(s, 0))
      BY <2>1, Zenon DEF Multiple
  <2> QED
      BY <2>2
<1>2. ASSUME NEW j \in Nat, j \in T
      PROVE  j + 1 \in T
  <2> SUFFICES ASSUME j + 1 <= Len(s)
               PROVE  Multiple(c, SumTo(s, j + 1))
      OBVIOUS
  <2>1. Multiple(c, SumTo(s, j)) /\ Multiple(c, s[j + 1])
      BY <1>2
  <2>2. SumTo(s, j + 1) = SumTo(s, j) + s[j + 1]
      BY SumToSteps
  <2> QED
      BY <2>1, <2>2, MultiplesAdd
<1> HIDE DEF T
<1>3. k \in Nat
    OBVIOUS
<1>4. k \in T
    BY <1>1, <1>2, <1>3, NaturalsFollow
<1> QED
    BY <1>4 DEF T

-----------------------------------------------------------------------------
(* Division                                                                 *)

LEMMA Divided ==
    ASSUME NEW n \in Int, NEW d \in Nat \ {0}
    PROVE  /\ n \div d \in Int /\ n % d \in 0 .. d - 1
           /\ n = d * (n \div d) + (n % d)
OBVIOUS

LEMMA SmallRemainder ==
    ASSUME NEW d \in Nat \ {0}, NEW n \in 0 .. d - 1
    PROVE  n % d = n
OBVIOUS

LEMMA DividesOneWay ==
    ASSUME NEW d \in Nat \ {0}, NEW q \in Int, NEW r \in 0 .. d - 1
    PROVE  (d * q + r) \div d = q /\ (d * q + r) % d = r
<1> DEFINE n == d * q + r
           p == n \div d
           t == n % d
<1>1. n \in Int /\ p \in Int /\ t \in 0 .. d - 1 /\ n = d * p + t
  <2>1. n \in Int
      OBVIOUS
  <2> HIDE DEF n
  <2> QED
      BY <2>1, Divided
<1>2. n = d * q + r
    OBVIOUS
<1> HIDE DEF n, p, t
<1>3. d * (p - q) = r - t
    BY <1>1, <1>2
<1>4. p - q < 1 /\ p - q > -1
  <2>1. ASSUME p - q >= 1 PROVE FALSE
    <3>1. d * (p - q) >= d
        BY <1>1, <2>1
    <3> QED
        BY <1>1, <1>3, <3>1
  <2>2. ASSUME p - q <= -1 PROVE FALSE
    <3>1. d * (p - q) <= -d
        BY <1>1, <2>2
    <3> QED
        BY <1>1, <1>3, <3>1
  <2> QED
      BY <1>1, <2>1, <2>2
<1>5. p = q
    BY <1>1, <1>4
<1>6. t = r
    BY <1>1, <1>2, <1>5
<1> QED
    BY <1>5, <1>6 DEF n, p, t

-----------------------------------------------------------------------------
(* The checksum                                                             *)

LEMMA BaseFacts ==
    /\ Base \in Nat /\ Base >= 4 /\ Byte \in Nat /\ Byte >= 2 /\ Byte <= Base - 2
    /\ MaxWords \in Nat /\ 2 * MaxWords <= Base /\ MaxWords >= 1
    /\ SumMax \in Nat /\ 2 * SumMax + 3 >= Base * Base /\ SumMax < Base * Base
    /\ 2 * Base - 1 <= SumMax
<1>1. Byte \in Nat /\ Byte >= 2 /\ MaxWords \in Nat /\ MaxWords >= 1
    BY ByteAssumption, LengthAssumption
<1>2. Base = Byte * Byte /\ Base \in Nat /\ Base >= 2 * Byte /\ 2 * MaxWords <= Base
    BY <1>1, LengthAssumption DEF Base
<1>3. Base >= 4 /\ Byte <= Base - 2
    BY <1>1, <1>2
<1> HIDE DEF Base
<1> DEFINE q == Base * Base
<1>4. q \in Nat /\ q >= 4 * Base
    BY <1>2, <1>3
<1>5. SumMax = (q \div 2) - 1
    BY DEF SumMax
<1> HIDE DEF q
<1>6. SumMax \in Nat /\ 2 * SumMax + 3 >= q /\ SumMax < q /\ 2 * Base - 1 <= SumMax
    BY <1>2, <1>3, <1>4, <1>5
<1> QED
    BY <1>1, <1>2, <1>3, <1>6 DEF q

(* So many words, each less than Base, do not overflow the accumulator.     *)
LEMMA WordsFit ==
    ASSUME NEW k \in 0 .. MaxWords, NEW n \in Nat, n <= k * (Base - 1)
    PROVE  n <= SumMax
<1>1. 2 * k <= Base /\ k \in Nat
    BY BaseFacts
<1>2. (2 * k) * (Base - 1) <= Base * (Base - 1)
    BY <1>1, BaseFacts
<1>3. Base * (Base - 1) = Base * Base - Base
    BY BaseFacts
<1>4. (2 * k) * (Base - 1) = 2 * (k * (Base - 1)) /\ k * (Base - 1) \in Int
    BY <1>1, BaseFacts
<1>5. 2 * n <= Base * Base - Base /\ Base * Base \in Int
    BY <1>2, <1>3, <1>4, BaseFacts
<1> QED
    BY <1>5, BaseFacts

Folded(n) == High(n) + Low(n)
FoldedTwice(n) == Folded(n) + High(Folded(n))

(* Two folds are enough, and what they give fits.                           *)
LEMMA TwoFoldsSuffice ==
    ASSUME NEW n \in Nat, n <= SumMax
    PROVE  /\ Folded(n) \in Nat /\ Folded(n) <= SumMax
           /\ FoldedTwice(n) \in Nat /\ FoldedTwice(n) <= SumMax
           /\ Low(FoldedTwice(n)) = OnesComplement(n)
           /\ OnesComplement(n) \in 0 .. Base - 1
<1> DEFINE h == High(n)
           l == Low(n)
           m == h + l
<1>1. h \in Int /\ l \in 0 .. Base - 1 /\ n = Base * h + l
    BY BaseFacts, Divided DEF High, Low
<1> HIDE DEF h, l
<1>2. h >= 0 /\ h <= Base - 1
  <2>1. ASSUME h <= -1 PROVE FALSE
    <3>1. Base * h <= -Base
        BY <1>1, <2>1, BaseFacts
    <3> QED
        BY <1>1, <3>1, BaseFacts
  <2>2. ASSUME h >= Base PROVE FALSE
    <3>1. Base * h >= Base * Base
        BY <1>1, <2>2, BaseFacts
    <3> QED
        BY <1>1, <3>1, BaseFacts
  <2> QED
      BY <1>1, <2>1, <2>2, BaseFacts
<1>3. m \in 0 .. 2 * Base - 2 /\ Folded(n) = m
    BY <1>1, <1>2, BaseFacts DEF Folded, h, l
<1> DEFINE c == Base - 1
<1>4. c \in Nat \ {0} /\ n = c * h + m
  <2>1. (Base - 1) * h = Base * h - h
      BY <1>1, BaseFacts
  <2> QED
      BY <1>1, <1>2, <2>1, BaseFacts
<1> HIDE DEF m
<1>5. CASE m < Base
  <2>1. m = Base * 0 + m /\ m \in 0 .. Base - 1
      BY <1>3, <1>5, BaseFacts
  <2>2. High(m) = 0 /\ Low(m) = m
      BY <2>1, DividesOneWay, BaseFacts DEF High, Low
  <2>3. FoldedTwice(n) = m /\ Low(FoldedTwice(n)) = m
      BY <1>3, <2>2, BaseFacts DEF FoldedTwice
  <2>4. OnesComplement(n) = m
    <3>1. CASE n = 0
      <4>1. m = 0
        <5>1. h = 0 /\ l = 0
          <6>1. Base * h >= 0 /\ Base * h \in Int
              BY <1>1, <1>2, BaseFacts
          <6>2. Base * h = 0
              BY <1>1, <3>1, <6>1
          <6> QED
              BY <1>1, <1>2, <3>1, <6>2, BaseFacts
        <5> QED
            BY <5>1 DEF m
      <4> QED
          BY <3>1, <4>1 DEF OnesComplement
    <3>2. CASE n # 0
      <4>1. m # 0
        <5>1. ASSUME m = 0 PROVE FALSE
          <6>1. h = 0 /\ l = 0
              BY <1>1, <1>2, <5>1 DEF m
          <6> QED
              BY <1>1, <3>2, <6>1, BaseFacts
        <5> QED
            BY <5>1
      <4>2. n - 1 = c * h + (m - 1) /\ m - 1 \in 0 .. c - 1
        <5>1. c * h \in Int
            BY <1>1, <1>4
        <5> QED
            BY <1>3, <1>4, <1>5, <4>1, <5>1, BaseFacts
      <4>3. (n - 1) % c = m - 1
          BY <1>1, <1>4, <4>2, DividesOneWay
      <4> QED
          BY <1>3, <3>2, <4>3 DEF OnesComplement
    <3> QED
        BY <3>1, <3>2
  <2> QED
      BY <1>3, <1>5, <2>3, <2>4, BaseFacts
<1>6. CASE m >= Base
  <2>1. m = Base * 1 + (m - Base) /\ m - Base \in 0 .. Base - 1
      BY <1>3, <1>6, BaseFacts
  <2>2. High(m) = 1
      BY <2>1, DividesOneWay, BaseFacts DEF High
  <2>3. FoldedTwice(n) = m + 1
      BY <1>3, <2>2 DEF FoldedTwice
  <2>4. m + 1 = Base * 1 + (m + 1 - Base) /\ m + 1 - Base \in 0 .. Base - 1
      BY <1>3, <1>6, BaseFacts
  <2>5. Low(m + 1) = m + 1 - Base
      BY <2>4, DividesOneWay, BaseFacts DEF Low
  <2>6. n - 1 = c * (h + 1) + (m - Base) /\ m - Base \in 0 .. c - 1
    <3>1. c * (h + 1) = c * h + c /\ c * h \in Int
        BY <1>1, <1>4
    <3> QED
        BY <1>3, <1>4, <1>6, <3>1, BaseFacts
  <2>7. (n - 1) % c = m - Base
    <3>1. c \in Nat \ {0} /\ h + 1 \in Int
        BY <1>1, <1>4
    <3> HIDE DEF c
    <3> QED
        BY <2>6, <3>1, DividesOneWay
  <2>8. n # 0
    <3>1. c * h >= 0 /\ c * h \in Int
        BY <1>1, <1>2, <1>4
    <3> QED
        BY <1>3, <1>4, <1>6, <3>1, BaseFacts
  <2>9. OnesComplement(n) = m + 1 - Base
      BY <1>3, <2>7, <2>8, BaseFacts DEF OnesComplement
  <2> QED
      BY <1>3, <1>6, <2>3, <2>4, <2>5, <2>9, BaseFacts
<1> QED
    BY <1>3, <1>5, <1>6, BaseFacts

(* What a message sums up to.                                               *)
TotalOf(words, odd) == SumOf(words) + TailWord(odd)

LEMMA TotalIs == Total = TotalOf(message, tail)
BY DEF Total, TotalOf, SumOf, FoldFunction, FoldFunctionOnSet, MapThenFoldSet

(* Messages with their tails.                                               *)
Message(words, odd) ==
    /\ words \in Seq(Words) /\ Len(words) \in 1 .. MaxWords
    /\ odd \in Seq(0 .. Byte - 1) /\ Len(odd) \in 0 .. 1
    /\ Len(words) + Len(odd) <= MaxWords

LEMMA WordsAreInts == ASSUME NEW m \in Seq(Words) PROVE m \in Seq(Int)
<1>1. \A i \in 1 .. Len(m) : m[i] \in Int
    BY BaseFacts DEF Words
<1> QED
    BY <1>1

LEMMA TailWordIsByte ==
    ASSUME NEW odd \in Seq(0 .. Byte - 1), Len(odd) \in 0 .. 1
    PROVE  /\ TailWord(odd) \in 0 .. Byte - 1
           /\ odd = <<>> => Len(odd) = 0
           /\ Len(odd) = 1 => odd = <<TailWord(odd)>>
<1>1. CASE Len(odd) = 0
  <2>1. odd = <<>>
      BY <1>1
  <2> QED
      BY <1>1, <2>1, BaseFacts DEF TailWord
<1>2. CASE Len(odd) = 1
  <2> DEFINE S == 0 .. Byte - 1
  <2>1. odd # <<>> /\ odd[1] \in S /\ odd = <<odd[1]>>
    <3>1. odd \in Seq(S)
        OBVIOUS
    <3> HIDE DEF S
    <3> QED
        BY <1>2, <3>1
  <2> QED
      BY <1>2, <2>1 DEF TailWord
<1> QED
    BY <1>1, <1>2

(* The first words of a message sum up to no more than each of them allows. *)
LEMMA SumToFits ==
    ASSUME NEW m \in Seq(Words), NEW k \in 0 .. Len(m)
    PROVE  SumTo(m, k) \in Nat /\ SumTo(m, k) <= k * (Base - 1)
<1> DEFINE T == {j \in Nat : j <= Len(m) =>
                    SumTo(m, j) \in Nat /\ SumTo(m, j) <= j * (Base - 1)}
<1>1. m \in Seq(Int) /\ \A j \in 1 .. Len(m) : m[j] \in Nat /\ m[j] <= Base - 1
    BY WordsAreInts, BaseFacts DEF Words
<1>2. 0 \in T
    BY <1>1, SumToSteps, BaseFacts
<1>3. ASSUME NEW j \in Nat, j \in T
      PROVE  j + 1 \in T
  <2> SUFFICES ASSUME j + 1 <= Len(m)
               PROVE  SumTo(m, j + 1) \in Nat /\ SumTo(m, j + 1) <= (j + 1) * (Base - 1)
      OBVIOUS
  <2>1. SumTo(m, j) \in Nat /\ SumTo(m, j) <= j * (Base - 1)
      BY <1>3
  <2>2. SumTo(m, j + 1) = SumTo(m, j) + m[j + 1]
      BY <1>1, SumToSteps
  <2>3. m[j + 1] \in Nat /\ m[j + 1] <= Base - 1
      BY <1>1
  <2>4. (j + 1) * (Base - 1) = j * (Base - 1) + (Base - 1) /\ j * (Base - 1) \in Int
      BY BaseFacts
  <2> QED
      BY <2>1, <2>2, <2>3, <2>4, BaseFacts
<1> HIDE DEF T
<1>4. k \in T
    BY <1>2, <1>3, NaturalsFollow
<1> QED
    BY <1>4 DEF T

LEMMA TotalFits ==
    ASSUME NEW m, NEW t, Message(m, t)
    PROVE  /\ TotalOf(m, t) \in Nat /\ TotalOf(m, t) <= SumMax
           /\ TotalOf(m, t) <= (Len(m) + Len(t)) * (Base - 1)
<1> DEFINE n == TotalOf(m, t)
           k == Len(m) + Len(t)
<1>1. /\ m \in Seq(Words) /\ t \in Seq(0 .. Byte - 1) /\ Len(t) \in 0 .. 1
      /\ Len(m) \in Nat /\ k \in 0 .. MaxWords
    BY BaseFacts DEF Message
<1>2. SumOf(m) \in Nat /\ SumOf(m) <= Len(m) * (Base - 1)
    BY <1>1, WordsAreInts, SumOfDef, SumToFits
<1>3. TailWord(t) \in Nat /\ TailWord(t) <= Len(t) * (Base - 1)
  <2>1. TailWord(t) \in 0 .. Byte - 1 /\ (Len(t) = 0 => TailWord(t) = 0)
      BY <1>1, TailWordIsByte DEF TailWord
  <2>2. CASE Len(t) = 0
      BY <2>1, <2>2, BaseFacts
  <2>3. CASE Len(t) = 1
      BY <2>1, <2>3, BaseFacts
  <2> QED
      BY <1>1, <2>2, <2>3
<1>4. /\ k * (Base - 1) = Len(m) * (Base - 1) + Len(t) * (Base - 1)
      /\ Len(m) * (Base - 1) \in Int /\ Len(t) * (Base - 1) \in Int
    BY <1>1, BaseFacts
<1>5. n \in Nat /\ n <= k * (Base - 1)
    BY <1>2, <1>3, <1>4 DEF TotalOf
<1>6. n <= SumMax
  <2> HIDE DEF n, k
  <2> QED
      BY <1>1, <1>5, WordsFit
<1> QED
    BY <1>5, <1>6

(* With its own checksum a message sums up to the other zero.               *)
LEMMA CompletedSum ==
    ASSUME NEW n \in Nat, OnesComplement(n) \in 0 .. Base - 1
    PROVE  OnesComplement(n + (Base - 1 - OnesComplement(n))) = Base - 1
<1> DEFINE c == Base - 1
<1>0. c \in Nat \ {0}
    BY BaseFacts
<1>1. CASE n = 0
  <2>1. OnesComplement(n) = 0
      BY <1>1 DEF OnesComplement
  <2>2. (c - 1) % c = c - 1
    <3> HIDE DEF c
    <3>1. c - 1 \in 0 .. c - 1
        BY <1>0
    <3> QED
        BY <1>0, <3>1, SmallRemainder
  <2>4. OnesComplement(c) = c
      BY <1>0, <2>2 DEF OnesComplement
  <2>5. n + (Base - 1 - OnesComplement(n)) = c
      BY <1>1, <2>1, BaseFacts
  <2> QED
      BY <2>4, <2>5
<1>2. CASE n # 0
  <2> DEFINE q == (n - 1) \div c
             r == (n - 1) % c
  <2>1. q \in Int /\ r \in 0 .. c - 1 /\ n - 1 = c * q + r
    <3> HIDE DEF c
    <3> QED
      BY <1>0, Divided
  <2>2. OnesComplement(n) = r + 1
      BY <1>2 DEF OnesComplement
  <2> DEFINE k == n + (c - (r + 1))
  <2> HIDE DEF q, r
  <2>3. k - 1 = c * q + (c - 1) /\ c - 1 \in 0 .. c - 1 /\ c * q \in Int
    <3>1. c * q \in Int
        BY <1>0, <2>1
    <3> HIDE DEF c
    <3> QED
        BY <1>0, <2>1, <3>1
  <2>4. k # 0 /\ k \in Int
      BY <1>0, <1>2, <2>1
  <2> HIDE DEF k
  <2>5. (k - 1) % c = c - 1
    <3> HIDE DEF c
    <3>1. (c * q + (c - 1)) % c = c - 1
        BY <1>0, <2>1, <2>3, DividesOneWay
    <3> QED
        BY <2>3, <3>1
  <2>6. OnesComplement(k) = c
      BY <1>0, <2>4, <2>5 DEF OnesComplement
  <2>7. n + (Base - 1 - OnesComplement(n)) = k
      BY <2>2 DEF k
  <2> QED
      BY <2>6, <2>7
<1> QED
    BY <1>1, <1>2

(* Two messages that sum up to the other zero differ by multiples of it.    *)
LEMMA OtherZero ==
    ASSUME NEW n \in Nat, OnesComplement(n) = Base - 1
    PROVE  \E q \in Int : n = (Base - 1) * q
<1> DEFINE c == Base - 1
           p == (n - 1) \div c
           r == (n - 1) % c
<1>1. c \in Nat \ {0}
    BY BaseFacts
<1>2. n # 0 /\ r + 1 = c
    BY <1>1 DEF OnesComplement
<1>3. p \in Int /\ n - 1 = c * p + r /\ r \in Int
  <2> HIDE DEF c
  <2> QED
      BY <1>1, Divided
<1> HIDE DEF c, p, r
<1>4. n = c * (p + 1)
  <2>1. c * (p + 1) = c * p + c /\ c * p \in Int
      BY <1>1, <1>3
  <2> QED
      BY <1>1, <1>2, <1>3, <2>1
<1> QED
    BY <1>3, <1>4 DEF c

LEMMA OtherZeros ==
    ASSUME NEW n \in Nat, NEW m \in Nat, NEW d \in Int, n = m + d,
           OnesComplement(n) = Base - 1, OnesComplement(m) = Base - 1,
           d <= Base - 1, d >= 1 - Base
    PROVE  d \in {1 - Base, 0, Base - 1}
<1> DEFINE c == Base - 1
<1>1. c \in Nat \ {0}
    BY BaseFacts
<1>2. PICK p \in Int : n = c * p
    BY OtherZero
<1>3. PICK q \in Int : m = c * q
    BY OtherZero
<1> HIDE DEF c
<1>4. d = c * (p - q)
  <2>1. c * (p - q) = c * p - c * q /\ c * p \in Int /\ c * q \in Int
      BY <1>1, <1>2, <1>3
  <2> QED
      BY <1>1, <1>2, <1>3, <2>1
<1>5. d <= c /\ d >= -c
    BY BaseFacts DEF c
<1>6. p - q <= 1
  <2>1. SUFFICES ASSUME p - q >= 2 PROVE FALSE
      BY <1>2, <1>3
  <2>2. c * (p - q) >= c * 2
      BY <1>1, <2>1
  <2> QED
      BY <1>1, <1>4, <1>5, <2>2
<1>7. p - q >= -1
  <2>1. SUFFICES ASSUME p - q <= -2 PROVE FALSE
      BY <1>2, <1>3
  <2>2. c * (p - q) <= c * (-2)
      BY <1>1, <2>1
  <2> QED
      BY <1>1, <1>4, <1>5, <2>2
<1>8. p - q \in {-1, 0, 1}
    BY <1>6, <1>7
<1>9. d \in {-c, 0, c}
    BY <1>1, <1>4, <1>8
<1> QED
    BY <1>9, BaseFacts DEF c

(* One word of a message changed, maybe to itself.                          *)
OneWordChanged(old, new) ==
    \E i \in DOMAIN old : \E w \in Words : new = [old EXCEPT ![i] = w]

LEMMA NoWordChanged ==
    ASSUME NEW m \in Seq(Words), Len(m) >= 1
    PROVE  OneWordChanged(m, m)
<1>1. 1 \in DOMAIN m /\ m[1] \in Words
    OBVIOUS
<1>2. m = [m EXCEPT ![1] = m[1]]
    BY <1>1
<1> QED
    BY <1>1, <1>2, Zenon DEF OneWordChanged

(* The message at hand is the one that was sent, with one change at most.   *)
Delivered ==
    /\ Message(sent[1], sent[2])
    /\ OnesComplement(TotalOf(sent[1], sent[2])) = Base - 1
    /\ \/ tail = sent[2] /\ OneWordChanged(sent[1], message)
       \/ /\ message = sent[1]
          /\ sent[2] # <<>> /\ \E b \in 0 .. Byte - 1 : tail = <<b>>

(* Where sending and receiving are, and what the accumulator holds there.   *)
SumSoFar ==
    /\ summing \in {"idle", "send"} => sent = <<>>
    /\ summing \in {"network", "verify", "verified"} => sent # <<>>
    /\ summing = "network" => sent = <<message, tail>>
    /\ summing \in {"add", "fold", "carry", "send"} /\ sent = <<>> => message[1] = 0
    /\ summing = "add" => sum = SumTo(message, wrdPtr - 1)
    /\ summing = "fold" => sum = TotalOf(message, tail)
    /\ summing = "carry" => sum = Folded(TotalOf(message, tail))
    /\ summing \in {"send", "verify"} => sum = FoldedTwice(TotalOf(message, tail))
    /\ summing = "verified" => answer = Base - 1 - OnesComplement(TotalOf(message, tail))

ChecksumInv ==
    /\ ChecksumTypeOK
    /\ Message(message, tail)
    /\ sum <= SumMax
    /\ SumSoFar
    /\ sent # <<>> => Delivered

LEMMA ChecksumInitInv == ChecksumInit => ChecksumInv
<1> SUFFICES ASSUME ChecksumInit PROVE ChecksumInv
    OBVIOUS
<1> USE DEF ChecksumInit
<1>1. message \in Seq(Words) /\ Len(message) = 1 /\ tail \in Seq(0 .. Byte - 1) /\ Len(tail) = 0
    BY BaseFacts DEF Words
<1> QED
    BY <1>1, BaseFacts DEF ChecksumInv, ChecksumTypeOK, Message, SumSoFar, Words

LEMMA ChecksumStutter == ChecksumInv /\ UNCHANGED checksumVars => ChecksumInv'
BY DEF ChecksumInv, ChecksumTypeOK, Message, SumSoFar, Delivered, checksumVars

LEMMA ComposeStep == ChecksumInv /\ Compose => ChecksumInv'
<1> SUFFICES ASSUME ChecksumInv, Compose PROVE ChecksumInv'
    OBVIOUS
<1> USE DEF ChecksumInv, Compose
<1>0. PICK n \in 1 .. MaxWords, old \in {0, 1} : \E data \in [2 .. n -> Words] :
          message' = [i \in 1 .. n |-> IF i = 1 THEN FieldCleared(old) ELSE data[i]]
    OBVIOUS
<1>1. PICK data \in [2 .. n -> Words] :
          message' = [i \in 1 .. n |-> IF i = 1 THEN FieldCleared(old) ELSE data[i]]
    BY <1>0
<1>2. /\ message' \in Seq(Words) /\ Len(message') = n /\ message'[1] = 0
  <2>1. \A i \in 1 .. n : message'[i] \in Words
      BY <1>1, BaseFacts DEF FieldCleared, Words
  <2>2. message' = [i \in 1 .. n |-> message'[i]]
      BY <1>1
  <2>3. n \in Nat
      BY BaseFacts
  <2> QED
      BY <1>1, <2>1, <2>2, <2>3 DEF FieldCleared
<1>3. Message(message', tail')
  <2>1. CASE tail' = <<>>
      BY <1>2, <2>1, BaseFacts DEF Message
  <2>2. CASE tail' # <<>>
    <3>1. PICK b \in 0 .. Byte - 1 : tail' = <<b>> /\ Len(message') < MaxWords
        BY <2>2
    <3> QED
        BY <1>2, <3>1, BaseFacts DEF Message
  <2> QED
      BY <2>1, <2>2
<1>4. SumTo(message', 0) = 0
    BY <1>2, WordsAreInts, SumToSteps
<1>5. ChecksumTypeOK'
    BY <1>2, <1>3 DEF ChecksumTypeOK, Message, SumOfNone
<1>6. SumSoFar'
    BY <1>2, <1>4 DEF SumSoFar, SumOfNone
<1>7. sent' = <<>>
    BY DEF SumSoFar
<1> QED
    BY <1>3, <1>5, <1>6, <1>7, BaseFacts DEF SumOfNone

LEMMA AddWordStep == ChecksumInv /\ AddWord => ChecksumInv'
<1> SUFFICES ASSUME ChecksumInv, AddWord PROVE ChecksumInv'
    OBVIOUS
<1> USE DEF ChecksumInv, AddWord
<1>1. /\ message \in Seq(Words) /\ message \in Seq(Int) /\ wrdPtr \in 1 .. Len(message)
      /\ Len(message) \in Nat /\ wrdPtr - 1 \in 0 .. Len(message) /\ wrdPtr \in 0 .. Len(message)
    BY WordsAreInts DEF ChecksumTypeOK, Message
<1>2. sum' = SumTo(message, wrdPtr)
    BY <1>1, SumToSteps DEF SumSoFar
<1>3. sum' \in Nat /\ sum' <= SumMax
  <2>1. SumTo(message, wrdPtr) \in Nat /\ SumTo(message, wrdPtr) <= wrdPtr * (Base - 1)
      BY <1>1, SumToFits
  <2>2. wrdPtr \in 0 .. MaxWords
      BY <1>1, BaseFacts DEF Message
  <2> QED
      BY <1>2, <2>1, <2>2, WordsFit
<1>4. wrdPtr' - 1 = wrdPtr
    BY <1>1
<1>5. ChecksumTypeOK'
    BY <1>1, <1>3 DEF ChecksumTypeOK
<1>6. SumSoFar'
    BY <1>2, <1>4 DEF SumSoFar
<1> QED
    BY <1>3, <1>5, <1>6 DEF Message, Delivered

LEMMA AddTailStep == ChecksumInv /\ AddTail => ChecksumInv'
<1> SUFFICES ASSUME ChecksumInv, AddTail PROVE ChecksumInv'
    OBVIOUS
<1> USE DEF ChecksumInv, AddTail
<1>1. message \in Seq(Int) /\ wrdPtr - 1 = Len(message)
    BY WordsAreInts DEF ChecksumTypeOK
<1>2. sum' = TotalOf(message, tail)
    BY <1>1, SumOfDef DEF SumSoFar, TotalOf
<1>3. sum' \in Nat /\ sum' <= SumMax
    BY <1>2, TotalFits
<1>4. ChecksumTypeOK'
    BY <1>3 DEF ChecksumTypeOK
<1>5. SumSoFar'
    BY <1>2 DEF SumSoFar
<1> QED
    BY <1>3, <1>4, <1>5 DEF Message, Delivered

LEMMA FoldStep == ChecksumInv /\ Fold => ChecksumInv'
<1> SUFFICES ASSUME ChecksumInv, Fold PROVE ChecksumInv'
    OBVIOUS
<1> USE DEF ChecksumInv, Fold
<1>1. sum' = Folded(TotalOf(message, tail)) /\ sum' \in Nat /\ sum' <= SumMax
    BY TotalFits, TwoFoldsSuffice DEF SumSoFar, Folded
<1>2. ChecksumTypeOK'
    BY <1>1 DEF ChecksumTypeOK
<1>3. SumSoFar'
    BY <1>1 DEF SumSoFar
<1> QED
    BY <1>1, <1>2, <1>3 DEF Message, Delivered

LEMMA CarryStep == ChecksumInv /\ Carry => ChecksumInv'
<1> SUFFICES ASSUME ChecksumInv, Carry PROVE ChecksumInv'
    OBVIOUS
<1> USE DEF ChecksumInv, Carry
<1>1. sum' = FoldedTwice(TotalOf(message, tail)) /\ sum' \in Nat /\ sum' <= SumMax
    BY TotalFits, TwoFoldsSuffice DEF SumSoFar, FoldAgain, FoldedTwice
<1>2. ChecksumTypeOK'
    BY <1>1 DEF ChecksumTypeOK
<1>3. SumSoFar'
    BY <1>1 DEF SumSoFar
<1> QED
    BY <1>1, <1>2, <1>3 DEF Message, Delivered

LEMMA SendStep == ChecksumInv /\ Send => ChecksumInv'
<1> SUFFICES ASSUME ChecksumInv, Send PROVE ChecksumInv'
    OBVIOUS
<1> USE DEF ChecksumInv, Send
<1> DEFINE n == TotalOf(message, tail)
<1>1. /\ n \in Nat /\ OnesComplement(n) \in 0 .. Base - 1
      /\ answer' = Base - 1 - OnesComplement(n)
    BY TotalFits, TwoFoldsSuffice DEF SumSoFar, Complement
<1>2. answer' \in Words
    BY <1>1, BaseFacts DEF Words
<1>3. /\ message \in Seq(Words) /\ Len(message) >= 1 /\ 1 \in DOMAIN message
      /\ message[1] = 0 /\ message \in Seq(Int) /\ answer' \in Int
    BY <1>1, WordsAreInts DEF Message, SumSoFar
<1>4. /\ message' \in Seq(Words) /\ Len(message') = Len(message)
      /\ DOMAIN message' = DOMAIN message
    BY <1>2, <1>3
<1>5. Message(message', tail')
    BY <1>4 DEF Message
<1>6. TotalOf(message', tail') = n + answer'
  <2>1. SumOf(message') = SumOf(message) - message[1] + answer'
      BY <1>3, SumChanged
  <2>2. SumOf(message) \in Int
      BY <1>3, SumOfDef, SumToSteps
  <2>3. TailWord(tail) \in Int
      BY TailWordIsByte, BaseFacts DEF Message
  <2> QED
      BY <1>1, <1>3, <2>1, <2>2, <2>3 DEF TotalOf
<1>7. OnesComplement(TotalOf(message', tail')) = Base - 1
    BY <1>1, <1>6, CompletedSum
<1>8. OneWordChanged(message', message')
    BY <1>3, <1>4, NoWordChanged
<1>9. sent' = <<message', tail'>> /\ sent'[1] = message' /\ sent'[2] = tail' /\ sent' # <<>>
    OBVIOUS
<1>10. Delivered'
    BY <1>5, <1>7, <1>8, <1>9 DEF Delivered
<1>11. ChecksumTypeOK'
    BY <1>2, <1>4 DEF ChecksumTypeOK
<1>12. SumSoFar'
    BY <1>9 DEF SumSoFar
<1> QED
    BY <1>5, <1>10, <1>11, <1>12

LEMMA DeliverStep == ChecksumInv /\ Deliver => ChecksumInv'
<1> SUFFICES ASSUME ChecksumInv, Deliver PROVE ChecksumInv'
    OBVIOUS
<1> USE DEF ChecksumInv, Deliver
<1>1. /\ sent = <<message, tail>> /\ sent[1] = message /\ sent[2] = tail /\ sent # <<>>
      /\ Delivered /\ UNCHANGED sent
    BY DEF SumSoFar
<1>2. Message(message', tail') /\ Delivered'
  <2>1. CASE UNCHANGED <<message, tail>>
      BY <1>1, <2>1 DEF Message, Delivered
  <2>2. ASSUME NEW i \in DOMAIN message, NEW w \in Words,
               message' = [message EXCEPT ![i] = w], UNCHANGED tail
        PROVE  Message(message', tail') /\ Delivered'
    <3>1. message' \in Seq(Words) /\ Len(message') = Len(message)
        BY <2>2 DEF Message
    <3>2. OneWordChanged(message, message')
        BY <2>2, Zenon DEF OneWordChanged
    <3> QED
        BY <1>1, <2>2, <3>1, <3>2 DEF Message, Delivered
  <2>3. ASSUME tail # <<>>, NEW b \in 0 .. Byte - 1, tail' = <<b>>, UNCHANGED message
        PROVE  Message(message', tail') /\ Delivered'
    <3>1. tail' \in Seq(0 .. Byte - 1) /\ Len(tail') = 1 /\ Len(tail) = 1
        BY <2>3, TailWordIsByte DEF Message
    <3> QED
        BY <1>1, <2>3, <3>1 DEF Message, Delivered
  <2> QED
      BY <2>1, <2>2, <2>3
<1>3. SumTo(message', 0) = 0
    BY <1>2, WordsAreInts, SumToSteps DEF Message
<1>4. ChecksumTypeOK'
    BY <1>2 DEF ChecksumTypeOK, Message, SumOfNone
<1>5. SumSoFar'
    BY <1>1, <1>3 DEF SumSoFar, SumOfNone
<1> QED
    BY <1>2, <1>4, <1>5, BaseFacts DEF SumOfNone

LEMMA VerifyStep == ChecksumInv /\ Verify => ChecksumInv'
<1> SUFFICES ASSUME ChecksumInv, Verify PROVE ChecksumInv'
    OBVIOUS
<1> USE DEF ChecksumInv, Verify
<1> DEFINE n == TotalOf(message, tail)
<1>1. /\ n \in Nat /\ OnesComplement(n) \in 0 .. Base - 1
      /\ answer' = Base - 1 - OnesComplement(n)
  <2>1. n \in Nat /\ n <= SumMax
      BY TotalFits
  <2>2. answer' = Complement(sum) /\ sum = FoldedTwice(n)
      BY DEF SumSoFar
  <2> HIDE DEF n
  <2>3. Low(FoldedTwice(n)) = OnesComplement(n) /\ OnesComplement(n) \in 0 .. Base - 1
      BY <2>1, TwoFoldsSuffice
  <2>4. answer' = Base - 1 - OnesComplement(n)
      BY <2>2, <2>3, Zenon DEF Complement
  <2> QED
      BY <2>1, <2>3, <2>4, Zenon
<1>2. ChecksumTypeOK'
  <2>1. answer' \in Words
    <3> HIDE DEF n
    <3> QED
        BY <1>1, BaseFacts DEF Words
  <2> QED
      BY <2>1 DEF ChecksumTypeOK
<1>3. SumSoFar'
    BY <1>1 DEF SumSoFar
<1> QED
    BY <1>2, <1>3 DEF Message, Delivered

LEMMA AgainStep == ChecksumInv /\ Again => ChecksumInv'
<1> SUFFICES ASSUME ChecksumInv, Again PROVE ChecksumInv'
    OBVIOUS
<1> USE DEF Again
<1>1. /\ message' \in Seq(Words) /\ Len(message') = 1
      /\ tail' \in Seq(0 .. Byte - 1) /\ Len(tail') = 0
    BY BaseFacts DEF Words
<1> QED
    BY <1>1, BaseFacts DEF ChecksumInv, ChecksumTypeOK, Message, SumSoFar, Words

LEMMA ChecksumStep == ChecksumInv /\ [ChecksumNext]_checksumVars => ChecksumInv'
BY ChecksumStutter, ComposeStep, AddWordStep, AddTailStep, FoldStep, CarryStep, SendStep,
   DeliverStep, VerifyStep, AgainStep DEF ChecksumNext

LEMMA ChecksumInvariant == ChecksumSpec => []ChecksumInv
BY ChecksumInitInv, ChecksumStep, PTL DEF ChecksumSpec

(* What the words add up to fits the signed accumulator of calcCheckSum(),  *)
(* however long the message, and its two folds lose nothing: the sum is the *)
(* ones' complement sum of the message (ipFun.c:26-52).                     *)
THEOREM ChecksumIsSum == ChecksumSpec => []SumIsRight
<1>1. ChecksumInv => SumIsRight
  <2> SUFFICES ASSUME ChecksumInv PROVE SumIsRight
      OBVIOUS
  <2> USE DEF ChecksumInv
  <2>1. summing \in {"add", "fold"} => sum <= Added * (Base - 1)
    <3>1. CASE summing = "add"
      <4>1. message \in Seq(Words) /\ wrdPtr - 1 \in 0 .. Len(message)
          BY DEF ChecksumTypeOK
      <4> QED
          BY <3>1, <4>1, SumToFits DEF SumSoFar, Added
    <3>2. CASE summing = "fold"
        BY <3>2, TotalFits DEF SumSoFar, Added, Message
    <3> QED
        BY <3>1, <3>2
  <2>2. FoldsSuffice
      BY TotalFits, TwoFoldsSuffice, TotalIs DEF FoldsSuffice, SumSoFar
  <2> QED
      BY <2>1, <2>2 DEF SumIsRight, SumInRange
<1> QED
    BY <1>1, ChecksumInvariant, PTL

(* A message that arrives as it was sent sums up to the other zero, and one *)
(* that does so differs from what was sent by no more than the two zeros.   *)
LEMMA ArrivedWhole ==
    ASSUME ChecksumInv, summing = "verified", sent = <<message, tail>>
    PROVE  answer = 0
<1>1. /\ sent # <<>> /\ sent[1] = message /\ sent[2] = tail
      /\ Delivered /\ answer = Base - 1 - OnesComplement(TotalOf(message, tail))
    BY DEF ChecksumInv, SumSoFar
<1> QED
    BY <1>1, BaseFacts DEF Delivered

(* A message that sums up to the other zero.                                *)
OtherZeroMessage(m, t) == Message(m, t) /\ OnesComplement(TotalOf(m, t)) = Base - 1

LEMMA WordChangeSeen ==
    ASSUME NEW old, NEW new, NEW t, OtherZeroMessage(old, t), OtherZeroMessage(new, t),
           OneWordChanged(old, new)
    PROVE  \A i \in DOMAIN new : new[i] = old[i] \/ {new[i], old[i]} = {0, Base - 1}
<1>1. /\ Message(old, t) /\ OnesComplement(TotalOf(old, t)) = Base - 1
      /\ Message(new, t) /\ OnesComplement(TotalOf(new, t)) = Base - 1
    BY DEF OtherZeroMessage
<1>2. old \in Seq(Words) /\ old \in Seq(Int) /\ t \in Seq(0 .. Byte - 1) /\ Len(t) \in 0 .. 1
    BY <1>1, WordsAreInts DEF Message
<1>3. SumOf(old) \in Int /\ TailWord(t) \in Int
    BY <1>2, SumOfDef, SumToSteps, TailWordIsByte, BaseFacts
<1>4. PICK k \in DOMAIN old : \E w \in Words : new = [old EXCEPT ![k] = w]
    BY Zenon DEF OneWordChanged
<1>5. PICK w \in Words : new = [old EXCEPT ![k] = w]
    BY <1>4
<1> DEFINE v == old[k]
           d == w - v
           n == TotalOf(new, t)
           m == TotalOf(old, t)
<1>6. v \in Words
    BY <1>2
<1> HIDE DEF v
<1>7. /\ v \in Int /\ v >= 0 /\ v <= Base - 1
      /\ w \in Int /\ w >= 0 /\ w <= Base - 1
    BY <1>5, <1>6, BaseFacts DEF Words
<1>8. SumOf(new) = SumOf(old) - v + w
    BY <1>2, <1>5, <1>7, SumChanged DEF v
<1>9. n = m + d /\ d \in Int /\ d <= Base - 1 /\ d >= 1 - Base
    BY <1>3, <1>7, <1>8, BaseFacts DEF TotalOf
<1>10. n \in Nat /\ m \in Nat
    BY <1>1, TotalFits
<1>11. d \in {1 - Base, 0, Base - 1}
  <2> HIDE DEF d, n, m
  <2>1. OnesComplement(n) = Base - 1 /\ OnesComplement(m) = Base - 1
      BY <1>1 DEF n, m
  <2> QED
      BY <1>9, <1>10, <2>1, OtherZeros
<1>12. w = v \/ (w = 0 /\ v = Base - 1) \/ (w = Base - 1 /\ v = 0)
    BY <1>7, <1>11, BaseFacts
<1>13. new[k] = w /\ \A i \in DOMAIN new : i # k => new[i] = old[i]
    BY <1>2, <1>5
<1> QED
    BY <1>12, <1>13 DEF v

LEMMA TailChangeSeen ==
    ASSUME NEW m, NEW t, NEW u, OtherZeroMessage(m, t), OtherZeroMessage(m, u),
           t # <<>>, u # <<>>
    PROVE  t = u
<1> DEFINE a == TailWord(t)
           b == TailWord(u)
           d == a - b
           p == TotalOf(m, t)
           q == TotalOf(m, u)
<1>1. /\ Message(m, t) /\ OnesComplement(TotalOf(m, t)) = Base - 1
      /\ Message(m, u) /\ OnesComplement(TotalOf(m, u)) = Base - 1
    BY DEF OtherZeroMessage
<1>2. a \in 0 .. Byte - 1 /\ b \in 0 .. Byte - 1 /\ t = <<a>> /\ u = <<b>>
    BY <1>1, TailWordIsByte DEF Message
<1>3. SumOf(m) \in Int
    BY <1>1, WordsAreInts, SumOfDef, SumToSteps DEF Message
<1>4. /\ p = q + d /\ d \in Int /\ d <= Byte - 1 /\ d >= 1 - Byte
      /\ d <= Base - 1 /\ d >= 1 - Base
  <2> HIDE DEF a, b
  <2> QED
      BY <1>2, <1>3, BaseFacts DEF TotalOf, a, b
<1>5. p \in Nat /\ q \in Nat
    BY <1>1, TotalFits
<1>6. d \in {1 - Base, 0, Base - 1}
  <2> HIDE DEF d, p, q
  <2>1. OnesComplement(p) = Base - 1 /\ OnesComplement(q) = Base - 1
      BY <1>1 DEF p, q
  <2> QED
      BY <1>4, <1>5, <2>1, OtherZeros
<1>7. a = b
  <2> HIDE DEF a, b
  <2> QED
    BY <1>2, <1>4, <1>6, BaseFacts
<1> QED
    BY <1>2, <1>7

LEMMA ArrivedChanged ==
    ASSUME ChecksumInv, summing = "verified", answer = 0
    PROVE  /\ tail = sent[2]
           /\ \A i \in DOMAIN message :
                 message[i] = sent[1][i] \/ {message[i], sent[1][i]} = {0, Base - 1}
<1>1. /\ Delivered /\ Message(message, tail)
      /\ 0 = Base - 1 - OnesComplement(TotalOf(message, tail))
    BY DEF ChecksumInv, SumSoFar
<1>2. OnesComplement(TotalOf(message, tail)) \in 0 .. Base - 1
    BY <1>1, TotalFits, TwoFoldsSuffice
<1>3. OtherZeroMessage(message, tail) /\ OtherZeroMessage(sent[1], sent[2])
    BY <1>1, <1>2, BaseFacts DEF OtherZeroMessage, Delivered
<1>4. CASE tail = sent[2] /\ OneWordChanged(sent[1], message)
    BY <1>3, <1>4, WordChangeSeen
<1>5. CASE message = sent[1] /\ sent[2] # <<>> /\ \E b \in 0 .. Byte - 1 : tail = <<b>>
    BY <1>3, <1>5, TailChangeSeen
<1> QED
    BY <1>1, <1>4, <1>5 DEF Delivered

(* A message that arrives as it was sent is accepted, and a change of one   *)
(* word or of the odd byte is refused but between the two zeros, for every  *)
(* message of every length (icmpFun.c:250; ping3.c:313, 599, 638).          *)
THEOREM ChecksumTells == ChecksumSpec => []VerdictIsRight
<1>1. ChecksumInv => VerdictIsRight
    BY ArrivedWhole, ArrivedChanged DEF VerdictIsRight, SentVerifies, ChangeSeen
<1> QED
    BY <1>1, ChecksumInvariant, PTL

-----------------------------------------------------------------------------
(* The statistics                                                           *)

(* The quotient by which the mean moves is exact.                           *)
LEMMA MeanMoves ==
    ASSUME NEW n \in 1 .. MaxSamples, NEW m \in Int,
           NEW a \in Int, Multiple(Scale, a), NEW x \in Int, Multiple(Scale, x),
           (n - 1) * m = a, n = 1 => m = 0
    PROVE  /\ Mean(m, x, n) \in Int
           /\ n * Mean(m, x, n) = (n - 1) * m + x
<1>0. Scale \in Nat /\ Scale % n = 0 /\ n \in Nat \ {0}
  <2>1. MaxSamples \in Nat
      BY ScaleAssumption
  <2>2. Scale % n = 0
      BY ScaleAssumption, Zenon
  <2> QED
      BY <2>1, <2>2, ScaleAssumption
<1> DEFINE q == Scale \div n
<1>1. q \in Int /\ Scale = n * q
  <2>0. Scale \in Int
      BY <1>0
  <2>1. Scale \div n \in Int /\ Scale = n * (Scale \div n) + (Scale % n)
      BY <1>0, <2>0, Divided
  <2> QED
      BY <1>0, <2>1
<1> HIDE DEF q
<1>2. PICK t \in Int : a = Scale * t
    BY DEF Multiple
<1>3. PICK u \in Int : x = Scale * u
    BY DEF Multiple
<1> DEFINE k == q * (t + u) - m
<1>4. x - m = n * k + 0
  <2>1. n * (q * (t + u)) = Scale * (t + u)
      BY <1>0, <1>1
  <2>2. Scale * (t + u) = a + x
      BY <1>0, <1>2, <1>3
  <2>3. n * k = n * (q * (t + u)) - n * m
      BY <1>0, <1>1
  <2>4. n * m = a + m
    <3>1. (n - 1) * m = n * m - m
        BY <1>0
    <3>2. n * m \in Int
        BY <1>0
    <3> QED
        BY <3>1, <3>2
  <2>5. n * k = (a + x) - (a + m)
      BY <2>1, <2>2, <2>3, <2>4, Zenon
  <2> HIDE DEF k
  <2> QED
      BY <2>5
<1>5. k \in Int
    BY <1>1
<1> HIDE DEF k
<1>6. (n * k + 0) \div n = k
    BY <1>0, <1>5, DividesOneWay
<1>7. Mean(m, x, n) = m + k
    BY <1>4, <1>6 DEF Mean
<1>8. n * (m + k) = n * m + n * k /\ (n - 1) * m = n * m - m
      /\ n * m \in Int /\ n * k \in Int
    BY <1>0, <1>5
<1> QED
    BY <1>4, <1>5, <1>7, <1>8

(* What the variance gains is never negative, and makes up for the moving   *)
(* of the mean.                                                             *)
LEMMA SpreadGained ==
    ASSUME NEW n \in Nat, n >= 1, NEW m \in Int, NEW p \in Int, NEW x \in Int,
           n * m = (n - 1) * p + x
    PROVE  /\ Spread(x, m, p) \in Nat
           /\ Spread(x, m, p) = x * x - n * (m * m) + (n - 1) * (p * p)
<1> DEFINE d == m - p
           j == n - 1
<1>1. x = p + n * d /\ x - m = j * d /\ x - p = n * d
  <2>1. n * d = n * m - n * p /\ j * p = n * p - p /\ j * d = n * d - d
        /\ n * m \in Int /\ n * p \in Int
      OBVIOUS
  <2> QED
      BY <2>1
<1>2. d \in Int /\ j \in Nat /\ n = j + 1 /\ m = p + d
    OBVIOUS
<1>3. Spread(x, m, p) = (j * d) * (n * d)
    BY <1>1 DEF Spread
<1> HIDE DEF d, j
<1>4. (j * d) * (n * d) = (j * n) * (d * d) /\ j * n \in Nat /\ d * d \in Nat
    BY <1>2
<1>5. Spread(x, m, p) \in Nat
    BY <1>3, <1>4
<1>6. (p + (j + 1) * d) * (p + (j + 1) * d) - (j + 1) * ((p + d) * (p + d)) + j * (p * p)
         = (j * d) * ((j + 1) * d)
    BY <1>2
<1>7. x * x - n * (m * m) + j * (p * p) = (j * d) * (n * d)
    BY <1>1, <1>2, <1>6
<1> QED
    BY <1>3, <1>5, <1>7 DEF j

(* The mean of one sample more stays between the extremes.                  *)
MovedMean(n, m, p, x) == n * m = (n - 1) * p + x
Between(lo, x, hi) == lo <= x /\ x <= hi

LEMMA MeanBetween ==
    ASSUME NEW n \in Nat, n >= 1, NEW m \in Int, NEW p \in Int, NEW x \in Int,
           MovedMean(n, m, p, x),
           NEW lo \in Int, NEW hi \in Int, Between(lo, x, hi),
           n >= 2 => Between(lo, p, hi)
    PROVE  Between(lo, m, hi)
<1> USE DEF Between
<1>1. (n - 1) * p <= (n - 1) * hi /\ (n - 1) * lo <= (n - 1) * p
  <2>1. CASE n = 1
      BY <2>1
  <2>2. CASE n >= 2
      BY <2>2
  <2> QED
      BY <2>1, <2>2
<1>2. (n - 1) * hi = n * hi - hi /\ (n - 1) * lo = n * lo - lo
      /\ n * hi \in Int /\ n * lo \in Int /\ (n - 1) * p \in Int
    OBVIOUS
<1>3. n * m <= n * hi /\ n * lo <= n * m
    BY <1>1, <1>2 DEF MovedMean
<1>4. ASSUME m > hi PROVE FALSE
  <2>1. n * m >= n * (hi + 1) /\ n * (hi + 1) = n * hi + n
      BY <1>4
  <2> QED
      BY <1>2, <1>3, <2>1
<1>5. ASSUME m < lo PROVE FALSE
  <2>1. n * m <= n * (lo - 1) /\ n * (lo - 1) = n * lo - n
      BY <1>5
  <2> QED
      BY <1>2, <1>3, <2>1
<1> QED
    BY <1>4, <1>5

Squares(s) == [i \in 1 .. Len(s) |-> s[i] * s[i]]

LEMMA SquaresAppended ==
    ASSUME NEW s \in Seq(Int), NEW w \in Int
    PROVE  /\ Squares(s) \in Seq(Int) /\ Len(Squares(s)) = Len(s)
           /\ Squares(Append(s, w)) = Append(Squares(s), w * w)
<1>1. \A i \in 1 .. Len(s) : s[i] * s[i] \in Int
    OBVIOUS
<1>2. Squares(s) \in Seq(Int) /\ Len(Squares(s)) = Len(s)
    BY <1>1 DEF Squares
<1>3. ASSUME NEW i \in 1 .. Len(s) + 1
      PROVE  Append(s, w)[i] * Append(s, w)[i] = Append(Squares(s), w * w)[i]
    BY <1>2, <1>3 DEF Squares
<1>4. Len(Append(s, w)) = Len(s) + 1 /\ Append(Squares(s), w * w) \in Seq(Int)
      /\ Len(Append(Squares(s), w * w)) = Len(s) + 1
    BY <1>2
<1>5. Append(Squares(s), w * w)
         = [i \in 1 .. Len(s) + 1 |-> Append(Squares(s), w * w)[i]]
    BY <1>4
<1> QED
    BY <1>2, <1>3, <1>4, <1>5 DEF Squares

(* How many samples a figure tells of, when the others were counted before  *)
(* these statements.                                                        *)
Told(before) == IF tracking \in before THEN Len(rtts) - 1 ELSE Len(rtts)
InMean == Told({"count", "max", "min", "mean"})
InVariance == Told({"count", "max", "min", "mean", "variance"})
MeanBefore == IF tracking = "variance" THEN previousMeanRTT ELSE statsRunningMeanRTT

MeanOfFirst(s, k, mean) == k * mean = SumTo(s, k) /\ (k = 0 => mean = 0)

Samples ==
    /\ rtts \in Seq(Int) /\ Len(rtts) <= MaxSamples
    /\ \A i \in 1 .. Len(rtts) : Multiple(Scale, rtts[i]) /\ rtts[i] < DoubleMax
    /\ tracking # "idle" => Len(rtts) > 0 /\ latestRTT = rtts[Len(rtts)]
    /\ statsSamplesReceived = Told({"count"})

MeansTold ==
    /\ MeanOfFirst(rtts, InMean, statsRunningMeanRTT)
    /\ MeanOfFirst(rtts, InVariance, MeanBefore)

VarianceTold ==
    statsRunningVarianceRTT
        = SumTo(Squares(rtts), InVariance) - InVariance * (MeanBefore * MeanBefore)

MinimumTold ==
    LET n == Told({"count", "max", "min"})
    IN  /\ \A i \in 1 .. n : statsMinimumRTT <= rtts[i]
        /\ n = 0 => statsMinimumRTT = DoubleMax
        /\ n > 0 => \E i \in 1 .. n : statsMinimumRTT = rtts[i]

MaximumTold ==
    LET n == Told({"count", "max"})
    IN  /\ statsMaximumRTT >= 0 /\ \A i \in 1 .. n : rtts[i] <= statsMaximumRTT
        /\ statsMaximumRTT = 0 \/ \E i \in 1 .. n : statsMaximumRTT = rtts[i]

MeanInside ==
    InMean > 0 => /\ statsMinimumRTT <= statsRunningMeanRTT
                  /\ statsRunningMeanRTT <= statsMaximumRTT

StatsInv ==
    /\ StatsTypeOK
    /\ Samples /\ MeansTold /\ VarianceTold
    /\ MinimumTold /\ MaximumTold /\ MeanInside
    /\ PrintedIsConsistent

LEMMA StatsInitInv == StatsInit => StatsInv
<1> SUFFICES ASSUME StatsInit PROVE StatsInv
    OBVIOUS
<1> USE DEF StatsInit
<1>1. Scale \in Nat \ {0} /\ MaxSamples \in Nat /\ DoubleMax \in Int
    BY ScaleAssumption DEF DoubleMax
<1>2. rtts \in Seq(Int) /\ Len(rtts) = 0 /\ Squares(rtts) = <<>> /\ Squares(rtts) \in Seq(Int)
    BY DEF Squares
<1>3. SumTo(rtts, 0) = 0 /\ SumTo(Squares(rtts), 0) = 0
    BY <1>2, SumToSteps
<1>4. InMean = 0 /\ InVariance = 0 /\ MeanBefore = 0 /\ \A s : Told(s) = 0 \/ "idle" \in s
    BY <1>2 DEF InMean, InVariance, MeanBefore, Told
<1>5. StatsTypeOK /\ Samples
    BY <1>1, <1>2 DEF StatsTypeOK, Samples, Told
<1>6. MeansTold /\ VarianceTold
    BY <1>3, <1>4 DEF MeansTold, VarianceTold, MeanOfFirst
<1>7. MinimumTold /\ MaximumTold /\ MeanInside
    BY <1>2, <1>4 DEF MinimumTold, MaximumTold, MeanInside, Told
<1> QED
    BY <1>5, <1>6, <1>7 DEF StatsInv, PrintedIsConsistent

LEMMA StatsStutter == StatsInv /\ UNCHANGED statsVars => StatsInv'
BY DEF StatsInv, StatsTypeOK, Samples, MeansTold, VarianceTold, MinimumTold, MaximumTold,
       MeanInside, MeanOfFirst, InMean, InVariance, MeanBefore, Told, PrintedIsConsistent,
       statsVars, figures

(* What a sample under way amounts to.                                      *)
LEMMA SampleUnderWay ==
    ASSUME Samples, tracking # "idle"
    PROVE  \E n \in 1 .. MaxSamples :
              /\ n = Len(rtts) /\ n - 1 \in 0 .. Len(rtts) /\ n \in 0 .. Len(rtts)
              /\ latestRTT = rtts[n] /\ latestRTT \in Int
              /\ latestRTT < DoubleMax /\ Multiple(Scale, latestRTT)
              /\ \A i \in 1 .. n : rtts[i] \in Int
BY ScaleAssumption DEF Samples

LEMMA TrackStatsStep == StatsInv /\ TrackStats => StatsInv'
<1> SUFFICES ASSUME StatsInv, TrackStats PROVE StatsInv'
    OBVIOUS
<1> USE DEF StatsInv, TrackStats
<1>1. PICK t \in RTTs : latestRTT' = t * Scale /\ rtts' = Append(rtts, t * Scale)
    OBVIOUS
<1> DEFINE x == t * Scale
           n == Len(rtts)
<1>2. x \in Int /\ x < DoubleMax /\ Multiple(Scale, x)
  <2>1. t \in Int /\ Scale \in Int /\ t * Scale < DoubleMax
      BY RTTAssumption, ScaleAssumption
  <2>2. x = Scale * t
      BY <2>1
  <2>3. Multiple(Scale, x)
      BY <2>1, <2>2, Zenon DEF Multiple
  <2>4. x \in Int /\ x < DoubleMax
      BY <2>1
  <2> QED
      BY <2>3, <2>4
<1> HIDE DEF x
<1>3. rtts' = Append(rtts, x) /\ latestRTT' = x
    BY <1>1 DEF x
<1>4. /\ rtts \in Seq(Int) /\ rtts' \in Seq(Int) /\ Len(rtts') = n + 1 /\ n \in Nat
      /\ n + 1 <= MaxSamples /\ rtts'[n + 1] = x /\ \A i \in 1 .. n : rtts'[i] = rtts[i]
    BY <1>2, <1>3, ScaleAssumption DEF Samples
<1>5. /\ Squares(rtts) \in Seq(Int) /\ Len(Squares(rtts)) = n
      /\ Squares(rtts') = Append(Squares(rtts), x * x)
    BY <1>2, <1>3, <1>4, SquaresAppended
<1>6. SumTo(rtts', n) = SumTo(rtts, n) /\ SumTo(Squares(rtts'), n) = SumTo(Squares(rtts), n)
  <2>1. x * x \in Int /\ n \in 0 .. Len(rtts) /\ n \in 0 .. Len(Squares(rtts))
      BY <1>2, <1>4, <1>5
  <2> HIDE DEF n
  <2>2. SumTo(Append(rtts, x), n) = SumTo(rtts, n)
      BY <1>2, <1>4, <2>1, SumToAppended
  <2>3. SumTo(Append(Squares(rtts), x * x), n) = SumTo(Squares(rtts), n)
      BY <1>5, <2>1, SumToAppended
  <2> QED
      BY <1>3, <1>5, <2>2, <2>3
<1>7. /\ InMean = n /\ InVariance = n /\ InMean' = n /\ InVariance' = n
      /\ MeanBefore' = MeanBefore
    BY <1>4 DEF InMean, InVariance, MeanBefore, Told, figures
<1>8. StatsTypeOK'
    BY <1>2, <1>3, <1>4 DEF StatsTypeOK, figures
<1>9. Samples'
    BY <1>2, <1>3, <1>4 DEF Samples, Told, figures
<1>10. MeansTold' /\ VarianceTold' /\ MeanInside'
    BY <1>6, <1>7 DEF MeansTold, MeanOfFirst, VarianceTold, MeanInside, figures
<1>11. MinimumTold' /\ MaximumTold'
    BY <1>4 DEF MinimumTold, MaximumTold, Told, figures
<1>12. PrintedIsConsistent'
    BY DEF PrintedIsConsistent
<1> QED
    BY <1>8, <1>9, <1>10, <1>11, <1>12

LEMMA CountSampleStep == StatsInv /\ CountSample => StatsInv'
<1> SUFFICES ASSUME StatsInv, CountSample PROVE StatsInv'
    OBVIOUS
<1> USE DEF StatsInv, CountSample
<1>1. Len(rtts) \in Nat /\ Len(rtts) <= MaxSamples /\ Len(rtts) > 0 /\ MaxSamples \in Nat
    BY ScaleAssumption DEF Samples
<1>2. statsSamplesReceived' = Len(rtts)
    BY <1>1 DEF Samples, Told
<1>3. StatsTypeOK' /\ Samples'
    BY <1>1, <1>2 DEF StatsTypeOK, Samples, Told
<1>4. InMean' = InMean /\ InVariance' = InVariance /\ MeanBefore' = MeanBefore
    BY DEF InMean, InVariance, MeanBefore, Told
<1>5. MeansTold' /\ VarianceTold' /\ MeanInside'
    BY <1>4 DEF MeansTold, MeanOfFirst, VarianceTold, MeanInside
<1>6. MinimumTold' /\ MaximumTold' /\ PrintedIsConsistent'
    BY DEF MinimumTold, MaximumTold, Told, PrintedIsConsistent
<1> QED
    BY <1>3, <1>5, <1>6

LEMMA TrackMaximumStep == StatsInv /\ TrackMaximum => StatsInv'
<1> SUFFICES ASSUME StatsInv, TrackMaximum PROVE StatsInv'
    OBVIOUS
<1> USE DEF StatsInv, TrackMaximum
<1>1. PICK n \in 1 .. MaxSamples :
          /\ n = Len(rtts) /\ latestRTT = rtts[n] /\ latestRTT \in Int
          /\ \A i \in 1 .. n : rtts[i] \in Int
    BY SampleUnderWay
<1>2. /\ statsMaximumRTT \in Int /\ statsMaximumRTT' \in Int
      /\ statsMaximumRTT' >= statsMaximumRTT /\ statsMaximumRTT' >= latestRTT
      /\ statsMaximumRTT' \in {latestRTT, statsMaximumRTT}
    BY <1>1 DEF Larger, StatsTypeOK
<1>3. StatsTypeOK' /\ Samples'
    BY <1>2 DEF StatsTypeOK, Samples, Told
<1>4. InMean' = InMean /\ InVariance' = InVariance /\ MeanBefore' = MeanBefore
    BY DEF InMean, InVariance, MeanBefore, Told
<1>5. MeansTold' /\ VarianceTold' /\ MeanInside'
    BY <1>2, <1>4 DEF MeansTold, MeanOfFirst, VarianceTold, MeanInside, StatsTypeOK
<1>6. MaximumTold'
  <2>1. Told({"count", "max"}) = n - 1 /\ Told({"count", "max"})' = n /\ n \in Nat
      BY <1>1, ScaleAssumption DEF Told
  <2>2. statsMaximumRTT >= 0 /\ \A i \in 1 .. n - 1 : rtts[i] <= statsMaximumRTT
      BY <2>1 DEF MaximumTold
  <2>3. statsMaximumRTT = 0 \/ \E i \in 1 .. n - 1 : statsMaximumRTT = rtts[i]
      BY <2>1 DEF MaximumTold
  <2>4. statsMaximumRTT' >= 0 /\ \A i \in 1 .. n : rtts[i] <= statsMaximumRTT'
    <3>1. \A i \in 1 .. n : i = n \/ i \in 1 .. n - 1
        BY <2>1
    <3> QED
        BY <1>1, <1>2, <2>2, <3>1
  <2>5. statsMaximumRTT' = 0 \/ \E i \in 1 .. n : statsMaximumRTT' = rtts[i]
    <3>1. CASE statsMaximumRTT' = latestRTT
        BY <1>1, <2>1, <3>1
    <3>2. CASE statsMaximumRTT' = statsMaximumRTT
        BY <2>1, <2>3, <3>2
    <3> QED
        BY <1>2, <3>1, <3>2
  <2> QED
      BY <2>1, <2>4, <2>5 DEF MaximumTold
<1>7. MinimumTold' /\ PrintedIsConsistent'
    BY DEF MinimumTold, Told, PrintedIsConsistent
<1> QED
    BY <1>3, <1>5, <1>6, <1>7

LEMMA TrackMinimumStep == StatsInv /\ TrackMinimum => StatsInv'
<1> SUFFICES ASSUME StatsInv, TrackMinimum PROVE StatsInv'
    OBVIOUS
<1> USE DEF StatsInv, TrackMinimum
<1>1. PICK n \in 1 .. MaxSamples :
          /\ n = Len(rtts) /\ latestRTT = rtts[n] /\ latestRTT \in Int
          /\ latestRTT < DoubleMax /\ \A i \in 1 .. n : rtts[i] \in Int
    BY SampleUnderWay
<1>2. /\ statsMinimumRTT \in Int /\ statsMinimumRTT' \in Int
      /\ statsMinimumRTT' <= statsMinimumRTT /\ statsMinimumRTT' <= latestRTT
      /\ statsMinimumRTT' = IF latestRTT < statsMinimumRTT THEN latestRTT ELSE statsMinimumRTT
    BY <1>1 DEF Smaller, StatsTypeOK
<1>3. StatsTypeOK' /\ Samples'
    BY <1>2 DEF StatsTypeOK, Samples, Told
<1>4. InMean' = InMean /\ InVariance' = InVariance /\ MeanBefore' = MeanBefore
    BY DEF InMean, InVariance, MeanBefore, Told
<1>5. MeansTold' /\ VarianceTold' /\ MeanInside'
    BY <1>2, <1>4 DEF MeansTold, MeanOfFirst, VarianceTold, MeanInside, StatsTypeOK
<1>6. MinimumTold'
  <2>1. /\ Told({"count", "max", "min"}) = n - 1 /\ Told({"count", "max", "min"})' = n
        /\ n \in Nat /\ n > 0
      BY <1>1, ScaleAssumption DEF Told
  <2>2. \A i \in 1 .. n - 1 : statsMinimumRTT <= rtts[i]
      BY <2>1 DEF MinimumTold
  <2>3. n = 1 => statsMinimumRTT = DoubleMax
      BY <2>1 DEF MinimumTold
  <2>4. n # 1 => \E i \in 1 .. n - 1 : statsMinimumRTT = rtts[i]
      BY <2>1 DEF MinimumTold
  <2>5. \A i \in 1 .. n : statsMinimumRTT' <= rtts[i]
    <3>1. \A i \in 1 .. n : i = n \/ i \in 1 .. n - 1
        BY <2>1
    <3> QED
        BY <1>1, <1>2, <2>2, <3>1
  <2>6. \E i \in 1 .. n : statsMinimumRTT' = rtts[i]
    <3>1. CASE statsMinimumRTT' = latestRTT
        BY <1>1, <2>1, <3>1
    <3>2. CASE statsMinimumRTT' # latestRTT
      <4>1. statsMinimumRTT' = statsMinimumRTT /\ n # 1
          BY <1>1, <1>2, <2>3, <3>2
      <4> QED
          BY <2>1, <2>4, <4>1
    <3> QED
        BY <3>1, <3>2
  <2> QED
      BY <2>1, <2>5, <2>6 DEF MinimumTold
<1>7. MaximumTold' /\ PrintedIsConsistent'
    BY DEF MaximumTold, Told, PrintedIsConsistent
<1> QED
    BY <1>3, <1>5, <1>6, <1>7

LEMMA TrackMeanStep == StatsInv /\ TrackMean => StatsInv'
<1> SUFFICES ASSUME StatsInv, TrackMean PROVE StatsInv'
    OBVIOUS
<1> USE DEF TrackMean
<1>0. StatsTypeOK /\ Samples /\ MeansTold /\ VarianceTold /\ MinimumTold /\ MaximumTold
      /\ MeanInside /\ PrintedIsConsistent
    BY DEF StatsInv
<1>1. PICK n \in 1 .. MaxSamples :
          /\ n = Len(rtts) /\ n - 1 \in 0 .. Len(rtts) /\ n \in 0 .. Len(rtts)
          /\ latestRTT = rtts[n] /\ latestRTT \in Int
          /\ latestRTT < DoubleMax /\ Multiple(Scale, latestRTT)
          /\ \A i \in 1 .. n : rtts[i] \in Int
    BY <1>0, SampleUnderWay
<1> DEFINE p == statsRunningMeanRTT
           m == Mean(statsRunningMeanRTT, latestRTT, n)
<1>2. n \in Nat /\ n >= 1 /\ statsSamplesReceived = n
      /\ InMean = n - 1 /\ InVariance = n - 1 /\ MeanBefore = p
      /\ Told({"count", "max", "min"}) = n /\ Told({"count", "max"}) = n
    BY <1>0, <1>1, ScaleAssumption DEF Samples, Told, InMean, InVariance, MeanBefore
<1>3. InMean' = n /\ InVariance' = n - 1 /\ MeanBefore' = p
    BY <1>1 DEF Told, InMean, InVariance, MeanBefore
<1>4. p \in Int /\ (n - 1) * p = SumTo(rtts, n - 1) /\ (n = 1 => p = 0)
    BY <1>0, <1>2 DEF MeansTold, MeanOfFirst, StatsTypeOK
<1>5. rtts \in Seq(Int) /\ SumTo(rtts, n - 1) \in Int
      /\ SumTo(rtts, n) = SumTo(rtts, n - 1) + latestRTT
  <2>1. rtts \in Seq(Int) /\ n \in 1 .. Len(rtts)
      BY <1>0, <1>1 DEF Samples
  <2> QED
      BY <1>1, <2>1, SumToSteps
<1>6. Multiple(Scale, SumTo(rtts, n - 1))
  <2>1. \A i \in 1 .. Len(rtts) : Multiple(Scale, rtts[i])
      BY <1>0 DEF Samples
  <2>2. Scale \in Int
      BY ScaleAssumption
  <2> QED
      BY <1>1, <1>5, <2>1, <2>2, SumOfMultiples
<1>7. m \in Int /\ n * m = (n - 1) * p + latestRTT
  <2> HIDE DEF p
  <2> DEFINE a == SumTo(rtts, n - 1)
  <2>1. a \in Int /\ Multiple(Scale, a) /\ (n - 1) * p = a
      BY <1>4, <1>5, <1>6
  <2>2. p \in Int /\ (n = 1 => p = 0)
      BY <1>4
  <2>3. latestRTT \in Int /\ Multiple(Scale, latestRTT)
      BY <1>1
  <2> HIDE DEF a
  <2>4. Mean(p, latestRTT, n) \in Int /\ n * Mean(p, latestRTT, n) = (n - 1) * p + latestRTT
      BY <2>1, <2>2, <2>3, MeanMoves, Zenon
  <2> QED
      BY <2>4 DEF p
<1>8. statsRunningMeanRTT' = m /\ previousMeanRTT' = p
    BY <1>2
<1> HIDE DEF m, p
<1>9. n * m = SumTo(rtts, n)
    BY <1>4, <1>5, <1>7
<1>10. StatsTypeOK' /\ Samples'
  <2>1. StatsTypeOK'
      BY <1>0, <1>4, <1>7, <1>8 DEF StatsTypeOK
  <2>2. Samples'
      BY <1>0 DEF Samples, Told
  <2> QED
      BY <2>1, <2>2
<1>11. MeansTold'
  <2>1. MeanOfFirst(rtts, n, m) /\ MeanOfFirst(rtts, n - 1, p)
      BY <1>2, <1>4, <1>9 DEF MeanOfFirst
  <2>2. rtts' = rtts
      OBVIOUS
  <2> QED
      BY <1>3, <1>8, <2>1, <2>2 DEF MeansTold
<1>12. VarianceTold'
    BY <1>0, <1>2, <1>3 DEF VarianceTold
<1>13. MinimumTold' /\ MaximumTold'
    BY <1>0 DEF MinimumTold, MaximumTold, Told
<1>14. MeanInside'
  <2>1. statsMinimumRTT \in Int /\ statsMaximumRTT \in Int
      BY <1>0 DEF StatsTypeOK
  <2>2. statsMinimumRTT <= latestRTT /\ latestRTT <= statsMaximumRTT
      BY <1>0, <1>1, <1>2 DEF MinimumTold, MaximumTold
  <2>3. n >= 2 => statsMinimumRTT <= p /\ p <= statsMaximumRTT
      BY <1>0, <1>2 DEF MeanInside, p
  <2>4. m \in Int /\ MovedMean(n, m, p, latestRTT)
      BY <1>7 DEF MovedMean
  <2> DEFINE lo == statsMinimumRTT
             hi == statsMaximumRTT
  <2>5. Between(lo, latestRTT, hi) /\ (n >= 2 => Between(lo, p, hi))
      BY <2>2, <2>3 DEF Between
  <2>6. n \in Nat /\ n >= 1 /\ p \in Int /\ latestRTT \in Int
      BY <1>1, <1>2, <1>4
  <2> HIDE DEF TrackMean
  <2>7. lo \in Int /\ hi \in Int
      BY <2>1
  <2> HIDE DEF lo, hi
  <2>8. Between(lo, m, hi)
      BY <2>4, <2>6, <2>7, <2>5, MeanBetween
  <2> QED
      BY <1>8, <2>8 DEF MeanInside, Between, lo, hi, TrackMean
<1>15. PrintedIsConsistent'
    BY <1>0 DEF PrintedIsConsistent
<1> QED
    BY <1>10, <1>11, <1>12, <1>13, <1>14, <1>15 DEF StatsInv

LEMMA TrackVarianceStep == StatsInv /\ TrackVariance => StatsInv'
<1> SUFFICES ASSUME StatsInv, TrackVariance PROVE StatsInv'
    OBVIOUS
<1> USE DEF TrackVariance
<1>0. StatsTypeOK /\ Samples /\ MeansTold /\ VarianceTold /\ MinimumTold /\ MaximumTold
      /\ MeanInside /\ PrintedIsConsistent
    BY DEF StatsInv
<1>1. PICK n \in 1 .. MaxSamples :
          /\ n = Len(rtts) /\ n - 1 \in 0 .. Len(rtts) /\ n \in 0 .. Len(rtts)
          /\ latestRTT = rtts[n] /\ latestRTT \in Int
          /\ latestRTT < DoubleMax /\ Multiple(Scale, latestRTT)
          /\ \A i \in 1 .. n : rtts[i] \in Int
    BY <1>0, SampleUnderWay
<1> DEFINE m == statsRunningMeanRTT
           p == previousMeanRTT
           x == latestRTT
           v == Spread(latestRTT, statsRunningMeanRTT, previousMeanRTT)
<1>2. n \in Nat /\ n >= 1 /\ InMean = n /\ InVariance = n - 1 /\ MeanBefore = p
    BY <1>1, ScaleAssumption DEF Told, InMean, InVariance, MeanBefore
<1>3. InMean' = n /\ InVariance' = n /\ MeanBefore' = m
    BY <1>1 DEF Told, InMean, InVariance, MeanBefore
<1>4. m \in Int /\ p \in Int /\ x \in Int
    BY <1>0, <1>1 DEF StatsTypeOK
<1>5. n * m = SumTo(rtts, n) /\ (n - 1) * p = SumTo(rtts, n - 1)
    BY <1>0, <1>2 DEF MeansTold, MeanOfFirst
<1>6. rtts \in Seq(Int) /\ SumTo(rtts, n) = SumTo(rtts, n - 1) + x
      /\ SumTo(rtts, n - 1) \in Int
  <2>1. rtts \in Seq(Int) /\ n \in 1 .. Len(rtts)
      BY <1>0, <1>1 DEF Samples
  <2> QED
      BY <1>1, <2>1, SumToSteps
<1>7. SumTo(Squares(rtts), n) = SumTo(Squares(rtts), n - 1) + x * x
      /\ SumTo(Squares(rtts), n - 1) \in Int
  <2>1. Squares(rtts) \in Seq(Int) /\ Len(Squares(rtts)) = n
      BY <1>1, <1>6, SquaresAppended
  <2>2. Squares(rtts)[n] = x * x
      BY <1>1, <1>2 DEF Squares
  <2>3. n \in 1 .. Len(Squares(rtts)) /\ n - 1 \in 0 .. Len(Squares(rtts))
      BY <1>1, <2>1
  <2> QED
      BY <2>1, <2>2, <2>3, SumToSteps
<1> DEFINE q == SumTo(Squares(rtts), n - 1)
<1>8. statsRunningVarianceRTT = q - (n - 1) * (p * p)
    BY <1>0, <1>2 DEF VarianceTold
<1>9. statsRunningVarianceRTT' = statsRunningVarianceRTT + v
    OBVIOUS
<1> HIDE DEF m, p, x, q
<1>10. v \in Nat /\ v = x * x - n * (m * m) + (n - 1) * (p * p)
  <2>1. n * m = (n - 1) * p + x
      BY <1>5, <1>6
  <2>2. /\ Spread(x, m, p) \in Nat
        /\ Spread(x, m, p) = x * x - n * (m * m) + (n - 1) * (p * p)
      BY <1>2, <1>4, <2>1, SpreadGained
  <2> QED
      BY <2>2 DEF m, p, x
<1> HIDE DEF v
<1>11. statsRunningVarianceRTT' = q + x * x - n * (m * m)
  <2>1. q \in Int /\ x * x \in Int /\ n * (m * m) \in Int /\ (n - 1) * (p * p) \in Int
      BY <1>2, <1>4, <1>7 DEF q
  <2> QED
      BY <1>8, <1>9, <1>10, <2>1
<1>12. VarianceTold'
  <2>1. rtts' = rtts /\ SumTo(Squares(rtts), n) = q + x * x
      BY <1>7 DEF q
  <2>2. Squares(rtts)' = Squares(rtts)
      BY <2>1 DEF Squares
  <2>3. q \in Int /\ x * x \in Int /\ n * (m * m) \in Int
      BY <1>2, <1>4, <1>7 DEF q
  <2>4. statsRunningVarianceRTT' = SumTo(Squares(rtts), n) - n * (m * m)
      BY <1>11, <2>1, <2>3
  <2> QED
      BY <1>3, <2>2, <2>4 DEF VarianceTold
<1>13. MeansTold'
  <2>1. MeanOfFirst(rtts, n, m)
      BY <1>2, <1>5 DEF MeanOfFirst
  <2>2. rtts' = rtts /\ statsRunningMeanRTT' = m
      BY DEF m
  <2> QED
      BY <1>3, <2>1, <2>2 DEF MeansTold
<1>14. StatsTypeOK' /\ Samples'
  <2>1. statsRunningVarianceRTT' \in Nat
      BY <1>0, <1>9, <1>10 DEF StatsTypeOK
  <2>2. StatsTypeOK'
      BY <1>0, <2>1 DEF StatsTypeOK
  <2>3. Samples'
      BY <1>0 DEF Samples, Told
  <2> QED
      BY <2>2, <2>3
<1>15. MinimumTold' /\ MaximumTold'
    BY <1>0 DEF MinimumTold, MaximumTold, Told
<1>16. MeanInside'
    BY <1>0, <1>2 DEF MeanInside
<1>17. PrintedIsConsistent'
    BY <1>0 DEF PrintedIsConsistent
<1> QED
    BY <1>12, <1>13, <1>14, <1>15, <1>16, <1>17 DEF StatsInv

(* Two samples counted are one sample at least in the mean, wherever the    *)
(* signal found trackStats().                                               *)
LEMMA PrintStatsStep == StatsInv /\ PrintStats => StatsInv'
<1> SUFFICES ASSUME StatsInv, PrintStats PROVE StatsInv'
    OBVIOUS
<1> USE DEF PrintStats
<1>0. StatsTypeOK /\ Samples /\ MeansTold /\ VarianceTold /\ MinimumTold /\ MaximumTold
      /\ MeanInside /\ PrintedIsConsistent
    BY DEF StatsInv
<1>1. StatsTypeOK' /\ Samples' /\ MeansTold' /\ VarianceTold'
    BY <1>0 DEF StatsTypeOK, Samples, MeansTold, VarianceTold, MeanOfFirst, InMean,
                InVariance, MeanBefore, Told, figures
<1>2. MinimumTold' /\ MaximumTold' /\ MeanInside'
    BY <1>0 DEF MinimumTold, MaximumTold, MeanInside, InMean, Told, figures
<1>3. InMean > 0
  <2>1. Len(rtts) \in Nat /\ statsSamplesReceived \in Nat
      BY <1>0, ScaleAssumption DEF Samples, StatsTypeOK
  <2>2. statsSamplesReceived > 1
      BY DEF Enough
  <2>3. statsSamplesReceived <= Len(rtts)
      BY <1>0, <2>1 DEF Samples, Told
  <2>4. InMean >= Len(rtts) - 1 /\ InMean \in Int
      BY <2>1 DEF InMean, Told
  <2> QED
      BY <2>1, <2>2, <2>3, <2>4
<1>4. PrintedIsConsistent'
    BY <1>0, <1>3 DEF PrintedIsConsistent, MeanInside, StatsTypeOK
<1> QED
    BY <1>1, <1>2, <1>4 DEF StatsInv

LEMMA StatsInvariant == StatsSpec => []StatsInv
<1>1. StatsInv /\ [StatsNext]_statsVars => StatsInv'
    BY StatsStutter, TrackStatsStep, CountSampleStep, TrackMaximumStep, TrackMinimumStep,
       TrackMeanStep, TrackVarianceStep, PrintStatsStep DEF StatsNext
<1> QED
    BY <1>1, StatsInitInv, PTL DEF StatsSpec

(* The folds of the property are the sums of the proof.                     *)
LEMMA SumIsSumTo ==
    ASSUME NEW s \in Seq(Int)
    PROVE  Sum(s) = SumTo(s, Len(s))
BY SumOfDef DEF Sum, SumOf

LEMMA FiguresTold ==
    ASSUME StatsInv, tracking = "idle"
    PROVE  RunningEqualsTotal
<1> DEFINE n == Len(rtts)
           m == statsRunningMeanRTT
           v == statsRunningVarianceRTT
           q == SumTo(Squares(rtts), n)
<1>1. rtts \in Seq(Int) /\ n \in Nat /\ statsSamplesReceived = n
    BY DEF StatsInv, Samples, Told
<1>2. InVariance = n /\ InMean = n /\ MeanBefore = m
    BY DEF InVariance, InMean, MeanBefore, Told
<1>3. n * m = SumTo(rtts, n) /\ m \in Int
    BY <1>2 DEF StatsInv, MeansTold, MeanOfFirst, StatsTypeOK
<1>4. v = q - n * (m * m)
    BY <1>2 DEF StatsInv, VarianceTold
<1>5. Squares(rtts) \in Seq(Int) /\ Len(Squares(rtts)) = n
    BY <1>1, SquaresAppended
<1>6. Sum(rtts) = n * m /\ Sum(Squares(rtts)) = q /\ q \in Int
  <2>1. q \in Int
      BY <1>1, <1>5, SumToSteps
  <2> QED
      BY <1>1, <1>3, <1>5, <2>1, SumIsSumTo
<1> HIDE DEF n, m, v, q
<1>7. n * v = n * q - (n * m) * (n * m)
  <2>1. (n * m) * (n * m) = n * (n * (m * m)) /\ n * (m * m) \in Int
      BY <1>1, <1>3
  <2>2. n * (q - n * (m * m)) = n * q - n * (n * (m * m))
      BY <1>1, <1>6, <2>1
  <2> QED
      BY <1>4, <2>1, <2>2
<1> QED
    BY <1>1, <1>6, <1>7 DEF RunningEqualsTotal, Squares, n, m, v

LEMMA ExtremesTold ==
    ASSUME StatsInv
    PROVE  ExtremesAreSamples
<1> SUFFICES ASSUME tracking = "idle", rtts # <<>>
             PROVE  /\ statsMinimumRTT = Min(Range(rtts))
                    /\ statsMaximumRTT = Max(Range(rtts) \cup {0})
    BY DEF ExtremesAreSamples
<1> DEFINE n == Len(rtts)
<1>1. rtts \in Seq(Int) /\ n \in Nat /\ n > 0
    BY DEF StatsInv, Samples
<1>2. Range(rtts) = {rtts[i] : i \in 1 .. n} /\ Range(rtts) \subseteq Int
    BY <1>1 DEF Range
<1>3. \A x \in Range(rtts) : \E i \in 1 .. n : x = rtts[i]
    BY <1>2
<1>4. statsMinimumRTT \in Range(rtts) /\ \A x \in Range(rtts) : statsMinimumRTT <= x
  <2>1. /\ \A i \in 1 .. n : statsMinimumRTT <= rtts[i]
        /\ \E i \in 1 .. n : statsMinimumRTT = rtts[i]
      BY <1>1 DEF StatsInv, MinimumTold, Told
  <2> QED
      BY <1>2, <1>3, <2>1
<1>5. /\ statsMaximumRTT \in Range(rtts) \cup {0}
      /\ \A x \in Range(rtts) \cup {0} : statsMaximumRTT >= x
  <2>1. /\ statsMaximumRTT >= 0 /\ \A i \in 1 .. n : rtts[i] <= statsMaximumRTT
        /\ statsMaximumRTT = 0 \/ \E i \in 1 .. n : statsMaximumRTT = rtts[i]
      BY <1>1 DEF StatsInv, MaximumTold, Told
  <2>2. statsMaximumRTT \in Int
      BY DEF StatsInv, StatsTypeOK
  <2>3. statsMaximumRTT \in Range(rtts) \cup {0}
      BY <1>2, <2>1
  <2>4. \A x \in Range(rtts) : x <= statsMaximumRTT
      BY <1>3, <2>1
  <2> QED
      BY <1>2, <2>1, <2>2, <2>3, <2>4
<1>6. statsMinimumRTT = Min(Range(rtts))
  <2> DEFINE S == Range(rtts)
  <2>1. S \subseteq Int
      BY <1>2
  <2> HIDE DEF S
  <2>2. \A y \in S : (\A x \in S : y <= x) => y = statsMinimumRTT
      BY <1>4, <2>1 DEF S
  <2> QED
      BY <1>4, <2>2 DEF Min, S
<1>7. statsMaximumRTT = Max(Range(rtts) \cup {0})
  <2> DEFINE S == Range(rtts) \cup {0}
  <2>1. S \subseteq Int
      BY <1>2
  <2> HIDE DEF S
  <2>2. \A y \in S : (\A x \in S : y >= x) => y = statsMaximumRTT
      BY <1>5, <2>1 DEF S
  <2> QED
      BY <1>5, <2>2 DEF Max, S
<1> QED
    BY <1>6, <1>7

(* However many replies there are: the running mean and variance are those  *)
(* of all the samples, the extremes are samples, and what a signal prints   *)
(* in the middle of trackStats() is still consistent (ping3.c:266-283).     *)
THEOREM StatsTell == StatsSpec => []StatsTellSamples
<1>1. StatsInv => StatsTellSamples
  <2> SUFFICES ASSUME StatsInv PROVE StatsTellSamples
      OBVIOUS
  <2>1. RunningEqualsTotal
      BY FiguresTold DEF RunningEqualsTotal
  <2>2. ExtremesAreSamples /\ PrintedIsConsistent
      BY ExtremesTold DEF StatsInv
  <2> QED
      BY <2>1, <2>2 DEF StatsTellSamples
<1> QED
    BY <1>1, StatsInvariant, PTL

-----------------------------------------------------------------------------
(* The estimate of the clock difference                                     *)

-----------------------------------------------------------------------------
(* Clock differences                                                        *)

(* A reading is the time in milliseconds, less the days that went by.       *)
LEMMA Reading ==
    ASSUME NEW t \in Int
    PROVE  \E ms \in Int, rest \in 0 .. Tick - 1 :
              /\ Tick * ms = t - rest
              /\ Days(t) \in Int /\ SinceMidnight(t) \in 0 .. Day - 1
              /\ SinceMidnight(t) = ms - Day * Days(t)
<1>0. Tick \in Nat \ {0} /\ Day \in Nat \ {0}
    BY TickAssumption
<1> DEFINE ms == t \div Tick
           rest == t % Tick
<1>1. ms \in Int /\ rest \in 0 .. Tick - 1 /\ t = Tick * ms + rest
    BY <1>0, Divided
<1>2. Days(t) = ms \div Day /\ SinceMidnight(t) = (ms % Day)
    BY DEF Days, SinceMidnight
<1> HIDE DEF ms, rest
<1>3. ms \div Day \in Int /\ (ms % Day) \in 0 .. Day - 1 /\ ms = Day * (ms \div Day) + (ms % Day)
    BY <1>0, <1>1, Divided
<1> DEFINE days == ms \div Day
           time == (ms % Day)
<1>4. days \in Int /\ time \in 0 .. Day - 1 /\ ms = Day * days + time
      /\ Days(t) = days /\ SinceMidnight(t) = time
    BY <1>2, <1>3
<1> HIDE DEF days, time
<1>5. Day * days \in Int /\ Tick * ms \in Int
    BY <1>0, <1>1, <1>4
<1>6. time = ms - Day * days /\ Tick * ms = t - rest
    BY <1>0, <1>1, <1>4, <1>5
<1> QED
    BY <1>1, <1>4, <1>6

(* Half of a round trip is rounded to within half a millisecond.            *)
LEMMA Halved ==
    ASSUME NEW t \in Int
    PROVE  \E rest \in 0 .. 2 * Tick - 1 :
              /\ HalfRoundTrip(t) \in Int
              /\ 2 * (Tick * HalfRoundTrip(t)) = t + Tick - rest
<1>0. Tick \in Nat \ {0} /\ 2 * Tick \in Nat \ {0} /\ t + Tick \in Int
    BY TickAssumption
<1> DEFINE h == (t + Tick) \div (2 * Tick)
           rest == (t + Tick) % (2 * Tick)
<1>1. h \in Int /\ rest \in 0 .. 2 * Tick - 1 /\ t + Tick = (2 * Tick) * h + rest
  <2> DEFINE n == t + Tick
             d == 2 * Tick
  <2>1. n \in Int /\ d \in Nat \ {0}
      BY <1>0
  <2> HIDE DEF n, d
  <2>2. n \div d \in Int /\ (n % d) \in 0 .. d - 1 /\ n = d * (n \div d) + (n % d)
      BY <2>1, Divided
  <2> QED
      BY <2>2 DEF n, d
<1>2. HalfRoundTrip(t) = h
    BY DEF HalfRoundTrip
<1> HIDE DEF h, rest
<1>3. (2 * Tick) * h = 2 * (Tick * h) /\ Tick * h \in Int
    BY <1>0, <1>1
<1> QED
    BY <1>0, <1>1, <1>2, <1>3

(* The estimate of either caller, by the moments at which the request was   *)
(* sent, answered at, and the answer received.                              *)
Estimated(how, asked, turned, back, ahead) ==
    IF how = "ICMP"
    THEN Estimate(SinceMidnight(turned + ahead), SinceMidnight(asked),
                  HalfTakenBack(HalfRoundTrip(back - asked)))
    ELSE Estimate(SinceMidnight(turned + ahead), SinceMidnight(back),
                  HalfRoundTrip(back - asked))

DaysApart(how, asked, turned, back, ahead) ==
    Days(turned + ahead) - Days(IF how = "ICMP" THEN asked ELSE back)

(* What is left when the days are taken off again.                          *)
LEMMA EstimateIs ==
    ASSUME NEW how, NEW s \in Int, NEW u \in Int, NEW w \in Int, NEW o \in Int
    PROVE  \E k \in Int :
              /\ Estimated(how, s, u, w, o) \in Int
              /\ Estimated(how, s, u, w, o) - Day * DaysApart(how, s, u, w, o) = k
              /\ \E a \in 0 .. Tick - 1, b \in 0 .. Tick - 1, c \in 0 .. 2 * Tick - 1 :
                    2 * (Tick * k) + 2 * o =
                       IF how = "ICMP"
                       THEN (w - u) - (u - s) - 2 * a + 2 * b + Tick - c
                       ELSE (w - u) - (u - s) - 2 * a + 2 * b - Tick + c
<1>0. Tick \in Nat \ {0} /\ Day \in Nat \ {0}
    BY TickAssumption
<1> DEFINE l == IF how = "ICMP" THEN s ELSE w
           h == HalfRoundTrip(w - s)
           r == u + o
<1>1. l \in Int /\ r \in Int /\ w - s \in Int
    OBVIOUS
<1>2. PICK c \in 0 .. 2 * Tick - 1 : h \in Int /\ 2 * (Tick * h) = (w - s) + Tick - c
    BY <1>1, Halved
<1> HIDE DEF l, h, r
<1>3. PICK m \in Int, a \in 0 .. Tick - 1 :
          /\ Tick * m = l - a /\ Days(l) \in Int /\ SinceMidnight(l) \in 0 .. Day - 1
          /\ SinceMidnight(l) = m - Day * Days(l)
    BY <1>1, Reading
<1>4. PICK n \in Int, b \in 0 .. Tick - 1 :
          /\ Tick * n = r - b /\ Days(r) \in Int /\ SinceMidnight(r) \in 0 .. Day - 1
          /\ SinceMidnight(r) = n - Day * Days(r)
    BY <1>1, Reading
<1> DEFINE e == IF how = "ICMP" THEN h ELSE -h
<1>5. Estimated(how, s, u, w, o) = SinceMidnight(l) - SinceMidnight(r) + e
  <2>1. SinceMidnight(l) \in Int /\ SinceMidnight(r) \in Int
      BY <1>0, <1>3, <1>4
  <2>2. CASE how = "ICMP"
    <3>1. Estimated(how, s, u, w, o) = SinceMidnight(l) - (SinceMidnight(r) + (-h))
        BY <2>2 DEF Estimated, Estimate, HalfTakenBack, l, h, r
    <3> QED
        BY <1>2, <2>1, <2>2, <3>1
  <2>3. CASE how # "ICMP"
    <3>1. Estimated(how, s, u, w, o) = SinceMidnight(l) - (SinceMidnight(r) + h)
        BY <2>3 DEF Estimated, Estimate, l, h, r
    <3> QED
        BY <1>2, <2>1, <2>3, <3>1
  <2> QED
      BY <2>2, <2>3
<1>6. DaysApart(how, s, u, w, o) = Days(r) - Days(l)
    BY DEF DaysApart, l, r
<1> DEFINE k == m - n + e
<1>7. e \in Int
    BY <1>2
<1>8. Estimated(how, s, u, w, o) \in Int
      /\ Estimated(how, s, u, w, o) - Day * DaysApart(how, s, u, w, o) = k
  <2> DEFINE x == Days(l)
             y == Days(r)
  <2>1. x \in Int /\ y \in Int
        /\ Estimated(how, s, u, w, o) = (m - Day * x) - (n - Day * y) + e
        /\ DaysApart(how, s, u, w, o) = y - x
      BY <1>3, <1>4, <1>5, <1>6
  <2> HIDE DEF x, y, e
  <2>2. Day * (y - x) = Day * y - Day * x /\ Day * y \in Int /\ Day * x \in Int
      BY <1>0, <2>1
  <2> QED
      BY <1>7, <2>1, <2>2
<1>9. 2 * (Tick * k) = 2 * (l - a) - 2 * (r - b) + 2 * (Tick * e)
  <2> HIDE DEF e
  <2>1. Tick * k = Tick * m - Tick * n + Tick * e /\ Tick * e \in Int
      BY <1>0, <1>7
  <2> QED
      BY <1>1, <1>3, <1>4, <2>1
<1>10. 2 * (Tick * e) = IF how = "ICMP" THEN (w - s) + Tick - c ELSE -((w - s) + Tick - c)
  <2>1. CASE how = "ICMP"
      BY <1>2, <2>1
  <2>2. CASE how # "ICMP"
    <3>1. Tick * (-h) = -(Tick * h) /\ Tick * h \in Int
        BY <1>0, <1>2
    <3> QED
        BY <1>0, <1>2, <2>2, <3>1
  <2> QED
      BY <2>1, <2>2
<1>11. 2 * (Tick * k) + 2 * o =
          IF how = "ICMP" THEN (w - u) - (u - s) - 2 * a + 2 * b + Tick - c
                          ELSE (w - u) - (u - s) - 2 * a + 2 * b - Tick + c
  <2> HIDE DEF k, e
  <2>1. CASE how = "ICMP"
      BY <1>0, <1>9, <1>10, <2>1 DEF l, r
  <2>2. CASE how # "ICMP"
      BY <1>0, <1>9, <1>10, <2>2 DEF l, r
  <2> QED
      BY <2>1, <2>2
<1>12. k \in Int
    BY <1>7
<1> HIDE DEF k
<1> QED
    BY <1>8, <1>11, <1>12

LEMMA EstimateError ==
    ASSUME NEW how, NEW s \in Int, NEW u \in Int, NEW w \in Int, NEW o \in Int
    PROVE  2 * Distance(Tick * (Estimated(how, s, u, w, o)
                                  - Day * DaysApart(how, s, u, w, o)) + o)
              < Distance((w - u) - (u - s)) + 4 * Tick
<1>0. Tick \in Nat \ {0}
    BY TickAssumption
<1>1. PICK k \in Int :
          /\ Estimated(how, s, u, w, o) - Day * DaysApart(how, s, u, w, o) = k
          /\ \E a \in 0 .. Tick - 1, b \in 0 .. Tick - 1, c \in 0 .. 2 * Tick - 1 :
                2 * (Tick * k) + 2 * o =
                   IF how = "ICMP"
                   THEN (w - u) - (u - s) - 2 * a + 2 * b + Tick - c
                   ELSE (w - u) - (u - s) - 2 * a + 2 * b - Tick + c
    BY EstimateIs
<1>2. PICK a \in 0 .. Tick - 1, b \in 0 .. Tick - 1, c \in 0 .. 2 * Tick - 1 :
          2 * (Tick * k) + 2 * o =
             IF how = "ICMP"
             THEN (w - u) - (u - s) - 2 * a + 2 * b + Tick - c
             ELSE (w - u) - (u - s) - 2 * a + 2 * b - Tick + c
    BY <1>1
<1> DEFINE x == Tick * k + o
           y == (w - u) - (u - s)
<1>3. x \in Int /\ y \in Int
    BY <1>0
<1>4. 2 * x = 2 * (Tick * k) + 2 * o
    BY <1>0
<1> HIDE DEF x, y
<1>5. 2 * x < y + 4 * Tick /\ 2 * x > y - 4 * Tick
    BY <1>0, <1>2, <1>3, <1>4 DEF y
<1>6. 2 * Distance(x) < Distance(y) + 4 * Tick
    BY <1>0, <1>3, <1>5 DEF Distance
<1> QED
    BY <1>1, <1>6 DEF x, y

(* The moments so far, and what was read at them.                           *)
Moments ==
    /\ leg \in {"request", "reply", "estimate"} => tsOriginate = SinceMidnight(sentAt)
    /\ leg \in {"reply", "estimate"} => tsRemote = SinceMidnight(turnedAt + offset)
    /\ leg = "estimate" =>
          timeDifference = Estimated(method, sentAt, turnedAt, now, offset)

ClockInv == ClockTypeOK /\ Moments

LEMMA ClockInitInv == ClockInit => ClockInv
BY TickAssumption DEF ClockInit, ClockInv, ClockTypeOK, Moments

LEMMA ClockStep == ClockInv /\ [ClockNext]_clockVars => ClockInv'
<1> SUFFICES ASSUME ClockInv, [ClockNext]_clockVars PROVE ClockInv'
    OBVIOUS
<1>0. ClockTypeOK /\ Moments /\ Tick \in Nat \ {0} /\ Day \in Nat \ {0} /\ MaxDelay \in Nat
      /\ (\A o \in Offsets : o \in Int)
    BY TickAssumption, DelayAssumption, OffsetAssumption DEF ClockInv
<1>1. CASE SendTimed
  <2>1. PICK t \in 0 .. Tick * Day - 1 : now' = Tick * Day + t
      BY <1>1 DEF SendTimed
  <2>2. Tick * Day \in Nat
      BY <1>0
  <2>3. now' \in Nat
      BY <2>1, <2>2
  <2>4. SinceMidnight(now') \in 0 .. Day - 1
      BY <2>3, Reading
  <2>5. ClockTypeOK'
      BY <1>0, <1>1, <2>3, <2>4 DEF SendTimed, ClockTypeOK
  <2> QED
      BY <1>1, <2>5 DEF SendTimed, Moments, ClockInv
<1>2. CASE TurnAround
  <2>1. now' \in Nat
      BY <1>0, <1>2 DEF TurnAround, ClockTypeOK
  <2>2. now' + offset \in Int
    <3>1. offset \in Int
        BY <1>0 DEF ClockTypeOK
    <3> QED
        BY <2>1, <3>1
  <2>3. SinceMidnight(now' + offset) \in 0 .. Day - 1
      BY <2>2, Reading
  <2>4. ClockTypeOK'
      BY <1>0, <1>2, <2>1, <2>3 DEF TurnAround, ClockTypeOK
  <2> QED
      BY <1>0, <1>2, <2>4 DEF TurnAround, Moments, ClockInv
<1>3. CASE ReceiveTimed
  <2>1. now' \in Nat
      BY <1>0, <1>3 DEF ReceiveTimed, ClockTypeOK
  <2>2. tsOriginate = SinceMidnight(sentAt) /\ tsRemote = SinceMidnight(turnedAt + offset)
      BY <1>0, <1>3 DEF ReceiveTimed, Moments
  <2>3. timeDifference' = Estimated(method, sentAt, turnedAt, now', offset)
      BY <1>3, <2>2 DEF ReceiveTimed, Estimated
  <2>4. sentAt \in Int /\ turnedAt \in Int /\ now' \in Int /\ offset \in Int
      BY <1>0, <2>1 DEF ClockTypeOK
  <2>5. timeDifference' \in Int
      BY <2>3, <2>4, EstimateIs
  <2>6. ClockTypeOK'
      BY <1>0, <1>3, <2>1, <2>5 DEF ReceiveTimed, ClockTypeOK
  <2>7. Moments'
      BY <1>3, <2>2, <2>3 DEF ReceiveTimed, Moments
  <2> QED
      BY <2>6, <2>7 DEF ClockInv
<1>4. CASE NextTimed
    BY <1>0, <1>4 DEF NextTimed, ClockTypeOK, Moments, ClockInv
<1>5. CASE UNCHANGED clockVars
    BY <1>0, <1>5 DEF clockVars, ClockTypeOK, Moments, ClockInv
<1> QED
    BY <1>1, <1>2, <1>3, <1>4, <1>5 DEF ClockNext

LEMMA ClockInvariant == ClockSpec => []ClockInv
BY ClockInitInv, ClockStep, PTL DEF ClockSpec

(* For every length of a millisecond's ticks and of a day, every delay on   *)
(* either way and every offset of the remote clock: the estimate is off by  *)
(* half of what one way took longer than the other, by less than two        *)
(* milliseconds of rounding, and by a day for every midnight between the    *)
(* readings (timeFun.c:111, 190-191; ping3.c:553; icmpFun.c:289).           *)
THEOREM ClockEstimateIsClose == ClockSpec => []EstimateIsClose
<1>1. ClockInv => EstimateIsClose
  <2> SUFFICES ASSUME ClockInv, leg = "estimate"
               PROVE  2 * Distance(Tick * (timeDifference - Day * MidnightsBetween) + offset)
                         < Asymmetry + 4 * Tick
      BY DEF EstimateIsClose
  <2>1. sentAt \in Int /\ turnedAt \in Int /\ now \in Int /\ offset \in Int
      BY OffsetAssumption DEF ClockInv, ClockTypeOK
  <2>2. /\ timeDifference = Estimated(method, sentAt, turnedAt, now, offset)
        /\ MidnightsBetween = DaysApart(method, sentAt, turnedAt, now, offset)
        /\ Asymmetry = Distance((now - turnedAt) - (turnedAt - sentAt))
      BY DEF ClockInv, Moments, MidnightsBetween, DaysApart, Asymmetry
  <2> QED
      BY <2>1, <2>2, EstimateError
<1> QED
    BY <1>1, ClockInvariant, PTL
=============================================================================
