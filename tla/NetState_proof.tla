--------------------------- MODULE NetState_proof ---------------------------
(***************************************************************************)
(* What the increments of module NetState are worth: undoing a step gives  *)
(* back the net state, and the enabledness of the changed marking is exact *)
(* after it has been updated, forward as well as backward.                 *)
(*                                                                         *)
(* The first part is about no net: induction over numbers and finite sets, *)
(* and the laws of SumFunction (Functions.tla), which adds up the values   *)
(* of a function over its finite domain in an order of its own.            *)
(***************************************************************************)
EXTENDS NetState, FiniteSetTheorems, SequenceTheorems, WellFoundedInduction, TLAPS

(* The element that a sum takes first.                                     *)
Pick(T) == CHOOSE x \in T : TRUE

(* A set of numbers that contains 0 and with each number the next contains *)
(* them all.                                                               *)
LEMMA Numbers ==
  ASSUME NEW G, 0 \in G, \A n \in Nat : n \in G => n + 1 \in G
  PROVE  Nat \subseteq G
<1> DEFINE B == Nat \ G
<1> SUFFICES ASSUME B # {} PROVE FALSE
  OBVIOUS
<1>1. PICK n \in B : \A k \in B : ~(<<k, n>> \in OpToRel(<, Nat))
  <2>1. B \subseteq Nat
    OBVIOUS
  <2> HIDE DEF B
  <2> QED
    BY <2>1, WFMin, NatLessThanWellFounded, Zenon
<1>2. \A k \in B : ~(k < n)
  BY <1>1 DEF OpToRel
<1>3. n \in Nat /\ n # 0
  OBVIOUS
<1>4. n - 1 \in Nat /\ n - 1 < n /\ (n - 1) + 1 = n
  BY <1>3
<1>5. n - 1 \in G
  BY <1>2, <1>4
<1> QED
  BY <1>4, <1>5

(* A family of sets that contains the empty set, and each set that is in   *)
(* it without any one of its elements, contains all subsets of S.          *)
LEMMA Subsets ==
  ASSUME NEW S, IsFiniteSet(S), NEW G, {} \in G,
         \A T \in SUBSET S : T # {} /\ (\A x \in T : T \ {x} \in G) => T \in G
  PROVE  \A T \in SUBSET S : T \in G
<1> DEFINE N == {n \in Nat : \A T \in SUBSET S : Cardinality(T) = n => T \in G}
<1>1. \A T \in SUBSET S : IsFiniteSet(T) /\ Cardinality(T) \in Nat
  BY FS_Subset, FS_CardinalityType
<1>2. 0 \in N
  BY <1>1, FS_EmptySet
<1>3. ASSUME NEW n \in Nat, n \in N PROVE n + 1 \in N
  <2> SUFFICES ASSUME NEW T \in SUBSET S, Cardinality(T) = n + 1 PROVE T \in G
    OBVIOUS
  <2>1. T # {}
    <3>1. Cardinality({}) = 0 /\ n + 1 # 0
      BY FS_EmptySet
    <3> QED
      BY <3>1
  <2>2. ASSUME NEW x \in T PROVE T \ {x} \in G
    <3>1. Cardinality(T \ {x}) = n
      BY <1>1, FS_RemoveElement
    <3> QED
      BY <1>3, <3>1
  <2> QED
    BY <2>1, <2>2
<1>4. Nat \subseteq N
  <2> HIDE DEF N
  <2> QED
    BY <1>2, <1>3, Numbers
<1> QED
  BY <1>1, <1>4
-----------------------------------------------------------------------------
(* The equation SumFunction is defined by, with one element taken after    *)
(* the other.                                                              *)
Adds(s, f, S) ==
  s = [T \in SUBSET S |-> IF T = {} THEN 0
                          ELSE f[Pick(T)] + s[T \ {Pick(T)}]]

PartialSums(f, S) == CHOOSE s : Adds(s, f, S)

LEMMA SumsExist ==
  ASSUME NEW S, IsFiniteSet(S), NEW f
  PROVE  Adds(PartialSums(f, S), f, S)
<1> DEFINE Upto(s, n) ==
             \A T \in SUBSET S : Cardinality(T) <= n =>
                s[T] = IF T = {} THEN 0 ELSE f[Pick(T)] + s[T \ {Pick(T)}]
           Next(s) == [T \in SUBSET S |-> IF T = {} THEN 0
                                          ELSE f[Pick(T)] + s[T \ {Pick(T)}]]
           G == {n \in Nat : \E s : s = [T \in SUBSET S |-> s[T]] /\ Upto(s, n)}
<1>1. \A T \in SUBSET S : /\ IsFiniteSet(T) /\ Cardinality(T) \in Nat
                          /\ T # {} => /\ Pick(T) \in T
                                       /\ Cardinality(T \ {Pick(T)}) = Cardinality(T) - 1
  BY FS_Subset, FS_CardinalityType, FS_RemoveElement DEF Pick
<1>2. 0 \in G
  <2>1. \A T \in SUBSET S : Cardinality(T) <= 0 => T = {}
    <3> SUFFICES ASSUME NEW T \in SUBSET S, Cardinality(T) <= 0 PROVE T = {}
      OBVIOUS
    <3>1. IsFiniteSet(T) /\ Cardinality(T) \in Nat
      BY <1>1
    <3> QED
      BY <3>1, FS_EmptySet
  <2> DEFINE z == [T \in SUBSET S |-> 0]
  <2>2. Upto(z, 0) /\ z = [T \in SUBSET S |-> z[T]]
    BY <2>1
  <2> HIDE DEF z, Upto
  <2> QED
    BY <2>2
<1>3. ASSUME NEW n \in Nat, n \in G PROVE n + 1 \in G
  <2>1. PICK s : Upto(s, n)
    BY <1>3
  <2>2. ASSUME NEW T \in SUBSET S, Cardinality(T) <= n + 1
        PROVE  Next(s)[T] = IF T = {} THEN 0 ELSE f[Pick(T)] + Next(s)[T \ {Pick(T)}]
    <3>1. CASE T = {}
      BY <3>1
    <3>2. CASE T # {}
      <4> DEFINE U == T \ {Pick(T)}
      <4>1. U \in SUBSET S /\ Cardinality(U) <= n
        BY <1>1, <2>2, <3>2
      <4>2. Next(s)[U] = s[U]
        BY <2>1, <4>1
      <4> QED
        BY <3>2, <4>2
    <3> QED
      BY <3>1, <3>2
  <2>3. Upto(Next(s), n + 1)
    BY <2>2
  <2>4. Next(s) = [T \in SUBSET S |-> Next(s)[T]]
    OBVIOUS
  <2> HIDE DEF Upto, Next
  <2> QED
    BY <2>3, <2>4
<1>4. Cardinality(S) \in G
  <2> HIDE DEF G
  <2>1. Nat \subseteq G
    BY <1>2, <1>3, Numbers
  <2> QED
    BY <1>1, <2>1
<1>5. PICK s : s = [T \in SUBSET S |-> s[T]] /\ Upto(s, Cardinality(S))
  BY <1>4
<1>6. \A T \in SUBSET S : Cardinality(T) <= Cardinality(S)
  BY FS_Subset
<1>7. Adds(s, f, S)
  BY <1>5, <1>6 DEF Adds
<1> QED
  BY <1>7 DEF PartialSums

(* What SumFunctionOnSet is on a set of no element and on any other.       *)
LEMMA SumIsPartialSum ==
  ASSUME NEW S, NEW f
  PROVE  SumFunctionOnSet(f, S) = PartialSums(f, S)[S]
  BY DEF SumFunctionOnSet, FoldFunctionOnSet, MapThenFoldSet, PartialSums, Adds, Pick

LEMMA PartialSumsNarrow ==
  ASSUME NEW S, IsFiniteSet(S), NEW f, NEW T \in SUBSET S
  PROVE  PartialSums(f, S)[T] = SumFunctionOnSet(f, T)
<1> DEFINE G == {U \in SUBSET T : PartialSums(f, S)[U] = PartialSums(f, T)[U]}
<1>1. IsFiniteSet(T)
  BY FS_Subset
<1>2. Adds(PartialSums(f, S), f, S) /\ Adds(PartialSums(f, T), f, T)
  BY <1>1, SumsExist
<1>3. {} \in G
  BY <1>2 DEF Adds
<1>4. ASSUME NEW U \in SUBSET T, U # {}, \A x \in U : U \ {x} \in G PROVE U \in G
  <2>1. U \ {Pick(U)} \in G
    BY <1>4 DEF Pick
  <2> QED
    BY <1>2, <1>4, <2>1 DEF Adds
<1>5. T \in G
  <2> HIDE DEF G
  <2> QED
    BY <1>1, <1>3, <1>4, Subsets
<1> QED
  BY <1>5, SumIsPartialSum

(* The order does not matter: any element may be added last.               *)
LEMMA SumOnEmpty ==
  ASSUME NEW f
  PROVE  SumFunctionOnSet(f, {}) = 0
<1>1. IsFiniteSet({})
  BY FS_EmptySet
<1> QED
  BY <1>1, SumsExist, SumIsPartialSum DEF Adds

LEMMA SumAnyOrder ==
  ASSUME NEW S, IsFiniteSet(S), NEW f, \A x \in S : f[x] \in Int
  PROVE  /\ SumFunctionOnSet(f, S) \in Int
         /\ \A x \in S : SumFunctionOnSet(f, S) = f[x] + SumFunctionOnSet(f, S \ {x})
<1> DEFINE s == PartialSums(f, S)
           I == {T \in SUBSET S : s[T] \in Int}
           G == {T \in SUBSET S : \A x \in T : s[T] = f[x] + s[T \ {x}]}
<1>1. s = [T \in SUBSET S |-> IF T = {} THEN 0 ELSE f[Pick(T)] + s[T \ {Pick(T)}]]
  BY SumsExist DEF Adds
<1> HIDE DEF s
<1>2. \A T \in SUBSET S : s[T] \in Int
  <2>1. {} \in I
    BY <1>1
  <2>2. ASSUME NEW T \in SUBSET S, T # {}, \A x \in T : T \ {x} \in I
        PROVE  T \in I
    <3>1. Pick(T) \in T
      BY <2>2 DEF Pick
    <3>2. s[T] = f[Pick(T)] + s[T \ {Pick(T)}]
      BY <1>1, <2>2
    <3>3. f[Pick(T)] \in Int /\ s[T \ {Pick(T)}] \in Int
      BY <2>2, <3>1
    <3> QED
      BY <3>2, <3>3
  <2>3. \A T \in SUBSET S : T \in I
    <3> HIDE DEF I
    <3> QED
      BY <2>1, <2>2, Subsets
  <2> QED
    BY <2>3
<1>3. ASSUME NEW T \in SUBSET S, T # {}, \A x \in T : T \ {x} \in G
      PROVE  T \in G
  <2> SUFFICES ASSUME NEW x \in T PROVE s[T] = f[x] + s[T \ {x}]
    OBVIOUS
  <2> DEFINE p == Pick(T)
  <2>1. p \in T /\ s[T] = f[p] + s[T \ {p}]
    <3>1. p \in T
      BY <1>3 DEF Pick
    <3> QED
      BY <1>1, <1>3, <3>1
  <2> HIDE DEF p
  <2>2. CASE x = p
    BY <2>1, <2>2
  <2>3. CASE x # p
    <3> DEFINE U == T \ {p, x}
    <3>1. s[T \ {p}] = f[x] + s[U]
      <4>1. (T \ {p}) \ {x} = U /\ x \in T \ {p}
        BY <2>1, <2>3
      <4> QED
        BY <1>3, <2>1, <4>1
    <3>2. s[T \ {x}] = f[p] + s[U]
      <4>1. (T \ {x}) \ {p} = U /\ p \in T \ {x}
        BY <2>1, <2>3
      <4> QED
        BY <1>3, <2>1, <4>1
    <3>3. f[x] \in Int /\ f[p] \in Int /\ s[U] \in Int
      BY <1>2, <2>1
    <3> HIDE DEF U
    <3> QED
      BY <2>1, <3>1, <3>2, <3>3
  <2> QED
    BY <2>2, <2>3
<1>4. \A T \in SUBSET S : T \in G
  <2>1. {} \in G
    OBVIOUS
  <2> HIDE DEF G
  <2> QED
    BY <1>3, <2>1, Subsets
<1>5. \A T \in SUBSET S : s[T] = SumFunctionOnSet(f, T)
  BY PartialSumsNarrow DEF s
<1> QED
  BY <1>2, <1>4, <1>5
-----------------------------------------------------------------------------
(* What holds of SumFunction.                                              *)
LEMMA SumType ==
  ASSUME NEW S, IsFiniteSet(S), NEW f \in [S -> Int]
  PROVE  SumFunction(f) \in Int
  BY SumAnyOrder DEF SumFunction

(* The sum of two functions.                                               *)
LEMMA SumOfSums ==
  ASSUME NEW S, IsFiniteSet(S), NEW f \in [S -> Int], NEW g \in [S -> Int],
         NEW h \in [S -> Int], \A x \in S : h[x] = f[x] + g[x]
  PROVE  SumFunction(h) = SumFunction(f) + SumFunction(g)
<1> DEFINE G == {T \in SUBSET S : SumFunctionOnSet(h, T) =
                    SumFunctionOnSet(f, T) + SumFunctionOnSet(g, T)}
<1>1. ASSUME NEW T \in SUBSET S, T # {}, \A x \in T : T \ {x} \in G
      PROVE  T \in G
  <2>1. PICK x \in T : TRUE
    BY <1>1
  <2> DEFINE U == T \ {x}
  <2>2. IsFiniteSet(T) /\ IsFiniteSet(U)
    BY FS_Subset
  <2>3. /\ SumFunctionOnSet(h, T) = h[x] + SumFunctionOnSet(h, U)
        /\ SumFunctionOnSet(f, T) = f[x] + SumFunctionOnSet(f, U)
        /\ SumFunctionOnSet(g, T) = g[x] + SumFunctionOnSet(g, U)
    BY <2>2, SumAnyOrder
  <2>4. /\ SumFunctionOnSet(f, U) \in Int
        /\ SumFunctionOnSet(g, U) \in Int
    BY <2>2, SumAnyOrder
  <2>5. SumFunctionOnSet(h, U) = SumFunctionOnSet(f, U) + SumFunctionOnSet(g, U)
    BY <1>1
  <2>6. f[x] \in Int /\ g[x] \in Int /\ h[x] = f[x] + g[x]
    OBVIOUS
  <2> HIDE DEF U
  <2> QED
    BY <2>3, <2>4, <2>5, <2>6
<1>2. \A T \in SUBSET S : T \in G
  <2>1. {} \in G
    BY SumOnEmpty
  <2> HIDE DEF G
  <2> QED
    BY <1>1, <2>1, Subsets
<1> QED
  BY <1>2 DEF SumFunction

(* Two functions that agree on T have the same sum on T.                   *)
LEMMA SumsAgree ==
  ASSUME NEW T, IsFiniteSet(T), NEW f, NEW g,
         \A x \in T : f[x] = g[x] /\ f[x] \in Int
  PROVE  SumFunctionOnSet(f, T) = SumFunctionOnSet(g, T)
<1> DEFINE G == {U \in SUBSET T : SumFunctionOnSet(f, U) = SumFunctionOnSet(g, U)}
<1>1. ASSUME NEW U \in SUBSET T, U # {}, \A x \in U : U \ {x} \in G
      PROVE  U \in G
  <2>1. PICK x \in U : TRUE
    BY <1>1
  <2>2. IsFiniteSet(U)
    BY FS_Subset
  <2>3. /\ SumFunctionOnSet(f, U) = f[x] + SumFunctionOnSet(f, U \ {x})
        /\ SumFunctionOnSet(g, U) = g[x] + SumFunctionOnSet(g, U \ {x})
    BY <2>2, SumAnyOrder
  <2> QED
    BY <1>1, <2>3
<1>2. \A U \in SUBSET T : U \in G
  <2>1. {} \in G
    BY SumOnEmpty
  <2> HIDE DEF G
  <2> QED
    BY <1>1, <2>1, Subsets
<1> QED
  BY <1>2

(* One value changes.                                                      *)
LEMMA SumExcept ==
  ASSUME NEW S, IsFiniteSet(S), NEW f \in [S -> Int], NEW x \in S, NEW y \in Int
  PROVE  SumFunction([f EXCEPT ![x] = y]) = SumFunction(f) - f[x] + y
<1> DEFINE g == [f EXCEPT ![x] = y]
           U == S \ {x}
<1>1. g \in [S -> Int] /\ g[x] = y /\ \A u \in U : g[u] = f[u]
  OBVIOUS
<1>2. IsFiniteSet(U)
  BY FS_Subset
<1> HIDE DEF g
<1>3. SumFunction(f) = f[x] + SumFunctionOnSet(f, U)
  BY SumAnyOrder DEF SumFunction
<1>4. SumFunction(g) = y + SumFunctionOnSet(g, U)
  BY <1>1, SumAnyOrder DEF SumFunction
<1>5. SumFunctionOnSet(g, U) = SumFunctionOnSet(f, U) /\ SumFunctionOnSet(f, U) \in Int
  BY <1>1, <1>2, SumsAgree, SumAnyOrder
<1>6. f[x] \in Int
  OBVIOUS
<1> HIDE DEF U
<1>7. SumFunction(g) = SumFunction(f) - f[x] + y
  BY <1>3, <1>4, <1>5, <1>6
<1> QED
  BY <1>7 DEF g

(* A sum of zeros.                                                         *)
LEMMA SumOfZeros ==
  ASSUME NEW S, IsFiniteSet(S)
  PROVE  SumFunction([x \in S |-> 0]) = 0
<1> DEFINE z == [x \in S |-> 0]
<1>1. z \in [S -> Int] /\ \A x \in S : z[x] = z[x] + z[x]
  OBVIOUS
<1> HIDE DEF z
<1>2. SumFunction(z) \in Int /\ SumFunction(z) = SumFunction(z) + SumFunction(z)
  BY <1>1, SumType, SumOfSums
<1>3. SumFunction(z) = 0
  BY <1>2, SMTT(30)
<1> QED
  BY <1>3 DEF z
-----------------------------------------------------------------------------
(* Sequences that a search extends and shortens.                           *)
LEMMA SeqGrows ==
  ASSUME NEW S, NEW s \in Seq(S), NEW e \in S
  PROVE  /\ Append(s, e) \in Seq(S)
         /\ Len(s) \in Nat
         /\ Len(Append(s, e)) = Len(s) + 1
         /\ DOMAIN s = 1 .. Len(s)
         /\ DOMAIN Append(s, e) = 1 .. Len(s) + 1
         /\ \A i \in 1 .. Len(s) : Append(s, e)[i] = s[i]
         /\ Append(s, e)[Len(s) + 1] = e
  BY AppendProperties, LenProperties

(* A sequence that is not empty, without its last element.                 *)
LEMMA SeqShrinks ==
  ASSUME NEW S, NEW s \in Seq(S), Len(s) # 0
  PROVE  LET p == SubSeq(s, 1, Len(s) - 1) IN
         /\ p \in Seq(S)
         /\ Len(s) \in Nat \ {0}
         /\ Len(p) = Len(s) - 1
         /\ DOMAIN s = 1 .. Len(s)
         /\ DOMAIN p = 1 .. Len(s) - 1
         /\ \A i \in 1 .. Len(s) - 1 : p[i] = s[i]
         /\ s[Len(s)] \in S
<1> DEFINE p == SubSeq(s, 1, Len(s) - 1)
<1>1. Len(s) \in Nat \ {0} /\ DOMAIN s = 1 .. Len(s)
  BY LenProperties
<1>2. \A i \in 1 .. Len(s) : s[i] \in S
  BY ElementOfSeq
<1>3. /\ p \in Seq(S)
      /\ Len(p) = IF 1 <= Len(s) - 1 THEN Len(s) - 1 ELSE 0
      /\ \A i \in 1 .. Len(s) - 1 : p[i] = s[i]
  BY <1>1, <1>2
<1>4. (IF 1 <= Len(s) - 1 THEN Len(s) - 1 ELSE 0) = Len(s) - 1
  <2>1. \A n \in Nat : n # 0 => (IF 1 <= n - 1 THEN n - 1 ELSE 0) = n - 1
    OBVIOUS
  <2> QED BY <1>1, <2>1
<1> HIDE DEF p
<1>5. DOMAIN p = 1 .. Len(s) - 1
  BY <1>3, <1>4, LenProperties
<1>6. s[Len(s)] \in S
  BY <1>1, <1>2
<1> QED BY <1>1, <1>3, <1>4, <1>5, <1>6 DEF p

(* Remainders of small numbers.                                            *)
LEMMA ModBelow == \A n \in Nat \ {0} : \A a \in 0 .. n - 1 : a % n = a
  OBVIOUS

(* Remainders of the numbers just above.                                   *)
LEMMA ModAbove ==
  \A n \in Nat \ {0} : \A a \in n .. 2 * n - 1 : a % n = a - n
  OBVIOUS

(* The remainder just below zero.                                          *)
LEMMA ModNegative == \A n \in Nat \ {0} : \A a \in -n .. -1 : a % n = a + n
  OBVIOUS

(* The range of a remainder.                                               *)
LEMMA ModRange == \A n \in Nat \ {0} : \A a \in Int : a % n \in 0 .. n - 1
  OBVIOUS

(* An integer is its quotient times the divisor and the remainder.         *)
LEMMA DivMod ==
  ASSUME NEW n \in Nat \ {0}, NEW a \in Int
  PROVE  /\ a \div n \in Int
         /\ (a % n) \in 0 .. n - 1
         /\ a = n * (a \div n) + (a % n)
  OBVIOUS

(* A multiple is zero or not less than the divisor.                        *)
LEMMA MulStep ==
  ASSUME NEW n \in Nat \ {0}, NEW k \in Int
  PROVE  /\ k >= 1 => n * k >= n
         /\ k <= -1 => n * k <= -n
  OBVIOUS

(* The remainder is the only one in its range.                             *)
LEMMA ModUnique ==
  ASSUME NEW n \in Nat \ {0}, NEW q \in Int, NEW r \in 0 .. n - 1
  PROVE  ((n * q + r) % n) = r
<1> DEFINE a == n * q + r
           d == a \div n
           s == a % n
<1>1. a \in Int /\ d \in Int /\ s \in 0 .. n - 1 /\ a = n * d + s
  BY DivMod
<1>2. n * (d - q) = r - s
  BY <1>1
<1>3. d - q < 1 /\ d - q > -1
  BY <1>1, <1>2, MulStep
<1>4. d = q
  BY <1>1, <1>3
<1> QED BY <1>1, <1>2, <1>4

(* A multiple of the divisor does not change the remainder.                *)
LEMMA ModShift ==
  ASSUME NEW n \in Nat \ {0}, NEW a \in Int, NEW k \in Int
  PROVE  ((a + n * k) % n) = (a % n)
<1> DEFINE d == a \div n
           s == a % n
<1>1. d \in Int /\ s \in 0 .. n - 1 /\ a = n * d + s
  BY DivMod
<1> HIDE DEF d, s
<1>2. a + n * k = n * (d + k) + s
  BY <1>1
<1>3. ((n * (d + k) + s) % n) = s
  BY <1>1, ModUnique
<1> QED BY <1>2, <1>3 DEF s

(* The remainder of C++ is in step with the dividend, and normalised it is *)
(* that of mathematics.                                                    *)
LEMMA RemainderInStep ==
  ASSUME NEW n \in Nat \ {0}, NEW a \in Int
  PROVE  /\ Remainder(a, n) \in 1 - n .. n - 1
         /\ \E k \in Int : Remainder(a, n) = a + n * k
         /\ Normalised(a, n) = (a % n)
<1>1. CASE a >= 0
  <2> DEFINE d == a \div n
  <2>1. d \in Int /\ (a % n) \in 0 .. n - 1 /\ a = n * d + (a % n)
    BY DivMod
  <2>2. Remainder(a, n) = (a % n)
    BY <1>1 DEF Remainder
  <2> HIDE DEF d
  <2>3. (a % n) = a + n * (-d) /\ -d \in Int
    BY <2>1
  <2>4. Normalised(a, n) = (a % n)
    BY <2>1, <2>2 DEF Normalised
  <2>5. Remainder(a, n) = a + n * (-d)
    BY <2>2, <2>3
  <2>6. Remainder(a, n) \in 1 - n .. n - 1
    BY <2>1, <2>2
  <2> QED BY <2>3, <2>4, <2>5, <2>6, Zenon
<1>2. CASE a < 0
  <2> DEFINE d == (-a) \div n
             s == (-a) % n
  <2>1. -a \in Int
    OBVIOUS
  <2>2. d \in Int /\ s \in 0 .. n - 1 /\ -a = n * d + s
    BY <2>1, DivMod
  <2>3. Remainder(a, n) = -s
    BY <1>2 DEF Remainder
  <2> HIDE DEF d, s
  <2>4. \E k \in Int : Remainder(a, n) = a + n * k
    <3>1. Remainder(a, n) = a + n * d
      BY <2>2, <2>3
    <3> QED BY <2>2, <3>1, Zenon
  <2>5. Normalised(a, n) = IF -s < 0 THEN -s + n ELSE -s
    BY <2>3 DEF Normalised
  <2>6. Remainder(a, n) \in 1 - n .. n - 1
    BY <2>2, <2>3
  <2>7. CASE s = 0
    <3>1. a = n * (-d) + 0 /\ -d \in Int
      BY <2>2, <2>7
    <3>2. (a % n) = 0
      BY <3>1, ModUnique
    <3>3. Normalised(a, n) = (a % n)
      BY <2>5, <2>7, <3>2
    <3> QED BY <2>6, <2>4, <3>3, Zenon
  <2>8. CASE s # 0
    <3>1. a = n * (-d - 1) + (n - s) /\ -d - 1 \in Int /\ n - s \in 0 .. n - 1
      BY <2>2, <2>8
    <3>2. (a % n) = n - s
      BY <3>1, ModUnique
    <3>3. Normalised(a, n) = (a % n)
      BY <2>2, <2>5, <2>8, <3>2
    <3> QED BY <2>6, <2>4, <3>3, Zenon
  <2> QED BY <2>7, <2>8
<1> QED BY <1>1, <1>2

(* Normalised adds n or takes it away where needed.                        *)
LEMMA NormalisedCases ==
  ASSUME NEW n \in Nat \ {0}, NEW a \in -n .. 2 * n - 1
  PROVE  Normalised(a, n) = IF a < 0 THEN (IF a = -n THEN 0 ELSE a + n)
                            ELSE IF a < n THEN a ELSE a - n
<1>1. CASE a \in 0 .. n - 1
  <2>1. a % n = a
    BY <1>1, ModBelow
  <2> QED BY <1>1, <2>1 DEF Normalised, Remainder
<1>2. CASE a \in n .. 2 * n - 1
  <2>1. a % n = a - n
    BY <1>2, ModAbove
  <2> QED BY <1>2, <2>1 DEF Normalised, Remainder
<1>3. CASE a \in 1 - n .. -1
  <2>1. (-a) % n = -a
    BY <1>3, ModBelow
  <2> QED BY <1>3, <2>1 DEF Normalised, Remainder
<1>4. CASE a = -n
  <2>1. (-a) % n = 0
    <3>1. n % n = n - n
      BY ModAbove
    <3> QED BY <1>4, <3>1
  <2> QED BY <1>4, <2>1 DEF Normalised, Remainder
<1> QED BY <1>1, <1>2, <1>3, <1>4

(* Going forward and back by the same amount returns to the hash.          *)
LEMMA NormalisedUndo ==
  ASSUME NEW n \in Nat \ {0}, NEW h \in 0 .. n - 1, NEW d \in 1 - n .. n - 1
  PROVE  /\ Normalised(h + d, n) \in 0 .. n - 1
         /\ Normalised(Normalised(h + d, n) - d, n) = h
<1> DEFINE k == Normalised(h + d, n)
<1>1. h + d \in -n .. 2 * n - 1
  OBVIOUS
<1>2. k = IF h + d < 0 THEN h + d + n ELSE IF h + d < n THEN h + d
          ELSE h + d - n
  BY <1>1, NormalisedCases
<1>3. k \in 0 .. n - 1
  BY <1>2
<1> HIDE DEF k
<1>4. k - d \in -n .. 2 * n - 1
  BY <1>3
<1>5. Normalised(k - d, n) =
        IF k - d < 0 THEN (IF k - d = -n THEN 0 ELSE k - d + n)
        ELSE IF k - d < n THEN k - d ELSE k - d - n
  BY <1>4, NormalisedCases
<1>6. Normalised(k - d, n) = h
  BY <1>2, <1>5
<1> QED BY <1>3, <1>6 DEF k
-----------------------------------------------------------------------------
(* Tokens taken and put, then put and taken, are the same as before.       *)
LEMMA WrapCases ==
  ASSUME NEW n \in Nat \ {0}, NEW a \in 0 .. n - 1, NEW b \in 0 .. n - 1
  PROVE  /\ (a + b) % n = IF a + b < n THEN a + b ELSE a + b - n
         /\ (a - b) % n = IF a >= b THEN a - b ELSE a - b + n
<1>1. CASE a + b < n
  <2>1. a + b \in 0 .. n - 1
    BY <1>1
  <2>2. (a + b) % n = a + b
    BY <2>1, ModBelow
  <2> QED BY <1>1, <2>2
<1>2. CASE a + b >= n
  <2>1. a + b \in n .. 2 * n - 1
    BY <1>2
  <2>2. (a + b) % n = a + b - n
    BY <2>1, ModAbove
  <2> QED BY <1>2, <2>2
<1>3. CASE a >= b
  <2>1. a - b \in 0 .. n - 1
    BY <1>3
  <2>2. (a - b) % n = a - b
    BY <2>1, ModBelow
  <2> QED BY <1>3, <2>2
<1>4. CASE a < b
  <2>1. a - b \in -n .. -1
    BY <1>4
  <2>2. (a - b) % n = a - b + n
    BY <2>1, ModNegative
  <2> QED BY <1>4, <2>2
<1>5. (a + b) % n = IF a + b < n THEN a + b ELSE a + b - n
  BY <1>1, <1>2
<1>6. (a - b) % n = IF a >= b THEN a - b ELSE a - b + n
  BY <1>3, <1>4
<1> QED BY <1>5, <1>6

(* A token count that wraps around wraps back.                             *)
LEMMA WrapUndo ==
  ASSUME NEW n \in Nat \ {0}, NEW a \in 0 .. n - 1, NEW b \in 0 .. n - 1
  PROVE  /\ (a + b) % n \in 0 .. n - 1
         /\ (a - b) % n \in 0 .. n - 1
         /\ (((a + b) % n) - b) % n = a
         /\ (((a - b) % n) + b) % n = a
<1> DEFINE c == (a + b) % n
           d == (a - b) % n
<1>1. c = IF a + b < n THEN a + b ELSE a + b - n
  BY WrapCases
<1>2. d = IF a >= b THEN a - b ELSE a - b + n
  BY WrapCases
<1>3. c \in 0 .. n - 1 /\ d \in 0 .. n - 1
  BY <1>1, <1>2
<1> HIDE DEF c, d
<1>4. (c - b) % n = IF c >= b THEN c - b ELSE c - b + n
  BY <1>3, WrapCases
<1>5. (d + b) % n = IF d + b < n THEN d + b ELSE d + b - n
  BY <1>3, WrapCases
<1>6. (c - b) % n = a
  BY <1>1, <1>3, <1>4
<1>7. (d + b) % n = a
  BY <1>2, <1>3, <1>5
<1> QED BY <1>3, <1>6, <1>7 DEF c, d

(* Adding tokens and taking them away again restores the count, wrapped or *)
(* not (Transition.cc 171-181, 248-255).                                   *)
LEMMA AddSub ==
  ASSUME NEW a \in Tokens, NEW b \in Tokens
  PROVE  /\ Add(a, b) \in Tokens
         /\ Sub(a, b) \in Tokens
         /\ Sub(Add(a, b), b) = a
         /\ Add(Sub(a, b), b) = a
<1>1. TokenWidth \in Nat \ {0} /\ a \in 0 .. TokenWidth - 1
      /\ b \in 0 .. TokenWidth - 1
  BY Net DEF NetAssumption, Tokens
<1> QED BY <1>1, WrapUndo DEF Add, Sub, Tokens

(* A place that is not in a delta list keeps its count.                    *)
LEMMA AddSubZero ==
  ASSUME NEW a \in Tokens
  PROVE  Add(a, 0) = a /\ Sub(a, 0) = a
<1>1. TokenWidth \in Nat \ {0} /\ a \in 0 .. TokenWidth - 1
  BY Net DEF NetAssumption, Tokens
<1>2. a % TokenWidth = a
  BY <1>1, ModBelow
<1> QED BY <1>1, <1>2 DEF Add, Sub

(* Deltas are token counts.                                                *)
LEMMA DeltaTokens ==
  ASSUME NEW t \in Transition, NEW p \in Place
  PROVE  DeltaPre(t, p) \in Tokens /\ DeltaPost(t, p) \in Tokens
<1>1. Pre[t][p] \in Tokens /\ Post[t][p] \in Tokens
  BY Net DEF NetAssumption
<1> QED BY <1>1, Net DEF NetAssumption, Tokens, DeltaPre, DeltaPost

(* The weights that a hash sums up, and their sum.                         *)
Weights(m) == [p \in Place |-> Hash[p] * m[p]]

HashSum(m) == SumFunction(Weights(m))

LEMMA WeightsType ==
  ASSUME NEW m \in [Place -> Nat]
  PROVE  /\ Weights(m) \in [Place -> Int]
         /\ HashSum(m) \in Int
         /\ HashOf(m) = (HashSum(m) % SIZEOF_MARKINGTABLE)
<1>1. ASSUME NEW p \in Place PROVE Hash[p] * m[p] \in Int
  <2>1. Hash[p] \in Nat /\ m[p] \in Nat
    BY Net DEF NetAssumption
  <2> QED BY <2>1
<1>2. Weights(m) \in [Place -> Int]
  BY <1>1 DEF Weights
<1>3. HashSum(m) \in Int
  BY <1>2, Net, SumType DEF HashSum, NetAssumption
<1> QED BY <1>2, <1>3 DEF HashOf, HashSum, Weights

(* The tables of a transition, as markings.                                *)
Given(t) == [p \in Place |-> DeltaPost(t, p)]
Used(t) == [p \in Place |-> DeltaPre(t, p)]

LEMMA DeltaType ==
  ASSUME NEW t \in Transition
  PROVE  /\ Given(t) \in [Place -> Nat] /\ Used(t) \in [Place -> Nat]
         /\ DeltaHash[t] = Remainder(HashSum(Given(t)) - HashSum(Used(t)),
                                     SIZEOF_MARKINGTABLE)
<1>1. ASSUME NEW p \in Place PROVE DeltaPost(t, p) \in Nat /\ DeltaPre(t, p) \in Nat
  <2>1. Pre[t][p] \in Nat /\ Post[t][p] \in Nat
    BY Net DEF NetAssumption, Tokens
  <2> QED BY <2>1 DEF DeltaPre, DeltaPost
<1>2. Given(t) \in [Place -> Nat] /\ Used(t) \in [Place -> Nat]
  BY <1>1 DEF Given, Used
<1>3. /\ Weights(Given(t)) = [p \in Place |-> Hash[p] * DeltaPost(t, p)]
      /\ Weights(Used(t)) = [p \in Place |-> Hash[p] * DeltaPre(t, p)]
  BY DEF Weights, Given, Used
<1> QED BY <1>2, <1>3 DEF DeltaHash, HashSum

(* Transition::DeltaHash and the hash of an initial marking lie in the     *)
(* range of the table.                                                     *)
LEMMA HashTables ==
  /\ DeltaHash \in [Transition -> 1 - SIZEOF_MARKINGTABLE ..
                                    SIZEOF_MARKINGTABLE - 1]
  /\ \A m \in [Place -> Tokens] : HashOf(m) \in 0 .. SIZEOF_MARKINGTABLE - 1
<1> DEFINE w == SIZEOF_MARKINGTABLE
<1>1. w \in Nat \ {0}
  BY Net DEF NetAssumption
<1>2. ASSUME NEW m \in [Place -> Tokens]
      PROVE  HashOf(m) \in 0 .. w - 1
  <2>1. m \in [Place -> Nat]
    BY DEF Tokens
  <2> QED BY <1>1, <2>1, WeightsType, ModRange
<1>3. ASSUME NEW t \in Transition PROVE DeltaHash[t] \in 1 - w .. w - 1
  <2>1. /\ HashSum(Given(t)) \in Int /\ HashSum(Used(t)) \in Int
        /\ DeltaHash[t] = Remainder(HashSum(Given(t)) - HashSum(Used(t)), w)
    BY DeltaType, WeightsType
  <2>2. HashSum(Given(t)) - HashSum(Used(t)) \in Int
    BY <2>1
  <2> QED BY <1>1, <2>1, <2>2, RemainderInStep
<1>4. DeltaHash = [t \in Transition |-> DeltaHash[t]]
  BY DEF DeltaHash
<1> HIDE DEF w
<1>5. DeltaHash \in [Transition -> 1 - w .. w - 1]
  BY <1>3, <1>4
<1> QED BY <1>2, <1>5 DEF w

(* Transition::fire: adding the tabulated difference to the hash of a      *)
(* marking gives the hash of the marking that the differences lead to.     *)
LEMMA HashStep ==
  ASSUME NEW t \in Transition, NEW m \in [Place -> Nat], NEW k \in [Place -> Nat],
         \A p \in Place : k[p] + DeltaPre(t, p) = m[p] + DeltaPost(t, p)
  PROVE  Normalised(HashOf(m) + DeltaHash[t], SIZEOF_MARKINGTABLE) = HashOf(k)
<1> DEFINE w == SIZEOF_MARKINGTABLE
           a == HashSum(m)
           b == HashSum(k)
           g == HashSum(Given(t))
           x == HashSum(Used(t))
<1>1. w \in Nat \ {0} /\ IsFiniteSet(Place)
  BY Net DEF NetAssumption
<1>2. a \in Int /\ b \in Int /\ g \in Int /\ x \in Int
  BY WeightsType, DeltaType
<1>3. HashOf(m) = (a % w) /\ HashOf(k) = (b % w)
  BY WeightsType
<1>4. b + x = a + g
  <2> DEFINE sum == [p \in Place |-> Weights(k)[p] + Weights(Used(t))[p]]
  <2>1. /\ Weights(k) \in [Place -> Int] /\ Weights(Used(t)) \in [Place -> Int]
        /\ Weights(m) \in [Place -> Int] /\ Weights(Given(t)) \in [Place -> Int]
    BY WeightsType, DeltaType
  <2>2. sum \in [Place -> Int] /\ \A p \in Place :
           sum[p] = Weights(k)[p] + Weights(Used(t))[p]
    BY <2>1
  <2>3. ASSUME NEW p \in Place
        PROVE  sum[p] = Weights(m)[p] + Weights(Given(t))[p]
    <3> DEFINE h == Hash[p]
    <3>1. /\ h \in Int /\ k[p] \in Int /\ m[p] \in Int
          /\ DeltaPre(t, p) \in Int /\ DeltaPost(t, p) \in Int
      BY Net, DeltaTokens DEF NetAssumption, Tokens
    <3>2. /\ Weights(k)[p] = h * k[p] /\ Weights(Used(t))[p] = h * DeltaPre(t, p)
          /\ Weights(m)[p] = h * m[p] /\ Weights(Given(t))[p] = h * DeltaPost(t, p)
      BY DEF Weights, Given, Used
    <3>3. sum[p] = h * k[p] + h * DeltaPre(t, p)
      BY <2>2, <3>2
    <3> HIDE DEF h, sum
    <3>4. h * k[p] + h * DeltaPre(t, p) = h * (k[p] + DeltaPre(t, p))
      BY <3>1
    <3>5. h * (m[p] + DeltaPost(t, p)) = h * m[p] + h * DeltaPost(t, p)
      BY <3>1
    <3> QED BY <3>2, <3>3, <3>4, <3>5
  <2> HIDE DEF sum
  <2>4. SumFunction(sum) = b + x
    BY <1>1, <2>1, <2>2, SumOfSums DEF HashSum
  <2>5. SumFunction(sum) = a + g
    BY <1>1, <2>1, <2>2, <2>3, SumOfSums DEF HashSum
  <2> QED BY <2>4, <2>5
<1>5. DeltaHash[t] = Remainder(g - x, w)
  BY DeltaType
<1> HIDE DEF a, b, g, x, w
<1>6. g - x \in Int
  BY <1>2
<1>7. PICK i \in Int : DeltaHash[t] = (g - x) + w * i
  BY <1>1, <1>5, <1>6, RemainderInStep
<1>8. PICK j \in Int : HashOf(m) = a + w * j
  <2> DEFINE d == a \div w
  <2>1. d \in Int /\ (a % w) \in Int /\ a = w * d + (a % w)
    BY <1>1, <1>2, DivMod
  <2> HIDE DEF d
  <2>2. (a % w) = a + w * (-d) /\ -d \in Int
    BY <1>1, <1>2, <2>1
  <2> QED BY <1>3, <2>2, Zenon
<1>9. HashOf(m) + DeltaHash[t] = b + w * (i + j) /\ i + j \in Int
  <2>1. w * i \in Int /\ w * j \in Int /\ w * (i + j) = w * i + w * j
    BY <1>1
  <2>2. HashOf(m) + DeltaHash[t] = (a + w * j) + ((g - x) + w * i)
    BY <1>7, <1>8
  <2> QED BY <1>2, <1>4, <2>1, <2>2
<1>10. (b + w * (i + j)) % w = (b % w)
  BY <1>1, <1>2, <1>9, ModShift
<1>11. b + w * (i + j) \in Int
  BY <1>1, <1>2, <1>9
<1>12. Normalised(b + w * (i + j), w) = (b + w * (i + j)) % w
  BY <1>1, <1>11, RemainderInStep
<1> QED BY <1>3, <1>9, <1>10, <1>12 DEF w

(* Firing keeps the type; the enabledness is left alone.                   *)
LEMMA FireType ==
  ASSUME NEW n \in NetStateType, NEW t \in Transition
  PROVE  /\ Fire(n, t) \in NetStateType
         /\ Fire(n, t).Enabled = n.Enabled
         /\ Fire(n, t).CardEnabled = n.CardEnabled
<1> DEFINE c == [p \in Place |-> Add(Sub(n.Current[p], DeltaPre(t, p)),
                                     DeltaPost(t, p))]
           h == Normalised(n.HashCurrent + DeltaHash[t], SIZEOF_MARKINGTABLE)
<1>1. c \in [Place -> Tokens]
  BY DeltaTokens, AddSub DEF NetStateType
<1>2. h \in 0 .. SIZEOF_MARKINGTABLE - 1
  BY Net, HashTables, NormalisedUndo
     DEF NetAssumption, NetStateType
<1>3. Fire(n, t) = [n EXCEPT !.Current = c, !.HashCurrent = h]
  BY DEF Fire
<1> HIDE DEF c, h
<1> QED BY <1>1, <1>2, <1>3 DEF NetStateType

(* Transition::backfire undoes Transition::fire.                           *)
LEMMA BackfireUndoesFire ==
  ASSUME NEW n \in NetStateType, NEW t \in Transition, NEW k \in NetStateType,
         k.Current = Fire(n, t).Current,
         k.HashCurrent = Fire(n, t).HashCurrent
  PROVE  /\ Backfire(k, t) \in NetStateType
         /\ Backfire(k, t).Current = n.Current
         /\ Backfire(k, t).HashCurrent = n.HashCurrent
         /\ Backfire(k, t).Enabled = k.Enabled
         /\ Backfire(k, t).CardEnabled = k.CardEnabled
<1>1. k.Current = [p \in Place |-> Add(Sub(n.Current[p], DeltaPre(t, p)),
                                       DeltaPost(t, p))]
  BY DEF Fire, NetStateType
<1>2. k.HashCurrent = Normalised(n.HashCurrent + DeltaHash[t],
                                 SIZEOF_MARKINGTABLE)
  BY DEF Fire, NetStateType
<1>3. ASSUME NEW p \in Place
      PROVE  Sub(Add(k.Current[p], DeltaPre(t, p)), DeltaPost(t, p))
               = n.Current[p]
  <2> DEFINE a == n.Current[p]
             b == DeltaPre(t, p)
             d == DeltaPost(t, p)
  <2>1. a \in Tokens /\ b \in Tokens /\ d \in Tokens
    BY DeltaTokens DEF NetStateType
  <2>2. k.Current[p] = Add(Sub(a, b), d)
    BY <1>1
  <2> HIDE DEF a, b, d
  <2>3. b = 0 \/ d = 0
    BY Net DEF NetAssumption, DeltaPre, DeltaPost, Tokens, b, d
  <2>4. Sub(a, b) \in Tokens
    BY <2>1, AddSub
  <2>5. CASE d = 0
    <3>1. Add(Sub(a, b), d) = Sub(a, b)
      BY <2>4, <2>5, AddSubZero
    <3>2. Add(Sub(a, b), b) = a
      BY <2>1, AddSub
    <3> QED BY <2>1, <2>2, <2>5, <3>1, <3>2, AddSubZero DEF a, b, d
  <2>6. CASE b = 0
    <3>1. Add(Sub(a, b), d) = Add(a, d)
      BY <2>1, <2>6, AddSubZero
    <3>2. Sub(Add(a, d), d) = a /\ Add(a, d) \in Tokens
      BY <2>1, AddSub
    <3> QED BY <2>2, <2>6, <3>1, <3>2, AddSubZero DEF a, b, d
  <2> QED BY <2>3, <2>5, <2>6
<1>4. Normalised(k.HashCurrent - DeltaHash[t], SIZEOF_MARKINGTABLE)
        = n.HashCurrent
  BY <1>2, Net, HashTables, NormalisedUndo
     DEF NetAssumption, NetStateType
<1>5. n.Current = [p \in Place |-> n.Current[p]]
  BY DEF NetStateType
<1>6. [p \in Place |-> Sub(Add(k.Current[p], DeltaPre(t, p)),
                           DeltaPost(t, p))] = n.Current
  BY <1>3, <1>5
<1>7. Backfire(k, t) = [k EXCEPT !.Current = n.Current,
                                 !.HashCurrent = n.HashCurrent]
  BY <1>4, <1>6 DEF Backfire
<1> QED BY <1>7 DEF NetStateType
-----------------------------------------------------------------------------
(* There are CardTransition transitions.                                   *)
LEMMA TransitionFinite ==
  /\ IsFiniteSet(Transition)
  /\ Cardinality(Transition) = CardTransition
<1>1. CardTransition \in Nat
  BY Net DEF NetAssumption
<1>2. /\ IsFiniteSet(0 .. CardTransition - 1)
      /\ Cardinality(0 .. CardTransition - 1) =
           IF 0 > CardTransition - 1 THEN 0 ELSE CardTransition - 1 - 0 + 1
  BY <1>1, FS_Interval
<1> QED BY <1>1, <1>2 DEF Transition

(* A set of transitions is finite, and counted by no more than             *)
(* CardTransition.                                                         *)
LEMMA PartOfTransitions ==
  ASSUME NEW S \in SUBSET Transition
  PROVE  IsFiniteSet(S) /\ Cardinality(S) \in 0 .. CardTransition
<1>1. IsFiniteSet(S) /\ Cardinality(S) <= Cardinality(Transition)
  BY TransitionFinite, FS_Subset
<1>2. Cardinality(S) \in Nat
  BY <1>1, FS_CardinalityType
<1>3. CardTransition \in Nat
  BY Net DEF NetAssumption
<1> QED BY <1>1, <1>2, <1>3, TransitionFinite

(* checkEnabled sets the flags of the transitions it is called for and     *)
(* counts what it changes.                                                 *)
LEMMA CheckEnabledExact ==
  ASSUME NEW n \in NetStateType, Counted(n), NEW S \in SUBSET Transition
  PROVE  LET c == CheckEnabled(n, S) IN
         /\ c \in NetStateType
         /\ Counted(c)
         /\ c.Current = n.Current
         /\ c.HashCurrent = n.HashCurrent
         /\ \A t \in S : c.Enabled[t] <=> Activated(n.Current, t)
         /\ \A t \in Transition \ S : c.Enabled[t] = n.Enabled[t]
<1> DEFINE D == {t \in S : n.Enabled[t] /\ ~Activated(n.Current, t)}
           U == {t \in S : ~n.Enabled[t] /\ Activated(n.Current, t)}
           e == [t \in Transition |-> t \in U \/ (n.Enabled[t] /\ t \notin D)]
           k == n.CardEnabled - Cardinality(D) + Cardinality(U)
           c == CheckEnabled(n, S)
<1>1. c = [n EXCEPT !.Enabled = e, !.CardEnabled = k]
  BY DEF CheckEnabled
<1>2. e \in [Transition -> BOOLEAN]
  OBVIOUS
<1>3. {t \in Transition : e[t]} = (Flagged(n) \ D) \cup U
  BY DEF Flagged
<1>4. k = Cardinality((Flagged(n) \ D) \cup U)
  <2>1. /\ Flagged(n) \in SUBSET Transition
        /\ D \in SUBSET Transition
        /\ U \in SUBSET Transition
        /\ Flagged(n) \ D \in SUBSET Transition
    BY DEF Flagged
  <2>2. /\ IsFiniteSet(Flagged(n)) /\ Cardinality(Flagged(n)) \in Int
        /\ Cardinality(D) \in Int
        /\ IsFiniteSet(U) /\ Cardinality(U) \in Int
        /\ IsFiniteSet(Flagged(n) \ D) /\ Cardinality(Flagged(n) \ D) \in Int
    BY <2>1, PartOfTransitions
  <2>3. Flagged(n) \cap D = D
    BY DEF Flagged
  <2>4. Cardinality(Flagged(n) \ D) = Cardinality(Flagged(n)) - Cardinality(D)
    BY <2>2, <2>3, FS_Difference
  <2>5. (Flagged(n) \ D) \cap U = {}
    BY DEF Flagged
  <2>6. Cardinality((Flagged(n) \ D) \cup U)
          = Cardinality(Flagged(n) \ D) + Cardinality(U)
    <3>1. Cardinality((Flagged(n) \ D) \cup U)
            = Cardinality(Flagged(n) \ D) + Cardinality(U) - Cardinality({})
      BY <2>2, <2>5, FS_Union
    <3> QED BY <2>2, <3>1, FS_EmptySet
  <2>7. n.CardEnabled = Cardinality(Flagged(n))
    BY DEF Counted
  <2> HIDE DEF D, U
  <2> QED BY <2>2, <2>4, <2>6, <2>7
<1>5. k \in 0 .. CardTransition
  <2>1. (Flagged(n) \ D) \cup U \in SUBSET Transition
    BY DEF Flagged
  <2> HIDE DEF D, U, k
  <2> QED BY <1>4, <2>1, PartOfTransitions
<1>6. \A t \in S : e[t] <=> Activated(n.Current, t)
  OBVIOUS
<1>7. \A t \in Transition \ S : e[t] = n.Enabled[t]
  BY DEF NetStateType
<1> HIDE DEF D, U, e, k, c
<1>8. /\ c \in NetStateType
      /\ c.Current = n.Current /\ c.HashCurrent = n.HashCurrent
      /\ c.Enabled = e /\ c.CardEnabled = k
  BY <1>1, <1>2, <1>5 DEF NetStateType
<1>9. Counted(c)
  BY <1>3, <1>4, <1>8 DEF Counted, Flagged
<1>10. CheckEnabled(n, S) = c
  BY DEF c
<1> QED BY <1>6, <1>7, <1>8, <1>9, <1>10

(* The net state preprocessing leaves is exact (Net.cc 1745-1759).         *)
LEMMA InitialExact ==
  ASSUME NEW m \in [Place -> Tokens]
  PROVE  /\ InitialNetState(m) \in NetStateType
         /\ EnabledExact(InitialNetState(m))
         /\ InitialNetState(m).Current = m
         /\ InitialNetState(m).HashCurrent = HashOf(m)
<1> DEFINE n == [Current |-> m,
                 HashCurrent |-> HashOf(m),
                 Enabled |-> [t \in Transition |-> TRUE],
                 CardEnabled |-> CardTransition]
<1>1. n \in NetStateType
  BY Net, HashTables DEF NetAssumption, NetStateType
<1>2. Flagged(n) = Transition
  BY DEF Flagged
<1>3. Counted(n)
  BY <1>2, TransitionFinite DEF Counted
<1>4. InitialNetState(m) = CheckEnabled(n, Transition)
  BY DEF InitialNetState
<1>5. n.Current = m /\ n.HashCurrent = HashOf(m)
  OBVIOUS
<1> HIDE DEF n
<1>6. Transition \in SUBSET Transition
  OBVIOUS
<1>7. LET c == CheckEnabled(n, Transition) IN
      /\ c \in NetStateType
      /\ Counted(c)
      /\ c.Current = n.Current
      /\ c.HashCurrent = n.HashCurrent
      /\ \A t \in Transition : c.Enabled[t] <=> Activated(n.Current, t)
  BY <1>1, <1>3, <1>6, CheckEnabledExact
<1> QED BY <1>4, <1>5, <1>7 DEF EnabledExact, Flagged, EnabledSet
-----------------------------------------------------------------------------
(* Without an overflow, firing is the token game.                          *)
LEMMA FireIsTokenGame ==
  ASSUME NEW n \in NetStateType, NEW t \in Transition,
         Activated(n.Current, t), ~Overflows(n.Current, t)
  PROVE  /\ Fire(n, t).Current = MarkingAfter(n.Current, t)
         /\ MarkingAfter(n.Current, t) \in [Place -> Tokens]
<1>1. ASSUME NEW p \in Place
      PROVE  LET m == n.Current[p] IN
             /\ Add(Sub(m, DeltaPre(t, p)), DeltaPost(t, p))
                  = m - Pre[t][p] + Post[t][p]
             /\ m - Pre[t][p] + Post[t][p] \in Tokens
  <2> DEFINE m == n.Current[p]
             b == DeltaPre(t, p)
             d == DeltaPost(t, p)
             w == TokenWidth
  <2>1. w \in Nat \ {0} /\ m \in 0 .. w - 1 /\ b \in 0 .. w - 1
        /\ d \in 0 .. w - 1
    BY DeltaTokens, Net DEF NetAssumption, NetStateType, Tokens
  <2>2. Pre[t][p] \in Nat /\ Post[t][p] \in Nat /\ m >= Pre[t][p]
    BY Net DEF NetAssumption, Tokens, Activated
  <2>3. m - b + d = m - Pre[t][p] + Post[t][p] /\ m >= b
    BY <2>1, <2>2 DEF DeltaPre, DeltaPost
  <2>4. m - b + d < w
    BY <2>1 DEF Overflows
  <2> HIDE DEF m, b, d, w
  <2>5. (m - b) % w = m - b
    BY <2>1, <2>3, WrapCases
  <2>6. m - b \in 0 .. w - 1
    BY <2>1, <2>3
  <2>7. ((m - b) + d) % w = IF (m - b) + d < w THEN (m - b) + d
                            ELSE (m - b) + d - w
    BY <2>1, <2>6, WrapCases
  <2>8. ((m - b) + d) % w = m - b + d
    BY <2>4, <2>7
  <2>9. m - b + d \in 0 .. w - 1
    BY <2>1, <2>4, <2>6
  <2> QED BY <2>3, <2>5, <2>8, <2>9 DEF Add, Sub, Tokens, m, b, d, w
<1>2. Fire(n, t).Current = [p \in Place |-> Add(Sub(n.Current[p],
                              DeltaPre(t, p)), DeltaPost(t, p))]
  BY DEF Fire, NetStateType
<1> QED BY <1>1, <1>2 DEF MarkingAfter

(* Without an overflow, firing keeps the hash that of the marking.         *)
LEMMA FireHashExact ==
  ASSUME NEW n \in NetStateType, NEW t \in Transition,
         Activated(n.Current, t), ~Overflows(n.Current, t),
         n.HashCurrent = HashOf(n.Current)
  PROVE  Fire(n, t).HashCurrent = HashOf(Fire(n, t).Current)
<1> DEFINE m == n.Current
           k == MarkingAfter(m, t)
<1>1. Fire(n, t).Current = k /\ k \in [Place -> Nat] /\ m \in [Place -> Nat]
  <2>1. k \in [Place -> Tokens] /\ m \in [Place -> Tokens]
    BY FireIsTokenGame DEF NetStateType
  <2>2. Tokens \subseteq Nat
    BY Net DEF NetAssumption, Tokens
  <2>3. k \in [Place -> Nat] /\ m \in [Place -> Nat]
    BY <2>1, <2>2
  <2> QED BY <2>3, FireIsTokenGame
<1>2. ASSUME NEW p \in Place
      PROVE  k[p] + DeltaPre(t, p) = m[p] + DeltaPost(t, p)
  <2>1. /\ Pre[t][p] \in Int /\ Post[t][p] \in Int /\ m[p] \in Int
        /\ k[p] = m[p] - Pre[t][p] + Post[t][p]
    BY <1>1, Net DEF NetAssumption, Tokens, MarkingAfter
  <2> HIDE DEF k, m
  <2> QED BY <2>1 DEF DeltaPre, DeltaPost
<1>3. Fire(n, t).HashCurrent = Normalised(HashOf(m) + DeltaHash[t],
                                          SIZEOF_MARKINGTABLE)
  BY DEF Fire, NetStateType
<1> HIDE DEF k, m
<1> QED BY <1>1, <1>2, <1>3, HashStep

(* Transition::updateEnabled: what it does not check has not changed.      *)
LEMMA UpdateEnabledExact ==
  ASSUME NEW n \in NetStateType, EnabledExact(n), NEW t \in Transition,
         NEW k \in NetStateType, k.Current = MarkingAfter(n.Current, t),
         k.Enabled = n.Enabled, k.CardEnabled = n.CardEnabled
  PROVE  LET c == UpdateEnabled(k, t) IN
         /\ c \in NetStateType
         /\ EnabledExact(c)
         /\ c.Current = k.Current
         /\ c.HashCurrent = k.HashCurrent
<1> DEFINE S1 == {u \in Conflicting[t] : k.Enabled[u]}
           first == CheckEnabled(k, S1)
           S2 == {u \in BackConflicting[t] : ~first.Enabled[u]}
           c == CheckEnabled(first, S2)
<1>1. Conflicting[t] \in SUBSET Transition
      /\ BackConflicting[t] \in SUBSET Transition
  BY DEF Conflicting, BackConflicting, Consumers
<1>2. Counted(k)
  BY DEF EnabledExact, Counted, Flagged
<1>3. S1 \in SUBSET Transition
  BY <1>1
<1>4. /\ first \in NetStateType /\ Counted(first)
      /\ first.Current = k.Current /\ first.HashCurrent = k.HashCurrent
      /\ \A u \in S1 : first.Enabled[u] <=> Activated(k.Current, u)
      /\ \A u \in Transition \ S1 : first.Enabled[u] = k.Enabled[u]
  <2> HIDE DEF S1
  <2> QED BY <1>2, <1>3, CheckEnabledExact
<1>5. S2 \in SUBSET Transition
  BY <1>1
<1>6. /\ c \in NetStateType /\ Counted(c)
      /\ c.Current = first.Current /\ c.HashCurrent = first.HashCurrent
      /\ \A u \in S2 : c.Enabled[u] <=> Activated(first.Current, u)
      /\ \A u \in Transition \ S2 : c.Enabled[u] = first.Enabled[u]
  <2> HIDE DEF S2, first
  <2> QED BY <1>4, <1>5, CheckEnabledExact
<1> HIDE DEF first, c
<1>7. ASSUME NEW u \in Transition
      PROVE  c.Enabled[u] <=> Activated(k.Current, u)
  <2>1. n.Enabled[u] <=> Activated(n.Current, u)
    BY DEF EnabledExact, Flagged, EnabledSet
  <2>2. \A p \in Place : /\ Pre[t][p] \in Nat /\ Post[t][p] \in Nat
                         /\ Pre[u][p] \in Nat /\ n.Current[p] \in Nat
    BY Net DEF NetAssumption, NetStateType, Tokens
  <2>3. \A p \in Place : k.Current[p] = n.Current[p] - Pre[t][p] + Post[t][p]
    BY DEF MarkingAfter
  <2>4. CASE u \in S1 /\ u \notin S2
    BY <1>4, <1>6, <2>4
  <2>5. CASE u \in S2
    BY <1>4, <1>6, <2>5
  <2>6. CASE u \notin S1 /\ u \notin S2 /\ n.Enabled[u]
    <3>1. c.Enabled[u]
      BY <1>4, <1>6, <2>6
    <3>2. u \notin Conflicting[t]
      BY <2>6
    <3>3. ASSUME NEW p \in Place PROVE k.Current[p] >= Pre[u][p]
      <4>1. Pre[u][p] > 0 => Pre[t][p] = 0
        BY <2>2, <3>2 DEF Conflicting, Consumers
      <4>2. n.Current[p] >= Pre[u][p]
        BY <2>1, <2>6 DEF Activated
      <4>3. k.Current[p] \in Nat
        BY DEF NetStateType, Tokens
      <4> QED BY <2>2, <2>3, <4>1, <4>2, <4>3
    <3> QED BY <3>1, <3>3 DEF Activated
  <2>7. CASE u \notin S1 /\ u \notin S2 /\ ~n.Enabled[u]
    <3>1. ~first.Enabled[u] /\ ~c.Enabled[u]
      BY <1>4, <1>6, <2>7
    <3>2. u \notin BackConflicting[t]
      BY <2>7, <3>1
    <3>3. PICK p \in Place : ~(n.Current[p] >= Pre[u][p])
      BY <2>1, <2>7 DEF Activated
    <3>4. Post[t][p] = 0
      BY <2>2, <3>2, <3>3 DEF BackConflicting, Consumers
    <3>5. ~(k.Current[p] >= Pre[u][p])
      BY <2>2, <2>3, <3>3, <3>4
    <3> QED BY <3>1, <3>5 DEF Activated
  <2> QED BY <2>4, <2>5, <2>6, <2>7
<1>8. c.Current = k.Current
  BY <1>4, <1>6
<1>9. EnabledExact(c)
  BY <1>6, <1>7, <1>8 DEF EnabledExact, Flagged, EnabledSet
<1>10. UpdateEnabled(k, t) = c
  BY DEF UpdateEnabled, c, first
<1> QED BY <1>4, <1>6, <1>8, <1>9, <1>10

(* Transition::revertEnabled: k is the state after t, b the same with the  *)
(* marking from before t.                                                  *)
LEMMA RevertEnabledExact ==
  ASSUME NEW k \in NetStateType, EnabledExact(k), NEW t \in Transition,
         NEW b \in NetStateType, k.Current = MarkingAfter(b.Current, t),
         b.Enabled = k.Enabled, b.CardEnabled = k.CardEnabled
  PROVE  LET c == RevertEnabled(b, t) IN
         /\ c \in NetStateType
         /\ EnabledExact(c)
         /\ c.Current = b.Current
         /\ c.HashCurrent = b.HashCurrent
<1> DEFINE S1 == {u \in BackConflicting[t] : b.Enabled[u]}
           first == CheckEnabled(b, S1)
           S2 == {u \in Conflicting[t] : ~first.Enabled[u]}
           c == CheckEnabled(first, S2)
<1>1. Conflicting[t] \in SUBSET Transition
      /\ BackConflicting[t] \in SUBSET Transition
  BY DEF Conflicting, BackConflicting, Consumers
<1>2. Counted(b)
  BY DEF EnabledExact, Counted, Flagged
<1>3. S1 \in SUBSET Transition
  BY <1>1
<1>4. /\ first \in NetStateType /\ Counted(first)
      /\ first.Current = b.Current /\ first.HashCurrent = b.HashCurrent
      /\ \A u \in S1 : first.Enabled[u] <=> Activated(b.Current, u)
      /\ \A u \in Transition \ S1 : first.Enabled[u] = b.Enabled[u]
  <2> HIDE DEF S1
  <2> QED BY <1>2, <1>3, CheckEnabledExact
<1>5. S2 \in SUBSET Transition
  BY <1>1
<1>6. /\ c \in NetStateType /\ Counted(c)
      /\ c.Current = first.Current /\ c.HashCurrent = first.HashCurrent
      /\ \A u \in S2 : c.Enabled[u] <=> Activated(first.Current, u)
      /\ \A u \in Transition \ S2 : c.Enabled[u] = first.Enabled[u]
  <2> HIDE DEF S2, first
  <2> QED BY <1>4, <1>5, CheckEnabledExact
<1> HIDE DEF first, c
<1>7. ASSUME NEW u \in Transition
      PROVE  c.Enabled[u] <=> Activated(b.Current, u)
  <2>1. k.Enabled[u] <=> Activated(k.Current, u)
    BY DEF EnabledExact, Flagged, EnabledSet
  <2>2. \A p \in Place : /\ Pre[t][p] \in Nat /\ Post[t][p] \in Nat
                         /\ Pre[u][p] \in Nat /\ b.Current[p] \in Nat
    BY Net DEF NetAssumption, NetStateType, Tokens
  <2>3. \A p \in Place : k.Current[p] = b.Current[p] - Pre[t][p] + Post[t][p]
    BY DEF MarkingAfter
  <2>4. CASE u \in S1 /\ u \notin S2
    BY <1>4, <1>6, <2>4
  <2>5. CASE u \in S2
    BY <1>4, <1>6, <2>5
  <2>6. CASE u \notin S1 /\ u \notin S2 /\ b.Enabled[u]
    <3>1. c.Enabled[u]
      BY <1>4, <1>6, <2>6
    <3>2. u \notin BackConflicting[t]
      BY <2>6
    <3>3. ASSUME NEW p \in Place PROVE b.Current[p] >= Pre[u][p]
      <4>1. Pre[u][p] > 0 => Post[t][p] = 0
        BY <2>2, <3>2 DEF BackConflicting, Consumers
      <4>2. k.Current[p] >= Pre[u][p]
        BY <2>1, <2>6 DEF Activated
      <4> QED BY <2>2, <2>3, <4>1, <4>2
    <3> QED BY <3>1, <3>3 DEF Activated
  <2>7. CASE u \notin S1 /\ u \notin S2 /\ ~b.Enabled[u]
    <3>1. ~first.Enabled[u] /\ ~c.Enabled[u]
      BY <1>4, <1>6, <2>7
    <3>2. u \notin Conflicting[t]
      BY <2>7, <3>1
    <3>3. PICK p \in Place : ~(k.Current[p] >= Pre[u][p])
      BY <2>1, <2>7 DEF Activated
    <3>4. k.Current[p] \in Nat
      BY DEF NetStateType, Tokens
    <3>5. Pre[t][p] = 0
      BY <2>2, <3>2, <3>3, <3>4 DEF Conflicting, Consumers
    <3>6. ~(b.Current[p] >= Pre[u][p])
      BY <2>2, <2>3, <3>3, <3>5
    <3> QED BY <3>1, <3>6 DEF Activated
  <2> QED BY <2>4, <2>5, <2>6, <2>7
<1>8. c.Current = b.Current
  BY <1>4, <1>6
<1>9. EnabledExact(c)
  BY <1>6, <1>7, <1>8 DEF EnabledExact, Flagged, EnabledSet
<1>10. RevertEnabled(b, t) = c
  BY DEF RevertEnabled, c, first
<1> QED BY <1>4, <1>6, <1>8, <1>9, <1>10

(* Undoing a step keeps the type, whatever state it is applied to.         *)
LEMMA BackfireType ==
  ASSUME NEW n \in NetStateType, NEW t \in Transition
  PROVE  /\ Backfire(n, t) \in NetStateType
         /\ Backfire(n, t).Enabled = n.Enabled
         /\ Backfire(n, t).CardEnabled = n.CardEnabled
<1> DEFINE c == [p \in Place |-> Sub(Add(n.Current[p], DeltaPre(t, p)),
                                     DeltaPost(t, p))]
           h == Normalised(n.HashCurrent - DeltaHash[t], SIZEOF_MARKINGTABLE)
<1>1. c \in [Place -> Tokens]
  BY DeltaTokens, AddSub DEF NetStateType
<1>2. h \in 0 .. SIZEOF_MARKINGTABLE - 1
  <2> DEFINE w == SIZEOF_MARKINGTABLE
             a == n.HashCurrent - DeltaHash[t]
  <2>1. /\ w \in Nat \ {0} /\ n.HashCurrent \in 0 .. w - 1
        /\ DeltaHash[t] \in 1 - w .. w - 1
    BY Net, HashTables DEF NetAssumption, NetStateType
  <2>2. a \in -w .. 2 * w - 1
    BY <2>1
  <2> HIDE DEF a, w
  <2>3. Normalised(a, w) = IF a < 0 THEN (IF a = -w THEN 0 ELSE a + w)
                           ELSE IF a < w THEN a ELSE a - w
    BY <2>1, <2>2, NormalisedCases
  <2>4. Normalised(a, w) \in 0 .. w - 1
    BY <2>1, <2>2, <2>3
  <2> QED BY <2>4 DEF a, w
<1>3. Backfire(n, t) = [n EXCEPT !.Current = c, !.HashCurrent = h]
  BY DEF Backfire
<1> HIDE DEF c, h
<1> QED BY <1>1, <1>2, <1>3 DEF NetStateType

(* Two exact net states with the same marking and the same hash are equal. *)
LEMMA ExactIsUnique ==
  ASSUME NEW n \in NetStateType, NEW c \in NetStateType,
         EnabledExact(n), EnabledExact(c),
         n.Current = c.Current, n.HashCurrent = c.HashCurrent
  PROVE  n = c
<1>1. n.CardEnabled = c.CardEnabled
  BY DEF EnabledExact, Counted
<1>2. \A t \in Transition : n.Enabled[t] = c.Enabled[t]
  BY DEF EnabledExact, Flagged, NetStateType
<1>3. n.Enabled = c.Enabled
  BY <1>2 DEF NetStateType
<1> QED BY <1>1, <1>3 DEF NetStateType
=============================================================================
