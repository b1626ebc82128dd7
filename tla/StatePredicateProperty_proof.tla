-------------------- MODULE StatePredicateProperty_proof --------------------
(***************************************************************************)
(* Proofs about StatePredicateProperty, for every net, every formula and   *)
(* every walk of the search.                                               *)
(***************************************************************************)
EXTENDS StatePredicatePropertyInv, NetState_proof
-----------------------------------------------------------------------------
(* The formal sum of an atomic predicate is linear in the marking.         *)
LEMMA Linearity ==
  \A a \in Atomic :
    /\ \A m \in [Place -> Tokens] : SumOf(a, m) \in Int
    /\ \A t \in Transition :
         /\ ChangedSum(t, a) \in Int
         /\ \A m \in [Place -> Tokens] :
              SumOf(a, MarkingAfter(m, t)) = SumOf(a, m) + ChangedSum(t, a)
<1> SUFFICES ASSUME NEW a \in Atomic
             PROVE  /\ \A m \in [Place -> Tokens] : SumOf(a, m) \in Int
                    /\ \A t \in Transition :
                         /\ ChangedSum(t, a) \in Int
                         /\ \A m \in [Place -> Tokens] :
                              SumOf(a, MarkingAfter(m, t)) = SumOf(a, m) + ChangedSum(t, a)
  OBVIOUS
<1> DEFINE F == Factor[a]
           Of(m) == [p \in Place |-> F[p] * m[p]]
           By(t) == [p \in Place |-> F[p] * (DeltaPost(t, p) - DeltaPre(t, p))]
<1>1. IsFiniteSet(Place) /\ F \in [Place -> Int]
  BY Net, FormulaParameters DEF NetAssumption, FormulaAssumption
<1>2. /\ \A m : SumOf(a, m) = SumFunction(Of(m))
      /\ \A t : ChangedSum(t, a) = SumFunction(By(t))
  BY DEF SumOf, ChangedSum
<1>3. \A m \in [Place -> Tokens] : \A p \in Place : m[p] \in Int
  BY Net DEF NetAssumption, Tokens
<1>4. \A t \in Transition : \A p \in Place :
         /\ Pre[t][p] \in Int /\ Post[t][p] \in Int
         /\ DeltaPost(t, p) - DeltaPre(t, p) = Post[t][p] - Pre[t][p]
  <2> SUFFICES ASSUME NEW t \in Transition, NEW p \in Place
               PROVE  /\ Pre[t][p] \in Int /\ Post[t][p] \in Int
                      /\ DeltaPost(t, p) - DeltaPre(t, p) = Post[t][p] - Pre[t][p]
    OBVIOUS
  <2>1. Pre[t][p] \in Int /\ Post[t][p] \in Int
    BY Net DEF NetAssumption, Tokens
  <2> QED BY <2>1 DEF DeltaPost, DeltaPre
<1> HIDE DEF F
<1>5. \A m : (\A p \in Place : m[p] \in Int) => Of(m) \in [Place -> Int]
  <2> SUFFICES ASSUME NEW m, \A p \in Place : m[p] \in Int
               PROVE  \A p \in Place : F[p] * m[p] \in Int
    OBVIOUS
  <2> QED BY <1>1
<1>6. ASSUME NEW t \in Transition
      PROVE  By(t) \in [Place -> Int]
  <2>1. \A p \in Place : F[p] * (DeltaPost(t, p) - DeltaPre(t, p)) \in Int
    BY <1>1, <1>4
  <2> QED BY <2>1
<1>7. ASSUME NEW t \in Transition, NEW m \in [Place -> Tokens]
      PROVE  SumFunction(Of(MarkingAfter(m, t))) = SumFunction(Of(m)) + SumFunction(By(t))
  <2> DEFINE k == MarkingAfter(m, t)
  <2>1. \A p \in Place : k[p] \in Int /\ k[p] = m[p] + (DeltaPost(t, p) - DeltaPre(t, p))
    <3> SUFFICES ASSUME NEW p \in Place
                 PROVE  /\ k[p] \in Int
                        /\ k[p] = m[p] + (DeltaPost(t, p) - DeltaPre(t, p))
      OBVIOUS
    <3>1. k[p] = m[p] - Pre[t][p] + Post[t][p]
      BY DEF MarkingAfter
    <3> QED BY <1>3, <1>4, <3>1
  <2> HIDE DEF k
  <2>2. /\ Of(k) \in [Place -> Int] /\ Of(m) \in [Place -> Int]
        /\ By(t) \in [Place -> Int]
    BY <1>3, <1>5, <1>6, <2>1
  <2>3. ASSUME NEW p \in Place
        PROVE  Of(k)[p] = Of(m)[p] + By(t)[p]
    <3> DEFINE d == DeltaPost(t, p) - DeltaPre(t, p)
    <3>1. F[p] \in Int /\ m[p] \in Int /\ d \in Int /\ k[p] = m[p] + d
      BY <1>1, <1>3, <1>4, <2>1
    <3>2. Of(k)[p] = F[p] * k[p] /\ Of(m)[p] = F[p] * m[p] /\ By(t)[p] = F[p] * d
      OBVIOUS
    <3> HIDE DEF d, Of, By
    <3>3. F[p] * (m[p] + d) = F[p] * m[p] + F[p] * d
      BY <3>1
    <3> QED BY <3>1, <3>2, <3>3
  <2> HIDE DEF Of, By
  <2>4. SumFunction(Of(k)) = SumFunction(Of(m)) + SumFunction(By(t))
    BY <1>1, <2>2, <2>3, SumOfSums
  <2> QED BY <2>4 DEF k
<1> HIDE DEF Of, By
<1>8. \A m \in [Place -> Tokens] : SumFunction(Of(m)) \in Int
  BY <1>1, <1>3, <1>5, SumType
<1>9. \A t \in Transition : SumFunction(By(t)) \in Int
  BY <1>1, <1>6, SumType
<1> QED BY <1>2, <1>7, <1>8, <1>9

(* The parts of a formula, and its tree.                                   *)
LEMMA NotItsOwnParent ==
  ASSUME NEW f \in Formula \ {Root}
  PROVE  Parent[f] # f
<1>1. {f} \in (SUBSET Formula) \ {{}}
  OBVIOUS
<1>2. Subformulas(f) \cap {f} = {}
  BY <1>1, FormulaParameters DEF FormulaAssumption
<1> QED BY <1>2 DEF Subformulas

LEMMA FormulaFacts ==
  /\ \A j \in Junction : j \in Formula /\ j \notin Leaf
  /\ \A l \in Leaf : l \in Formula
  /\ \A a \in Atomic : a \notin Fireable \cup Deadlock
  /\ \A f \in Formula \ {Root} :
       /\ Parent[f] \in Junction
       /\ Parent[f] # f
       /\ f \in Subformulas(Parent[f])
  /\ \A j \in Junction : \A f \in Subformulas(j) :
       /\ f \in Formula \ {Root}
       /\ Parent[f] = j
       /\ f # j
  BY FormulaParameters, NotItsOwnParent DEF FormulaAssumption, Formula, Leaf, Subformulas

(* A junction has finitely many subformulas.                               *)
LEMMA SubformulasFinite ==
  ASSUME NEW j \in Junction
  PROVE  IsFiniteSet(Subformulas(j)) /\ CardSub(j) \in Nat
<1>1. Subformulas(j) \subseteq Formula
  BY DEF Subformulas
<1>2. IsFiniteSet(Subformulas(j))
  BY <1>1, FormulaParameters, FS_Subset DEF FormulaAssumption
<1> QED BY <1>2, FS_CardinalityType DEF CardSub

(* No more subformulas are satisfied than there are.                       *)
LEMMA SatisfiedBound ==
  ASSUME NEW j \in Junction, NEW v
  PROVE  Satisfied(j, v) \in Nat /\ Satisfied(j, v) <= CardSub(j)
<1> DEFINE S == {f \in Subformulas(j) : v[f]}
<1>1. S \subseteq Subformulas(j)
  OBVIOUS
<1>2. IsFiniteSet(S) /\ Cardinality(S) <= Cardinality(Subformulas(j))
  BY <1>1, SubformulasFinite, FS_Subset
<1> QED BY <1>2, FS_CardinalityType DEF Satisfied, CardSub

(* What evaluate leaves behind is consistent.                              *)
LEMMA EvaluatedLists ==
  ASSUME NEW v \in [Formula -> BOOLEAN], NEW s \in SubLists(v)
  PROVE  /\ s \in [Junction -> UNION {[1 .. CardSub(j) -> Subformulas(j)] :
                                        j \in Junction}]
         /\ \A j \in Junction :
              /\ s[j] \in [1 .. CardSub(j) -> Subformulas(j)]
              /\ \A i \in 1 .. CardSub(j) : v[s[j][i]] <=> i <= CardsIn(v)[j]
              /\ \A i \in 1 .. CardSub(j) : PositionsIn(s)[s[j][i]] = i
         /\ \A f \in Formula \ {Root} :
              /\ PositionsIn(s)[f] \in 1 .. CardSub(Parent[f])
              /\ s[Parent[f]][PositionsIn(s)[f]] = f
<1>1. \A j \in Junction : s[j] \in Sorted(j, v)
  BY DEF SubLists
<1>2. ASSUME NEW j \in Junction
      PROVE  /\ s[j] \in [1 .. CardSub(j) -> Subformulas(j)]
             /\ \A a, b \in 1 .. CardSub(j) : s[j][a] = s[j][b] => a = b
             /\ \A f \in Subformulas(j) : \E i \in 1 .. CardSub(j) : s[j][i] = f
             /\ \A i \in 1 .. CardSub(j) : v[s[j][i]] <=> i <= Satisfied(j, v)
  <2>1. /\ s[j] \in Bijection(1 .. CardSub(j), Subformulas(j))
        /\ \A i \in 1 .. CardSub(j) : v[s[j][i]] <=> i <= Satisfied(j, v)
    BY <1>1 DEF Sorted
  <2> QED BY <2>1 DEF Bijection, Injection, IsInjective, Surjection
<1>3. s \in [Junction -> UNION {[1 .. CardSub(j) -> Subformulas(j)] : j \in Junction}]
  <2>1. s = [j \in Junction |-> s[j]]
    BY DEF SubLists
  <2>2. \A j \in Junction :
          s[j] \in UNION {[1 .. CardSub(k) -> Subformulas(k)] : k \in Junction}
    BY <1>2
  <2> QED BY <2>1, <2>2
<1>4. ASSUME NEW f \in Formula \ {Root}
      PROVE  /\ PositionsIn(s)[f] \in 1 .. CardSub(Parent[f])
             /\ s[Parent[f]][PositionsIn(s)[f]] = f
  <2>1. \E i \in 1 .. CardSub(Parent[f]) : s[Parent[f]][i] = f
    BY <1>2, FormulaFacts
  <2>2. PositionsIn(s)[f] = CHOOSE i \in 1 .. CardSub(Parent[f]) : s[Parent[f]][i] = f
    BY DEF PositionsIn
  <2> QED BY <2>1, <2>2
<1>5. ASSUME NEW j \in Junction, NEW i \in 1 .. CardSub(j)
      PROVE  PositionsIn(s)[s[j][i]] = i
  <2>1. s[j][i] \in Subformulas(j)
    BY <1>2
  <2>2. s[j][i] \in Formula \ {Root} /\ Parent[s[j][i]] = j
    BY <2>1, FormulaFacts
  <2> QED BY <1>2, <1>4, <2>2
<1>6. \A j \in Junction : CardsIn(v)[j] = Satisfied(j, v)
  BY DEF CardsIn
<1> QED BY <1>2, <1>3, <1>4, <1>5, <1>6
-----------------------------------------------------------------------------
(* The facts about a state that every step of the proofs uses.             *)
LEMMA TypeFacts ==
  ASSUME TypeOK
  PROVE  /\ ns \in NetStateType
         /\ path \in Seq(Transition) /\ trail \in Seq(NetStateType)
         /\ Len(trail) = Len(path)
         /\ value \in [Formula -> BOOLEAN]
         /\ cardSat \in [Junction -> Nat]
         /\ position \in [Formula \ {Root} -> Nat]
         /\ sub \in [Junction -> UNION {[1 .. CardSub(j) -> Subformulas(j)] :
                                          j \in Junction}]
         /\ \A j \in Junction :
              /\ CardSub(j) \in Nat
              /\ cardSat[j] \in Nat /\ cardSat[j] <= CardSub(j)
              /\ sub[j] \in [1 .. CardSub(j) -> Subformulas(j)]
              /\ \A i \in 1 .. CardSub(j) : sub[j][i] \in Subformulas(j)
         /\ Len(pending) \in Nat
         /\ \A k \in 1 .. Len(pending) : pending[k] \in Frame
  BY SubformulasFinite, LenProperties DEF TypeOK

(* evaluate establishes what the propagation keeps.                        *)
LEMMA EvaluatedInv ==
  ASSUME NEW n \in NetStateType, NEW v \in Valuations(n), NEW s \in SubLists(v)
  PROVE  /\ v \in [Formula -> BOOLEAN]
         /\ CardsIn(v) \in [Junction -> Nat]
         /\ SumsIn(n) \in [Atomic -> Int]
         /\ PositionsIn(s) \in [Formula \ {Root} -> Nat]
         /\ \A j \in Junction :
              /\ CardsIn(v)[j] <= CardSub(j)
              /\ v[j] = JunctionValue(j, CardsIn(v)[j])
         /\ \A a \in Atomic :
              /\ SumsIn(n)[a] = SumOf(a, n.Current)
              /\ v[a] = (SumsIn(n)[a] <= Threshold[a])
         /\ \A f \in Fireable \cup Deadlock : v[f] = Observes(f, n)
<1>1. v \in [Formula -> BOOLEAN] /\ ValuesIn(v, n)
  BY DEF Valuations
<1>2. \A j \in Junction : Satisfied(j, v) \in Nat /\ Satisfied(j, v) <= CardSub(j)
  BY SatisfiedBound
<1>3. CardsIn(v) \in [Junction -> Nat] /\ \A j \in Junction : CardsIn(v)[j] = Satisfied(j, v)
  BY <1>2 DEF CardsIn
<1>4. n.Current \in [Place -> Tokens]
  BY DEF NetStateType
<1>6. \A a \in Atomic : SumOf(a, n.Current) \in Int
  BY <1>4, Linearity
<1>7. SumsIn(n) \in [Atomic -> Int]
      /\ \A a \in Atomic : SumsIn(n)[a] = SumOf(a, n.Current)
  BY <1>6 DEF SumsIn
<1>8. \A f \in Formula \ {Root} : PositionsIn(s)[f] \in 1 .. CardSub(Parent[f])
  BY <1>1, EvaluatedLists
<1>9. PositionsIn(s) = [f \in Formula \ {Root} |-> PositionsIn(s)[f]]
  BY DEF PositionsIn
<1>10. \A f \in Formula \ {Root} : PositionsIn(s)[f] \in Nat
  BY <1>8, SubformulasFinite, FormulaFacts
<1>11. PositionsIn(s) \in [Formula \ {Root} -> Nat]
  BY <1>9, <1>10
<1> QED BY <1>1, <1>2, <1>3, <1>7, <1>11 DEF ValuesIn

(* The values when the open calls are done differ from the present ones in *)
(* deadlock predicates only.                                               *)
LEMMA NewValueFacts ==
  ASSUME TypeOK
  PROVE  /\ NewValue \in [Formula -> BOOLEAN]
         /\ \A f \in Formula \ Deadlock : NewValue[f] = value[f]
         /\ pending = <<>> => NewValue = value
<1>1. value \in [Formula -> BOOLEAN]
  BY TypeFacts
<1>2. \A f \in Formula \ Deadlock : ~Unassigned(f)
  BY DEF Unassigned
<1>3. pending = <<>> => \A f : ~Unassigned(f)
  BY EmptySeq DEF Unassigned
<1> QED BY <1>1, <1>2, <1>3 DEF NewValue

(* A path up the formula meets no part twice.                              *)
LEMMA PathsAreFree ==
  ASSUME NEW n \in Nat, NEW s,
         \A k \in 1 .. n - 1 : s[k] \in Formula \ {Root} /\ Parent[s[k]] = s[k + 1]
  PROVE  \A a, b \in 1 .. n : s[a] = s[b] => a = b
<1> SUFFICES ASSUME NEW a \in 1 .. n, NEW b \in 1 .. n, s[a] = s[b], a < b
             PROVE  FALSE
  OBVIOUS
<1> DEFINE S == {s[k] : k \in a .. b - 1}
<1>1. S \subseteq Formula /\ S # {}
  <2>1. a \in a .. b - 1
    OBVIOUS
  <2> QED BY <2>1
<1>2. PICK f \in S : Subformulas(f) \cap S = {}
  <2>1. S \in (SUBSET Formula) \ {{}}
    BY <1>1
  <2> HIDE DEF S
  <2> QED BY <2>1, FormulaParameters DEF FormulaAssumption
<1>3. PICK k \in a .. b - 1 : f = s[k]
  OBVIOUS
<1>4. CASE k = a
  <2>1. b - 1 \in a .. b - 1 /\ b - 1 \in 1 .. n - 1 /\ (b - 1) + 1 = b
    OBVIOUS
  <2>2. s[b - 1] \in Subformulas(f)
    BY <1>3, <1>4, <2>1 DEF Subformulas
  <2> QED BY <1>2, <2>1, <2>2
<1>5. CASE k # a
  <2>1. k - 1 \in a .. b - 1 /\ k - 1 \in 1 .. n - 1 /\ (k - 1) + 1 = k
    BY <1>5
  <2>2. s[k - 1] \in Subformulas(f)
    BY <1>3, <2>1 DEF Subformulas
  <2> QED BY <1>2, <2>1, <2>2
<1> QED BY <1>4, <1>5

(* A subformula that is moved is one of its junction.                      *)
LEMMA ListedFacts ==
  ASSUME TypeOK, NEW j \in Junction, NEW i \in 1 .. CardSub(j)
  PROVE  /\ sub[j][i] \in Subformulas(j)
         /\ sub[j][i] \in Formula \ {Root}
         /\ Parent[sub[j][i]] = j
  BY TypeFacts, FormulaFacts

(* The stack goes up the formula: no junction has two calls open, and none *)
(* of those that wait is asked again.                                      *)
LEMMA OpenOnce ==
  ASSUME TypeOK, IStack, CallFits
  PROVE  /\ \A a, b \in 1 .. Len(pending) :
              pending[a].formula = pending[b].formula => a = b
         /\ call # NoCall =>
              \A a \in 1 .. Len(pending) : pending[a].formula # call.junction
         /\ call # NoCall /\ call.junction # Root =>
              \A a \in 1 .. Len(pending) :
                pending[a].formula # Parent[call.junction]
<1> PICK n \in Nat : n = Len(pending)
  BY TypeFacts
<1> DEFINE up(k) == IF k <= n THEN pending[k].formula
                    ELSE IF k = n + 1 THEN call.junction
                    ELSE Parent[call.junction]
           s == [k \in Nat |-> up(k)]
<1>1. ASSUME NEW k \in 1 .. n - 1
      PROVE  /\ pending[k].formula \in Formula \ {Root}
             /\ Parent[pending[k].formula] = pending[k + 1].formula
  <2> DEFINE j == pending[k + 1].formula
             i == pending[k + 1].i
  <2>1. k + 1 \in 2 .. n /\ k + 1 \in 1 .. n /\ (k + 1) - 1 = k
    OBVIOUS
  <2>2. j \in Junction /\ sub[j][i] = pending[k].formula
    BY <2>1 DEF IStack
  <2>3. i \in 1 .. CardSub(j)
    BY <2>1, <2>2 DEF IStack, FrameFits
  <2> HIDE DEF i, j
  <2>4. sub[j][i] \in Formula \ {Root} /\ Parent[sub[j][i]] = j
    BY <2>2, <2>3, ListedFacts
  <2> QED BY <2>2, <2>4 DEF i, j
<1>2. ASSUME call # NoCall, n # 0
      PROVE  /\ pending[n].formula \in Formula \ {Root}
             /\ Parent[pending[n].formula] = call.junction
  <2>1. pending # <<>>
    BY <1>2, EmptySeq
  <2>2. /\ call.junction \in Junction /\ call.i \in 1 .. CardSub(call.junction)
        /\ sub[call.junction][call.i] = pending[n].formula
    BY <1>2, <2>1 DEF IStack, CallFits
  <2> QED BY <2>2, ListedFacts
<1>3. \A a, b \in 1 .. n : pending[a].formula = pending[b].formula => a = b
  <2>1. \A k \in 1 .. n - 1 : s[k] \in Formula \ {Root} /\ Parent[s[k]] = s[k + 1]
    BY <1>1
  <2> HIDE DEF s
  <2>2. \A x, y \in 1 .. n : s[x] = s[y] => x = y
    BY ONLY n \in Nat, <2>1, PathsAreFree
  <2>3. \A a \in 1 .. n : s[a] = pending[a].formula
    BY DEF s
  <2> QED BY <2>2, <2>3
<1>4. ASSUME call # NoCall, NEW a \in 1 .. n
      PROVE  pending[a].formula # call.junction
  <2>1. \A k \in 1 .. (n + 1) - 1 : s[k] \in Formula \ {Root} /\ Parent[s[k]] = s[k + 1]
    <3> SUFFICES ASSUME NEW k \in 1 .. n
                 PROVE  s[k] \in Formula \ {Root} /\ Parent[s[k]] = s[k + 1]
      OBVIOUS
    <3>1. CASE k = n
      BY <1>2, <1>4, <3>1
    <3>2. CASE k # n
      BY <1>1, <3>2
    <3> QED BY <3>1, <3>2
  <2>2. s[a] = pending[a].formula /\ s[n + 1] = call.junction
    OBVIOUS
  <2> HIDE DEF s
  <2>3. \A x, y \in 1 .. n + 1 : s[x] = s[y] => x = y
    BY <2>1, PathsAreFree, n + 1 \in Nat
  <2>4. a \in 1 .. n + 1 /\ n + 1 \in 1 .. n + 1 /\ a # n + 1
    OBVIOUS
  <2> QED BY <2>2, <2>3, <2>4
<1>5. ASSUME call # NoCall, call.junction # Root, NEW a \in 1 .. n
      PROVE  pending[a].formula # Parent[call.junction]
  <2>0. call.junction \in Formula \ {Root}
    BY <1>5, FormulaFacts DEF CallFits
  <2>1. \A k \in 1 .. (n + 2) - 1 : s[k] \in Formula \ {Root} /\ Parent[s[k]] = s[k + 1]
    <3> SUFFICES ASSUME NEW k \in 1 .. n + 1
                 PROVE  s[k] \in Formula \ {Root} /\ Parent[s[k]] = s[k + 1]
      OBVIOUS
    <3>1. CASE k = n + 1
      BY <2>0, <3>1
    <3>2. CASE k = n
      BY <1>2, <1>5, <3>2
    <3>3. CASE k < n
      BY <1>1, <3>3
    <3> QED BY <3>1, <3>2, <3>3
  <2>2. s[a] = pending[a].formula /\ s[n + 2] = Parent[call.junction]
    OBVIOUS
  <2> HIDE DEF s
  <2>3. \A x, y \in 1 .. n + 2 : s[x] = s[y] => x = y
    BY <2>1, PathsAreFree, n + 2 \in Nat
  <2>4. a \in 1 .. n + 2 /\ n + 2 \in 1 .. n + 2 /\ a # n + 2
    OBVIOUS
  <2> QED BY <2>2, <2>3, <2>4
<1> QED BY <1>3, <1>4, <1>5

(* A frame that is put on the stack, or taken off it.                      *)
LEMMA PushFacts ==
  ASSUME TypeOK, NEW r \in Frame, pending' = Append(pending, r)
  PROVE  /\ pending' \in Seq(Frame)
         /\ Len(pending) \in Nat
         /\ Len(pending') = Len(pending) + 1
         /\ \A k \in 1 .. Len(pending) : pending'[k] = pending[k]
         /\ pending'[Len(pending) + 1] = r
<1>1. pending \in Seq(Frame)
  BY DEF TypeOK
<1> QED BY <1>1, SeqGrows, LenProperties

LEMMA PopFacts ==
  ASSUME TypeOK, pending # <<>>, Pop
  PROVE  /\ pending' \in Seq(Frame)
         /\ Len(pending) \in Nat \ {0}
         /\ Len(pending') = Len(pending) - 1
         /\ \A k \in 1 .. Len(pending) - 1 : pending'[k] = pending[k]
<1>1. pending \in Seq(Frame) /\ pending' = SubSeq(pending, 1, Len(pending) - 1)
  BY DEF TypeOK, Pop
<1>2. Len(pending) # 0
  BY <1>1, EmptySeq
<1> QED BY <1>1, <1>2, SeqShrinks, LenProperties

(* The call that f's change of its value to v leads to names f, and nobody *)
(* else.                                                                   *)
LEMMA TellNames ==
  ASSUME TypeOK, IPositions, NEW f \in Formula, NEW v \in BOOLEAN, NEW w \in [Formula -> BOOLEAN],
         call' = IF v # w[f] THEN Tell(f, v) ELSE NoCall
  PROVE  /\ call' \in CallType
         /\ call' # NoCall =>
              /\ f # Root /\ v # w[f]
              /\ call'.kind = IF v THEN "FT" ELSE "TF"
              /\ call'.junction = Parent[f] /\ call'.junction \in Junction
              /\ call'.i \in 1 .. CardSub(call'.junction)
              /\ sub[call'.junction][call'.i] = f
         /\ \A j \in Junction : \A x \in 1 .. CardSub(j) :
              Names(j, x)' <=> (v # w[f] /\ sub[j][x] = f)
<1>1. CASE f # Root /\ v # w[f]
  <2>1. call' = [kind |-> IF v THEN "FT" ELSE "TF", junction |-> Parent[f],
                 i |-> position[f]]
    BY <1>1 DEF Tell
  <2>2. /\ Parent[f] \in Junction
        /\ position[f] \in 1 .. CardSub(Parent[f])
        /\ sub[Parent[f]][position[f]] = f
        /\ CardSub(Parent[f]) \in Nat
    BY <1>1, FormulaFacts, SubformulasFinite DEF IPositions
  <2>3. call' \in CallType /\ call' # NoCall
    BY <2>1, <2>2 DEF CallType, NoCall
  <2>4. ASSUME NEW j \in Junction, NEW x \in 1 .. CardSub(j)
        PROVE  Names(j, x)' <=> sub[j][x] = f
    <3>1. Names(j, x)' <=> (Parent[f] = j /\ position[f] = x)
      BY <2>1, <2>3 DEF Names
    <3>2. Parent[sub[j][x]] = j /\ position[sub[j][x]] = x
      BY ListedFacts DEF IPositions
    <3> QED BY <2>2, <3>1, <3>2
  <2> QED BY <1>1, <2>1, <2>2, <2>3, <2>4
<1>2. CASE ~(f # Root /\ v # w[f])
  <2>1. call' = NoCall
    BY <1>2 DEF Tell
  <2>2. \A j \in Junction : \A x \in 1 .. CardSub(j) : sub[j][x] # Root
    BY ListedFacts
  <2> QED BY <1>2, <2>1, <2>2 DEF Names, CallType
<1> QED BY <1>1, <1>2

(* A junction whose list is left alone stays sorted by the values it knows *)
(* of: the formula that changes is the one it is about to be told of.      *)
LEMMA TellSorts ==
  ASSUME TypeOK, NEW f \in Formula, NEW v \in BOOLEAN,
         NewValue' = [NewValue EXCEPT ![f] = v],
         NEW j \in Junction, sub'[j] = sub[j], cardSat'[j] = cardSat[j],
         SortedAt(j),
         \A x \in 1 .. CardSub(j) :
           Calls(j, x)' <=> Calls(j, x) \/ (v # NewValue[f] /\ sub[j][x] = f),
         v # NewValue[f] =>
           \A x \in 1 .. CardSub(j) : sub[j][x] = f => ~Calls(j, x)
  PROVE  SortedAt(j)'
<1> SUFFICES ASSUME NEW i \in 1 .. CardSub(j)
             PROVE  (IF Calls(j, i)' THEN ~NewValue'[sub'[j][i]]
                                     ELSE NewValue'[sub'[j][i]])
                      <=> i <= cardSat'[j]
  BY DEF SortedAt
<1> DEFINE g == sub[j][i]
<1>1. g \in Formula
  BY ListedFacts
<1>2. (IF Calls(j, i) THEN ~NewValue[g] ELSE NewValue[g]) <=> i <= cardSat[j]
  BY DEF SortedAt
<1>3. NewValue \in [Formula -> BOOLEAN]
  BY NewValueFacts
<1>4. NewValue'[f] = v /\ (g # f => NewValue'[g] = NewValue[g])
  BY <1>1, <1>3
<1>5. NewValue[f] \in BOOLEAN /\ sub'[j][i] = g
  BY <1>3
<1> HIDE DEF g
<1>6. CASE g # f \/ v = NewValue[f]
  <2>1. NewValue'[g] = NewValue[g]
    BY <1>4, <1>6
  <2>2. Calls(j, i)' <=> Calls(j, i)
    BY <1>6 DEF g
  <2> QED BY <1>2, <1>5, <2>1, <2>2
<1>7. CASE g = f /\ v # NewValue[f]
  <2>1. Calls(j, i)' /\ ~Calls(j, i)
    BY <1>7 DEF g
  <2>2. ~v <=> NewValue[f]
    BY <1>5, <1>7
  <2> QED BY <1>2, <1>4, <1>5, <1>7, <2>1, <2>2
<1> QED BY <1>6, <1>7
-----------------------------------------------------------------------------
(* Two subformulas that change places know it, and nobody else is moved.   *)
LEMMA SwapFacts ==
  ASSUME TypeOK, IPositions, NEW j \in Junction,
         NEW i \in 1 .. CardSub(j), NEW k \in 1 .. CardSub(j), Swap(j, i, k)
  PROVE  /\ sub' \in [Junction -> UNION {[1 .. CardSub(l) -> Subformulas(l)] :
                                           l \in Junction}]
         /\ \A l \in Junction : sub'[l] \in [1 .. CardSub(l) -> Subformulas(l)]
         /\ position' \in [Formula \ {Root} -> Nat]
         /\ \A l \in Junction \ {j} : sub'[l] = sub[l]
         /\ sub'[j][i] = sub[j][k]
         /\ sub'[j][k] = sub[j][i]
         /\ \A x \in 1 .. CardSub(j) \ {i, k} : sub'[j][x] = sub[j][x]
         /\ IPositions'
<1> DEFINE g == sub[j][i]
           h == sub[j][k]
           s == [sub[j] EXCEPT ![i] = sub[j][k], ![k] = sub[j][i]]
<1>1. sub' = [sub EXCEPT ![j] = s] /\ position' = [position EXCEPT ![g] = k, ![h] = i]
  BY DEF Swap
<1>2. /\ sub[j] \in [1 .. CardSub(j) -> Subformulas(j)]
      /\ g \in Subformulas(j) /\ h \in Subformulas(j)
      /\ position[g] = i /\ position[h] = k
      /\ g \in Formula \ {Root} /\ h \in Formula \ {Root}
      /\ i \in Nat /\ k \in Nat
  <2>1. sub[j] \in [1 .. CardSub(j) -> Subformulas(j)] /\ CardSub(j) \in Nat
    BY TypeFacts
  <2>2. g \in Subformulas(j) /\ h \in Subformulas(j)
    BY <2>1
  <2>3. position[g] = i /\ position[h] = k
    BY DEF IPositions
  <2>4. g \in Formula \ {Root} /\ h \in Formula \ {Root}
    BY <2>2, FormulaFacts
  <2> QED BY <2>1, <2>2, <2>3, <2>4
<1>3. /\ s \in [1 .. CardSub(j) -> Subformulas(j)]
      /\ s[i] = h /\ s[k] = g
      /\ \A x \in 1 .. CardSub(j) \ {i, k} : s[x] = sub[j][x]
  BY <1>2
<1>4. /\ sub'[j] = s
      /\ \A l \in Junction \ {j} : sub'[l] = sub[l]
      /\ sub' \in [Junction -> UNION {[1 .. CardSub(l) -> Subformulas(l)] : l \in Junction}]
  <2> HIDE DEF s
  <2>1. s \in UNION {[1 .. CardSub(l) -> Subformulas(l)] : l \in Junction}
    BY <1>3
  <2> HIDE DEF g, h
  <2> DEFINE U == UNION {[1 .. CardSub(l) -> Subformulas(l)] : l \in Junction}
  <2>2. sub \in [Junction -> U] /\ s \in U
    BY <2>1, TypeFacts
  <2> HIDE DEF U
  <2>3. sub'[j] = s /\ sub' \in [Junction -> U] /\ \A l \in Junction \ {j} : sub'[l] = sub[l]
    BY <1>1, <2>2
  <2> QED BY <2>3 DEF U
<1> HIDE DEF s
<1>5. \A l \in Junction : sub'[l] \in [1 .. CardSub(l) -> Subformulas(l)]
  BY <1>3, <1>4, TypeFacts
<1>6. /\ position' \in [Formula \ {Root} -> Nat]
      /\ position'[h] = i
      /\ g # h => position'[g] = k
      /\ \A f \in Formula \ {Root} : f # g /\ f # h => position'[f] = position[f]
  <2> HIDE DEF g, h
  <2> QED BY <1>1, <1>2, TypeFacts
<1>7. g = h => i = k
  BY <1>2
<1>8. position'[g] = k
  BY <1>6, <1>7
<1>9. ASSUME NEW l \in Junction, NEW x \in 1 .. CardSub(l)
      PROVE  position'[sub'[l][x]] = x
  <2>1. sub[l][x] \in Formula \ {Root} /\ Parent[sub[l][x]] = l /\ position[sub[l][x]] = x
    BY TypeFacts, FormulaFacts DEF IPositions
  <2>2. CASE l # j
    <3>1. sub[l][x] # g /\ sub[l][x] # h
      BY <1>2, <2>1, <2>2, FormulaFacts
    <3> QED BY <1>4, <1>6, <2>1, <2>2, <3>1
  <2>3. CASE l = j /\ x = i
    BY <1>3, <1>4, <1>6, <2>3
  <2>4. CASE l = j /\ x = k
    BY <1>3, <1>4, <1>8, <2>4
  <2>5. CASE l = j /\ x # i /\ x # k
    <3>1. sub'[l][x] = sub[l][x]
      BY <1>3, <1>4, <2>5
    <3>2. sub[l][x] # g /\ sub[l][x] # h
      BY <1>2, <2>1, <2>5
    <3> QED BY <1>6, <2>1, <3>1, <3>2
  <2> QED BY <2>2, <2>3, <2>4, <2>5
<1>10. ASSUME NEW f \in Formula \ {Root}
       PROVE  /\ position'[f] \in 1 .. CardSub(Parent[f])
              /\ sub'[Parent[f]][position'[f]] = f
  <2>1. /\ position[f] \in 1 .. CardSub(Parent[f]) /\ Parent[f] \in Junction
        /\ sub[Parent[f]][position[f]] = f
    BY FormulaFacts DEF IPositions
  <2>2. Parent[g] = j /\ Parent[h] = j
    BY <1>2, FormulaFacts
  <2>3. CASE f = g
    BY <1>3, <1>4, <1>8, <2>2, <2>3
  <2>4. CASE f = h
    BY <1>3, <1>4, <1>6, <2>2, <2>4
  <2>5. CASE f # g /\ f # h
    <3>1. position'[f] = position[f]
      BY <1>6, <2>5
    <3>2. CASE Parent[f] # j
      BY <1>4, <2>1, <3>1, <3>2
    <3>3. CASE Parent[f] = j
      <4>1. position[f] # i /\ position[f] # k
        BY <2>1, <2>5, <3>3
      <4> QED BY <1>3, <1>4, <2>1, <3>1, <3>3, <4>1
    <3> QED BY <3>2, <3>3
  <2> QED BY <2>3, <2>4, <2>5
<1>11. IPositions'
  BY <1>9, <1>10 DEF IPositions
<1> QED BY <1>3, <1>4, <1>5, <1>6, <1>11

(* A junction that moves the subformula of its call to the other side of   *)
(* its border is sorted again.                                             *)
LEMMA MoveSorts ==
  ASSUME TypeOK, IPositions,
         NEW j \in Junction, SortedAt(j),
         NEW i \in 1 .. CardSub(j), NEW k \in 1 .. CardSub(j), NEW n \in Nat,
         Swap(j, i, k), cardSat'[j] = n,
         \A f \in Subformulas(j) : NewValue'[f] = NewValue[f],
         \A x \in 1 .. CardSub(j) : (Calls(j, x) <=> x = i) /\ ~Calls(j, x)',
         NewValue[sub[j][i]] <=> k <= n,
         i # k => (k <= cardSat[j] <=> i <= n),
         \A x \in 1 .. CardSub(j) \ {i, k} : x <= cardSat[j] <=> x <= n
  PROVE  SortedAt(j)'
<1> SUFFICES ASSUME NEW x \in 1 .. CardSub(j)
             PROVE  NewValue'[sub'[j][x]] <=> x <= n
  BY DEF SortedAt
<1>1. /\ sub'[j] \in [1 .. CardSub(j) -> Subformulas(j)]
      /\ sub'[j][i] = sub[j][k]
      /\ sub'[j][k] = sub[j][i]
      /\ \A y \in 1 .. CardSub(j) \ {i, k} : sub'[j][y] = sub[j][y]
  BY SwapFacts
<1>2. NewValue'[sub'[j][x]] = NewValue[sub'[j][x]]
  <2>1. sub'[j][x] \in Subformulas(j)
    BY <1>1
  <2> QED BY <2>1
<1>3. \A y \in 1 .. CardSub(j) \ {i} : NewValue[sub[j][y]] <=> y <= cardSat[j]
  BY DEF SortedAt
<1>4. CASE x = k
  BY <1>1, <1>2, <1>4
<1>5. CASE x # k /\ x = i
  BY <1>1, <1>2, <1>3, <1>5
<1>6. CASE x # k /\ x # i
  BY <1>1, <1>2, <1>3, <1>6
<1> QED BY <1>4, <1>5, <1>6

(* What a call of updateTF or updateFT finds: the subformula it is about   *)
(* has changed, and is still on the other side of the border.              *)
LEMMA CallFacts ==
  ASSUME TypeOK, IJunctions, call.kind \in {"TF", "FT"}
  PROVE  /\ call # NoCall
         /\ call.junction \in Junction
         /\ call.i \in 1 .. CardSub(call.junction)
         /\ NewValue[sub[call.junction][call.i]] <=> call.kind = "FT"
         /\ call.i <= cardSat[call.junction] <=> call.kind = "TF"
<1> DEFINE j == call.junction
           i == call.i
<1>1. call # NoCall
  BY DEF NoCall
<1>2. /\ j \in Junction /\ i \in 1 .. CardSub(j)
      /\ NewValue[sub[j][i]] <=> call.kind = "FT"
  BY <1>1 DEF IJunctions, CallFits
<1>3. Calls(j, i)
  BY <1>1 DEF Calls, Names
<1>4. (IF Calls(j, i) THEN ~NewValue[sub[j][i]] ELSE NewValue[sub[j][i]])
        <=> i <= cardSat[j]
  BY <1>2 DEF IJunctions, SortedAt
<1> QED BY <1>1, <1>2, <1>3, <1>4

(* And so a call that waits for the parent.                                *)
LEMMA FrameFacts ==
  ASSUME TypeOK, IStack, IJunctions, NEW k \in 1 .. Len(pending),
         pending[k].formula \in Junction
  PROVE  /\ pending[k].i \in 1 .. CardSub(pending[k].formula)
         /\ ~NewValue[sub[pending[k].formula][pending[k].i]]
         /\ pending[k].i <= cardSat[pending[k].formula]
<1> DEFINE j == pending[k].formula
           i == pending[k].i
<1>1. i \in 1 .. CardSub(j) /\ ~NewValue[sub[j][i]]
  BY DEF IStack, FrameFits
<1>2. Calls(j, i)
  BY DEF Calls, Waits
<1>3. (IF Calls(j, i) THEN ~NewValue[sub[j][i]] ELSE NewValue[sub[j][i]])
        <=> i <= cardSat[j]
  BY <1>1 DEF IJunctions, SortedAt
<1> QED BY <1>1, <1>2, <1>3

(* What the actions on a junction keep.                                    *)
JunctionStepKeeps ==
  /\ IPositions' /\ IStack' /\ IJunctions'
  /\ value' \in [Formula -> BOOLEAN]
  /\ sub' \in [Junction -> UNION {[1 .. CardSub(l) -> Subformulas(l)] :
                                    l \in Junction}]
  /\ \A l \in Junction : sub'[l] \in [1 .. CardSub(l) -> Subformulas(l)]
  /\ position' \in [Formula \ {Root} -> Nat]
  /\ cardSat' \in [Junction -> Nat]
  /\ \A l \in Junction : cardSat'[l] <= CardSub(l)
  /\ call' \in CallType
  /\ pending' \in Seq(Frame)
  /\ \A f \in Leaf : NewValue'[f] = NewValue[f]
  /\ \A a \in Atomic : value'[a] = value[a]

(* The beginning of updateTF gives the junction the value of the count it  *)
(* will have, and tells the parent if that is another                      *)
(* (AtomicBooleanPredicate.cc 236-243).                                    *)
LEMMA UpdateTFKeeps ==
  ASSUME TypeOK, IPositions, IStack, IJunctions, UpdateTF
  PROVE  JunctionStepKeeps
<1> PICK j : j = call.junction
  OBVIOUS
<1> PICK i : i = call.i
  OBVIOUS
<1> PICK n \in Nat : n = Len(pending)
  BY TypeFacts
<1> DEFINE c == cardSat[j]
           flips == IF IsAnd[j] THEN cardSat[j] = CardSub(j) ELSE cardSat[j] = 1
           v == ~flips /\ value[j]
<1>0. CallFits
  BY DEF IJunctions
<1>1. /\ call.kind = "TF"
      /\ call # NoCall /\ j \in Junction /\ i \in 1 .. CardSub(j)
      /\ ~NewValue[sub[j][i]] /\ i <= c
  <2>1. call.kind = "TF"
    BY DEF UpdateTF
  <2>2. call.kind \in {"TF", "FT"} /\ call.kind # "FT"
    BY <2>1
  <2> QED BY <2>1, <2>2, CallFacts
<1>2. /\ c \in 1 .. CardSub(j) /\ CardSub(j) \in Nat /\ i \in Nat
      /\ j \in Formula \ Deadlock
  <2>1. c \in Nat /\ CardSub(j) \in Nat /\ c <= CardSub(j)
    BY <1>1, TypeFacts
  <2>2. c >= 1 /\ i \in Nat
    BY <1>1, <2>1
  <2>3. j \in Formula \ Deadlock
    BY <1>1, FormulaFacts DEF Leaf
  <2> HIDE DEF c
  <2> QED BY <2>1, <2>2, <2>3
<1>3. /\ value' = [value EXCEPT ![j] = v]
      /\ call' = IF flips THEN Tell(j, FALSE) ELSE NoCall
      /\ pending' = Append(pending, [formula |-> j, i |-> i])
      /\ UNCHANGED <<sub, position, cardSat>>
  BY DEF UpdateTF
<1>4. /\ \A a \in 1 .. n : pending[a].formula # j
      /\ \A a, b \in 1 .. n : pending[a].formula = pending[b].formula => a = b
      /\ j # Root => \A a \in 1 .. n : pending[a].formula # Parent[j]
  BY <1>0, <1>1, OpenOnce
<1>5. value[j] = JunctionValue(j, c) /\ value[j] \in BOOLEAN /\ NewValue[j] = value[j]
  <2>1. NewCard(j) = c
    BY <1>4 DEF NewCard
  <2> QED BY <1>1, <1>2, <2>1, TypeFacts, NewValueFacts DEF IJunctions
<1>6. v = JunctionValue(j, c - 1) /\ (flips <=> v # value[j]) /\ v \in BOOLEAN
  BY <1>2, <1>5 DEF JunctionValue
<1>7. call' = IF v # NewValue[j] THEN Tell(j, v) ELSE NoCall
  BY <1>3, <1>5, <1>6
<1>8. (v => NewValue[j]) /\ (v # NewValue[j] => ~v)
  BY <1>5, <1>6
<1> HIDE DEF c, flips, v
<1>9. /\ pending' \in Seq(Frame)
      /\ Len(pending') = n + 1
      /\ \A k \in 1 .. n : pending'[k] = pending[k]
      /\ pending'[n + 1] = [formula |-> j, i |-> i]
  <2>1. [formula |-> j, i |-> i] \in Frame
    BY <1>1, <1>2 DEF Frame
  <2> QED BY <1>3, <2>1, PushFacts
<1>10. /\ value' \in [Formula -> BOOLEAN] /\ value'[j] = v
       /\ \A f \in Formula \ {j} : value'[f] = value[f]
  BY <1>2, <1>3, <1>6, TypeFacts
<1>11. \A f : Unassigned(f)' <=> Unassigned(f)
  <2>1. ASSUME NEW f
        PROVE  (\E k \in 1 .. n + 1 : pending'[k].formula = f)
                 <=> (\E k \in 1 .. n : pending[k].formula = f) \/ f = j
    BY <1>9
  <2> QED BY <1>2, <1>9, <2>1 DEF Unassigned
<1>12. NewValue' = [NewValue EXCEPT ![j] = v]
  <2>1. NewValue' = [f \in Formula |-> value'[f] /\ ~Unassigned(f)]
    BY <1>11 DEF NewValue
  <2>2. ~Unassigned(j)
    BY <1>2 DEF Unassigned
  <2>3. ASSUME NEW f \in Formula
        PROVE  (value'[f] /\ ~Unassigned(f)) = [NewValue EXCEPT ![j] = v][f]
    <3>1. CASE f = j
      BY <1>2, <1>6, <1>10, <2>2, <3>1, NewValueFacts
    <3>2. CASE f # j
      <4>1. [NewValue EXCEPT ![j] = v][f] = NewValue[f]
        BY <3>2, NewValueFacts
      <4> QED BY <1>10, <3>2, <4>1 DEF NewValue
    <3> QED BY <3>1, <3>2
  <2>4. [NewValue EXCEPT ![j] = v] = [f \in Formula |-> [NewValue EXCEPT ![j] = v][f]]
    BY NewValueFacts
  <2> QED BY <2>1, <2>3, <2>4
<1>13. /\ NewValue'[j] = v
       /\ \A f \in Formula \ {j} : NewValue'[f] = NewValue[f]
       /\ \A f \in Formula : NewValue'[f] => NewValue[f]
  BY <1>2, <1>8, <1>12, NewValueFacts
<1>14. /\ call' \in CallType
       /\ call' # NoCall =>
            /\ j # Root /\ v # NewValue[j]
            /\ call'.kind = IF v THEN "FT" ELSE "TF"
            /\ call'.junction = Parent[j] /\ call'.junction \in Junction
            /\ call'.i \in 1 .. CardSub(call'.junction)
            /\ sub[call'.junction][call'.i] = j
       /\ \A l \in Junction : \A x \in 1 .. CardSub(l) :
            Names(l, x)' <=> (v # NewValue[j] /\ sub[l][x] = j)
  BY <1>2, <1>6, <1>7, TellNames, NewValueFacts DEF Names
<1>15. IPositions'
  BY <1>3 DEF IPositions
<1>16. IStack'
  <2>1. ASSUME NEW k \in 1 .. n + 1
        PROVE  FrameFits(k)'
    <3>1. CASE k \in 1 .. n
      <4>1. FrameFits(k) /\ pending'[k] = pending[k]
        BY <1>9, <3>1 DEF IStack
      <4>2. SUFFICES ASSUME pending[k].formula \in Junction
                     PROVE  /\ pending[k].i \in 1 .. CardSub(pending[k].formula)
                            /\ ~NewValue'[sub[pending[k].formula][pending[k].i]]
        BY <1>3, <4>1 DEF FrameFits
      <4>3. /\ pending[k].i \in 1 .. CardSub(pending[k].formula)
            /\ ~NewValue[sub[pending[k].formula][pending[k].i]]
        BY <4>1, <4>2 DEF FrameFits
      <4> QED BY <1>13, <4>2, <4>3, ListedFacts
    <3>2. CASE k = n + 1
      <4>1. pending'[k].formula = j /\ pending'[k].i = i
        BY <1>9, <3>2
      <4>2. ~NewValue'[sub[j][i]]
        BY <1>1, <1>13, ListedFacts
      <4> QED BY <1>1, <1>3, <4>1, <4>2 DEF FrameFits
    <3> QED BY <3>1, <3>2
  <2>2. ASSUME NEW k \in 2 .. n + 1
        PROVE  /\ pending'[k].formula \in Junction
               /\ sub[pending'[k].formula][pending'[k].i] = pending'[k - 1].formula
    <3>1. CASE k \in 2 .. n
      <4>1. k \in 1 .. n /\ k - 1 \in 1 .. n
        BY <3>1
      <4> QED BY <1>9, <3>1, <4>1 DEF IStack
    <3>2. CASE k = n + 1
      <4>1. n \in 1 .. n /\ k - 1 = n /\ pending # <<>>
        BY <3>2, EmptySeq
      <4>2. sub[j][i] = pending[n].formula
        BY <1>1, <4>1 DEF IStack
      <4> QED BY <1>1, <1>9, <3>2, <4>1, <4>2
    <3> QED BY <3>1, <3>2
  <2>3. call' # NoCall => /\ call'.kind = "TF"
                          /\ sub[call'.junction][call'.i] = pending'[n + 1].formula
    BY <1>8, <1>9, <1>14
  <2> QED BY <1>3, <1>9, <2>1, <2>2, <2>3 DEF IStack
<1>17. CallFits'
  <2>1. SUFFICES ASSUME call' # NoCall
                 PROVE  NewValue'[sub'[call'.junction][call'.i]] <=> call'.kind = "FT"
    BY <1>14 DEF CallFits
  <2>2. sub'[call'.junction][call'.i] = j /\ ~v /\ call'.kind = "TF"
    BY <1>3, <1>8, <1>14, <2>1
  <2> QED BY <1>13, <2>2
<1>18. ASSUME NEW l \in Junction
       PROVE  SortedAt(l)'
  <2>1. ASSUME NEW x
        PROVE  (\E k \in 1 .. n + 1 : pending'[k].formula = l /\ pending'[k].i = x)
                 <=> \/ \E k \in 1 .. n : pending[k].formula = l /\ pending[k].i = x
                     \/ l = j /\ x = i
    BY <1>9
  <2>2. ASSUME NEW x \in 1 .. CardSub(l)
        PROVE  Calls(l, x)' <=> Calls(l, x) \/ (v # NewValue[j] /\ sub[l][x] = j)
    <3>1. Waits(l, x)' <=> (Waits(l, x) \/ (l = j /\ x = i))
      BY <1>9, <2>1 DEF Waits
    <3>2. Names(l, x) <=> (l = j /\ x = i)
      BY <1>1 DEF Names
    <3> QED BY <1>14, <3>1, <3>2 DEF Calls
  <2>3. ASSUME v # NewValue[j], NEW x \in 1 .. CardSub(l), sub[l][x] = j
        PROVE  ~Calls(l, x)
    <3>1. j # Root /\ l = Parent[j] /\ l # j
      BY <2>3, ListedFacts, FormulaFacts
    <3> QED BY <1>4, <3>1 DEF Calls, Names, Waits
  <2>4. SortedAt(l)
    BY DEF IJunctions
  <2> QED BY <1>2, <1>3, <1>6, <1>12, <2>2, <2>3, <2>4, TellSorts
<1>19. ASSUME NEW l \in Junction
       PROVE  value'[l] = JunctionValue(l, NewCard(l)')
  <2>0. (\E k \in 1 .. n + 1 : pending'[k].formula = l)
          <=> (\E k \in 1 .. n : pending[k].formula = l) \/ l = j
    BY <1>9
  <2>1. CASE l = j
    <3>1. NewCard(l)' = c - 1
      BY <1>3, <1>9, <2>0, <2>1 DEF NewCard, c
    <3> QED BY <1>6, <1>10, <2>1, <3>1
  <2>2. CASE l # j
    <3>1. NewCard(l)' = NewCard(l)
      BY <1>3, <1>9, <2>0, <2>2 DEF NewCard
    <3>2. value'[l] = value[l]
      BY <1>10, <2>2, FormulaFacts
    <3> QED BY <3>1, <3>2 DEF IJunctions
  <2> QED BY <2>1, <2>2
<1>20. IJunctions'
  BY <1>17, <1>18, <1>19 DEF IJunctions
<1>21. /\ \A f \in Leaf : NewValue'[f] = NewValue[f]
       /\ \A a \in Atomic : value'[a] = value[a]
  BY <1>1, <1>10, <1>13, FormulaFacts DEF Leaf
<1>22. /\ sub' \in [Junction -> UNION {[1 .. CardSub(l) -> Subformulas(l)] :
                                         l \in Junction}]
       /\ \A l \in Junction : sub'[l] \in [1 .. CardSub(l) -> Subformulas(l)]
       /\ position' \in [Formula \ {Root} -> Nat]
       /\ cardSat' \in [Junction -> Nat]
       /\ \A l \in Junction : cardSat'[l] <= CardSub(l)
  BY <1>3, TypeFacts
<1> QED BY <1>9, <1>10, <1>14, <1>15, <1>16, <1>20, <1>21, <1>22
        DEF JunctionStepKeeps

(* The rest of updateTF moves the subformula behind the border             *)
(* (AtomicBooleanPredicate.cc 244-249).                                    *)
LEMMA ReturnTFKeeps ==
  ASSUME TypeOK, IPositions, IStack, IJunctions, ReturnTF
  PROVE  JunctionStepKeeps
<1> PICK n \in Nat \ {0} : n = Len(pending)
  BY PopFacts DEF ReturnTF
<1> PICK j : j = pending[n].formula
  OBVIOUS
<1> PICK i : i = pending[n].i
  OBVIOUS
<1> PICK c : c = cardSat[j]
  OBVIOUS
<1>0. CallFits
  BY DEF IJunctions
<1>1. /\ call = NoCall /\ call' = NoCall /\ pending # <<>> /\ j \in Junction
      /\ cardSat' = [cardSat EXCEPT ![j] = c - 1]
      /\ Swap(j, i, c)
      /\ Pop
      /\ value' = value
  BY DEF ReturnTF, Top
<1>2. /\ pending' \in Seq(Frame)
      /\ Len(pending') = n - 1
      /\ \A k \in 1 .. n - 1 : pending'[k] = pending[k]
  BY <1>1, PopFacts
<1>3. /\ i \in 1 .. CardSub(j)
      /\ ~NewValue[sub[j][i]] /\ i <= c
      /\ c \in 1 .. CardSub(j) /\ CardSub(j) \in Nat /\ c - 1 \in Nat
      /\ j \in Formula \ Deadlock
  <2>1. /\ i \in 1 .. CardSub(j)
        /\ ~NewValue[sub[j][i]] /\ i <= c
    BY <1>1, FrameFacts, n \in 1 .. n
  <2>2. c \in Nat /\ CardSub(j) \in Nat /\ c <= CardSub(j)
    BY <1>1, TypeFacts
  <2>3. j \in Formula \ Deadlock
    BY <1>1, FormulaFacts DEF Leaf
  <2> QED BY <2>1, <2>2, <2>3
<1>4. /\ \A a \in 1 .. n - 1 : pending[a].formula # j
      /\ \A a \in 1 .. n : pending[a].formula = j => a = n
  <2>1. \A a, b \in 1 .. n : pending[a].formula = pending[b].formula => a = b
    BY <1>0, OpenOnce
  <2> QED BY <2>1
<1>5. /\ cardSat' \in [Junction -> Nat] /\ cardSat'[j] = c - 1
      /\ \A l \in Junction \ {j} : cardSat'[l] = cardSat[l]
      /\ \A l \in Junction : cardSat'[l] <= CardSub(l)
  <2>1. /\ cardSat' \in [Junction -> Nat] /\ cardSat'[j] = c - 1
        /\ \A l \in Junction \ {j} : cardSat'[l] = cardSat[l]
    BY <1>1, <1>3, TypeFacts
  <2>2. c - 1 <= CardSub(j)
    BY <1>3
  <2>3. \A l \in Junction \ {j} : cardSat'[l] <= CardSub(l)
    BY <2>1, TypeFacts
  <2> QED BY <2>1, <2>2, <2>3
<1>6. /\ sub' \in [Junction -> UNION {[1 .. CardSub(l) -> Subformulas(l)] :
                                        l \in Junction}]
      /\ \A l \in Junction : sub'[l] \in [1 .. CardSub(l) -> Subformulas(l)]
      /\ position' \in [Formula \ {Root} -> Nat]
      /\ \A l \in Junction \ {j} : sub'[l] = sub[l]
      /\ IPositions'
  BY <1>1, <1>3, SwapFacts
<1>7. NewValue' = NewValue
  <2>1. ASSUME NEW f \in Formula
        PROVE  Unassigned(f)' <=> Unassigned(f)
    <3>1. (\E k \in 1 .. n - 1 : pending'[k].formula = f) \/ f = j
            <=> (\E k \in 1 .. n : pending[k].formula = f)
      BY <1>2
    <3> QED BY <1>2, <1>3, <3>1 DEF Unassigned
  <2> QED BY <1>1, <2>1 DEF NewValue
<1>8. ASSUME NEW x
      PROVE  /\ Calls(j, x) <=> x = i
             /\ ~Calls(j, x)'
             /\ \A l \in Junction \ {j} : Calls(l, x)' <=> Calls(l, x)
  <2>1. Calls(j, x) <=> x = i
    BY <1>1, <1>4 DEF Calls, Names, Waits
  <2>2. ~Calls(j, x)'
    BY <1>1, <1>2, <1>4 DEF Calls, Names, Waits
  <2>3. ASSUME NEW l \in Junction \ {j}
        PROVE  Calls(l, x)' <=> Calls(l, x)
    <3>1. (\E k \in 1 .. n - 1 : pending'[k].formula = l /\ pending'[k].i = x)
            <=> (\E k \in 1 .. n : pending[k].formula = l /\ pending[k].i = x)
      BY <1>2
    <3> QED BY <1>1, <1>2, <3>1 DEF Calls, Names, Waits
  <2> QED BY <2>1, <2>2, <2>3
<1>9. SortedAt(j)'
  <2>1. SortedAt(j)
    BY <1>1 DEF IJunctions
  <2>2. NewValue[sub[j][i]] <=> c <= c - 1
    BY <1>3
  <2>3. i # c => (c <= cardSat[j] <=> i <= c - 1)
    BY <1>3
  <2>4. \A x \in 1 .. CardSub(j) \ {i, c} : x <= cardSat[j] <=> x <= c - 1
    BY <1>3
  <2> QED BY <1>1, <1>3, <1>5, <1>7, <1>8, <2>1, <2>2, <2>3, <2>4, MoveSorts
<1>10. ASSUME NEW l \in Junction
       PROVE  SortedAt(l)'
  <2>1. CASE l = j
    BY <1>9, <2>1
  <2>2. CASE l # j
    BY <1>5, <1>6, <1>7, <1>8, <2>2 DEF IJunctions, SortedAt
  <2> QED BY <2>1, <2>2
<1>11. ASSUME NEW l \in Junction
       PROVE  value'[l] = JunctionValue(l, NewCard(l)')
  <2>0. (\E k \in 1 .. n - 1 : pending'[k].formula = l) \/ l = j
          <=> (\E k \in 1 .. n : pending[k].formula = l)
    BY <1>2
  <2>1. NewCard(l)' = NewCard(l)
    <3>1. CASE l = j
      <4>1. ~\E k \in 1 .. n - 1 : pending'[k].formula = l
        BY <1>2, <1>4, <3>1
      <4> QED BY <1>2, <1>5, <2>0, <3>1, <4>1 DEF NewCard
    <3>2. CASE l # j
      BY <1>2, <1>5, <2>0, <3>2 DEF NewCard
    <3> QED BY <3>1, <3>2
  <2> QED BY <1>1, <2>1 DEF IJunctions
<1>12. IJunctions'
  BY <1>1, <1>10, <1>11 DEF IJunctions, CallFits
<1>13. IStack'
  <2>1. ASSUME NEW k \in 1 .. n - 1
        PROVE  FrameFits(k)'
    <3>1. k \in 1 .. n /\ FrameFits(k)
      BY DEF IStack
    <3>2. pending'[k] = pending[k] /\ pending[k].formula # j
      BY <1>2, <1>4
    <3> QED BY <1>6, <1>7, <3>1, <3>2 DEF FrameFits
  <2>2. ASSUME NEW k \in 2 .. n - 1
        PROVE  /\ pending'[k].formula \in Junction
               /\ sub'[pending'[k].formula][pending'[k].i] = pending'[k - 1].formula
    <3>1. k \in 2 .. n /\ k \in 1 .. n - 1 /\ k - 1 \in 1 .. n - 1
      OBVIOUS
    <3>2. /\ pending[k].formula \in Junction \ {j}
          /\ sub[pending[k].formula][pending[k].i] = pending[k - 1].formula
      BY <1>4, <3>1 DEF IStack
    <3> QED BY <1>2, <1>6, <3>1, <3>2
  <2> QED BY <1>1, <1>2, <2>1, <2>2 DEF IStack
<1>14. value' \in [Formula -> BOOLEAN] /\ call' \in CallType
  BY <1>1, TypeFacts DEF CallType
<1> QED BY <1>1, <1>2, <1>5, <1>6, <1>7, <1>12, <1>13, <1>14 DEF JunctionStepKeeps

(* The rest of DeadlockPredicate::update gives the predicate the value its *)
(* parent has been told.                                                   *)
LEMMA ReturnDeadlockKeeps ==
  ASSUME TypeOK, IPositions, IStack, IJunctions, ReturnDeadlock
  PROVE  JunctionStepKeeps
<1> PICK n \in Nat \ {0} : n = Len(pending)
  BY PopFacts DEF ReturnDeadlock
<1> PICK d : d = pending[n].formula
  OBVIOUS
<1>1. /\ call = NoCall /\ call' = NoCall /\ pending # <<>> /\ d \in Deadlock
      /\ value' = [value EXCEPT ![d] = FALSE]
      /\ Pop
      /\ UNCHANGED <<sub, position, cardSat>>
  BY DEF ReturnDeadlock, Top
<1>2. d \in Formula /\ d \notin Junction /\ d \notin Atomic
  BY <1>1, FormulaFacts DEF Leaf
<1>3. n = 1
  <2>1. n \in 2 .. n => d \in Junction
    BY DEF IStack
  <2> QED BY <1>2, <2>1
<1>4. /\ pending' \in Seq(Frame) /\ Len(pending') = 0
      /\ pending[1].formula = d
      /\ \A k \in 1 .. Len(pending) : k = 1
      /\ 1 \in 1 .. Len(pending)
      /\ \A k \in 1 .. Len(pending') : FALSE
  <2>1. /\ pending' \in Seq(Frame) /\ Len(pending') = Len(pending) - 1
        /\ Len(pending) = 1
    BY <1>1, <1>3, PopFacts
  <2> QED BY <1>3, <2>1
<1>5. /\ value' \in [Formula -> BOOLEAN] /\ value'[d] = FALSE
      /\ \A f \in Formula \ {d} : value'[f] = value[f]
  BY <1>1, <1>2, TypeFacts
<1>6. NewValue' = NewValue
  <2>1. ASSUME NEW f \in Formula
        PROVE  ~Unassigned(f)' /\ (Unassigned(f) <=> f = d)
    BY <1>1, <1>3, <1>4 DEF Unassigned
  <2>2. ASSUME NEW f \in Formula
        PROVE  (value'[f] /\ ~Unassigned(f)') = (value[f] /\ ~Unassigned(f))
    BY <1>5, <2>1, TypeFacts
  <2> QED BY <2>2 DEF NewValue
<1>7. ASSUME NEW l \in Junction
      PROVE  /\ \A x : ~Calls(l, x) /\ ~Calls(l, x)'
             /\ NewCard(l)' = NewCard(l)
             /\ value'[l] = value[l]
  <2>1. ~\E k \in 1 .. Len(pending) : pending[k].formula = l
    BY <1>2, <1>3, <1>4
  <2>2. ~\E k \in 1 .. Len(pending') : pending'[k].formula = l
    BY <1>4
  <2> QED BY <1>1, <1>2, <1>5, <2>1, <2>2, FormulaFacts
          DEF Calls, Names, Waits, NewCard
<1>8. IJunctions'
  <2>1. \A l \in Junction : SortedAt(l)'
    BY <1>1, <1>6, <1>7 DEF IJunctions, SortedAt
  <2>2. \A l \in Junction : value'[l] = JunctionValue(l, NewCard(l)')
    BY <1>7 DEF IJunctions
  <2> QED BY <1>1, <2>1, <2>2 DEF IJunctions, CallFits
<1>9. IStack'
  <2>1. \A k \in 2 .. Len(pending') : FALSE
    BY <1>4
  <2> QED BY <1>1, <1>4, <2>1 DEF IStack
<1>10. IPositions'
  BY <1>1 DEF IPositions
<1>11. /\ sub' \in [Junction -> UNION {[1 .. CardSub(l) -> Subformulas(l)] :
                                         l \in Junction}]
       /\ \A l \in Junction : sub'[l] \in [1 .. CardSub(l) -> Subformulas(l)]
       /\ position' \in [Formula \ {Root} -> Nat]
       /\ cardSat' \in [Junction -> Nat]
       /\ \A l \in Junction : cardSat'[l] <= CardSub(l)
       /\ call' \in CallType
  BY <1>1, TypeFacts DEF CallType
<1>12. \A a \in Atomic : value'[a] = value[a]
  BY <1>2, <1>5, FormulaFacts DEF Leaf
<1> QED BY <1>4, <1>5, <1>6, <1>8, <1>9, <1>10, <1>11, <1>12 DEF JunctionStepKeeps

(* updateFT moves the subformula in front of the border, gives the         *)
(* junction the value of its new count, and tells the parent as the last   *)
(* thing (AtomicBooleanPredicate.cc 259-279).                              *)
LEMMA UpdateFTKeeps ==
  ASSUME TypeOK, IPositions, IStack, IJunctions, UpdateFT
  PROVE  JunctionStepKeeps
<1> PICK j : j = call.junction
  OBVIOUS
<1> PICK i : i = call.i
  OBVIOUS
<1> DEFINE c == cardSat[j]
           flips == IF IsAnd[j] THEN cardSat[j] + 1 = CardSub(j)
                                ELSE cardSat[j] + 1 = 1
           v == flips \/ value[j]
<1>1. /\ call.kind = "FT"
      /\ call # NoCall /\ j \in Junction /\ i \in 1 .. CardSub(j)
      /\ NewValue[sub[j][i]] /\ ~(i <= c)
  <2>1. call.kind = "FT"
    BY DEF UpdateFT
  <2>2. call.kind \in {"TF", "FT"} /\ call.kind # "TF"
    BY <2>1
  <2> QED BY <2>1, <2>2, CallFacts
<1>2. /\ c \in Nat /\ CardSub(j) \in Nat
      /\ c + 1 \in 1 .. CardSub(j)
      /\ j \in Formula \ Deadlock
  <2>1. c \in Nat /\ CardSub(j) \in Nat /\ c <= CardSub(j)
    BY <1>1, TypeFacts
  <2>2. c + 1 <= CardSub(j)
    BY <1>1, <2>1
  <2>3. j \in Formula \ Deadlock
    BY <1>1, FormulaFacts DEF Leaf
  <2> HIDE DEF c
  <2> QED BY <2>1, <2>2, <2>3
<1>3. pending = <<>> /\ pending' = <<>> /\ Len(pending) = 0
  <2>1. pending = <<>>
    BY <1>1 DEF IStack
  <2> QED BY <2>1 DEF UpdateFT
<1>4. /\ value' = [value EXCEPT ![j] = v]
      /\ call' = IF flips THEN Tell(j, TRUE) ELSE NoCall
      /\ cardSat' = [cardSat EXCEPT ![j] = c + 1]
      /\ Swap(j, i, c + 1)
  BY DEF UpdateFT
<1>5. value[j] = JunctionValue(j, c) /\ value[j] \in BOOLEAN /\ NewValue = value
  <2>1. NewCard(j) = c
    BY <1>3 DEF NewCard
  <2> QED BY <1>1, <1>2, <1>3, <2>1, TypeFacts, NewValueFacts DEF IJunctions
<1>6. v = JunctionValue(j, c + 1) /\ (flips <=> v # value[j]) /\ v \in BOOLEAN
  BY <1>2, <1>5 DEF JunctionValue
<1>7. call' = IF v # NewValue[j] THEN Tell(j, v) ELSE NoCall
  BY <1>4, <1>5, <1>6
<1>8. v # NewValue[j] => v
  BY <1>5, <1>6
<1> HIDE DEF flips, v
<1>9. /\ value' \in [Formula -> BOOLEAN] /\ value'[j] = v
      /\ \A f \in Formula \ {j} : value'[f] = value[f]
  BY <1>2, <1>4, <1>6, TypeFacts
<1>10. NewValue' = value' /\ NewValue' = [NewValue EXCEPT ![j] = v]
  <2>1. \A f : ~Unassigned(f)'
    BY <1>3 DEF Unassigned
  <2>2. NewValue' = value'
    BY <1>9, <2>1 DEF NewValue
  <2> QED BY <1>4, <1>5, <2>2
<1>11. /\ cardSat' \in [Junction -> Nat] /\ cardSat'[j] = c + 1
       /\ \A l \in Junction \ {j} : cardSat'[l] = cardSat[l]
       /\ \A l \in Junction : cardSat'[l] <= CardSub(l)
  <2>1. /\ cardSat' \in [Junction -> Nat] /\ cardSat'[j] = c + 1
        /\ \A l \in Junction \ {j} : cardSat'[l] = cardSat[l]
    BY <1>1, <1>2, <1>4, TypeFacts
  <2>2. c + 1 <= CardSub(j)
    BY <1>2
  <2>3. \A l \in Junction \ {j} : cardSat'[l] <= CardSub(l)
    BY <2>1, TypeFacts
  <2> QED BY <2>1, <2>2, <2>3
<1>12. /\ sub' \in [Junction -> UNION {[1 .. CardSub(l) -> Subformulas(l)] :
                                         l \in Junction}]
       /\ \A l \in Junction : sub'[l] \in [1 .. CardSub(l) -> Subformulas(l)]
       /\ position' \in [Formula \ {Root} -> Nat]
       /\ \A l \in Junction \ {j} : sub'[l] = sub[l]
       /\ IPositions'
  BY <1>1, <1>2, <1>4, SwapFacts
<1>13. /\ call' \in CallType
       /\ call' # NoCall =>
            /\ j # Root /\ v # NewValue[j]
            /\ call'.kind = IF v THEN "FT" ELSE "TF"
            /\ call'.junction = Parent[j] /\ call'.junction \in Junction
            /\ call'.i \in 1 .. CardSub(call'.junction)
            /\ sub[call'.junction][call'.i] = j
       /\ \A l \in Junction : \A x \in 1 .. CardSub(l) :
            Names(l, x)' <=> (v # NewValue[j] /\ sub[l][x] = j)
  BY <1>2, <1>6, <1>7, TellNames, NewValueFacts DEF Names
<1>14. CallFits'
  <2>1. SUFFICES ASSUME call' # NoCall
                 PROVE  NewValue'[sub'[call'.junction][call'.i]] <=> call'.kind = "FT"
    BY <1>13 DEF CallFits
  <2>2. call'.junction \in Junction \ {j} /\ sub[call'.junction][call'.i] = j
    BY <1>13, <2>1, FormulaFacts
  <2>3. sub'[call'.junction][call'.i] = j /\ v /\ call'.kind = "FT"
    BY <1>8, <1>12, <1>13, <2>1, <2>2
  <2> QED BY <1>9, <1>10, <2>3
<1>15. ASSUME NEW l \in Junction, NEW x
       PROVE  /\ Calls(l, x) <=> (l = j /\ x = i)
              /\ Calls(l, x)' <=> Names(l, x)'
  BY <1>1, <1>3 DEF Calls, Names, Waits
<1>16. SortedAt(j)'
  <2>1. SortedAt(j)
    BY <1>1 DEF IJunctions
  <2>2. \A x \in 1 .. CardSub(j) : sub[j][x] # j
    BY <1>1, ListedFacts, FormulaFacts
  <2>3. \A f \in Subformulas(j) : NewValue'[f] = NewValue[f]
    BY <1>1, <1>5, <1>9, <1>10, FormulaFacts
  <2>4. \A x \in 1 .. CardSub(j) : (Calls(j, x) <=> x = i) /\ ~Calls(j, x)'
    BY <1>1, <1>13, <1>15, <2>2
  <2> HIDE DEF c
  <2>5. NewValue[sub[j][i]] <=> c + 1 <= c + 1
    BY <1>1, <1>2
  <2>6. i # c + 1 => (c + 1 <= cardSat[j] <=> i <= c + 1)
    BY <1>1, <1>2 DEF c
  <2>7. \A x \in 1 .. CardSub(j) \ {i, c + 1} : x <= cardSat[j] <=> x <= c + 1
    BY <1>2 DEF c
  <2>8. c + 1 \in Nat
    BY <1>2
  <2> QED BY <1>1, <1>2, <1>4, <1>11, <2>1, <2>3, <2>4, <2>5, <2>6, <2>7, <2>8,
             MoveSorts
<1>17. ASSUME NEW l \in Junction
       PROVE  SortedAt(l)'
  <2>1. CASE l = j
    BY <1>16, <2>1
  <2>2. CASE l # j
    <3>1. SortedAt(l)
      BY DEF IJunctions
    <3>2. \A x \in 1 .. CardSub(l) :
            Calls(l, x)' <=> Calls(l, x) \/ (v # NewValue[j] /\ sub[l][x] = j)
      BY <1>13, <1>15, <2>2
    <3>3. \A x \in 1 .. CardSub(l) : ~Calls(l, x)
      BY <1>15, <2>2
    <3>4. sub'[l] = sub[l] /\ cardSat'[l] = cardSat[l]
      BY <1>11, <1>12, <2>2
    <3> QED BY <1>2, <1>6, <1>10, <3>1, <3>2, <3>3, <3>4, TellSorts
  <2> QED BY <2>1, <2>2
<1>18. ASSUME NEW l \in Junction
       PROVE  value'[l] = JunctionValue(l, NewCard(l)')
  <2>1. NewCard(l)' = cardSat'[l] /\ NewCard(l) = cardSat[l]
    BY <1>3 DEF NewCard
  <2>2. CASE l = j
    BY <1>6, <1>9, <1>11, <2>1, <2>2
  <2>3. CASE l # j
    BY <1>9, <1>11, <2>1, <2>3, FormulaFacts DEF IJunctions
  <2> QED BY <2>2, <2>3
<1>19. IJunctions'
  BY <1>14, <1>17, <1>18 DEF IJunctions
<1>20. IStack' /\ pending' \in Seq(Frame)
  BY <1>3, EmptySeq DEF IStack
<1>21. /\ \A f \in Leaf : NewValue'[f] = NewValue[f]
       /\ \A a \in Atomic : value'[a] = value[a]
  BY <1>1, <1>5, <1>9, <1>10, FormulaFacts DEF Leaf
<1> QED BY <1>9, <1>11, <1>12, <1>13, <1>19, <1>20, <1>21 DEF JunctionStepKeeps

(* A leaf that takes a new value, now or when its parent has returned,     *)
(* leaves the junctions as they are.                                       *)
LEMMA LeafKeeps ==
  ASSUME TypeOK, IPositions, IJunctions, Idle,
         NEW l \in Leaf, NEW v \in BOOLEAN,
         call' = IF v # value[l] THEN Tell(l, v) ELSE NoCall,
         value' \in [Formula -> BOOLEAN],
         \A f \in Formula \ {l} : value'[f] = value[f],
         UNCHANGED <<sub, position, cardSat>>,
         \/ pending' = <<>> /\ value'[l] = v
         \/ /\ pending' = <<[formula |-> l, i |-> 0]>>
            /\ ~v /\ l \in Deadlock
  PROVE  /\ IPositions' /\ IStack' /\ IJunctions'
         /\ call' \in CallType
         /\ pending' \in Seq(Frame)
         /\ NewValue'[l] = v
         /\ \A f \in Leaf \ {l} : NewValue'[f] = NewValue[f]
<1>1. call = NoCall /\ pending = <<>> /\ Len(pending) = 0
  BY DEF Idle
<1>2. l \in Formula /\ l \notin Junction
  BY FormulaFacts
<1>3. NewValue = value /\ value \in [Formula -> BOOLEAN]
  BY <1>1, TypeFacts, NewValueFacts
<1>4. /\ pending' \in Seq(Frame)
      /\ \A k \in 1 .. Len(pending') : k = 1 /\ pending'[k].formula = l
      /\ pending' # <<>> =>
           /\ Len(pending') = 1 /\ pending'[1].formula = l
           /\ ~v /\ l \in Deadlock
  <2>1. CASE pending' = <<>>
    BY <2>1, EmptySeq
  <2>2. CASE pending' = <<[formula |-> l, i |-> 0]>> /\ ~v /\ l \in Deadlock
    <3>1. [formula |-> l, i |-> 0] \in Frame
      BY <2>2 DEF Frame
    <3> QED BY <2>2, <3>1
  <2> QED BY <2>1, <2>2
<1>5. NewValue' = [NewValue EXCEPT ![l] = v]
  <2>1. ASSUME NEW f \in Formula
        PROVE  (value'[f] /\ ~Unassigned(f)') = [NewValue EXCEPT ![l] = v][f]
    <3>1. CASE f # l
      <4>1. ~Unassigned(f)'
        BY <1>4, <3>1 DEF Unassigned
      <4> QED BY <1>3, <3>1, <4>1
    <3>2. CASE f = l /\ pending' = <<>>
      <4>1. ~Unassigned(f)'
        BY <3>2, EmptySeq DEF Unassigned
      <4> QED BY <1>2, <1>3, <3>2, <4>1
    <3>3. CASE f = l /\ pending' # <<>>
      <4>1. Unassigned(f)' /\ ~v
        BY <1>4, <3>3 DEF Unassigned
      <4> QED BY <1>2, <1>3, <3>3, <4>1
    <3> QED BY <3>1, <3>2, <3>3
  <2>2. [NewValue EXCEPT ![l] = v] = [f \in Formula |-> [NewValue EXCEPT ![l] = v][f]]
    BY <1>3
  <2> QED BY <2>1, <2>2 DEF NewValue
<1>6. /\ call' \in CallType
      /\ call' # NoCall =>
           /\ l # Root /\ v # value[l]
           /\ call'.kind = IF v THEN "FT" ELSE "TF"
           /\ call'.junction = Parent[l] /\ call'.junction \in Junction
           /\ call'.i \in 1 .. CardSub(call'.junction)
           /\ sub[call'.junction][call'.i] = l
      /\ \A j \in Junction : \A x \in 1 .. CardSub(j) :
           Names(j, x)' <=> (v # value[l] /\ sub[j][x] = l)
  BY <1>2, <1>3, TellNames DEF Names
<1>7. NewValue'[l] = v /\ \A f \in Formula \ {l} : NewValue'[f] = NewValue[f]
  BY <1>2, <1>3, <1>5
<1>8. CallFits'
  <2>1. SUFFICES ASSUME call' # NoCall
                 PROVE  NewValue'[sub'[call'.junction][call'.i]] <=> call'.kind = "FT"
    BY <1>6 DEF CallFits
  <2> QED BY <1>6, <1>7, <2>1
<1>9. IStack'
  <2>1. \A k \in 1 .. Len(pending') : FrameFits(k)'
    BY <1>2, <1>4 DEF FrameFits
  <2>2. \A k \in 2 .. Len(pending') : FALSE
    BY <1>4, EmptySeq
  <2>3. call' # NoCall /\ pending' # <<>> =>
          /\ call'.kind = "TF"
          /\ sub'[call'.junction][call'.i] = pending'[Len(pending')].formula
    BY <1>4, <1>6
  <2> QED BY <2>1, <2>2, <2>3 DEF IStack
<1>10. ASSUME NEW j \in Junction
       PROVE  SortedAt(j)' /\ value'[j] = JunctionValue(j, NewCard(j)')
  <2>1. \A x : ~Calls(j, x) /\ (Calls(j, x)' <=> Names(j, x)')
    BY <1>1, <1>2, <1>4 DEF Calls, Names, Waits
  <2>2. SortedAt(j)
    BY DEF IJunctions
  <2>3. SortedAt(j)'
    BY <1>2, <1>3, <1>5, <1>6, <2>1, <2>2, TellSorts
  <2>4. NewCard(j)' = NewCard(j)
    BY <1>1, <1>2, <1>4 DEF NewCard
  <2>5. value'[j] = value[j]
    BY <1>2, FormulaFacts
  <2> QED BY <2>3, <2>4, <2>5 DEF IJunctions
<1>11. IJunctions'
  BY <1>8, <1>10 DEF IJunctions
<1>12. IPositions'
  BY DEF IPositions
<1> QED BY <1>4, <1>6, <1>7, <1>9, <1>11, <1>12, FormulaFacts

(* An atomic or a fireable predicate.                                      *)
LEMMA SetLeafKeeps ==
  ASSUME TypeOK, IPositions, IJunctions, Idle,
         NEW l \in Atomic \cup Fireable, NEW v \in BOOLEAN, SetLeaf(l, v),
         UNCHANGED <<sub, position, cardSat, pending>>
  PROVE  /\ IPositions' /\ IStack' /\ IJunctions'
         /\ value' \in [Formula -> BOOLEAN]
         /\ call' \in CallType
         /\ pending' \in Seq(Frame)
         /\ value'[l] = v
         /\ NewValue'[l] = v
         /\ \A f \in Leaf \ {l} : NewValue'[f] = NewValue[f]
         /\ \A f \in Leaf \ {l} : value'[f] = value[f]
<1>1. /\ value' = [value EXCEPT ![l] = v]
      /\ call' = IF v # value[l] THEN Tell(l, v) ELSE NoCall
      /\ l \in Leaf /\ l \in Formula /\ pending' = <<>>
  BY FormulaFacts DEF SetLeaf, Leaf, Idle
<1>2. /\ value' \in [Formula -> BOOLEAN] /\ value'[l] = v
      /\ \A f \in Formula \ {l} : value'[f] = value[f]
  BY <1>1, TypeFacts
<1>3. \A f \in Leaf \ {l} : value'[f] = value[f]
  BY <1>2, FormulaFacts
<1> QED BY <1>1, <1>2, <1>3, LeafKeeps
-----------------------------------------------------------------------------
(* A step forward is one of the token game, and is updated exactly.        *)
LEMMA ForwardFacts ==
  ASSUME TypeOK, IWalk, NEW t \in Transition, Forward(t)
  PROVE  /\ EnabledExact(ns)
         /\ ns' \in NetStateType
         /\ EnabledExact(ns')
         /\ LeadsTo(ns, t, ns')
         /\ ns'.Current = MarkingAfter(ns.Current, t)
<1>1. ns \in NetStateType /\ Len(trail) \in Nat
  BY TypeFacts, LenProperties
<1>2. At(Len(trail) + 1) = ns
  BY <1>1 DEF At
<1>3. EnabledExact(ns)
  BY <1>1, <1>2 DEF IWalk
<1>4. /\ ns.Enabled[t] /\ ~Overflows(ns.Current, t)
      /\ ns' = UpdateEnabled(Fire(ns, t), t)
  BY DEF Forward
<1>5. Activated(ns.Current, t)
  BY <1>3, <1>4 DEF EnabledExact, Flagged, EnabledSet
<1>6. Fire(ns, t).Current = MarkingAfter(ns.Current, t)
  BY <1>1, <1>4, <1>5, FireIsTokenGame
<1>7. /\ ns' \in NetStateType /\ EnabledExact(ns')
      /\ ns'.Current = Fire(ns, t).Current
      /\ ns'.HashCurrent = Fire(ns, t).HashCurrent
  BY <1>1, <1>3, <1>4, <1>6, FireType, UpdateEnabledExact
<1> QED BY <1>3, <1>4, <1>5, <1>6, <1>7 DEF LeadsTo

(* A step backward leads to the marking and the hash of the step before.   *)
LEMMA BackwardFacts ==
  ASSUME TypeOK, IWalk, Backward
  PROVE  LET n == Len(trail)
             t == path[n]
         IN /\ n \in Nat \ {0} /\ t \in Transition
            /\ EnabledExact(ns)
            /\ ns' \in NetStateType
            /\ EnabledExact(ns')
            /\ ns'.Current = trail[n].Current
            /\ ns'.HashCurrent = trail[n].HashCurrent
            /\ ns.Current = MarkingAfter(ns'.Current, t)
            /\ todo' = Changed(t) /\ moved' = t
<1> DEFINE n == Len(trail)
           t == path[n]
           b == Backfire(ns, t)
<1>1. /\ ns \in NetStateType /\ n \in Nat \ {0} /\ t \in Transition
      /\ trail[n] \in NetStateType
  <2>1. path # <<>> /\ Len(trail) = Len(path)
    BY TypeFacts DEF Backward
  <2>2. Len(path) # 0
    BY <2>1, TypeFacts, EmptySeq
  <2>3. trail \in Seq(NetStateType) /\ Len(trail) # 0
    BY <2>1, <2>2, TypeFacts
  <2> QED BY <2>1, <2>2, <2>3, TypeFacts, SeqShrinks
<1>2. At(n + 1) = ns
  BY <1>1 DEF At
<1>3. EnabledExact(ns) /\ LeadsTo(trail[n], t, ns)
  BY <1>1, <1>2 DEF IWalk
<1>4. ns' = RevertEnabled(b, t) /\ todo' = Changed(t) /\ moved' = t
  BY TypeFacts DEF Backward
<1>5. ns.Current = MarkingAfter(trail[n].Current, t)
  BY <1>1, <1>3, FireIsTokenGame DEF LeadsTo
<1>6. /\ b \in NetStateType
      /\ b.Current = trail[n].Current
      /\ b.HashCurrent = trail[n].HashCurrent
      /\ b.Enabled = ns.Enabled
      /\ b.CardEnabled = ns.CardEnabled
  BY <1>1, <1>3, BackfireUndoesFire DEF LeadsTo
<1> HIDE DEF b
<1>7. /\ ns' \in NetStateType /\ EnabledExact(ns')
      /\ ns'.Current = b.Current /\ ns'.HashCurrent = b.HashCurrent
  BY <1>1, <1>3, <1>4, <1>5, <1>6, RevertEnabledExact
<1> QED BY <1>1, <1>3, <1>4, <1>5, <1>6, <1>7

(* A step leads on from an exact net state to an exact one.                *)
LEMMA ForwardWalk ==
  ASSUME TypeOK, IWalk, NEW t \in Transition, Forward(t)
  PROVE  IWalk'
<1> PICK n \in Nat : n = Len(trail)
  BY TypeFacts, LenProperties
<1>1. trail' = Append(trail, ns) /\ path' = Append(path, t)
  BY DEF Forward
<1>2. /\ n \in Nat /\ n = Len(trail) /\ Len(trail') = n + 1
      /\ \A i \in 1 .. n : trail'[i] = trail[i] /\ path'[i] = path[i]
      /\ trail'[n + 1] = ns /\ path'[n + 1] = t
  BY <1>1, TypeFacts, SeqGrows
<1>3. /\ \A i \in 1 .. n + 1 : At(i)' = At(i)
      /\ At(n + 2)' = ns'
      /\ \A i \in 1 .. n : At(i) = trail[i]
      /\ At(n + 1) = ns
  <2>1. \A i \in 1 .. n : At(i)' = trail[i] /\ At(i) = trail[i]
    BY <1>2 DEF At
  <2>2. At(n + 1)' = ns /\ At(n + 1) = ns
    BY <1>2 DEF At
  <2>3. At(n + 2)' = ns'
    BY <1>2 DEF At
  <2> QED BY <1>2, <2>1, <2>2, <2>3
<1>4. ASSUME NEW i \in 1 .. n + 2
      PROVE  EnabledExact(At(i)')
  <2>1. CASE i = n + 2
    BY <1>3, <2>1, ForwardFacts
  <2>2. CASE i # n + 2
    <3>1. i \in 1 .. n + 1
      BY <1>2, <2>2
    <3> QED BY <1>3, <3>1 DEF IWalk
  <2> QED BY <2>1, <2>2
<1>5. ASSUME NEW i \in 1 .. n + 1
      PROVE  LeadsTo(trail'[i], path'[i], At(i + 1)')
  <2>1. CASE i = n + 1
    <3>1. i + 1 = n + 2
      BY <1>2, <2>1
    <3> QED BY <1>2, <1>3, <2>1, <3>1, ForwardFacts
  <2>2. CASE i # n + 1
    <3>1. i \in 1 .. n /\ i + 1 \in 1 .. n + 1
      BY <1>2, <2>2
    <3>2. LeadsTo(trail[i], path[i], At(i + 1))
      BY <3>1 DEF IWalk
    <3> QED BY <1>2, <1>3, <3>1, <3>2
  <2> QED BY <2>1, <2>2
<1>6. Len(trail') + 1 = n + 2
  BY <1>2
<1>7. \A i \in 1 .. Len(trail') + 1 : EnabledExact(At(i)')
  BY <1>4, <1>6
<1>8. \A i \in 1 .. Len(trail') : LeadsTo(trail'[i], path'[i], At(i + 1)')
  BY <1>2, <1>5
<1> QED BY <1>7, <1>8 DEF IWalk, EnabledExact, Flagged, EnabledSet, Activated, Counted, LeadsTo, Overflows, Fire

(* A step back restores the net state before.                              *)
LEMMA BackwardWalk ==
  ASSUME TypeOK, IWalk, Backward
  PROVE  IWalk'
<1> PICK n \in Nat : n = Len(trail)
  BY TypeFacts, LenProperties
<1>1. /\ trail' = SubSeq(trail, 1, n - 1) /\ path' = SubSeq(path, 1, n - 1)
      /\ n # 0 /\ Len(path) = n
  BY TypeFacts, BackwardFacts DEF Backward
<1>2. /\ Len(trail') = n - 1
      /\ \A i \in 1 .. n - 1 : trail'[i] = trail[i] /\ path'[i] = path[i]
  BY <1>1, TypeFacts, SeqShrinks
<1>3. /\ \A i \in 1 .. n - 1 : At(i)' = trail[i]
      /\ At(n)' = ns'
      /\ \A i \in 1 .. n : At(i) = trail[i]
  <2>1. \A i \in 1 .. n - 1 : At(i)' = trail[i]
    BY <1>2 DEF At
  <2>2. At(n)' = ns'
    BY <1>2 DEF At
  <2>3. \A i \in 1 .. n : At(i) = trail[i]
    BY DEF At
  <2> QED BY <2>1, <2>2, <2>3
<1>4. ASSUME NEW i \in 1 .. n
      PROVE  EnabledExact(At(i)')
  <2>1. CASE i = n
    BY <1>3, <2>1, BackwardFacts
  <2>2. CASE i # n
    <3>1. i \in 1 .. n - 1 /\ i \in 1 .. n + 1
      BY <2>2
    <3> QED BY <1>3, <3>1 DEF IWalk
  <2> QED BY <2>1, <2>2
<1>5. ASSUME NEW i \in 1 .. n - 1
      PROVE  LeadsTo(trail'[i], path'[i], At(i + 1)')
  <2>1. LeadsTo(trail[i], path[i], trail[i + 1])
    <3>1. i \in 1 .. n /\ i + 1 \in 1 .. n
      OBVIOUS
    <3> QED BY <1>3, <3>1 DEF IWalk
  <2>2. /\ At(i + 1)'.Current = trail[i + 1].Current
        /\ At(i + 1)'.HashCurrent = trail[i + 1].HashCurrent
    <3>1. CASE i + 1 = n
      BY <1>3, <3>1, BackwardFacts
    <3>2. CASE i + 1 # n
      <4>1. i + 1 \in 1 .. n - 1
        BY <3>2
      <4> QED BY <1>3, <4>1
    <3> QED BY <3>1, <3>2
  <2> QED BY <1>2, <2>1, <2>2 DEF LeadsTo
<1>6. Len(trail') + 1 = n
  BY <1>2
<1>7. \A i \in 1 .. Len(trail') + 1 : EnabledExact(At(i)')
  BY <1>4, <1>6
<1>8. \A i \in 1 .. Len(trail') : LeadsTo(trail'[i], path'[i], At(i + 1)')
  BY <1>2, <1>5
<1> QED BY <1>7, <1>8 DEF IWalk, EnabledExact, Flagged, EnabledSet, Activated, Counted, LeadsTo, Overflows, Fire
-----------------------------------------------------------------------------
(* A transition that neither takes from nor puts on the pre-places of u    *)
(* leaves u as it is.                                                      *)
LEMMA Unaffected ==
  ASSUME NEW m \in [Place -> Tokens], NEW t \in Transition,
         NEW u \in Transition, t \notin Conflicting[u] \cup Feeding(u),
         MarkingAfter(m, t) \in [Place -> Tokens]
  PROVE  Activated(MarkingAfter(m, t), u) <=> Activated(m, u)
<1>1. ASSUME NEW p \in Place
      PROVE  MarkingAfter(m, t)[p] >= Pre[u][p] <=> m[p] >= Pre[u][p]
  <2>1. CASE Pre[u][p] = 0
    BY <2>1 DEF Tokens
  <2>2. CASE Pre[u][p] # 0
    <3>1. /\ Pre[u][p] \in Nat /\ Pre[t][p] \in Nat /\ Post[t][p] \in Nat
          /\ m[p] \in Nat
      BY Net DEF NetAssumption, Tokens
    <3>2. Pre[t][p] = 0
      BY <2>2, <3>1 DEF Conflicting, Consumers
    <3>3. Post[t][p] = 0
      BY <2>2, <3>1 DEF Feeding
    <3> QED BY <3>1, <3>2, <3>3 DEF MarkingAfter
  <2> QED BY <2>1, <2>2
<1> QED BY <1>1 DEF Activated

(* A leaf that is not in the list of t is not changed by firing or undoing *)
(* t, and what is to be added to a sum in the list is the change of t.     *)
LEMMA MoveLeaves ==
  ASSUME TypeOK, ILeaves, todo = {}, NEW t \in Transition,
         EnabledExact(ns), ns' \in NetStateType, EnabledExact(ns'),
         todo' = Changed(t), moved' = t, UNCHANGED <<sum, value, NewValue>>,
         \/ direction' = 1 /\ ns'.Current = MarkingAfter(ns.Current, t)
         \/ direction' = -1 /\ ns.Current = MarkingAfter(ns'.Current, t)
  PROVE  ILeaves'
<1>1. ns.Current \in [Place -> Tokens] /\ ns'.Current \in [Place -> Tokens]
  BY TypeFacts DEF NetStateType
<1>2. ASSUME NEW a \in Atomic
      PROVE  SumOf(a, ns'.Current) =
               sum[a] + (IF a \in Changed(t) THEN direction' * ChangedSum(t, a) ELSE 0)
  <2>1. SumOf(a, ns.Current) = sum[a] /\ sum[a] \in Int
    BY DEF ILeaves, TypeOK
  <2>2. ChangedSum(t, a) \in Int /\ SumOf(a, ns'.Current) \in Int
    BY <1>1, Linearity
  <2>3. \/ direction' = 1 /\ SumOf(a, ns'.Current) = sum[a] + ChangedSum(t, a)
        \/ direction' = -1 /\ SumOf(a, ns'.Current) = sum[a] - ChangedSum(t, a)
    <3>1. \A m \in [Place -> Tokens] :
            SumOf(a, MarkingAfter(m, t)) = SumOf(a, m) + ChangedSum(t, a)
      BY Linearity
    <3>2. CASE direction' = 1 /\ ns'.Current = MarkingAfter(ns.Current, t)
      BY <1>1, <2>1, <3>1, <3>2
    <3>3. CASE direction' = -1 /\ ns.Current = MarkingAfter(ns'.Current, t)
      <4>1. SumOf(a, ns.Current) = SumOf(a, ns'.Current) + ChangedSum(t, a)
        BY <1>1, <3>1, <3>3
      <4> QED BY <2>1, <2>2, <3>3, <4>1
    <3> QED BY <3>2, <3>3
  <2>4. a \notin Changed(t) => ChangedSum(t, a) = 0
    BY DEF Changed
  <2> HIDE DEF Changed
  <2> QED BY <2>1, <2>2, <2>3, <2>4
<1>3. ASSUME NEW f \in (Fireable \cup Deadlock) \ Changed(t)
      PROVE  NewValue[f] = Observes(f, ns')
  <2>1. f \in Fireable /\ t \notin Conflicting[Observed[f]] \cup Feeding(Observed[f])
    BY FormulaFacts DEF Changed
  <2>2. Observed[f] \in Transition
    BY <2>1, FormulaParameters DEF FormulaAssumption
  <2>3. Activated(ns'.Current, Observed[f]) <=> Activated(ns.Current, Observed[f])
    BY <1>1, <2>1, <2>2, Unaffected
  <2>4. ns'.Enabled[Observed[f]] <=> ns.Enabled[Observed[f]]
    BY <2>2, <2>3 DEF EnabledExact, Flagged, EnabledSet
  <2>5. /\ ns'.Enabled[Observed[f]] \in BOOLEAN /\ ns.Enabled[Observed[f]] \in BOOLEAN
    BY <2>2, TypeFacts DEF NetStateType
  <2>6. ns'.Enabled[Observed[f]] = ns.Enabled[Observed[f]]
    BY <2>4, <2>5
  <2>7. Observes(f, ns') = Observes(f, ns)
    BY <2>1, <2>6 DEF Observes
  <2>8. NewValue[f] = Observes(f, ns)
    BY DEF ILeaves
  <2> QED BY <2>7, <2>8
<1>4. \A a \in Atomic : value[a] = (sum[a] <= Threshold[a])
  BY DEF ILeaves
<1> QED BY <1>2, <1>3, <1>4 DEF ILeaves, Observes

(* An update of a leaf adds what was to be added, and leaves the others.   *)
LEMMA UpdateAtomicLeaves ==
  ASSUME TypeOK, ILeaves, NEW a \in Atomic, UpdateAtomic(a),
         value'[a] = (sum'[a] <= Threshold[a]),
         \A f \in Leaf \ {a} : value'[f] = value[f] /\ NewValue'[f] = NewValue[f]
  PROVE  ILeaves' /\ sum' \in [Atomic -> Int]
<1>1. /\ a \in todo /\ todo' = todo \ {a}
      /\ sum' = [sum EXCEPT ![a] = sum[a] + direction * ChangedSum(moved, a)]
      /\ UNCHANGED <<ns, moved, direction>>
  BY DEF UpdateAtomic
<1>2. /\ sum \in [Atomic -> Int] /\ moved \in Transition /\ direction \in Int
      /\ ChangedSum(moved, a) \in Int
  BY Linearity DEF TypeOK
<1>3. sum[a] + direction * ChangedSum(moved, a) \in Int
  BY <1>2
<1>4. /\ sum' \in [Atomic -> Int]
      /\ sum'[a] = sum[a] + direction * ChangedSum(moved, a)
      /\ \A b \in Atomic \ {a} : sum'[b] = sum[b]
  BY <1>1, <1>2, <1>3
<1>5. ASSUME NEW b \in Atomic
      PROVE  /\ value'[b] = (sum'[b] <= Threshold[b])
             /\ SumOf(b, ns'.Current) =
                  sum'[b] + (IF b \in todo' THEN direction' * ChangedSum(moved', b) ELSE 0)
  <2>1. CASE b = a
    <3>1. SumOf(a, ns.Current) = sum[a] + direction * ChangedSum(moved, a)
      BY <1>1 DEF ILeaves
    <3>2. SumOf(a, ns'.Current) = sum'[a] /\ sum'[a] \in Int
      BY <1>1, <1>3, <1>4, <3>1
    <3> QED BY <1>1, <2>1, <3>2
  <2>2. CASE b # a
    <3>1. b \in Leaf \ {a} /\ sum'[b] = sum[b] /\ (b \in todo' <=> b \in todo)
      BY <1>1, <1>4, <2>2 DEF Leaf
    <3> QED BY <1>1, <3>1 DEF ILeaves
  <2> QED BY <2>1, <2>2
<1>6. ASSUME NEW f \in (Fireable \cup Deadlock) \ todo'
      PROVE  NewValue'[f] = Observes(f, ns')
  <2>1. f # a /\ f \in Leaf /\ f \notin todo
    BY <1>1, FormulaFacts DEF Leaf
  <2> QED BY <1>1, <2>1 DEF ILeaves
<1> QED BY <1>4, <1>5, <1>6 DEF ILeaves, Observes

(* A fireability or deadlock leaf that is updated tells the truth.         *)
LEMMA UpdateObserverLeaves ==
  ASSUME TypeOK, ILeaves, NEW l \in Fireable \cup Deadlock,
         todo' = todo \ {l}, UNCHANGED <<ns, sum, moved, direction>>,
         NewValue'[l] = Observes(l, ns),
         \A f \in Leaf \ {l} : NewValue'[f] = NewValue[f],
         \A a \in Atomic : value'[a] = value[a]
  PROVE  ILeaves'
<1>1. ASSUME NEW b \in Atomic
      PROVE  /\ value'[b] = (sum'[b] <= Threshold[b])
             /\ SumOf(b, ns'.Current) =
                  sum'[b] + (IF b \in todo' THEN direction' * ChangedSum(moved', b) ELSE 0)
  <2>1. b \in Leaf \ {l} /\ (b \in todo' <=> b \in todo)
    BY FormulaFacts DEF Leaf
  <2> QED BY <2>1 DEF ILeaves
<1>2. ASSUME NEW f \in (Fireable \cup Deadlock) \ todo'
      PROVE  NewValue'[f] = Observes(f, ns')
  <2>1. CASE f = l
    BY <2>1
  <2>2. CASE f # l
    BY <2>2 DEF ILeaves, Leaf
  <2> QED BY <2>1, <2>2
<1> QED BY <1>1, <1>2 DEF ILeaves, Observes
-----------------------------------------------------------------------------
(* The state after evaluate.                                               *)
Evaluated ==
  /\ ns = InitialNetState(InitialMarking)
  /\ path = <<>>
  /\ trail = <<>>
  /\ sum = SumsIn(ns)
  /\ value \in Valuations(ns)
  /\ sub \in SubLists(value)
  /\ position = PositionsIn(sub)
  /\ cardSat = CardsIn(value)
  /\ todo = {}
  /\ moved \in Transition
  /\ direction \in {1, -1}
  /\ Idle

(* What evaluate computes satisfies the invariant.                         *)
LEMMA EvaluatedIsInv == Evaluated => IInv
<1> SUFFICES ASSUME Evaluated
             PROVE  IInv
  OBVIOUS
<1>1. ns \in NetStateType /\ EnabledExact(ns)
  BY FormulaParameters, InitialExact DEF Evaluated, FormulaAssumption
<1>2. /\ value \in [Formula -> BOOLEAN]
      /\ cardSat \in [Junction -> Nat]
      /\ sum \in [Atomic -> Int]
      /\ position \in [Formula \ {Root} -> Nat]
      /\ \A j \in Junction :
           cardSat[j] <= CardSub(j) /\ value[j] = JunctionValue(j, cardSat[j])
      /\ \A a \in Atomic :
           sum[a] = SumOf(a, ns.Current) /\ value[a] = (sum[a] <= Threshold[a])
      /\ \A f \in Fireable \cup Deadlock : value[f] = Observes(f, ns)
  <2>1. value \in Valuations(ns) /\ sub \in SubLists(value)
    BY DEF Evaluated
  <2>2. /\ cardSat = CardsIn(value) /\ sum = SumsIn(ns)
        /\ position = PositionsIn(sub)
    BY DEF Evaluated
  <2>3. /\ value \in [Formula -> BOOLEAN]
        /\ CardsIn(value) \in [Junction -> Nat]
        /\ SumsIn(ns) \in [Atomic -> Int]
        /\ PositionsIn(sub) \in [Formula \ {Root} -> Nat]
    BY <1>1, <2>1, EvaluatedInv
  <2>4. \A j \in Junction : /\ CardsIn(value)[j] <= CardSub(j)
                           /\ value[j] = JunctionValue(j, CardsIn(value)[j])
    BY <1>1, <2>1, EvaluatedInv
  <2>5. \A a \in Atomic : /\ SumsIn(ns)[a] = SumOf(a, ns.Current)
                         /\ value[a] = (SumsIn(ns)[a] <= Threshold[a])
    BY <1>1, <2>1, EvaluatedInv
  <2>6. \A f \in Fireable \cup Deadlock : value[f] = Observes(f, ns)
    BY <1>1, <2>1, EvaluatedInv
  <2> QED BY <2>2, <2>3, <2>4, <2>5, <2>6
<1>3. /\ sub \in [Junction -> UNION {[1 .. CardSub(j) -> Subformulas(j)] :
                                       j \in Junction}]
      /\ \A j \in Junction :
           /\ sub[j] \in [1 .. CardSub(j) -> Subformulas(j)]
           /\ \A i \in 1 .. CardSub(j) : value[sub[j][i]] <=> i <= cardSat[j]
           /\ \A i \in 1 .. CardSub(j) : position[sub[j][i]] = i
      /\ \A f \in Formula \ {Root} :
           /\ position[f] \in 1 .. CardSub(Parent[f])
           /\ sub[Parent[f]][position[f]] = f
  BY <1>2, EvaluatedLists DEF Evaluated
<1>4. /\ path \in Seq(Transition) /\ trail \in Seq(NetStateType)
      /\ Len(trail) = 0 /\ Len(path) = 0
  BY EmptySeq DEF Evaluated
<1>5. /\ todo = {} /\ moved \in Transition /\ direction \in {1, -1}
      /\ call = NoCall /\ pending = <<>> /\ Len(pending) = 0
  BY DEF Evaluated, Idle
<1>6. TypeOK
  BY <1>1, <1>2, <1>3, <1>4, <1>5, EmptySeq DEF TypeOK, CallType
<1>11. NewValue = value
  BY <1>5, <1>6, NewValueFacts
<1>7. IWalk
  <2>1. At(1) = ns
    BY <1>4 DEF At
  <2> QED BY <1>1, <1>4, <2>1 DEF IWalk
<1>8. ILeaves
  <2>1. \A a \in Atomic : sum[a] + 0 = sum[a]
    BY <1>2
  <2> QED BY <1>2, <1>5, <1>11, <2>1 DEF ILeaves
<1>9. IPositions
  BY <1>3 DEF IPositions
<1>10. IJunctions
  <2>1. \A j \in Junction : NewCard(j) = cardSat[j] /\ \A i : ~Calls(j, i)
    BY <1>5 DEF NewCard, Calls, Names, Waits
  <2>2. \A j \in Junction : SortedAt(j)
    BY <1>3, <1>11, <2>1 DEF SortedAt
  <2> QED BY <1>2, <1>5, <2>1, <2>2 DEF IJunctions, CallFits
<1>12. IStack
  BY <1>5 DEF IStack
<1> QED BY <1>6, <1>7, <1>8, <1>9, <1>10, <1>12 DEF IInv

(* The invariant holds in the beginning.                                   *)
LEMMA InitInv == Init => IInv
<1>1. Init => Evaluated
  BY DEF Init, Evaluated
<1> QED BY <1>1, EvaluatedIsInv

(* A restart evaluates everything again.                                   *)
LEMMA RestartInv ==
  ASSUME TypeOK, Restart
  PROVE  IInv'
<1>1. Evaluated'
  BY DEF Restart, Answered, Idle, Evaluated, TypeOK
<1>2. Evaluated' => IInv'
  BY EvaluatedIsInv, PTL
<1> QED BY <1>1, <1>2

(* A step forward or back leaves to do what it may have changed.           *)
LEMMA MoveInv ==
  ASSUME IInv, (\E t \in Transition : Forward(t)) \/ Backward
  PROVE  IInv'
<1>1. TypeOK /\ IWalk /\ ILeaves /\ IPositions /\ IStack /\ IJunctions
  BY DEF IInv
<1>2. /\ UNCHANGED <<sum, value, sub, position, cardSat, call, pending>>
      /\ Answered
  BY DEF Forward, Backward
<1>3. \A t \in Transition : Changed(t) \subseteq Leaf
  BY DEF Changed, Leaf
<1>4. IPositions' /\ IStack' /\ IJunctions' /\ NewValue' = NewValue
  <2>1. NewValue' = NewValue
    BY <1>2 DEF NewValue, Unassigned
  <2> QED BY <1>1, <1>2, <2>1 DEF IPositions, IStack, FrameFits, IJunctions, SortedAt,
             Calls, Names, Waits, NewCard, CallFits
<1>5. IWalk'
  BY <1>1, ForwardWalk, BackwardWalk
<1>6. TypeOK' /\ ILeaves'
  <2>1. CASE \E t \in Transition : Forward(t)
    <3>1. PICK t \in Transition : Forward(t)
      BY <2>1
    <3>2. /\ trail' = Append(trail, ns) /\ path' = Append(path, t)
          /\ todo' = Changed(t) /\ moved' = t /\ direction' = 1 /\ todo = {}
      BY <3>1 DEF Forward, Answered
    <3>3. /\ path' \in Seq(Transition) /\ trail' \in Seq(NetStateType)
          /\ Len(trail') = Len(path')
      BY <1>1, <3>2, TypeFacts, SeqGrows
    <3>4. ILeaves'
      BY <1>1, <1>2, <1>4, <3>1, <3>2, ForwardFacts, MoveLeaves
    <3>5. ns' \in NetStateType
      BY <1>1, <3>1, ForwardFacts
    <3> QED BY <1>1, <1>2, <1>3, <3>2, <3>3, <3>4, <3>5 DEF TypeOK
  <2>2. CASE Backward
    <3>1. PICK t \in Transition : t = path[Len(trail)]
      BY <1>1, <2>2, BackwardFacts
    <3>2. /\ trail' = SubSeq(trail, 1, Len(trail) - 1)
          /\ path' = SubSeq(path, 1, Len(path) - 1)
          /\ direction' = -1 /\ todo = {}
      BY <2>2 DEF Backward, Answered
    <3>3. /\ EnabledExact(ns) /\ ns' \in NetStateType /\ EnabledExact(ns')
          /\ ns.Current = MarkingAfter(ns'.Current, t)
          /\ todo' = Changed(t) /\ moved' = t /\ Len(trail) # 0
      BY <1>1, <2>2, <3>1, BackwardFacts
    <3>4. /\ path' \in Seq(Transition) /\ trail' \in Seq(NetStateType)
          /\ Len(trail') = Len(path')
      BY <1>1, <3>2, <3>3, TypeFacts, SeqShrinks
    <3>5. ILeaves'
      BY <1>1, <1>2, <1>4, <3>2, <3>3, MoveLeaves
    <3> QED BY <1>1, <1>2, <1>3, <3>2, <3>3, <3>4, <3>5 DEF TypeOK
  <2> QED BY <2>1, <2>2
<1> QED BY <1>4, <1>5, <1>6 DEF IInv

(* A walk is left alone by the updates.                                    *)
LEMMA SameWalk ==
  ASSUME IWalk, UNCHANGED <<ns, path, trail>>
  PROVE  IWalk'
<1>1. \A i \in 1 .. Len(trail') + 1 : EnabledExact(At(i)')
  BY DEF IWalk, At
<1>2. \A i \in 1 .. Len(trail') : LeadsTo(trail'[i], path'[i], At(i + 1)')
  BY DEF IWalk, At
<1> QED BY <1>1, <1>2 DEF IWalk, EnabledExact, Flagged, EnabledSet, Activated, Counted, LeadsTo, Overflows, Fire

(* The steps of an update keep the invariant.                              *)
LEMMA UpdateInv ==
  ASSUME IInv, Update
  PROVE  IInv'
<1>1. TypeOK /\ IWalk /\ ILeaves /\ IPositions /\ IStack /\ IJunctions
  BY DEF IInv
<1>2. UNCHANGED <<ns, path, trail, moved, direction>>
  BY DEF Update, UpdateAtomic, UpdateFireable, UpdateDeadlock, UpdateTF, UpdateFT,
         ReturnTF, ReturnDeadlock
<1>3. IWalk'
  BY <1>1, <1>2, SameWalk
<1>4. CASE \E a \in Atomic : UpdateAtomic(a)
  <2>1. PICK a \in Atomic : UpdateAtomic(a)
    BY <1>4
  <2> DEFINE v == sum'[a] <= Threshold[a]
  <2>2. /\ Idle /\ SetLeaf(a, v) /\ todo' = todo \ {a}
        /\ UNCHANGED <<sub, position, cardSat, pending>>
    BY <2>1 DEF UpdateAtomic
  <2>3. v \in BOOLEAN
    OBVIOUS
  <2> HIDE DEF v
  <2>4. /\ IPositions' /\ IStack' /\ IJunctions'
        /\ value' \in [Formula -> BOOLEAN]
        /\ call' \in CallType
        /\ pending' \in Seq(Frame)
        /\ value'[a] = v
        /\ \A f \in Leaf \ {a} : NewValue'[f] = NewValue[f]
        /\ \A f \in Leaf \ {a} : value'[f] = value[f]
    BY <1>1, <2>2, <2>3, SetLeafKeeps
  <2>5. value'[a] = (sum'[a] <= Threshold[a])
    BY <2>4 DEF v
  <2>6. ILeaves' /\ sum' \in [Atomic -> Int]
    BY <1>1, <2>1, <2>4, <2>5, UpdateAtomicLeaves
  <2>7. TypeOK'
    BY <1>1, <1>2, <2>2, <2>4, <2>6 DEF TypeOK
  <2> QED BY <1>3, <2>4, <2>6, <2>7 DEF IInv
<1>5. CASE \E f \in Fireable : UpdateFireable(f)
  <2>1. PICK f \in Fireable : UpdateFireable(f)
    BY <1>5
  <2> DEFINE v == Observes(f, ns)
  <2>2. /\ Idle /\ SetLeaf(f, v) /\ todo' = todo \ {f}
        /\ UNCHANGED <<sub, position, cardSat, sum, pending>>
    BY <2>1 DEF UpdateFireable
  <2>3. v \in BOOLEAN
    BY DEF Observes
  <2> HIDE DEF v
  <2>4. /\ IPositions' /\ IStack' /\ IJunctions'
        /\ value' \in [Formula -> BOOLEAN]
        /\ call' \in CallType
        /\ pending' \in Seq(Frame)
        /\ NewValue'[f] = v
        /\ \A g \in Leaf \ {f} : NewValue'[g] = NewValue[g]
        /\ \A g \in Leaf \ {f} : value'[g] = value[g]
    BY <1>1, <2>2, <2>3, SetLeafKeeps
  <2>5. /\ NewValue'[f] = Observes(f, ns)
        /\ \A a \in Atomic : value'[a] = value[a]
    BY <2>4, FormulaFacts DEF v, Leaf
  <2>6. ILeaves'
    BY <1>1, <1>2, <2>2, <2>4, <2>5, UpdateObserverLeaves
  <2>7. TypeOK'
    BY <1>1, <1>2, <2>2, <2>4 DEF TypeOK
  <2> QED BY <1>3, <2>4, <2>6, <2>7 DEF IInv
<1>6. CASE \E d \in Deadlock : UpdateDeadlock(d)
  <2>1. PICK d \in Deadlock : UpdateDeadlock(d)
    BY <1>6
  <2> DEFINE v == Observes(d, ns)
             tells == d # Root /\ value[d] /\ ~v
  <2>2. /\ Idle /\ todo' = todo \ {d}
        /\ call' = IF v # value[d] THEN Tell(d, v) ELSE NoCall
        /\ value' = [value EXCEPT ![d] = v \/ tells]
        /\ pending' = IF tells THEN <<[formula |-> d, i |-> 0]>> ELSE <<>>
        /\ UNCHANGED <<sub, position, cardSat, sum>>
    BY <2>1 DEF UpdateDeadlock
  <2>3. v \in BOOLEAN /\ tells \in BOOLEAN /\ d \in Leaf /\ d \in Formula
    BY FormulaFacts DEF Observes, Leaf
  <2>4. \/ pending' = <<>> /\ ~tells
        \/ pending' = <<[formula |-> d, i |-> 0]>> /\ ~v
    BY <2>2
  <2> HIDE DEF v, tells
  <2>5. /\ value' \in [Formula -> BOOLEAN] /\ value'[d] = (v \/ tells)
        /\ \A f \in Formula \ {d} : value'[f] = value[f]
    BY <1>1, <2>2, <2>3, TypeFacts
  <2>6. \/ pending' = <<>> /\ value'[d] = v
        \/ pending' = <<[formula |-> d, i |-> 0]>> /\ ~v /\ d \in Deadlock
    BY <2>3, <2>4, <2>5
  <2>7. /\ IPositions' /\ IStack' /\ IJunctions'
        /\ call' \in CallType
        /\ pending' \in Seq(Frame)
        /\ NewValue'[d] = v
        /\ \A g \in Leaf \ {d} : NewValue'[g] = NewValue[g]
    BY <1>1, <2>2, <2>3, <2>5, <2>6, LeafKeeps
  <2>8. /\ NewValue'[d] = Observes(d, ns)
        /\ \A a \in Atomic : value'[a] = value[a]
    BY <2>5, <2>7, FormulaFacts DEF v, Leaf
  <2>9. ILeaves'
    BY <1>1, <1>2, <2>2, <2>7, <2>8, UpdateObserverLeaves
  <2>10. TypeOK'
    BY <1>1, <1>2, <2>2, <2>5, <2>7 DEF TypeOK
  <2> QED BY <1>3, <2>7, <2>9, <2>10 DEF IInv
<1>7. CASE UpdateTF \/ UpdateFT \/ ReturnTF \/ ReturnDeadlock
  <2>1. JunctionStepKeeps
    BY <1>1, <1>7, UpdateTFKeeps, UpdateFTKeeps, ReturnTFKeeps, ReturnDeadlockKeeps
  <2>2. UNCHANGED <<sum, todo>>
    BY <1>7 DEF UpdateTF, UpdateFT, ReturnTF, ReturnDeadlock
  <2>3. TypeOK'
    BY <1>1, <1>2, <2>1, <2>2 DEF TypeOK, JunctionStepKeeps
  <2>4. ILeaves'
    <3>1. /\ \A f \in Leaf : NewValue'[f] = NewValue[f]
          /\ \A a \in Atomic : value'[a] = value[a]
      BY <2>1 DEF JunctionStepKeeps
    <3> QED BY <1>1, <1>2, <2>2, <3>1 DEF ILeaves, Leaf, Observes
  <2> QED BY <1>3, <2>1, <2>3, <2>4 DEF IInv, JunctionStepKeeps
<1> QED BY <1>4, <1>5, <1>6, <1>7 DEF Update

(* Every step keeps the invariant.                                         *)
LEMMA StepInv == IInv /\ [Next]_vars => IInv'
<1> SUFFICES ASSUME IInv, [Next]_vars
             PROVE  IInv'
  OBVIOUS
<1>1. CASE (\E t \in Transition : Forward(t)) \/ Backward
  BY <1>1, MoveInv
<1>2. CASE Restart
  BY <1>2, RestartInv DEF IInv
<1>3. CASE Update
  BY <1>3, UpdateInv
<1>4. CASE UNCHANGED vars
  <2>1. TypeOK'
    BY <1>4 DEF vars, IInv, TypeOK
  <2>2. IWalk'
    BY <1>4, SameWalk DEF vars, IInv
  <2>3. NewValue' = NewValue
    BY <1>4 DEF vars, NewValue, Unassigned
  <2>4. ILeaves'
    BY <1>4, <2>3 DEF vars, IInv, ILeaves, Observes
  <2>5. IPositions'
    BY <1>4 DEF vars, IInv, IPositions
  <2>6. IStack'
    BY <1>4, <2>3 DEF vars, IInv, IStack, FrameFits
  <2>7. IJunctions'
    BY <1>4, <2>3 DEF vars, IInv, IJunctions, SortedAt, Calls, Names, Waits, NewCard,
                      CallFits
  <2> QED BY <2>1, <2>2, <2>4, <2>5, <2>6, <2>7 DEF IInv
<1> QED BY <1>1, <1>2, <1>3, <1>4 DEF Next

(* IInv: the net states of the walk are exact and lead to each other, each *)
(* sum is that of the marking but for what its update will add, sub and    *)
(* position are inverse to each other, the stack of open calls goes up the *)
(* formula, and every junction is sorted by the values it knows of.        *)
THEOREM Invariance == Spec => []IInv
BY InitInv, StepInv, PTL DEF Spec

(* The type of every variable is kept, for every formula and net.          *)
THEOREM TypeCorrect == Spec => []TypeOK
<1>1. IInv => TypeOK
  BY DEF IInv
<1> QED BY <1>1, Invariance, PTL

(* Every subformula knows its position in its parent's list, between the   *)
(* calls of a propagation as well.                                         *)
THEOREM PositionsAreConsistent == Spec => []PositionsConsistent
<1>1. IInv => PositionsConsistent
  <2> SUFFICES ASSUME IInv
               PROVE  PositionsConsistent
    OBVIOUS
  <2>1. IPositions
    BY DEF IInv
  <2>2. \A j \in Junction : \A f \in Subformulas(j) :
          \E i \in 1 .. CardSub(j) : sub[j][i] = f
    BY <2>1, FormulaFacts DEF IPositions
  <2> QED BY <2>1, <2>2 DEF IPositions, PositionsConsistent
<1> QED BY <1>1, Invariance, PTL

(* A junction is told of true changes only; and while it waits for its     *)
(* parent before it acts (AtomicBooleanPredicate.cc 231-250), the place it *)
(* was told remains that of the subformula, on the old side of the border. *)
THEOREM CallsAreFit == Spec => []CallsFit
<1>1. IInv => CallsFit
  <2> SUFFICES ASSUME IInv, NEW c \in OpenCalls
               PROVE  /\ c.i \in 1 .. CardSub(c.junction)
                      /\ IF c.kind = "TF"
                         THEN /\ value[sub[c.junction][c.i]] =>
                                   Unassigned(sub[c.junction][c.i])
                              /\ c.i <= cardSat[c.junction]
                         ELSE /\ value[sub[c.junction][c.i]]
                              /\ c.i > cardSat[c.junction]
    BY DEF CallsFit
  <2>1. TypeOK /\ IStack /\ IJunctions
    BY DEF IInv
  <2>2. CASE c = call /\ call # NoCall
    <3> DEFINE j == call.junction
    <3>1. call.kind \in {"TF", "FT"}
      BY <2>1, <2>2 DEF TypeOK, CallType
    <3>2. /\ j \in Junction
          /\ call.i \in 1 .. CardSub(j)
          /\ NewValue[sub[j][call.i]] <=> call.kind = "FT"
          /\ call.i <= cardSat[j] <=> call.kind = "TF"
      BY <2>1, <3>1, CallFacts
    <3>3. call.i \in Int /\ cardSat[j] \in Nat
      BY <2>1, <3>2, TypeFacts
    <3>4. sub[j][call.i] \in Formula
      BY <2>1, <3>2, ListedFacts
    <3>5. NewValue[sub[j][call.i]]
            <=> value[sub[j][call.i]] /\ ~Unassigned(sub[j][call.i])
      BY <3>4 DEF NewValue
    <3> QED BY <2>2, <3>1, <3>2, <3>3, <3>5
  <2>3. CASE \E k \in 1 .. Len(pending) :
               /\ pending[k].formula \in Junction
               /\ c = [kind |-> "TF", junction |-> pending[k].formula,
                       i |-> pending[k].i]
    <3>1. PICK k \in 1 .. Len(pending) :
            /\ pending[k].formula \in Junction
            /\ c = [kind |-> "TF", junction |-> pending[k].formula,
                    i |-> pending[k].i]
      BY <2>3
    <3>2. /\ c.junction \in Junction /\ c.kind = "TF"
          /\ c.i \in 1 .. CardSub(c.junction)
          /\ ~NewValue[sub[c.junction][c.i]]
          /\ c.i <= cardSat[c.junction]
      BY <2>1, <3>1, FrameFacts
    <3>3. sub[c.junction][c.i] \in Formula
      BY <2>1, <3>2, ListedFacts
    <3> QED BY <3>2, <3>3 DEF NewValue
  <2> QED BY <2>2, <2>3 DEF OpenCalls
<1> QED BY <1>1, Invariance, PTL

(* After every update the leaves tell the truth about the marking.         *)
THEOREM LeavesAreExact == Spec => []LeavesExact
<1>1. IInv => LeavesExact
  <2> SUFFICES ASSUME IInv, Answered
               PROVE  LeavesExact
    BY DEF LeavesExact
  <2>1. TypeOK /\ IWalk /\ ILeaves /\ todo = {} /\ NewValue = value
    BY NewValueFacts DEF IInv, Answered, Idle
  <2>2. \A a \in Atomic : /\ sum[a] \in Int
                         /\ SumOf(a, ns.Current) = sum[a] + 0
                         /\ value[a] = (sum[a] <= Threshold[a])
    BY <2>1 DEF ILeaves, TypeOK
  <2>3. \A a \in Atomic : sum[a] = SumOf(a, ns.Current)
    BY <2>2
  <2>4. sum = SumsIn(ns)
    BY <2>1, <2>3 DEF SumsIn, TypeOK
  <2>5. Len(trail) \in Nat /\ ns \in NetStateType
    BY <2>1, TypeFacts, LenProperties
  <2>6. EnabledExact(ns)
    <3>1. At(Len(trail) + 1) = ns
      BY <2>5 DEF At
    <3> QED BY <2>1, <2>5, <3>1 DEF IWalk
  <2>7. ASSUME NEW f \in Fireable
        PROVE  value[f] = (Activated(ns.Current, Observed[f]) = Sign[f])
    <3>1. Observed[f] \in Transition
      BY FormulaParameters DEF FormulaAssumption
    <3>2. ns.Enabled[Observed[f]] \in BOOLEAN
      BY <2>5, <3>1 DEF NetStateType
    <3>3. ns.Enabled[Observed[f]] <=> Activated(ns.Current, Observed[f])
      BY <2>6, <3>1 DEF EnabledExact, Flagged, EnabledSet
    <3>4. Activated(ns.Current, Observed[f]) \in BOOLEAN
      BY DEF Activated
    <3>5. ns.Enabled[Observed[f]] = Activated(ns.Current, Observed[f])
      BY <3>2, <3>3, <3>4
    <3>6. value[f] = (ns.Enabled[Observed[f]] = Sign[f])
      BY <2>1 DEF ILeaves, Observes
    <3> QED BY <3>5, <3>6
  <2>8. ASSUME NEW f \in Deadlock
        PROVE  value[f] = ((EnabledSet(ns.Current) = {}) = Sign[f])
    <3>1. ns.CardEnabled = 0 <=> EnabledSet(ns.Current) = {}
      <4>1. ns.CardEnabled = Cardinality(EnabledSet(ns.Current))
        BY <2>6 DEF EnabledExact, Counted
      <4>2. EnabledSet(ns.Current) \in SUBSET Transition
        BY DEF EnabledSet
      <4>3. IsFiniteSet(EnabledSet(ns.Current))
        BY <4>2, PartOfTransitions
      <4> QED BY <4>1, <4>3, FS_EmptySet
    <3>2. (ns.CardEnabled = 0) = (EnabledSet(ns.Current) = {})
      BY <3>1
    <3>3. value[f] = ((ns.CardEnabled = 0) = Sign[f])
      <4>1. f \notin Fireable
        BY FormulaParameters DEF FormulaAssumption
      <4> QED BY <2>1, <4>1 DEF ILeaves, Observes
    <3> QED BY <3>2, <3>3
  <2>9. ASSUME NEW f \in Fireable \cup Deadlock
        PROVE  value[f] = IF f \in Fireable
                          THEN Activated(ns.Current, Observed[f]) = Sign[f]
                          ELSE (EnabledSet(ns.Current) = {}) = Sign[f]
    <3>1. CASE f \in Fireable
      BY <2>7, <3>1
    <3>2. CASE f \notin Fireable
      BY <2>8, <3>2
    <3> QED BY <3>1, <3>2
  <2> QED BY <2>2, <2>3, <2>4, <2>9 DEF LeavesExact
<1> QED BY <1>1, Invariance, PTL

(* After every update a junction has the value of its subformulas.         *)
THEOREM JunctionsAreExact == Spec => []JunctionsExact
<1>1. IInv => JunctionsExact
  <2> SUFFICES ASSUME IInv, Answered, NEW j \in Junction
               PROVE  /\ value[j] = IF IsAnd[j] THEN \A f \in Subformulas(j) : value[f]
                                    ELSE \E f \in Subformulas(j) : value[f]
                      /\ \A i \in 1 .. CardSub(j) : value[sub[j][i]] <=> i <= cardSat[j]
    BY DEF JunctionsExact
  <2>1. /\ TypeOK /\ IPositions /\ IJunctions
        /\ call = NoCall /\ pending = <<>> /\ Len(pending) = 0 /\ NewValue = value
    BY NewValueFacts DEF IInv, Answered, Idle
  <2>2. \A i \in 1 .. CardSub(j) : value[sub[j][i]] <=> i <= cardSat[j]
    BY <2>1 DEF IJunctions, SortedAt, Calls, Names, Waits
  <2>3. value[j] = JunctionValue(j, cardSat[j])
    BY <2>1 DEF IJunctions, NewCard
  <2>4. /\ cardSat[j] \in Nat /\ CardSub(j) \in Nat /\ cardSat[j] <= CardSub(j)
        /\ \A i \in 1 .. CardSub(j) : sub[j][i] \in Subformulas(j)
    BY <2>1, TypeFacts
  <2>5. \A f \in Subformulas(j) : \E i \in 1 .. CardSub(j) : sub[j][i] = f
    BY <2>1, FormulaFacts DEF IPositions
  <2>6. cardSat[j] = CardSub(j) <=> \A f \in Subformulas(j) : value[f]
    <3>1. ASSUME cardSat[j] = CardSub(j)
          PROVE  \A f \in Subformulas(j) : value[f]
      BY <2>2, <2>4, <2>5, <3>1
    <3>2. ASSUME \A f \in Subformulas(j) : value[f], cardSat[j] # CardSub(j)
          PROVE  FALSE
      <4>1. CardSub(j) \in 1 .. CardSub(j)
        BY <2>4, <3>2
      <4> QED BY <2>2, <2>4, <3>2, <4>1
    <3> QED BY <3>1, <3>2
  <2>7. cardSat[j] > 0 <=> \E f \in Subformulas(j) : value[f]
    <3>1. ASSUME cardSat[j] > 0
          PROVE  \E f \in Subformulas(j) : value[f]
      <4>1. 1 \in 1 .. CardSub(j)
        BY <2>4, <3>1
      <4> QED BY <2>2, <2>4, <3>1, <4>1
    <3>2. ASSUME \E f \in Subformulas(j) : value[f]
          PROVE  cardSat[j] > 0
      BY <2>2, <2>4, <2>5, <3>2
    <3> QED BY <3>1, <3>2
  <2>8. value[j] = IF IsAnd[j] THEN \A f \in Subformulas(j) : value[f]
                   ELSE \E f \in Subformulas(j) : value[f]
    <3>1. CASE IsAnd[j]
      BY <2>3, <2>6, <3>1 DEF JunctionValue
    <3>2. CASE ~IsAnd[j]
      <4>1. value[j] = (cardSat[j] > 0)
        BY <2>3, <3>2 DEF JunctionValue
      <4>2. (cardSat[j] > 0) = (\E f \in Subformulas(j) : value[f])
        <5> DEFINE a == cardSat[j] > 0
                   b == \E f \in Subformulas(j) : value[f]
        <5>1. a \in BOOLEAN /\ b \in BOOLEAN /\ (a <=> b)
          BY <2>7
        <5> HIDE DEF a, b
        <5>2. a = b
          BY <5>1
        <5> QED BY <5>2 DEF a, b
      <4> QED BY <3>2, <4>1, <4>2
    <3> QED BY <3>1, <3>2
  <2> QED BY <2>2, <2>8
<1> QED BY <1>1, Invariance, PTL

(* The meaning of the parts, given what the parts they consist of mean.    *)
Meaning(f, v, m) ==
  IF f \in Atomic THEN SumOf(f, m) <= Threshold[f]
  ELSE IF f \in Fireable THEN Activated(m, Observed[f]) = Sign[f]
  ELSE IF f \in Deadlock THEN (EnabledSet(m) = {}) = Sign[f]
  ELSE IF IsAnd[f] THEN \A g \in Subformulas(f) : v[g]
  ELSE \E g \in Subformulas(f) : v[g]

(* There is one meaning only: of the parts about which two of them differ  *)
(* one consists of parts about which they agree.                           *)
LEMMA OneMeaning ==
  ASSUME NEW m, NEW v, NEW w,
         \A f \in Formula : v[f] = Meaning(f, v, m),
         \A f \in Formula : w[f] = Meaning(f, w, m)
  PROVE  \A f \in Formula : v[f] = w[f]
<1> DEFINE S == {f \in Formula : v[f] # w[f]}
<1> SUFFICES ASSUME S # {} PROVE FALSE
  OBVIOUS
<1>1. PICK f \in S : Subformulas(f) \cap S = {}
  BY FormulaParameters DEF FormulaAssumption
<1>2. \A g \in Subformulas(f) : v[g] = w[g]
  BY <1>1 DEF Subformulas
<1>3. Meaning(f, v, m) = Meaning(f, w, m)
  BY <1>2, Zenon DEF Meaning
<1> QED BY <1>1, <1>3

(* If the parts can have values by their meaning, these are their truth.   *)
LEMMA TruthIsMeaning ==
  ASSUME NEW m, NEW v, \A f \in Formula : v[f] = Meaning(f, v, m)
  PROVE  \A f \in Formula : Truth(m)[f] = v[f]
<1> DEFINE Fixed(u) == u = [f \in Formula |-> Meaning(f, u, m)]
           u0 == [f \in Formula |-> v[f]]
<1>1. \A f \in Formula : Meaning(f, u0, m) = Meaning(f, v, m)
  <2> SUFFICES ASSUME NEW f \in Formula PROVE Meaning(f, u0, m) = Meaning(f, v, m)
    OBVIOUS
  <2>1. \A g \in Subformulas(f) : u0[g] = v[g]
    BY DEF Subformulas
  <2> HIDE DEF u0
  <2> QED BY <2>1, Zenon DEF Meaning
<1>2. Fixed(u0)
  BY <1>1
<1>3. Truth(m) = CHOOSE u : Fixed(u)
  BY DEF Truth, Meaning
<1>4. Fixed(Truth(m))
  <2> HIDE DEF u0, Fixed
  <2> QED BY <1>2, <1>3
<1>5. \A f \in Formula : Truth(m)[f] = Meaning(f, Truth(m), m)
  <2> DEFINE T == Truth(m)
  <2> HIDE DEF T
  <2>1. T = [f \in Formula |-> Meaning(f, T, m)]
    BY <1>4 DEF T
  <2> QED BY <2>1 DEF T
<1> QED BY <1>5, OneMeaning

(* StatePredicateProperty::checkProperty and updateProperty: after any     *)
(* walk of the search, forward and backward, what the increments have left *)
(* in the root is the truth of the formula in the current marking, for     *)
(* every net and every formula.                                            *)
THEOREM AnswerIsCorrect == Spec => []AnswerCorrect
<1>1. LeavesExact /\ JunctionsExact => AnswerCorrect
  <2> SUFFICES ASSUME LeavesExact, JunctionsExact, Answered
               PROVE  value[Root] = Truth(ns.Current)[Root]
    BY DEF AnswerCorrect
  <2>1. ASSUME NEW f \in Formula PROVE value[f] = Meaning(f, value, ns.Current)
    <3>1. CASE f \in Atomic
      BY <3>1 DEF LeavesExact, Meaning
    <3>2. CASE f \in Fireable \cup Deadlock
      <4>1. f \notin Atomic
        BY <3>2, FormulaFacts
      <4> QED BY <3>2, <4>1 DEF LeavesExact, Meaning
    <3>3. CASE f \in Junction
      <4>1. f \notin Atomic /\ f \notin Fireable /\ f \notin Deadlock
        BY <3>3, FormulaFacts DEF Leaf
      <4> QED BY <3>3, <4>1 DEF JunctionsExact, Meaning
    <3> QED BY <3>1, <3>2, <3>3 DEF Formula, Leaf
  <2> QED BY <2>1, TruthIsMeaning, FormulaParameters DEF FormulaAssumption
<1> QED BY <1>1, LeavesAreExact, JunctionsAreExact, PTL
=============================================================================
