----------------------- MODULE TSCCExploration_proof -----------------------
(***************************************************************************)
(* Proofs about the search for terminal strongly connected components: its *)
(* answer is right for every finite state graph, every predicate about     *)
(* markings and every order of the transitions in the fire lists.          *)
(*                                                                         *)
(* The first part is about the reference semantics, the second about the   *)
(* stack, then there is a lemma for each action.                           *)
(***************************************************************************)
EXTENDS TSCCExplorationInv, FiniteSetTheorems, WellFoundedInduction, TLAPS

(* A set of numbers that contains 0 and with each number the next contains *)
(* them all.                                                               *)
LEMMA Numbers ==
  ASSUME NEW G, 0 \in G, \A n \in Nat : n \in G => n + 1 \in G
  PROVE  Nat \subseteq G
<1> DEFINE B == Nat \ G
<1> SUFFICES ASSUME B # {} PROVE FALSE
  OBVIOUS
<1>1. PICK n \in B : \A k \in B : ~(<<k, n>> \in OpToRel(<, Nat))
  <2>1. B \subseteq Nat
    OBVIOUS
  <2> HIDE DEF B
  <2> QED
    BY <2>1, WFMin, NatLessThanWellFounded, Zenon
<1>2. \A k \in B : ~(k < n)
  BY <1>1 DEF OpToRel
<1>3. n \in Nat /\ n # 0
  OBVIOUS
<1>4. n - 1 \in Nat /\ n - 1 < n /\ (n - 1) + 1 = n
  BY <1>3
<1>5. n - 1 \in G
  BY <1>2, <1>4
<1> QED
  BY <1>4, <1>5

(* The rounds in which a least fixpoint is computed.                       *)
IsRounds(s, F, C) == s = [n \in 0 .. C |-> IF n = 0 THEN {} ELSE F[s[n - 1]]]

(* A function that is defined round by round exists.                       *)
LEMMA RoundsExist ==
  ASSUME NEW F, NEW C \in Nat
  PROVE  \E s : IsRounds(s, F, C)
<1> DEFINE G == {n \in Nat : \E s : IsRounds(s, F, n)}
<1>1. 0 \in G
  <2>1. IsRounds([n \in 0 .. 0 |-> {}], F, 0)
    BY DEF IsRounds
  <2> QED BY <2>1
<1>2. ASSUME NEW n \in Nat, n \in G PROVE n + 1 \in G
  <2>1. PICK s : IsRounds(s, F, n)
    BY <1>2
  <2>2. PICK u : u = [i \in 0 .. n + 1 |-> IF i = n + 1 THEN F[s[n]] ELSE s[i]]
    OBVIOUS
  <2>3. ASSUME NEW i \in 0 .. n + 1
        PROVE  u[i] = IF i = 0 THEN {} ELSE F[u[i - 1]]
    <3>1. CASE i = n + 1
      <4>1. u[i] = F[s[n]] /\ i # 0 /\ i - 1 = n /\ u[n] = s[n]
        BY <2>2, <3>1
      <4> QED BY <4>1
    <3>2. CASE i # n + 1
      <4>1. i \in 0 .. n /\ (i # 0 => i - 1 \in 0 .. n)
        BY <3>2
      <4>2. u[i] = s[i] /\ (i # 0 => u[i - 1] = s[i - 1])
        BY <2>2, <4>1
      <4>3. s[i] = IF i = 0 THEN {} ELSE F[s[i - 1]]
        BY <2>1, <4>1 DEF IsRounds
      <4> QED BY <4>2, <4>3
    <3> QED BY <3>1, <3>2
  <2>4. u = [i \in 0 .. n + 1 |-> u[i]]
    BY <2>2
  <2>5. IsRounds(u, F, n + 1)
    BY <2>3, <2>4 DEF IsRounds
  <2> QED BY <2>5
<1> HIDE DEF G
<1>3. C \in G
  BY <1>1, <1>2, Numbers
<1> QED BY <1>3 DEF G

(* A monotone operator on the subsets of a finite set, applied from the    *)
(* empty set on as often as the set has elements, gives the least set that *)
(* it keeps and that contains every set it shrinks to.                     *)
LEMMA RoundsSettle ==
  ASSUME NEW M, IsFiniteSet(M), NEW F \in [SUBSET M -> SUBSET M],
         \A X, Y \in SUBSET M : X \subseteq Y => F[X] \subseteq F[Y],
         NEW s, IsRounds(s, F, Cardinality(M))
  PROVE  LET Z == s[Cardinality(M)]
         IN /\ Z \in SUBSET M /\ F[Z] = Z
            /\ \A Y \in SUBSET M : F[Y] \subseteq Y => Z \subseteq Y
<1> DEFINE C == Cardinality(M)
           Good(n) == /\ s[n] \in SUBSET M /\ s[n] \subseteq F[s[n]]
                      /\ \A Y \in SUBSET M : F[Y] \subseteq Y => s[n] \subseteq Y
                      /\ F[s[n]] = s[n] \/ Cardinality(s[n]) >= n
           G == {n \in Nat : n <= C => Good(n)}
<1>0. C \in Nat
  BY FS_CardinalityType
<1> HIDE DEF C
<1>a. s[0] = {} /\ \A n \in 1 .. C : s[n] = F[s[n - 1]]
  <2>1. s = [n \in 0 .. C |-> IF n = 0 THEN {} ELSE F[s[n - 1]]]
    BY DEF IsRounds, C
  <2>2. \A n \in 0 .. C : s[n] = IF n = 0 THEN {} ELSE F[s[n - 1]]
    BY <2>1, Zenon
  <2>3. 0 \in 0 .. C /\ \A n \in 1 .. C : n \in 0 .. C /\ n # 0
    BY <1>0
  <2> QED BY <2>2, <2>3
<1>1. 0 \in G
  <2>1. Cardinality({}) = 0
    BY FS_EmptySet
  <2>2. Good(0)
    <3>1. {} \in SUBSET M /\ {} \subseteq F[{}] /\ \A Y : {} \subseteq Y
      OBVIOUS
    <3> QED BY <1>a, <2>1, <3>1
  <2> QED BY <2>2
<1>2. ASSUME NEW n \in Nat, n \in G PROVE n + 1 \in G
  <2> SUFFICES ASSUME n + 1 <= C PROVE Good(n + 1)
    OBVIOUS
  <2>1. Good(n)
    <3>1. n <= C
      BY <1>0
    <3> QED BY <1>2, <3>1
  <2>2. s[n + 1] = F[s[n]]
    <3>1. n + 1 \in 1 .. C /\ (n + 1) - 1 = n
      BY <1>0
    <3> QED BY <1>a, <3>1
  <2>3. s[n + 1] \in SUBSET M /\ s[n + 1] \subseteq F[s[n + 1]]
    BY <2>1, <2>2
  <2>4. ASSUME NEW Y \in SUBSET M, F[Y] \subseteq Y PROVE s[n + 1] \subseteq Y
    <3>1. s[n] \subseteq Y
      BY <2>1, <2>4
    <3>2. F[s[n]] \subseteq F[Y]
      BY <2>1, <3>1
    <3> QED BY <2>2, <2>4, <3>2
  <2>5. F[s[n + 1]] = s[n + 1] \/ Cardinality(s[n + 1]) >= n + 1
    <3>1. CASE F[s[n]] = s[n]
      BY <2>2, <3>1
    <3>2. CASE F[s[n]] # s[n] /\ Cardinality(s[n]) >= n
      <4>1. s[n] \in SUBSET s[n + 1] /\ s[n] # s[n + 1]
        BY <2>1, <2>2, <3>2
      <4>2. IsFiniteSet(s[n + 1])
        BY <2>3, FS_Subset
      <4>3. /\ Cardinality(s[n]) <= Cardinality(s[n + 1])
            /\ Cardinality(s[n + 1]) # Cardinality(s[n])
            /\ Cardinality(s[n]) \in Nat /\ Cardinality(s[n + 1]) \in Nat
        BY <4>1, <4>2, FS_Subset, FS_CardinalityType
      <4> QED BY <3>2, <4>3
    <3> QED BY <2>1, <3>1, <3>2
  <2> QED BY <2>3, <2>4, <2>5
<1>3. Good(C)
  <2> HIDE DEF Good
  <2>1. \A n \in Nat : n \in G => n + 1 \in G
    BY <1>2
  <2>2. C \in G
    <3> HIDE DEF G
    <3> QED BY <1>0, <1>1, <2>1, Numbers
  <2> QED BY <1>0, <2>2
<1>4. F[s[C]] = s[C]
  <2> SUFFICES ASSUME Cardinality(s[C]) >= C PROVE F[s[C]] = s[C]
    BY <1>3
  <2>1. s[C] = M
    <3>1. Cardinality(s[C]) <= C /\ Cardinality(s[C]) \in Nat
      BY <1>3, FS_Subset, FS_CardinalityType DEF C
    <3>2. Cardinality(s[C]) = C
      BY <1>0, <3>1
    <3> QED BY <1>3, <3>2, FS_Subset DEF C
  <2>2. F[s[C]] \in SUBSET M
    BY <1>3
  <2> QED BY <1>3, <2>1, <2>2
<1> QED BY <1>3, <1>4 DEF C

(* All rounds stay within the set.                                         *)
LEMMA RoundsTyped ==
  ASSUME NEW M, NEW F \in [SUBSET M -> SUBSET M], NEW C \in Nat, NEW s, IsRounds(s, F, C)
  PROVE  \A n \in 0 .. C : s[n] \in SUBSET M
<1> DEFINE G == {n \in Nat : n <= C => s[n] \in SUBSET M}
<1>1. \A n \in 0 .. C : s[n] = IF n = 0 THEN {} ELSE F[s[n - 1]]
  BY Zenon DEF IsRounds
<1>2. 0 \in G
  BY <1>1
<1>3. ASSUME NEW n \in Nat, n \in G PROVE n + 1 \in G
  <2> SUFFICES ASSUME n + 1 <= C PROVE s[n + 1] \in SUBSET M
    OBVIOUS
  <2>1. n + 1 \in 0 .. C /\ n + 1 # 0 /\ (n + 1) - 1 = n /\ n <= C
    OBVIOUS
  <2>2. s[n + 1] = F[s[n]]
    BY <1>1, <2>1
  <2>3. s[n] \in SUBSET M
    BY <1>3, <2>1
  <2> QED BY <2>2, <2>3
<1>4. Nat \subseteq G
  <2> HIDE DEF G
  <2> QED BY <1>2, <1>3, Numbers
<1> QED BY <1>4
-----------------------------------------------------------------------------
(* The reference semantics of E(phi U psi) is what it should be, in every  *)
(* finite graph: the least set with the markings of psi and those of phi   *)
(* that have a successor in the set.                                       *)
LEMMA UntilIsLeastFixpoint ==
  ASSUME IsFiniteSet(Marking), NEW phi \in SUBSET Marking, NEW psi \in SUBSET Marking
  PROVE  LET S == SatEU(phi, psi)
         IN /\ S \in SUBSET Marking
            /\ S = psi \cup {m \in phi : Successors(m) \cap S # {}}
            /\ \A Z \in SUBSET Marking :
                  psi \subseteq Z /\ (\A m \in phi : Successors(m) \cap Z # {} => m \in Z)
                  => S \subseteq Z
<1> DEFINE Adding(Z) == psi \cup {m \in phi : Successors(m) \cap Z # {}}
           F == [Z \in SUBSET Marking |-> Adding(Z)]
           C == Cardinality(Marking)
           Rounds(s) == s = [n \in 0 .. C |-> IF n = 0 THEN {} ELSE Adding(s[n - 1])]
           r == CHOOSE s : Rounds(s)
<1>0. C \in Nat
  BY FS_CardinalityType
<1>1. F \in [SUBSET Marking -> SUBSET Marking]
  OBVIOUS
<1>2. SatEU(phi, psi) = r[C]
  BY DEF SatEU, LeastFixpoint
<1>3. Rounds(r)
  <2>1. PICK s : IsRounds(s, F, C)
    <3> HIDE DEF F, C
    <3> QED BY <1>0, RoundsExist
  <2>2. \A n \in 0 .. C : s[n] \in SUBSET Marking
    <3> HIDE DEF F, C
    <3> QED BY <1>0, <1>1, <2>1, RoundsTyped
  <2>3. \A n \in 0 .. C : n # 0 => n - 1 \in 0 .. C
    <3> HIDE DEF C
    <3> QED BY <1>0
  <2>4. \A n \in 0 .. C : n # 0 => F[s[n - 1]] = Adding(s[n - 1])
    <3> HIDE DEF Adding, C
    <3> QED BY <2>2, <2>3
  <2>5. Rounds(s)
    <3>1. s = [n \in 0 .. C |-> IF n = 0 THEN {} ELSE F[s[n - 1]]]
      BY <2>1 DEF IsRounds
    <3> HIDE DEF F, Adding, C
    <3> QED BY <2>4, <3>1
  <2> HIDE DEF Rounds
  <2> QED BY <2>5
<1>4. IsRounds(r, F, C)
  <2> HIDE DEF r
  <2>1. \A n \in 0 .. C : r[n] = IF n = 0 THEN {} ELSE Adding(r[n - 1])
    BY <1>3, Zenon
  <2>2. \A n \in 0 .. C : r[n] \in SUBSET Marking
    <3>1. \A Z : Adding(Z) \in SUBSET Marking
      OBVIOUS
    <3> HIDE DEF Adding, C
    <3> QED BY <2>1, <3>1
  <2>3. \A n \in 0 .. C : n # 0 => n - 1 \in 0 .. C
    <3> HIDE DEF C
    <3> QED BY <1>0
  <2>4. \A n \in 0 .. C : n # 0 => F[r[n - 1]] = Adding(r[n - 1])
    <3> HIDE DEF Adding, C
    <3> QED BY <2>2, <2>3
  <2>5. r = [n \in 0 .. C |-> IF n = 0 THEN {} ELSE Adding(r[n - 1])]
    BY <1>3
  <2> HIDE DEF F, Adding, C, Rounds
  <2> QED BY <2>4, <2>5 DEF IsRounds
<1>5. \A X, Y \in SUBSET Marking : X \subseteq Y => F[X] \subseteq F[Y]
  OBVIOUS
<1>6. /\ r[C] \in SUBSET Marking /\ F[r[C]] = r[C]
      /\ \A Y \in SUBSET Marking : F[Y] \subseteq Y => r[C] \subseteq Y
  <2> HIDE DEF F, r
  <2> QED BY <1>1, <1>4, <1>5, RoundsSettle
<1>7. r[C] = Adding(r[C])
  <2> HIDE DEF r, C
  <2> QED BY <1>6
<1>8. ASSUME NEW Z \in SUBSET Marking, psi \subseteq Z,
             \A m \in phi : Successors(m) \cap Z # {} => m \in Z
      PROVE  r[C] \subseteq Z
  <2>1. F[Z] \subseteq Z
    BY <1>8
  <2> HIDE DEF F, r, C
  <2> QED BY <1>6, <2>1
<1> HIDE DEF r, C
<1>9. PICK X : X = r[C]
  OBVIOUS
<1>10. X \in SUBSET Marking /\ X = Adding(X)
  <2> HIDE DEF Adding, F
  <2>1. X \in SUBSET Marking
    BY <1>6, <1>9
  <2>2. X = Adding(X)
    BY <1>7, <1>9, Zenon
  <2> QED BY <2>1, <2>2
<1>11. \A Z \in SUBSET Marking :
          psi \subseteq Z /\ (\A m \in phi : Successors(m) \cap Z # {} => m \in Z)
          => X \subseteq Z
  BY <1>8, <1>9
<1>12. SatEU(phi, psi) = X
  BY <1>2, <1>9
<1> QED BY <1>10, <1>11, <1>12

(* What the searches use of the graph; undoing a transition leads back to  *)
(* where it was fired.                                                     *)
LEMMA GraphFacts ==
  /\ Initial \in Marking /\ Goal \in SUBSET Marking
  /\ \A m \in Marking : /\ Enabled[m] \in SUBSET Transition
                        /\ \A t \in Transition : Fire(m, t) \in Marking
                        /\ \A t \in Enabled[m] : Backfire(Fire(m, t), t) = m
                        /\ \A f \in Firelists[m] : /\ f \in Seq(Transition)
                                                   /\ \A i \in DOMAIN f : f[i] \in Enabled[m]
<1>1. ASSUME NEW m \in Marking
      PROVE  /\ Enabled[m] \in SUBSET Transition
             /\ \A t \in Transition : Fire(m, t) \in Marking
             /\ \A f \in Firelists[m] : /\ f \in Seq(Transition)
                                        /\ \A i \in DOMAIN f : f[i] \in Enabled[m]
  BY Graph DEF GraphAssumption, Fire
<1>2. ASSUME NEW m \in Marking, NEW t \in Enabled[m]
      PROVE  Backfire(Fire(m, t), t) = m
  <2> DEFINE P(k) == t \in Enabled[k] /\ Successor[k][t] = Fire(m, t)
  <2>1. P(m)
    BY DEF Fire
  <2>2. \A k \in Marking : P(k) => k = m
    BY Graph DEF GraphAssumption, Fire
  <2>3. (CHOOSE k \in Marking : P(k)) = m
    BY <2>1, <2>2
  <2> QED BY <2>3 DEF Backfire
<1> QED BY <1>1, <1>2, Graph DEF GraphAssumption
-----------------------------------------------------------------------------
(* EF: the least set with the markings of S that is closed against the     *)
(* direction of the transitions.                                           *)
LEMMA ReachSet ==
  ASSUME IsFiniteSet(Marking), NEW S \in SUBSET Marking
  PROVE  /\ SatEF(S) \in SUBSET Marking /\ S \subseteq SatEF(S)
         /\ \A m \in Marking : \A t \in Enabled[m] : Fire(m, t) \in SatEF(S) => m \in SatEF(S)
         /\ \A Z \in SUBSET Marking :
               S \subseteq Z /\ (\A m \in Marking : \A t \in Enabled[m] : Fire(m, t) \in Z => m \in Z)
               => SatEF(S) \subseteq Z
<1>1. PICK X : X = SatEU(Marking, S)
  OBVIOUS
<1>2. /\ X \in SUBSET Marking
      /\ X = S \cup {m \in Marking : Successors(m) \cap X # {}}
      /\ \A Z \in SUBSET Marking :
            S \subseteq Z /\ (\A m \in Marking : Successors(m) \cap Z # {} => m \in Z)
            => X \subseteq Z
  BY <1>1, UntilIsLeastFixpoint
<1>3. \A m \in Marking : \A t \in Enabled[m] : Fire(m, t) \in X => m \in X
  BY <1>2 DEF Successors
<1>4. ASSUME NEW Z \in SUBSET Marking, S \subseteq Z,
             \A m \in Marking : \A t \in Enabled[m] : Fire(m, t) \in Z => m \in Z
      PROVE  X \subseteq Z
  <2>1. \A m \in Marking : Successors(m) \cap Z # {} => m \in Z
    BY <1>4 DEF Successors
  <2> QED BY <1>2, <1>4, <2>1
<1>5. SatEF(S) = X
  BY <1>1 DEF SatEF
<1> QED BY <1>2, <1>3, <1>4, <1>5

(* What reaches a set from where T is reached reaches T.                   *)
LEMMA ReachOn ==
  ASSUME IsFiniteSet(Marking), NEW S \in SUBSET Marking, NEW T \in SUBSET Marking,
         S \subseteq SatEF(T)
  PROVE  SatEF(S) \subseteq SatEF(T)
<1>1. PICK X : X = SatEF(T)
  OBVIOUS
<1>2. /\ X \in SUBSET Marking /\ S \subseteq X
      /\ \A m \in Marking : \A t \in Enabled[m] : Fire(m, t) \in X => m \in X
  BY <1>1, ReachSet
<1>3. SatEF(S) \subseteq X
  BY <1>2, ReachSet
<1> QED BY <1>1, <1>3

(* The same for one marking.                                               *)
LEMMA ReachMarking ==
  ASSUME IsFiniteSet(Marking), NEW T \in SUBSET Marking, NEW x \in SatEF(T), NEW m \in SatEF({x})
  PROVE  m \in SatEF(T)
<1>1. x \in Marking
  BY ReachSet
<1>2. {x} \in SUBSET Marking /\ {x} \subseteq SatEF(T)
  BY <1>1
<1> QED BY <1>2, ReachOn

(* A transition, or none, is a way.                                        *)
LEMMA ReachStep ==
  ASSUME IsFiniteSet(Marking), NEW m \in Marking, NEW t \in Enabled[m]
  PROVE  m \in SatEF({Fire(m, t)}) /\ m \in SatEF({m})
<1>1. PICK x : x = Fire(m, t)
  OBVIOUS
<1>2. x \in Marking
  BY <1>1, GraphFacts
<1>3. x \in SatEF({x}) /\ m \in SatEF({m})
  <2>1. {x} \in SUBSET Marking /\ {m} \in SUBSET Marking
    BY <1>2
  <2> QED BY <2>1, ReachSet
<1>4. m \in SatEF({x})
  BY <1>1, <1>2, <1>3, ReachSet
<1> QED BY <1>1, <1>3, <1>4

(* No marking of a set that no transition leaves reaches one outside.      *)
LEMMA ReachClosed ==
  ASSUME IsFiniteSet(Marking), NEW N \in SUBSET Marking, NEW S \in SUBSET (Marking \ N),
         \A m \in N : \A t \in Enabled[m] : Fire(m, t) \in N
  PROVE  SatEF(S) \cap N = {}
<1>1. PICK Z \in SUBSET Marking : Z = Marking \ N
  OBVIOUS
<1>2. \A m \in Marking : \A t \in Enabled[m] : Fire(m, t) \in Z => m \in Z
  BY <1>1
<1>3. SatEF(S) \subseteq Z
  BY <1>1, <1>2, ReachSet
<1> QED BY <1>1, <1>3

(* From no harmless marking on does harm begin: what reaches a harmless    *)
(* marking is harmless.                                                    *)
LEMMA HarmlessReach ==
  ASSUME IsFiniteSet(Marking)
  PROVE  /\ Harmless \in SUBSET Marking
         /\ \A S \in SUBSET Marking : S \subseteq Harmless => SatEF(S) \subseteq Harmless
         /\ \A x \in Harmless : \A m \in SatEF({x}) : m \in Harmless
<1>1. PICK T \in SUBSET Marking : Harmless = SatEF(T)
  BY GraphFacts DEF Harmless
<1>2. Harmless \in SUBSET Marking
  BY <1>1, ReachSet
<1>3. \A S \in SUBSET Marking : S \subseteq Harmless => SatEF(S) \subseteq Harmless
  BY <1>1, ReachOn
<1>4. \A x \in Harmless : \A m \in SatEF({x}) : m \in Harmless
  BY <1>1, ReachMarking
<1> QED BY <1>2, <1>3, <1>4
-----------------------------------------------------------------------------
(* The stack, entry by entry.                                              *)
LEMMA StackFacts ==
  ASSUME NumbersKnown, PathKnown
  PROVE  /\ Top \in Nat /\ Top > 0 /\ Here = 1 .. Top /\ Top \in Here /\ 1 \in Here
         /\ Last(dfsstack) = dfsstack[Top]
         /\ \A i \in Here : /\ dfsstack[i] \in StackEntry /\ On(i) \in DOMAIN dfs
                            /\ On(i) \in Marking /\ dfs[On(i)] \in Nat
                            /\ List(i) \in Firelists[On(i)] /\ List(i) \in Seq(Transition)
                            /\ Left(i) \in 0 .. Len(List(i)) /\ Left(i) \in Nat
         /\ \A i, j \in Here : On(i) = On(j) => i = j
         /\ \A i \in Here : dfs[On(i)] <= dfs[On(Top)]
         /\ \A m \in DOMAIN dfs : m \in Marking /\ dfs[m] \in 1 .. currentDFSNumber /\ dfs[m] \in Nat
<1>1. /\ Top \in Nat /\ Top > 0 /\ Here = 1 .. Top /\ Top \in Here /\ 1 \in Here
  BY DEF PathKnown, Top, Here
<1>2. \A i \in Here : dfsstack[i] \in StackEntry
  BY DEF PathKnown, Here
<1>3. \A m \in DOMAIN dfs : m \in Marking /\ dfs[m] \in 1 .. currentDFSNumber /\ dfs[m] \in Nat
  BY DEF NumbersKnown
<1>4. ASSUME NEW i \in Here
      PROVE  /\ On(i) \in DOMAIN dfs /\ On(i) \in Marking /\ dfs[On(i)] \in Nat
             /\ List(i) \in Firelists[On(i)] /\ List(i) \in Seq(Transition)
             /\ Left(i) \in 0 .. Len(List(i)) /\ Left(i) \in Nat
  <2>1. /\ On(i) \in DOMAIN dfs /\ List(i) \in Firelists[On(i)]
        /\ Left(i) \in 0 .. Len(List(i))
    BY DEF PathKnown
  <2>2. On(i) \in Marking /\ dfs[On(i)] \in Nat
    BY <1>3, <2>1
  <2>3. List(i) \in Seq(Transition)
    BY <2>1, <2>2, GraphFacts
  <2>4. Left(i) \in Nat
    BY <2>1, <2>3
  <2> QED BY <2>1, <2>2, <2>3, <2>4
<1>5. \A i, j \in Here : i < j => dfs[On(i)] < dfs[On(j)]
  BY DEF PathKnown
<1>6. ASSUME NEW i \in Here, NEW j \in Here, On(i) = On(j) PROVE i = j
  <2>1. i \in Int /\ j \in Int /\ dfs[On(i)] \in Nat /\ dfs[On(i)] = dfs[On(j)]
    BY <1>1, <1>4, <1>6
  <2>2. ~(i < j) /\ ~(j < i)
    BY <1>5, <2>1
  <2> QED BY <2>1, <2>2
<1>7. ASSUME NEW i \in Here PROVE dfs[On(i)] <= dfs[On(Top)]
  <2>1. i = Top \/ i < Top
    BY <1>1
  <2>2. dfs[On(i)] \in Nat /\ dfs[On(Top)] \in Nat
    BY <1>1, <1>4
  <2> QED BY <1>1, <1>5, <2>1, <2>2
<1> QED BY <1>1, <1>2, <1>3, <1>4, <1>6, <1>7 DEF Last, Top

(* The section of the entry on top, and of those below.                    *)
LEMMA Sections ==
  ASSUME NumbersKnown, PathKnown
  PROVE  /\ \A i \in Here : Section(i) \subseteq DOMAIN dfs
         /\ Section(Top) = {m \in DOMAIN dfs : dfs[On(Top)] <= dfs[m]}
         /\ \A i \in Here : On(Top) \in Section(i) => i = Top
<1>1. \A i \in Here : Section(i) \subseteq DOMAIN dfs
  BY DEF Section
<1>2. Section(Top) = {m \in DOMAIN dfs : dfs[On(Top)] <= dfs[m]}
  BY StackFacts DEF Section
<1>3. ASSUME NEW i \in Here, On(Top) \in Section(i), i # Top PROVE FALSE
  <2>1. i < Top /\ i + 1 \in Here
    BY <1>3, StackFacts
  <2>2. dfs[On(Top)] < dfs[On(i + 1)]
    BY <1>3, <2>1 DEF Section
  <2>3. dfs[On(i + 1)] <= dfs[On(Top)] /\ dfs[On(i + 1)] \in Nat /\ dfs[On(Top)] \in Nat
    BY <2>1, StackFacts
  <2> QED BY <2>2, <2>3
<1> QED BY <1>1, <1>2, <1>3

(* What has been fired where.                                              *)
LEMMA TakenFacts ==
  ASSUME NumbersKnown, PathKnown
  PROVE  /\ \A m \in DOMAIN dfs : Taken(m) \subseteq Enabled[m]
         /\ \A m \in DOMAIN dfs : (\A i \in Here : On(i) # m) => Taken(m) = Enabled[m]
         /\ \A i \in Here : Taken(On(i)) = {t \in Enabled[On(i)] :
                              \E j \in DOMAIN List(i) : j > Left(i) /\ t = List(i)[j]}
<1>1. \A m \in DOMAIN dfs : Taken(m) \subseteq Enabled[m]
  BY DEF Taken
<1>2. \A m \in DOMAIN dfs : (\A i \in Here : On(i) # m) => Taken(m) = Enabled[m]
  BY DEF Taken, Under
<1>3. ASSUME NEW i \in Here
      PROVE  Taken(On(i)) = {t \in Enabled[On(i)] :
                              \E j \in DOMAIN List(i) : j > Left(i) /\ t = List(i)[j]}
  <2>1. Under(On(i)) = {i}
    BY StackFacts DEF Under
  <2> QED BY <2>1 DEF Taken
<1> QED BY <1>1, <1>2, <1>3

(* When the fire list on top is finished, so are those of all markings     *)
(* with higher numbers.                                                    *)
LEMMA AllTaken ==
  ASSUME FullSearch, NumbersKnown, PathKnown, entry = 0, NEW m \in Section(Top)
  PROVE  Taken(m) = Enabled[m] /\ m \in DOMAIN dfs /\ m \in Marking
<1>1. m \in DOMAIN dfs /\ dfs[On(Top)] <= dfs[m] /\ m \in Marking /\ dfs[m] \in Nat
  BY Sections, StackFacts
<1>2. CASE m = On(Top)
  <2>1. Left(Top) = 0
    BY DEF Left
  <2>2. List(Top) \in Firelists[m] /\ List(Top) \in Seq(Transition)
    BY <1>2, StackFacts
  <2>3. \A t \in Enabled[m] : \E j \in DOMAIN List(Top) : j > 0 /\ t = List(Top)[j]
    <3>1. \A j \in DOMAIN List(Top) : j > 0
      BY <2>2
    <3>2. \A t \in Enabled[m] : \E j \in DOMAIN List(Top) : List(Top)[j] = t
      BY <1>1, <2>2 DEF FullSearch
    <3> QED BY <3>1, <3>2
  <2>4. Taken(m) = {t \in Enabled[m] : \E j \in DOMAIN List(Top) : j > 0 /\ t = List(Top)[j]}
    BY <1>2, <2>1, StackFacts, TakenFacts
  <2> QED BY <1>1, <2>3, <2>4
<1>3. CASE m # On(Top)
  <2>1. ASSUME NEW i \in Here, On(i) = m PROVE FALSE
    <3>1. dfs[m] <= dfs[On(Top)] /\ dfs[On(Top)] \in Nat /\ On(Top) \in DOMAIN dfs
      BY <2>1, StackFacts
    <3>2. dfs[m] = dfs[On(Top)]
      BY <1>1, <3>1
    <3> QED BY <1>1, <1>3, <3>1, <3>2 DEF NumbersKnown
  <2> QED BY <1>1, <2>1, TakenFacts
<1> QED BY <1>2, <1>3

(* The section on top is closed, when its entry has kept its own number.   *)
LEMMA TopClosed ==
  ASSUME FullSearch, NumbersKnown, PathKnown, EdgesKnown, entry = 0,
         dfs[On(Top)] = dfsstack[Top].lowlink
  PROVE  /\ Section(Top) \in SUBSET Marking /\ On(Top) \in Section(Top)
         /\ \A m \in Section(Top) : \A t \in Enabled[m] : Fire(m, t) \in Section(Top)
<1>1. Section(Top) \in SUBSET Marking /\ On(Top) \in Section(Top)
  BY Sections, StackFacts
<1>2. ASSUME NEW m \in Section(Top), NEW t \in Enabled[m]
      PROVE  Fire(m, t) \in Section(Top)
  <2>1. t \in Taken(m) /\ m \in DOMAIN dfs
    BY AllTaken
  <2>2. Fire(m, t) \in DOMAIN dfs /\ dfsstack[Top].lowlink <= dfs[Fire(m, t)]
    BY <2>1, StackFacts DEF EdgesKnown
  <2> QED BY <2>2, Sections
<1> QED BY <1>1, <1>2
-----------------------------------------------------------------------------
(* The next transition and the marking it leads to.                        *)
NextTransition == firelist[entry]
Ahead == Fire(On(Top), NextTransition)

(* Firing it and taking it back.                                           *)
LEMMA NextFired ==
  ASSUME NumbersKnown, PathKnown, entry > 0
  PROVE  /\ entry \in DOMAIN List(Top) /\ entry = Left(Top) /\ NextTransition = List(Top)[entry]
         /\ NextTransition \in Enabled[On(Top)] /\ Ahead \in Marking
         /\ Fired(ns, NextTransition) = [Current |-> Ahead, Enabled |-> Enabled[On(Top)]]
         /\ Backfired(Fired(ns, NextTransition), NextTransition) = ns
<1>1. entry = Left(Top) /\ firelist = List(Top)
  BY DEF Left, List
<1>2. entry \in DOMAIN List(Top)
  <2>1. List(Top) \in Seq(Transition) /\ Left(Top) \in 0 .. Len(List(Top))
    BY StackFacts
  <2> QED BY <1>1, <2>1
<1>3. On(Top) \in Marking /\ NextTransition \in Enabled[On(Top)]
  BY <1>1, <1>2, StackFacts, GraphFacts DEF NextTransition
<1>4. Ahead \in Marking /\ Backfire(Ahead, NextTransition) = On(Top)
  BY <1>3, GraphFacts DEF Ahead
<1>5. ns = [Current |-> On(Top), Enabled |-> Enabled[On(Top)]]
  BY DEF PathKnown
<1>6. Fired(ns, NextTransition) = [Current |-> Ahead, Enabled |-> Enabled[On(Top)]]
  BY <1>5 DEF Fired, Ahead
<1>7. Backfired(Fired(ns, NextTransition), NextTransition) = ns
  BY <1>4, <1>5, <1>6 DEF Backfired
<1> QED BY <1>1, <1>2, <1>3, <1>4, <1>6, <1>7 DEF NextTransition

(* What the step into a known marking changes, told entry by entry.        *)
LEMMA FireKnownView ==
  ASSUME NumbersKnown, PathKnown, FireKnown
  PROVE  /\ UNCHANGED <<dfs, firelist, currentDFSNumber, highest_lowlink, lasttrue, ns>>
         /\ Ahead \in DOMAIN dfs /\ entry > 0
         /\ Top' = Top /\ Here' = Here /\ dfsstack' \in Seq(StackEntry) /\ dfsstack' # <<>>
         /\ \A i \in Here :
               /\ On(i)' = On(i) /\ List(i)' = List(i)
               /\ Left(i)' = IF i = Top THEN Left(i) - 1 ELSE Left(i)
               /\ dfsstack'[i].lowlink = IF i = Top
                                         THEN Lower(dfs[Ahead], dfsstack[i].lowlink)
                                         ELSE dfsstack[i].lowlink
<1>1. /\ entry > 0 /\ entry' = entry - 1
      /\ UNCHANGED <<dfs, firelist, currentDFSNumber, highest_lowlink, lasttrue>>
  BY DEF FireKnown
<1>2. /\ Ahead \in DOMAIN dfs /\ ns' = ns
      /\ dfsstack' = Lowered(dfsstack, dfs[Ahead])
  BY <1>1, NextFired DEF FireKnown, NextTransition
<1>3. /\ Top \in Nat /\ Top > 0 /\ Here = 1 .. Top /\ Top \in Here
      /\ \A i \in Here : dfsstack[i] \in StackEntry
      /\ dfsstack \in Seq(StackEntry) /\ Top = Len(dfsstack)
  BY StackFacts DEF PathKnown, Top
<1>4. dfs[Ahead] \in Nat
  BY <1>2, StackFacts
<1>5. PICK e : e = [dfsstack[Top] EXCEPT !.lowlink = Lower(dfs[Ahead], dfsstack[Top].lowlink)]
  OBVIOUS
<1>6. /\ e \in StackEntry /\ e.lowlink = Lower(dfs[Ahead], dfsstack[Top].lowlink)
      /\ e.payload = dfsstack[Top].payload /\ e.fl = dfsstack[Top].fl
      /\ e.flIndex = dfsstack[Top].flIndex
  BY <1>3, <1>4, <1>5 DEF StackEntry, Lower
<1>7. dfsstack' = [dfsstack EXCEPT ![Top] = e]
  BY <1>2, <1>3, <1>5 DEF Lowered
<1>8. /\ dfsstack' \in Seq(StackEntry) /\ Len(dfsstack') = Len(dfsstack)
      /\ \A i \in Here : dfsstack'[i] = IF i = Top THEN e ELSE dfsstack[i]
  BY <1>3, <1>6, <1>7
<1>9. Top' = Top /\ Here' = Here /\ dfsstack' # <<>>
  BY <1>3, <1>8 DEF Top, Here
<1>10. ASSUME NEW i \in Here
       PROVE  /\ On(i)' = On(i) /\ List(i)' = List(i)
              /\ Left(i)' = IF i = Top THEN Left(i) - 1 ELSE Left(i)
  <2>1. On(i)' = On(i)
    BY <1>6, <1>8 DEF On
  <2>2. i # Top => i + 1 \in Here
    BY <1>3
  <2>3. i # Top => /\ dfsstack'[i + 1].fl = dfsstack[i + 1].fl
                   /\ dfsstack'[i + 1].flIndex = dfsstack[i + 1].flIndex
    BY <1>6, <1>8, <2>2
  <2>4. List(i)' = List(i)
    BY <1>1, <1>9, <2>3 DEF List
  <2>5. Left(i)' = IF i = Top THEN Left(i) - 1 ELSE Left(i)
    BY <1>1, <1>9, <2>3 DEF Left
  <2> QED BY <2>1, <2>4, <2>5
<1> QED BY <1>1, <1>2, <1>6, <1>8, <1>9, <1>10

(* It keeps what the search knows: the lowlink taken over is the number of *)
(* a marking that the top of the stack reaches.                            *)
LEMMA FireKnownStep ==
  ASSUME FullSearch, Known, FireKnown
  PROVE  Known'
<1>0. /\ NumbersKnown /\ PathKnown /\ LowlinksTyped /\ AboveReached
      /\ EdgesKnown /\ PredicateKnown /\ RootsKnown /\ WayBack
  BY DEF Known
<1>1. /\ UNCHANGED <<dfs, firelist, currentDFSNumber, highest_lowlink, lasttrue, ns>>
      /\ Ahead \in DOMAIN dfs /\ entry > 0
      /\ Top' = Top /\ Here' = Here /\ dfsstack' \in Seq(StackEntry) /\ dfsstack' # <<>>
  BY <1>0, FireKnownView
<1>2. \A i \in Here :
         /\ On(i)' = On(i) /\ List(i)' = List(i)
         /\ Left(i)' = IF i = Top THEN Left(i) - 1 ELSE Left(i)
         /\ dfsstack'[i].lowlink = IF i = Top
                                   THEN Lower(dfs[Ahead], dfsstack[i].lowlink)
                                   ELSE dfsstack[i].lowlink
  BY <1>0, FireKnownView
<1>3. /\ Top \in Nat /\ Top > 0 /\ Here = 1 .. Top /\ Top \in Here /\ 1 \in Here
      /\ \A i \in Here : /\ On(i) \in DOMAIN dfs /\ dfs[On(i)] \in Nat
                         /\ List(i) \in Seq(Transition) /\ Left(i) \in Nat
                         /\ Left(i) \in 0 .. Len(List(i))
      /\ \A m \in DOMAIN dfs : m \in Marking /\ dfs[m] \in Nat /\ dfs[m] > 0
  BY <1>0, StackFacts
<1>4. /\ entry \in DOMAIN List(Top) /\ entry = Left(Top) /\ NextTransition = List(Top)[entry]
      /\ NextTransition \in Enabled[On(Top)]
  BY <1>0, <1>1, NextFired
<1>5. /\ dfsstack[Top].lowlink \in 1 .. dfs[On(Top)] /\ dfsstack[Top].lowlink \in Nat
      /\ dfsstack'[Top].lowlink = Lower(dfs[Ahead], dfsstack[Top].lowlink)
      /\ dfs[Ahead] \in Nat /\ dfs[Ahead] > 0
  BY <1>0, <1>1, <1>2, <1>3 DEF LowlinksTyped
<1>6. /\ dfsstack'[Top].lowlink \in 1 .. dfs[On(Top)]
      /\ dfsstack'[Top].lowlink <= dfs[Ahead]
      /\ dfsstack'[Top].lowlink <= dfsstack[Top].lowlink
      /\ dfsstack'[Top].lowlink = dfs[Ahead] \/ dfsstack'[Top].lowlink = dfsstack[Top].lowlink
  BY <1>3, <1>5 DEF Lower
<1>7. NumbersKnown'
  BY <1>0, <1>1 DEF NumbersKnown
<1>8. PathKnown'
  <2>1. On(1)' = Initial
    BY <1>0, <1>2, <1>3 DEF PathKnown
  <2>2. On(Top)' = On(Top)
    BY <1>1, <1>2, <1>3 DEF On
  <2>3. ns' = [Current |-> On(Top)', Enabled |-> Enabled[On(Top)']]
    BY <1>0, <1>1, <2>2 DEF PathKnown
  <2>4. ASSUME NEW i \in Here
        PROVE  /\ On(i)' \in DOMAIN dfs' /\ List(i)' \in Firelists[On(i)']
               /\ Left(i)' \in 0 .. Len(List(i)')
    <3>1. On(i) \in DOMAIN dfs /\ List(i) \in Firelists[On(i)]
      BY <1>0 DEF PathKnown
    <3>2. Left(i)' \in 0 .. Len(List(i))
      <4>1. Left(i) \in 0 .. Len(List(i)) /\ Left(i) \in Nat
        BY <1>3
      <4>2. i = Top => Left(i) > 0
        BY <1>1, <1>4
      <4>3. Left(i)' = IF i = Top THEN Left(i) - 1 ELSE Left(i)
        BY <1>2
      <4> QED BY <4>1, <4>2, <4>3
    <3> QED BY <1>1, <1>2, <3>1, <3>2
  <2>5. ASSUME NEW i \in Here \ {Top}
        PROVE  /\ Left(i)' + 1 \in DOMAIN List(i)'
               /\ On(i + 1)' = Fire(On(i)', List(i)'[Left(i)' + 1])
    <3>1. i + 1 \in Here
      BY <1>3
    <3>2. /\ Left(i) + 1 \in DOMAIN List(i)
          /\ On(i + 1) = Fire(On(i), List(i)[Left(i) + 1])
      BY <1>0 DEF PathKnown
    <3>3. On(i + 1)' = On(i + 1)
      BY <1>2, <3>1
    <3> QED BY <1>2, <3>2, <3>3
  <2>6. \A i, j \in Here : i < j => dfs'[On(i)'] < dfs'[On(j)']
    BY <1>0, <1>1, <1>2 DEF PathKnown
  <2> QED BY <1>1, <2>1, <2>3, <2>4, <2>5, <2>6 DEF PathKnown
<1>9. LowlinksTyped'
  <2>1. ASSUME NEW i \in Here
        PROVE  /\ dfsstack'[i].lowlink \in 1 .. dfs'[On(i)']
               /\ \E m \in DOMAIN dfs' : dfs'[m] = dfsstack'[i].lowlink
    <3>1. CASE i = Top
      <4>1. \E m \in DOMAIN dfs : dfs[m] = dfsstack'[Top].lowlink
        BY <1>0, <1>1, <1>3, <1>6 DEF LowlinksTyped
      <4> QED BY <1>1, <1>2, <1>6, <3>1, <4>1
    <3>2. CASE i # Top
      BY <1>0, <1>1, <1>2, <3>2 DEF LowlinksTyped
    <3> QED BY <3>1, <3>2
  <2> QED BY <1>1, <2>1 DEF LowlinksTyped
<1>10. AboveReached'
  <2>1. ASSUME NEW i \in Here, NEW m \in DOMAIN dfs,
               dfs'[On(i)'] <= dfs'[m] \/ dfs'[m] = dfsstack'[i].lowlink
        PROVE  On(i)' \in SatEF({m})
    <3>1. CASE i = Top /\ m = Ahead
      <4>1. On(Top) \in SatEF({Ahead})
        BY <1>3, <1>4, ReachStep DEF FullSearch, Ahead
      <4> QED BY <1>2, <3>1, <4>1
    <3>2. CASE ~(i = Top /\ m = Ahead)
      <4>1. dfs[On(i)] <= dfs[m] \/ dfs[m] = dfsstack[i].lowlink
        <5>1. CASE dfs[On(i)] <= dfs[m]
          BY <5>1
        <5>2. CASE dfs[m] = dfsstack'[i].lowlink
          <6>1. dfs[m] # dfs[Ahead] \/ i # Top
            BY <1>0, <1>1, <3>2 DEF NumbersKnown
          <6> QED BY <1>2, <1>6, <5>2, <6>1
        <5> QED BY <1>1, <1>2, <2>1, <5>1, <5>2
      <4>2. On(i) \in SatEF({m})
        BY <1>0, <4>1 DEF AboveReached
      <4> QED BY <1>2, <4>2
    <3> QED BY <3>1, <3>2
  <2> QED BY <1>1, <2>1 DEF AboveReached
<1>11. \A i \in Here : Section(i)' = Section(i)
  <2>1. ASSUME NEW i \in Here PROVE Section(i)' = Section(i)
    <3>1. On(i)' = On(i) /\ (i < Top => On(i + 1)' = On(i + 1))
      BY <1>2, <1>3
    <3> QED BY <1>1, <3>1 DEF Section
  <2> QED BY <2>1
<1>12. ASSUME NEW m \in DOMAIN dfs, NEW t \in Taken(m)'
       PROVE  t \in Taken(m) \/ (m = On(Top) /\ t = NextTransition)
  <2>1. CASE \A i \in Here : On(i) # m
    <3>1. Taken(m)' \subseteq Enabled[m]
      BY DEF Taken
    <3> QED BY <1>0, <2>1, <3>1, TakenFacts
  <2>2. CASE \E i \in Here : On(i) = m
    <3>1. PICK i \in Here : On(i) = m
      BY <2>2
    <3>2. Under(m)' = {i} /\ Under(m)' # {}
      <4>1. \A k \in Here : On(k)' = m <=> k = i
        BY <1>0, <1>2, <3>1, StackFacts
      <4> QED BY <1>1, <4>1 DEF Under
    <3>3. PICK j \in DOMAIN List(i)' : j > Left(i)' /\ t = List(i)'[j] /\ t \in Enabled[m]
      BY <3>2 DEF Taken
    <3>4. j \in DOMAIN List(i) /\ t = List(i)[j] /\ j \in Int
      <4>1. List(i)' = List(i) /\ List(i) \in Seq(Transition)
        BY <1>2, <1>3
      <4>2. j \in DOMAIN List(i) /\ t = List(i)[j]
        BY <3>3, <4>1
      <4> QED BY <4>1, <4>2
    <3>5. CASE j > Left(i)
      <4>1. Taken(On(i)) = {u \in Enabled[On(i)] :
                                \E h \in DOMAIN List(i) : h > Left(i) /\ u = List(i)[h]}
        BY <1>0, TakenFacts
      <4> QED BY <3>1, <3>3, <3>4, <3>5, <4>1
    <3>6. CASE ~(j > Left(i))
      <4>0. Left(i) \in Nat /\ j \in Int
        BY <1>3, <3>4
      <4>1. Left(i)' = IF i = Top THEN Left(i) - 1 ELSE Left(i)
        BY <1>2
      <4>2. j > Left(i)'
        BY <3>3
      <4>3. i = Top /\ j = Left(i)
        BY <3>6, <4>0, <4>1, <4>2
      <4> QED BY <1>4, <3>1, <3>4, <4>3
    <3> QED BY <3>5, <3>6
  <2> QED BY <2>1, <2>2
<1>13. EdgesKnown'
  <2>1. ASSUME NEW m \in DOMAIN dfs, NEW t \in Taken(m)'
        PROVE  /\ Fire(m, t) \in DOMAIN dfs
               /\ \A i \in Here : m \in Section(i)' => dfsstack'[i].lowlink <= dfs[Fire(m, t)]
    <3>1. CASE t \in Taken(m)
      <4>1. /\ Fire(m, t) \in DOMAIN dfs
            /\ \A i \in Here : m \in Section(i) => dfsstack[i].lowlink <= dfs[Fire(m, t)]
        BY <1>0, <3>1 DEF EdgesKnown
      <4>2. ASSUME NEW i \in Here, m \in Section(i)'
            PROVE  dfsstack'[i].lowlink <= dfs[Fire(m, t)]
        <5>1. dfsstack[i].lowlink <= dfs[Fire(m, t)] /\ dfs[Fire(m, t)] \in Nat
          BY <1>3, <1>11, <4>1, <4>2
        <5>2. CASE i # Top
          BY <1>2, <5>1, <5>2
        <5>3. CASE i = Top
          BY <1>5, <1>6, <5>1, <5>3
        <5> QED BY <5>2, <5>3
      <4> QED BY <4>1, <4>2
    <3>2. CASE m = On(Top) /\ t = NextTransition
      <4>1. Fire(m, t) = Ahead
        BY <3>2 DEF Ahead
      <4>2. \A i \in Here : m \in Section(i)' => i = Top
        BY <1>0, <1>11, <3>2, Sections
      <4> QED BY <1>1, <1>6, <4>1, <4>2
    <3> QED BY <1>12, <3>1, <3>2
  <2> QED BY <1>1, <2>1 DEF EdgesKnown
<1>14. PredicateKnown' /\ RootsKnown' /\ RootsPassed' = RootsPassed
  BY <1>0, <1>1 DEF PredicateKnown, RootsKnown, RootsPassed
<1>15. WayBack'
  <2>1. ASSUME NEW m \in DOMAIN dfs
        PROVE  \/ m \in SatEF(RootsPassed)
               \/ \E i \in Here : dfs[On(i)'] <= dfs[m] /\ m \in SatEF({On(i)'})
    BY <1>0, <1>2 DEF WayBack
  <2>2. SatEF(RootsPassed') = SatEF(RootsPassed)
    BY <1>14
  <2> QED BY <1>1, <2>1, <2>2 DEF WayBack
<1> QED BY <1>7, <1>8, <1>9, <1>10, <1>13, <1>14, <1>15 DEF Known
-----------------------------------------------------------------------------
(* What the step to a new marking changes.                                 *)
LEMMA FireNewView ==
  ASSUME NumbersKnown, PathKnown, FireNew
  PROVE  /\ UNCHANGED highest_lowlink /\ Ahead \notin DOMAIN dfs /\ entry > 0
         /\ currentDFSNumber' = currentDFSNumber + 1
         /\ DOMAIN dfs' = DOMAIN dfs \cup {Ahead}
         /\ dfs'[Ahead] = currentDFSNumber + 1
         /\ \A m \in DOMAIN dfs : dfs'[m] = dfs[m]
         /\ ns' = [Current |-> Ahead, Enabled |-> Enabled[Ahead]]
         /\ holds' = Check(Fired(ns, NextTransition), NextTransition)
         /\ lasttrue' = IF holds' THEN currentDFSNumber + 1 ELSE lasttrue
         /\ firelist' \in Firelists[Ahead] /\ entry' = Len(firelist')
         /\ Top' = Top + 1 /\ Here' = Here \cup {Top + 1}
         /\ dfsstack' \in Seq(StackEntry) /\ dfsstack' # <<>>
         /\ \A i \in Here :
               /\ On(i)' = On(i) /\ List(i)' = List(i)
               /\ Left(i)' = IF i = Top THEN Left(i) - 1 ELSE Left(i)
               /\ dfsstack'[i].lowlink = dfsstack[i].lowlink
         /\ dfsstack'[Top + 1].payload = Ahead
         /\ dfsstack'[Top + 1].lowlink = currentDFSNumber + 1
<1>1. /\ entry > 0 /\ UNCHANGED highest_lowlink
      /\ Ahead \notin DOMAIN dfs
      /\ dfs' = setDFS(Ahead, currentDFSNumber + 1)
      /\ currentDFSNumber' = currentDFSNumber + 1
      /\ dfsstack' = Append(dfsstack, [fl |-> firelist, flIndex |-> entry - 1,
                                       payload |-> Ahead, lowlink |-> currentDFSNumber + 1])
      /\ holds' = Check(Fired(ns, NextTransition), NextTransition)
      /\ lasttrue' = IF holds' THEN currentDFSNumber + 1 ELSE lasttrue
      /\ ns' = Updated(Fired(ns, NextTransition))
      /\ firelist' \in Firelists[ns'.Current]
      /\ entry' = Len(firelist')
  <2>1. entry > 0
    BY DEF FireNew
  <2>2. Fired(ns, NextTransition).Current = Ahead
    BY <2>1, NextFired
  <2> QED BY <2>1, <2>2 DEF FireNew, NextTransition
<1>2. ns' = [Current |-> Ahead, Enabled |-> Enabled[Ahead]] /\ firelist' \in Firelists[Ahead]
  BY <1>1, NextFired DEF Updated
<1>3. /\ DOMAIN dfs' = DOMAIN dfs \cup {Ahead}
      /\ dfs'[Ahead] = currentDFSNumber + 1
      /\ \A m \in DOMAIN dfs : dfs'[m] = dfs[m]
  BY <1>1 DEF setDFS
<1>4. /\ Top \in Nat /\ Top > 0 /\ Here = 1 .. Top /\ Top \in Here
      /\ dfsstack \in Seq(StackEntry) /\ Top = Len(dfsstack)
  BY StackFacts DEF PathKnown, Top
<1>5. PICK e : e = [fl |-> firelist, flIndex |-> entry - 1,
                    payload |-> Ahead, lowlink |-> currentDFSNumber + 1]
  OBVIOUS
<1>6. /\ e \in StackEntry /\ e.lowlink = currentDFSNumber + 1 /\ e.payload = Ahead
      /\ e.fl = firelist /\ e.flIndex = entry - 1
  <2>1. firelist = List(Top) /\ List(Top) \in Seq(Transition)
    BY <1>4, StackFacts DEF List
  <2>2. entry - 1 \in Nat
    BY <1>1, <1>4, NextFired, StackFacts
  <2>3. currentDFSNumber + 1 \in Nat /\ Ahead \in Marking
    BY <1>1, NextFired DEF NumbersKnown
  <2> QED BY <1>5, <2>1, <2>2, <2>3 DEF StackEntry
<1>7. dfsstack' = Append(dfsstack, e)
  BY <1>1, <1>5
<1>8. /\ dfsstack' \in Seq(StackEntry) /\ Len(dfsstack') = Top + 1
      /\ \A i \in Here : dfsstack'[i] = dfsstack[i]
      /\ dfsstack'[Top + 1] = e
  BY <1>4, <1>6, <1>7
<1>9. Top' = Top + 1 /\ Here' = Here \cup {Top + 1} /\ dfsstack' # <<>>
  BY <1>4, <1>8 DEF Top, Here
<1>10. ASSUME NEW i \in Here
       PROVE  /\ On(i)' = On(i) /\ List(i)' = List(i)
              /\ Left(i)' = IF i = Top THEN Left(i) - 1 ELSE Left(i)
  <2>1. On(i)' = On(i)
    BY <1>8 DEF On
  <2>2. i # Top' /\ (i # Top => i + 1 \in Here)
    BY <1>4, <1>9
  <2>3. CASE i = Top
    BY <1>6, <1>8, <2>1, <2>2, <2>3 DEF List, Left
  <2>4. CASE i # Top
    <3>1. dfsstack'[i + 1] = dfsstack[i + 1]
      BY <1>8, <2>2, <2>4
    <3> QED BY <2>1, <2>2, <2>4, <3>1 DEF List, Left
  <2> QED BY <2>3, <2>4
<1> QED BY <1>1, <1>2, <1>3, <1>6, <1>8, <1>9, <1>10

(* It keeps what the search knows: the new marking has the highest number, *)
(* and is reached from all of the stack.                                   *)
LEMMA FireNewStep ==
  ASSUME FullSearch, Known, FireNew
  PROVE  Known'
<1>k. PICK k : k = Top + 1
  OBVIOUS
<1>f. PICK F : F = Ahead
  OBVIOUS
<1>0. /\ NumbersKnown /\ PathKnown /\ LowlinksTyped /\ AboveReached
      /\ EdgesKnown /\ PredicateKnown /\ RootsKnown /\ WayBack
  BY DEF Known
<1>1. /\ UNCHANGED highest_lowlink /\ Ahead \notin DOMAIN dfs /\ entry > 0
      /\ currentDFSNumber' = currentDFSNumber + 1
      /\ DOMAIN dfs' = DOMAIN dfs \cup {Ahead}
      /\ dfs'[Ahead] = currentDFSNumber + 1
      /\ \A m \in DOMAIN dfs : dfs'[m] = dfs[m]
      /\ ns' = [Current |-> Ahead, Enabled |-> Enabled[Ahead]]
      /\ firelist' \in Firelists[Ahead] /\ entry' = Len(firelist')
      /\ Top' = k /\ Here' = Here \cup {k}
      /\ dfsstack' \in Seq(StackEntry) /\ dfsstack' # <<>>
  BY <1>0, <1>k, FireNewView
<1>2. /\ \A i \in Here :
            /\ On(i)' = On(i) /\ List(i)' = List(i)
            /\ Left(i)' = IF i = Top THEN Left(i) - 1 ELSE Left(i)
            /\ dfsstack'[i].lowlink = dfsstack[i].lowlink
      /\ dfsstack'[k].payload = Ahead
      /\ dfsstack'[k].lowlink = currentDFSNumber + 1
  BY <1>0, <1>k, FireNewView
<1>3. /\ k = Top + 1 /\ Top \in Nat /\ Top > 0 /\ Here = 1 .. Top /\ Top \in Here /\ 1 \in Here
      /\ \A i \in Here : /\ On(i) \in DOMAIN dfs /\ dfs[On(i)] \in Nat
                         /\ List(i) \in Seq(Transition) /\ Left(i) \in Nat
                         /\ Left(i) \in 0 .. Len(List(i))
      /\ \A m \in DOMAIN dfs : /\ m \in Marking /\ dfs[m] \in Nat /\ dfs[m] > 0
                               /\ dfs[m] \in 1 .. currentDFSNumber
                               /\ dfs[m] < currentDFSNumber + 1
  <2>1. \A m \in DOMAIN dfs : /\ m \in Marking /\ dfs[m] \in Nat /\ dfs[m] > 0
                               /\ dfs[m] \in 1 .. currentDFSNumber
                               /\ dfs[m] < currentDFSNumber + 1
    BY <1>0, StackFacts DEF NumbersKnown
  <2> QED BY <1>0, <1>k, <2>1, StackFacts
<1>4. /\ entry \in DOMAIN List(Top) /\ entry = Left(Top) /\ NextTransition = List(Top)[entry]
      /\ NextTransition \in Enabled[On(Top)] /\ Ahead \in Marking
  BY <1>0, <1>1, NextFired
<1>5. currentDFSNumber \in Nat
  BY <1>0 DEF NumbersKnown
<1>6. k \notin Here /\ k \in Here'
  BY <1>1, <1>3
<1>7. On(k)' = Ahead
  BY <1>2, <1>3 DEF On
<1>8. NumbersKnown'
  <2>1. \A m \in DOMAIN dfs' : dfs'[m] \in 1 .. currentDFSNumber'
    BY <1>1, <1>3, <1>5
  <2>2. dfs' = [m \in DOMAIN dfs' |-> dfs'[m]]
    BY DEF FireNew, setDFS
  <2>3. dfs' \in [DOMAIN dfs' -> 1 .. currentDFSNumber']
    BY <2>1, <2>2
  <2>4. ASSUME NEW m \in DOMAIN dfs', NEW n \in DOMAIN dfs', dfs'[m] = dfs'[n] PROVE m = n
    <3>1. CASE m \in DOMAIN dfs /\ n \in DOMAIN dfs
      BY <1>0, <1>1, <2>4, <3>1 DEF NumbersKnown
    <3>2. CASE m = Ahead /\ n \in DOMAIN dfs
      BY <1>1, <1>3, <1>5, <2>4, <3>2
    <3>3. CASE n = Ahead /\ m \in DOMAIN dfs
      BY <1>1, <1>3, <1>5, <2>4, <3>3
    <3> QED BY <1>1, <3>1, <3>2, <3>3
  <2>5. DOMAIN dfs' \subseteq Marking /\ currentDFSNumber' \in Nat
    BY <1>1, <1>3, <1>4, <1>5
  <2> QED BY <2>3, <2>4, <2>5 DEF NumbersKnown
<1>9. PathKnown'
  <2>1. On(1)' = Initial
    BY <1>0, <1>2, <1>3 DEF PathKnown
  <2>2. On(Top)' = Ahead
    BY <1>1, <1>2, <1>3 DEF On
  <2>3. ns' = [Current |-> On(Top)', Enabled |-> Enabled[On(Top)']]
    BY <1>1, <2>2
  <2>4. ASSUME NEW i \in Here'
        PROVE  /\ On(i)' \in DOMAIN dfs' /\ List(i)' \in Firelists[On(i)']
               /\ Left(i)' \in 0 .. Len(List(i)')
    <3>1. CASE i \in Here
      <4>1. On(i) \in DOMAIN dfs /\ List(i) \in Firelists[On(i)]
        BY <1>0, <3>1 DEF PathKnown
      <4>2. Left(i)' \in 0 .. Len(List(i))
        <5>1. Left(i) \in 0 .. Len(List(i)) /\ Left(i) \in Nat /\ Len(List(i)) \in Nat
          BY <1>3, <3>1
        <5>2. i = Top => Left(i) > 0
          BY <1>1, <1>4
        <5>3. Left(i)' = IF i = Top THEN Left(i) - 1 ELSE Left(i)
          BY <1>2, <3>1
        <5> QED BY <5>1, <5>2, <5>3
      <4> QED BY <1>1, <1>2, <3>1, <4>1, <4>2
    <3>2. CASE i = k
      <4>1. On(i)' = Ahead /\ List(i)' = firelist' /\ Left(i)' = Len(firelist')
        BY <1>1, <1>7, <3>2 DEF List, Left
      <4>2. firelist' \in Seq(Transition)
        BY <1>1, <1>4, GraphFacts
      <4>3. Len(firelist') \in 0 .. Len(firelist')
        BY <4>2
      <4> QED BY <1>1, <4>1, <4>3
    <3> QED BY <1>1, <3>1, <3>2
  <2>5. ASSUME NEW i \in Here' \ {Top'}
        PROVE  /\ Left(i)' + 1 \in DOMAIN List(i)'
               /\ On(i + 1)' = Fire(On(i)', List(i)'[Left(i)' + 1])
    <3>1. i \in Here
      BY <1>1
    <3>2. CASE i = Top
      <4>1. Left(i)' + 1 = Left(Top)
        BY <1>2, <1>3, <3>2
      <4>2. On(i + 1)' = Ahead
        <5>1. i + 1 = k
          BY <1>3, <3>2
        <5> QED BY <1>7, <5>1
      <4>3. On(i)' = On(Top) /\ List(i)' = List(Top)
        BY <1>2, <1>3, <3>2
      <4> QED BY <1>4, <4>1, <4>2, <4>3 DEF Ahead
    <3>3. CASE i # Top
      <4>1. i + 1 \in Here
        BY <1>3, <3>1, <3>3
      <4>2. /\ Left(i) + 1 \in DOMAIN List(i)
            /\ On(i + 1) = Fire(On(i), List(i)[Left(i) + 1])
        BY <1>0, <3>1, <3>3 DEF PathKnown
      <4>3. On(i + 1)' = On(i + 1)
        BY <1>2, <4>1
      <4> QED BY <1>2, <3>1, <3>3, <4>2, <4>3
    <3> QED BY <3>2, <3>3
  <2>6. ASSUME NEW i \in Here', NEW j \in Here', i < j PROVE dfs'[On(i)'] < dfs'[On(j)']
    <3>1. i \in Here
      BY <1>1, <1>3, <2>6
    <3>2. CASE j \in Here
      <4>1. dfs[On(i)] < dfs[On(j)]
        BY <1>0, <2>6, <3>1, <3>2 DEF PathKnown
      <4>2. dfs'[On(i)'] = dfs[On(i)] /\ dfs'[On(j)'] = dfs[On(j)]
        BY <1>1, <1>2, <1>3, <3>1, <3>2
      <4> QED BY <4>1, <4>2
    <3>3. CASE j = k
      <4>1. dfs'[On(i)'] = dfs[On(i)] /\ dfs[On(i)] < currentDFSNumber + 1
        BY <1>1, <1>2, <1>3, <3>1
      <4>2. dfs'[On(j)'] = currentDFSNumber + 1
        BY <1>1, <1>7, <3>3
      <4> QED BY <4>1, <4>2
    <3> QED BY <1>1, <3>2, <3>3
  <2> QED BY <1>1, <2>1, <2>3, <2>4, <2>5, <2>6 DEF PathKnown
<1>10. LowlinksTyped'
  <2>1. ASSUME NEW i \in Here'
        PROVE  /\ dfsstack'[i].lowlink \in 1 .. dfs'[On(i)']
               /\ \E m \in DOMAIN dfs' : dfs'[m] = dfsstack'[i].lowlink
    <3>1. CASE i \in Here
      <4>1. PICK m \in DOMAIN dfs : dfs[m] = dfsstack[i].lowlink
        BY <1>0, <3>1 DEF LowlinksTyped
      <4>2. dfsstack[i].lowlink \in 1 .. dfs[On(i)]
        BY <1>0, <3>1 DEF LowlinksTyped
      <4> QED BY <1>1, <1>2, <1>3, <3>1, <4>1, <4>2
    <3>2. CASE i = k
      <4>1. currentDFSNumber + 1 \in 1 .. currentDFSNumber + 1
        BY <1>5
      <4> QED BY <1>1, <1>2, <1>7, <3>2, <4>1
    <3> QED BY <1>1, <3>1, <3>2
  <2> QED BY <2>1 DEF LowlinksTyped
<1>11. Ahead \in SatEF({Ahead}) /\ On(Top) \in SatEF({Ahead})
  <2>1. {Ahead} \in SUBSET Marking
    BY <1>4
  <2>2. On(Top) \in SatEF({Ahead})
    BY <1>3, <1>4, ReachStep DEF FullSearch, Ahead
  <2> QED BY <2>1, <2>2, ReachSet DEF FullSearch
<1>12. AboveReached'
  <2>1. ASSUME NEW i \in Here', NEW m \in DOMAIN dfs',
               dfs'[On(i)'] <= dfs'[m] \/ dfs'[m] = dfsstack'[i].lowlink
        PROVE  On(i)' \in SatEF({m})
    <3>1. CASE i \in Here /\ m = Ahead
      <4>1. On(i) \in SatEF({On(Top)})
        BY <1>0, <1>3, <3>1, StackFacts DEF AboveReached
      <4>2. On(i) \in SatEF({Ahead})
        BY <1>4, <1>11, <4>1, ReachMarking DEF FullSearch
      <4> QED BY <1>2, <3>1, <4>2
    <3>2. CASE i \in Here /\ m \in DOMAIN dfs
      <4>1. dfs[On(i)] <= dfs[m] \/ dfs[m] = dfsstack[i].lowlink
        BY <1>1, <1>2, <1>3, <2>1, <3>2
      <4> QED BY <1>0, <1>2, <3>2, <4>1 DEF AboveReached
    <3>3. CASE i = k
      <4>1. dfs'[m] = currentDFSNumber + 1 \/ currentDFSNumber + 1 <= dfs'[m]
        BY <1>1, <1>2, <1>7, <2>1, <3>3
      <4>2. m = Ahead
        BY <1>1, <1>3, <1>5, <4>1
      <4> QED BY <1>7, <1>11, <3>3, <4>2
    <3> QED BY <1>1, <3>1, <3>2, <3>3
  <2> QED BY <2>1 DEF AboveReached
<1>13. \A i \in Here : Section(i)' \cap DOMAIN dfs = Section(i) /\ Ahead \notin Section(i)'
  <2>1. ASSUME NEW i \in Here, NEW m \in DOMAIN dfs PROVE m \in Section(i)' <=> m \in Section(i)
    <3>1. On(i)' = On(i) /\ dfs'[On(i)'] = dfs[On(i)] /\ dfs'[m] = dfs[m] /\ m \in DOMAIN dfs'
      BY <1>1, <1>2, <1>3
    <3>2. CASE i < Top
      <4>1. i + 1 \in Here /\ i < Top'
        <5>1. i \in 1 .. Top /\ Top \in Nat /\ Top' = Top + 1
          BY <1>1, <1>3
        <5>2. i + 1 \in 1 .. Top
          BY <3>2, <5>1
        <5> QED BY <1>3, <3>2, <5>1, <5>2
      <4>2. dfs'[On(i + 1)'] = dfs[On(i + 1)]
        BY <1>1, <1>2, <1>3, <4>1
      <4> QED BY <3>1, <3>2, <4>1, <4>2 DEF Section
    <3>3. CASE i = Top
      <4>1. i < Top' /\ On(i + 1)' = Ahead /\ dfs'[On(i + 1)'] = currentDFSNumber + 1
        BY <1>1, <1>3, <1>7, <3>3
      <4>2. dfs'[m] < currentDFSNumber + 1 /\ ~(i < Top)
        BY <1>3, <3>1, <3>3
      <4> QED BY <3>1, <4>1, <4>2 DEF Section
    <3> QED BY <1>3, <3>2, <3>3
  <2>2. ASSUME NEW i \in Here, Ahead \in Section(i)' PROVE FALSE
    <3>1. i < Top'
      BY <1>1, <1>3
    <3>2. dfs'[Ahead] < dfs'[On(i + 1)']
      BY <2>2, <3>1 DEF Section
    <3>3. CASE i = Top
      <4>0. i + 1 = k
        BY <1>3, <3>3
      <4>1. dfs'[On(i + 1)'] = currentDFSNumber + 1
        BY <1>1, <1>7, <4>0
      <4> QED BY <1>1, <1>5, <3>2, <4>1
    <3>4. CASE i # Top
      <4>1. i + 1 \in Here
        BY <1>3, <3>4
      <4>2. dfs'[On(i + 1)'] = dfs[On(i + 1)] /\ dfs[On(i + 1)] < currentDFSNumber + 1
            /\ dfs[On(i + 1)] \in Nat
        BY <1>1, <1>2, <1>3, <4>1
      <4> QED BY <1>1, <1>5, <3>2, <4>2
    <3> QED BY <3>3, <3>4
  <2>3. ASSUME NEW i \in Here PROVE Section(i) \subseteq DOMAIN dfs
    BY DEF Section
  <2> QED BY <2>1, <2>2, <2>3
<1>14. Section(k)' \subseteq {Ahead}
  <2>1. ASSUME NEW m \in Section(k)' PROVE m = Ahead
    <3>1. m \in DOMAIN dfs' /\ dfs'[On(k)'] <= dfs'[m]
      BY DEF Section
    <3>2. currentDFSNumber + 1 <= dfs'[m]
      BY <1>1, <1>7, <3>1
    <3> QED BY <1>1, <1>3, <1>5, <3>1, <3>2
  <2> QED BY <2>1
<1>15. ASSUME NEW t PROVE t \notin Taken(F)'
  <2> SUFFICES ASSUME t \in Taken(F)' PROVE FALSE
    OBVIOUS
  <2>1. Under(F)' = {k}
    <3>1. \A h \in Here : On(h)' # F
      BY <1>f, <1>1, <1>2, <1>3
    <3> QED BY <1>f, <1>1, <1>7, <3>1 DEF Under
  <2>2. PICK j \in DOMAIN List(k)' : j > Left(k)'
    BY <2>1 DEF Taken
  <2>3. List(k)' = firelist' /\ Left(k)' = Len(firelist')
    BY <1>1 DEF List, Left
  <2>4. firelist' \in Seq(Transition)
    BY <1>1, <1>4, GraphFacts
  <2> QED BY <2>2, <2>3, <2>4
<1>16. ASSUME NEW m \in DOMAIN dfs, NEW t \in Taken(m)'
       PROVE  t \in Taken(m) \/ (m = On(Top) /\ t = NextTransition)
  <2>0. m # Ahead
    BY <1>1
  <2>1. CASE \A i \in Here : On(i) # m
    <3>1. Taken(m)' \subseteq Enabled[m]
      BY DEF Taken
    <3> QED BY <1>0, <2>1, <3>1, TakenFacts
  <2>2. CASE \E i \in Here : On(i) = m
    <3>1. PICK i \in Here : On(i) = m
      BY <2>2
    <3>2. Under(m)' = {i} /\ Under(m)' # {}
      <4>1. \A h \in Here : On(h)' = m <=> h = i
        BY <1>0, <1>2, <3>1, StackFacts
      <4>2. On(k)' # m
        BY <1>7, <2>0
      <4> QED BY <1>1, <4>1, <4>2 DEF Under
    <3>3. PICK j \in DOMAIN List(i)' : j > Left(i)' /\ t = List(i)'[j] /\ t \in Enabled[m]
      BY <3>2 DEF Taken
    <3>4. j \in DOMAIN List(i) /\ t = List(i)[j] /\ j \in Int
      <4>1. List(i)' = List(i) /\ List(i) \in Seq(Transition)
        BY <1>2, <1>3
      <4>2. j \in DOMAIN List(i) /\ t = List(i)[j]
        BY <3>3, <4>1
      <4> QED BY <4>1, <4>2
    <3>5. CASE j > Left(i)
      <4>1. Taken(On(i)) = {u \in Enabled[On(i)] :
                                \E h \in DOMAIN List(i) : h > Left(i) /\ u = List(i)[h]}
        BY <1>0, TakenFacts
      <4> QED BY <3>1, <3>3, <3>4, <3>5, <4>1
    <3>6. CASE ~(j > Left(i))
      <4>0. Left(i) \in Nat /\ j \in Int
        BY <1>3, <3>4
      <4>1. Left(i)' = IF i = Top THEN Left(i) - 1 ELSE Left(i)
        BY <1>2
      <4>2. j > Left(i)'
        BY <3>3
      <4>3. i = Top /\ j = Left(i)
        BY <3>6, <4>0, <4>1, <4>2
      <4> QED BY <1>4, <3>1, <3>4, <4>3
    <3> QED BY <3>5, <3>6
  <2> QED BY <2>1, <2>2
<1>17. EdgesKnown'
  <2>1. ASSUME NEW m \in DOMAIN dfs, NEW t \in Taken(m)'
        PROVE  /\ Fire(m, t) \in DOMAIN dfs'
               /\ \A i \in Here' : m \in Section(i)' => dfsstack'[i].lowlink <= dfs'[Fire(m, t)]
    <3>0. ASSUME NEW i \in Here', m \in Section(i)' PROVE i \in Here /\ m \in Section(i)
      <4>1. i # k
        BY <1>1, <1>14, <3>0
      <4> QED BY <1>1, <1>13, <3>0, <4>1
    <3>1. CASE t \in Taken(m)
      <4>1. /\ Fire(m, t) \in DOMAIN dfs
            /\ \A i \in Here : m \in Section(i) => dfsstack[i].lowlink <= dfs[Fire(m, t)]
        BY <1>0, <3>1 DEF EdgesKnown
      <4> QED BY <1>1, <1>2, <3>0, <4>1
    <3>2. CASE m = On(Top) /\ t = NextTransition
      <4>1. Fire(m, t) = Ahead
        BY <3>2 DEF Ahead
      <4>2. ASSUME NEW i \in Here', m \in Section(i)'
            PROVE  dfsstack'[i].lowlink <= dfs'[Fire(m, t)]
        <5>1. i \in Here
          BY <3>0, <4>2
        <5>2. dfsstack[i].lowlink \in 1 .. dfs[On(i)] /\ dfs[On(i)] < currentDFSNumber + 1
              /\ dfs[On(i)] \in Nat
          BY <1>0, <1>3, <5>1 DEF LowlinksTyped
        <5>3. dfsstack[i].lowlink <= currentDFSNumber + 1
          BY <1>5, <5>2
        <5> QED BY <1>1, <1>2, <4>1, <5>1, <5>3
      <4> QED BY <1>1, <4>1, <4>2
    <3> QED BY <1>16, <3>1, <3>2
  <2>2. \A t : t \notin Taken(F)'
    BY <1>15
  <2> QED BY <1>f, <1>1, <2>1, <2>2 DEF EdgesKnown
<1>18. PredicateKnown'
  <2>1. /\ holds' = Check(Fired(ns, NextTransition), NextTransition)
        /\ lasttrue' = IF holds' THEN currentDFSNumber + 1 ELSE lasttrue
    BY <1>0, FireNewView
  <2>2. Fired(ns, NextTransition).Current = Ahead
    BY <1>0, <1>1, NextFired
  <2>3. holds' = (Ahead \in Goal)
    BY <2>1, <2>2 DEF Check, Evaluate, Fireability, FullSearch
  <2>4. /\ lasttrue \in 0 .. currentDFSNumber
        /\ \A m \in DOMAIN dfs \cap Goal : dfs[m] <= lasttrue
        /\ lasttrue > 0 => \E m \in DOMAIN dfs \cap Goal : dfs[m] = lasttrue
    BY <1>0 DEF PredicateKnown
  <2>5. CASE Ahead \in Goal
    <3>1. lasttrue' = currentDFSNumber + 1
      BY <2>1, <2>3, <2>5
    <3>2. lasttrue' \in 0 .. currentDFSNumber'
      BY <1>1, <1>5, <3>1
    <3>3. \A m \in DOMAIN dfs' \cap Goal : dfs'[m] <= lasttrue'
      BY <1>1, <1>3, <1>5, <3>1
    <3>4. Ahead \in DOMAIN dfs' \cap Goal /\ dfs'[Ahead] = lasttrue'
      BY <1>1, <2>5, <3>1
    <3> QED BY <3>2, <3>3, <3>4 DEF PredicateKnown
  <2>6. CASE Ahead \notin Goal
    <3>1. lasttrue' = lasttrue
      BY <2>1, <2>3, <2>6
    <3>2. lasttrue' \in 0 .. currentDFSNumber'
      BY <1>1, <1>5, <2>4, <3>1
    <3>3. \A m \in DOMAIN dfs' \cap Goal : m \in DOMAIN dfs \cap Goal /\ dfs'[m] = dfs[m]
      BY <1>1, <2>6
    <3>4. lasttrue' > 0 => \E m \in DOMAIN dfs' \cap Goal : dfs'[m] = lasttrue'
      BY <1>1, <2>4, <3>1
    <3> QED BY <2>4, <3>1, <3>2, <3>3, <3>4 DEF PredicateKnown
  <2> QED BY <2>5, <2>6
<1>19. RootsKnown' /\ RootsPassed' = RootsPassed
  <2>0. /\ highest_lowlink \in 0 .. currentDFSNumber
        /\ highest_lowlink > 0 => \E m \in RootsPassed : dfs[m] = highest_lowlink
    BY <1>0 DEF RootsKnown
  <2>1. ~(dfs'[Ahead] <= highest_lowlink)
    BY <1>1, <1>5, <2>0
  <2>2. RootsPassed' = RootsPassed
    BY <1>1, <2>1 DEF RootsPassed
  <2>3. RootsPassed \subseteq DOMAIN dfs
    BY DEF RootsPassed
  <2>4. highest_lowlink' \in 0 .. currentDFSNumber'
    BY <1>1, <1>5, <2>0
  <2> QED BY <1>1, <2>0, <2>2, <2>3, <2>4 DEF RootsKnown
<1>20. WayBack'
  <2>1. ASSUME NEW m \in DOMAIN dfs'
        PROVE  \/ m \in SatEF(RootsPassed)
               \/ \E i \in Here' : dfs'[On(i)'] <= dfs'[m] /\ m \in SatEF({On(i)'})
    <3>1. CASE m \in DOMAIN dfs
      <4>1. CASE m \in SatEF(RootsPassed)
        BY <4>1
      <4>2. CASE \E i \in Here : dfs[On(i)] <= dfs[m] /\ m \in SatEF({On(i)})
        <5>1. PICK i \in Here : dfs[On(i)] <= dfs[m] /\ m \in SatEF({On(i)})
          BY <4>2
        <5>2. i \in Here' /\ dfs'[On(i)'] <= dfs'[m] /\ m \in SatEF({On(i)'})
          BY <1>1, <1>2, <1>3, <3>1, <5>1
        <5> QED BY <5>2
      <4> QED BY <1>0, <3>1, <4>1, <4>2 DEF WayBack
    <3>2. CASE m = Ahead
      <4>1. dfs'[On(k)'] <= dfs'[m] /\ m \in SatEF({On(k)'})
        BY <1>1, <1>5, <1>7, <1>11, <3>2
      <4> QED BY <1>6, <4>1
    <3> QED BY <1>1, <3>1, <3>2
  <2>2. SatEF(RootsPassed') = SatEF(RootsPassed)
    BY <1>19
  <2> QED BY <2>1, <2>2 DEF WayBack
<1> QED BY <1>8, <1>9, <1>10, <1>12, <1>17, <1>18, <1>19, <1>20 DEF Known
-----------------------------------------------------------------------------
(* What the step back changes.                                             *)
LEMMA BacktrackView ==
  ASSUME NumbersKnown, PathKnown, LowlinksTyped, Backtrack, NEW k, k = Top - 1
  PROVE  /\ UNCHANGED <<dfs, currentDFSNumber, lasttrue>> /\ entry = 0
         /\ k \in Here /\ Top = k + 1 /\ Top' = k /\ Here' = Here \ {Top} /\ Here' = 1 .. k
         /\ dfsstack' \in Seq(StackEntry) /\ dfsstack' # <<>>
         /\ ns' = [Current |-> On(k), Enabled |-> Enabled[On(k)]]
         /\ \A i \in Here' :
               /\ On(i)' = On(i) /\ List(i)' = List(i) /\ Left(i)' = Left(i)
               /\ dfsstack'[i].lowlink = IF i = k
                                         THEN Lower(dfsstack[Top].lowlink, dfsstack[k].lowlink)
                                         ELSE dfsstack[i].lowlink
<1>1. /\ Top \in Nat /\ Here = 1 .. Top /\ Top \in Here
      /\ \A i \in Here : dfsstack[i] \in StackEntry
      /\ dfsstack \in Seq(StackEntry) /\ Top = Len(dfsstack) /\ Last(dfsstack) = dfsstack[Top]
  BY StackFacts DEF PathKnown, Top
<1>2. /\ entry = 0 /\ Top > 1 /\ UNCHANGED <<dfs, currentDFSNumber, lasttrue>>
      /\ dfsstack' = Lowered(ButLast(dfsstack), dfsstack[Top].lowlink)
      /\ firelist' = dfsstack[Top].fl /\ entry' = dfsstack[Top].flIndex
      /\ ns' = Undone(ns, dfsstack[Top].fl[dfsstack[Top].flIndex + 1])
  BY <1>1 DEF Backtrack, Top
<1>3. k \in Nat /\ k > 0 /\ k \in Here /\ Top = k + 1 /\ k # Top /\ Here \ {Top} = 1 .. k
  BY <1>1, <1>2
<1>4. /\ ButLast(dfsstack) \in Seq(StackEntry) /\ Len(ButLast(dfsstack)) = k
      /\ \A i \in 1 .. k : ButLast(dfsstack)[i] = dfsstack[i]
  BY <1>1, <1>3 DEF ButLast
<1>5. PICK e : e = [dfsstack[k] EXCEPT !.lowlink = Lower(dfsstack[Top].lowlink,
                                                        dfsstack[k].lowlink)]
  OBVIOUS
<1>6. dfsstack[k] \in StackEntry /\ dfsstack[Top] \in StackEntry
  BY <1>1, <1>3
<1>7. /\ e \in StackEntry /\ e.lowlink = Lower(dfsstack[Top].lowlink, dfsstack[k].lowlink)
      /\ e.payload = dfsstack[k].payload /\ e.fl = dfsstack[k].fl
      /\ e.flIndex = dfsstack[k].flIndex
  BY <1>5, <1>6 DEF StackEntry, Lower
<1>8. dfsstack' = [ButLast(dfsstack) EXCEPT ![k] = e]
  BY <1>2, <1>3, <1>4, <1>5 DEF Lowered
<1>9. /\ dfsstack' \in Seq(StackEntry) /\ Len(dfsstack') = k
      /\ \A i \in 1 .. k : dfsstack'[i] = IF i = k THEN e ELSE dfsstack[i]
  BY <1>3, <1>4, <1>7, <1>8
<1>10. Top' = k /\ Here' = Here \ {Top} /\ Here' = 1 .. k /\ dfsstack' # <<>>
  BY <1>3, <1>9 DEF Top, Here
<1>11. ASSUME NEW i \in 1 .. k
       PROVE  On(i)' = On(i) /\ List(i)' = List(i) /\ Left(i)' = Left(i)
  <2>1. On(i)' = On(i)
    BY <1>7, <1>9 DEF On
  <2>2. CASE i = k
    <3>1. List(i)' = firelist' /\ Left(i)' = entry'
      BY <1>10, <2>2 DEF List, Left
    <3>2. List(i) = dfsstack[Top].fl /\ Left(i) = dfsstack[Top].flIndex
      BY <1>3, <2>2 DEF List, Left
    <3> QED BY <1>2, <2>1, <3>1, <3>2
  <2>3. CASE i # k
    <3>1. i + 1 \in 1 .. k /\ i # Top
      BY <1>3, <2>3
    <3>2. /\ dfsstack'[i + 1].fl = dfsstack[i + 1].fl
          /\ dfsstack'[i + 1].flIndex = dfsstack[i + 1].flIndex
      BY <1>7, <1>9, <3>1
    <3>3. List(i)' = dfsstack'[i + 1].fl /\ Left(i)' = dfsstack'[i + 1].flIndex
      BY <1>10, <2>3 DEF List, Left
    <3>4. List(i) = dfsstack[i + 1].fl /\ Left(i) = dfsstack[i + 1].flIndex
      BY <3>1 DEF List, Left
    <3> QED BY <2>1, <3>2, <3>3, <3>4
  <2> QED BY <2>2, <2>3
<1>12. ns' = [Current |-> On(k), Enabled |-> Enabled[On(k)]]
  <2>1. List(k) = dfsstack[Top].fl /\ Left(k) = dfsstack[Top].flIndex
    BY <1>3 DEF List, Left
  <2>2. PICK t : t = List(k)[Left(k) + 1]
    OBVIOUS
  <2>3. Left(k) + 1 \in DOMAIN List(k) /\ On(Top) = Fire(On(k), t)
    BY <1>3, <2>2 DEF PathKnown
  <2>4. On(k) \in Marking /\ List(k) \in Firelists[On(k)]
    BY <1>3, StackFacts
  <2>5. t \in Enabled[On(k)]
    BY <2>2, <2>3, <2>4, GraphFacts
  <2>6. Backfire(On(Top), t) = On(k)
    BY <2>3, <2>4, <2>5, GraphFacts
  <2>7. ns = [Current |-> On(Top), Enabled |-> Enabled[On(Top)]]
    BY DEF PathKnown
  <2>8. ns' = Undone(ns, t)
    BY <1>2, <2>1, <2>2
  <2> QED BY <2>6, <2>7, <2>8 DEF Undone, Backfired, Updated
<1>13. ASSUME NEW i \in 1 .. k
       PROVE  dfsstack'[i].lowlink = IF i = k
                                     THEN Lower(dfsstack[Top].lowlink, dfsstack[k].lowlink)
                                     ELSE dfsstack[i].lowlink
  BY <1>7, <1>9
<1> QED BY <1>2, <1>3, <1>9, <1>10, <1>11, <1>12, <1>13

(* A terminal component that does not decide is harmless.                  *)
LEMMA TopHarmless ==
  ASSUME FullSearch, Known, entry = 0, TerminalRoot, ~(TrueInside = Possible)
  PROVE  On(Top) \in Harmless
<1>0. /\ NumbersKnown /\ PathKnown /\ LowlinksTyped /\ AboveReached
      /\ EdgesKnown /\ PredicateKnown /\ RootsKnown
  BY DEF Known
<1>1. /\ dfsstack[Top].lowlink = dfs[On(Top)] /\ dfs[On(Top)] \in Nat
      /\ highest_lowlink < dfs[On(Top)]
      /\ TrueInside <=> lasttrue >= dfs[On(Top)]
  BY <1>0, StackFacts DEF TerminalRoot, TrueInside, On
<1>2. On(Top) \in Marking /\ On(Top) \in DOMAIN dfs /\ Top \in Here
  BY <1>0, StackFacts
<1>3. highest_lowlink \in Nat /\ lasttrue \in Nat
  BY <1>0 DEF RootsKnown, PredicateKnown, NumbersKnown
<1>4. CASE ~Possible
  <2>1. lasttrue >= dfs[On(Top)] /\ lasttrue > 0
    BY <1>1, <1>3, <1>4 DEF FullSearch, TrueInside
  <2>2. PICK m \in DOMAIN dfs \cap Goal : dfs[m] = lasttrue
    BY <1>0, <2>1 DEF PredicateKnown
  <2>3. On(Top) \in SatEF({m})
    BY <1>0, <1>1, <1>2, <1>3, <2>1, <2>2 DEF AboveReached
  <2>4. m \in SatEF(Goal)
    BY <2>2, GraphFacts, ReachSet DEF FullSearch
  <2>5. On(Top) \in SatEF(Goal)
    BY <2>3, <2>4, GraphFacts, ReachMarking DEF FullSearch
  <2> QED BY <1>4, <2>5 DEF Harmless
<1>5. CASE Possible
  <2>1. ~(lasttrue >= dfs[On(Top)])
    BY <1>1, <1>5 DEF FullSearch, TrueInside
  <2>2. PICK N : N = Section(Top)
    OBVIOUS
  <2>3. /\ N \in SUBSET Marking /\ On(Top) \in N
        /\ \A m \in N : \A t \in Enabled[m] : Fire(m, t) \in N
    BY <1>0, <1>1, <2>2, TopClosed
  <2>4. ASSUME NEW m \in N \cap Goal PROVE FALSE
    <3>1. m \in DOMAIN dfs /\ dfs[On(Top)] <= dfs[m] /\ dfs[m] \in Nat
      BY <1>0, <2>2, <2>4, Sections, StackFacts
    <3>2. dfs[m] <= lasttrue
      BY <1>0, <2>4, <3>1 DEF PredicateKnown
    <3> QED BY <1>1, <1>3, <2>1, <3>1, <3>2
  <2>5. Goal \in SUBSET (Marking \ N)
    BY <2>4, GraphFacts
  <2>6. SatEF(Goal) \cap N = {}
    BY <2>3, <2>5, ReachClosed DEF FullSearch
  <2>7. On(Top) \in Marking \ SatEF(Goal)
    BY <1>2, <2>3, <2>6
  <2>8. (Marking \ SatEF(Goal)) \subseteq SatEF(Marking \ SatEF(Goal))
    BY ReachSet DEF FullSearch
  <2> QED BY <1>5, <2>7, <2>8 DEF Harmless
<1> QED BY <1>4, <1>5

(* The entry on top that is no terminal root leads to a marking passed, or *)
(* to an entry below.                                                      *)
LEMMA TopBack ==
  ASSUME FullSearch, Known, ~TerminalRoot
  PROVE  \/ On(Top) \in SatEF(RootsPassed)
         \/ \E i \in Here \ {Top} : dfs[On(i)] <= dfs[On(Top)] /\ On(Top) \in SatEF({On(i)})
<1>0. /\ NumbersKnown /\ PathKnown /\ LowlinksTyped /\ AboveReached
      /\ RootsKnown /\ WayBack
  BY DEF Known
<1>1. /\ Top \in Here /\ On(Top) \in DOMAIN dfs /\ dfs[On(Top)] \in Nat
      /\ Last(dfsstack) = dfsstack[Top] /\ dfsstack[Top].lowlink \in 1 .. dfs[On(Top)]
      /\ \A i \in Here : On(i) \in Marking /\ On(i) \in DOMAIN dfs /\ dfs[On(i)] \in Nat
  BY <1>0, StackFacts DEF LowlinksTyped
<1>2. RootsPassed \in SUBSET Marking /\ RootsPassed \subseteq SatEF(RootsPassed)
  <2>1. RootsPassed \in SUBSET Marking
    BY <1>0 DEF RootsPassed, NumbersKnown
  <2> QED BY <2>1, ReachSet DEF FullSearch
<1>3. highest_lowlink \in Nat
  BY <1>0 DEF RootsKnown, NumbersKnown
<1>4. dfsstack[Top].lowlink < dfs[On(Top)] \/ dfs[On(Top)] <= highest_lowlink
  <2>1. TerminalRoot <=> /\ dfs[On(Top)] = dfsstack[Top].lowlink
                         /\ highest_lowlink < dfsstack[Top].lowlink
    BY <1>1 DEF TerminalRoot, On
  <2> QED BY <1>1, <1>3, <2>1
<1>5. CASE dfs[On(Top)] <= highest_lowlink
  <2>1. highest_lowlink > 0
    BY <1>1, <1>3, <1>5
  <2>2. PICK x \in RootsPassed : dfs[x] = highest_lowlink
    BY <1>0, <2>1 DEF RootsKnown
  <2>3. x \in DOMAIN dfs /\ x \in SatEF(RootsPassed)
    BY <1>2, <2>2 DEF RootsPassed
  <2>4. On(Top) \in SatEF({x})
    BY <1>0, <1>1, <1>5, <2>2, <2>3 DEF AboveReached
  <2> QED BY <1>2, <2>3, <2>4, ReachMarking DEF FullSearch
<1>6. CASE dfsstack[Top].lowlink < dfs[On(Top)]
  <2>1. PICK y \in DOMAIN dfs : dfs[y] = dfsstack[Top].lowlink
    BY <1>0, <1>1 DEF LowlinksTyped
  <2>2. On(Top) \in SatEF({y})
    BY <1>0, <1>1, <2>1 DEF AboveReached
  <2>3. CASE y \in SatEF(RootsPassed)
    BY <1>2, <2>2, <2>3, ReachMarking DEF FullSearch
  <2>4. CASE \E i \in Here : dfs[On(i)] <= dfs[y] /\ y \in SatEF({On(i)})
    <3>1. PICK i \in Here : dfs[On(i)] <= dfs[y] /\ y \in SatEF({On(i)})
      BY <2>4
    <3>2. dfs[On(i)] < dfs[On(Top)]
      BY <1>1, <1>6, <2>1, <3>1
    <3>3. i \in Here \ {Top} /\ dfs[On(i)] <= dfs[On(Top)]
      BY <1>1, <3>1, <3>2
    <3>4. On(Top) \in SatEF({On(i)})
      BY <1>1, <2>2, <3>1, ReachMarking DEF FullSearch
    <3> QED BY <3>3, <3>4
  <2> QED BY <1>0, <2>1, <2>3, <2>4 DEF WayBack
<1> QED BY <1>4, <1>5, <1>6

(* It keeps what the search knows: the section of the entry popped falls   *)
(* to the one below, and so does its lowlink; the way back from a terminal *)
(* root that is popped ends in that root, as a marking passed.             *)
LEMMA BacktrackStep ==
  ASSUME FullSearch, Known, Backtrack
  PROVE  Known'
<1>k. PICK k : k = Top - 1
  OBVIOUS
<1>0. /\ NumbersKnown /\ PathKnown /\ LowlinksTyped /\ AboveReached
      /\ EdgesKnown /\ PredicateKnown /\ RootsKnown /\ WayBack
  BY DEF Known
<1>1. /\ UNCHANGED <<dfs, currentDFSNumber, lasttrue>> /\ entry = 0
      /\ k \in Here /\ Top = k + 1 /\ Top' = k /\ Here' = Here \ {Top} /\ Here' = 1 .. k
      /\ dfsstack' \in Seq(StackEntry) /\ dfsstack' # <<>>
      /\ ns' = [Current |-> On(k), Enabled |-> Enabled[On(k)]]
  BY <1>k, <1>0, BacktrackView
<1>2. \A i \in Here' :
         /\ On(i)' = On(i) /\ List(i)' = List(i) /\ Left(i)' = Left(i)
         /\ dfsstack'[i].lowlink = IF i = k
                                   THEN Lower(dfsstack[Top].lowlink, dfsstack[k].lowlink)
                                   ELSE dfsstack[i].lowlink
  BY <1>k, <1>0, BacktrackView
<1>3. /\ Top \in Nat /\ Top > 0 /\ Here = 1 .. Top /\ Top \in Here /\ 1 \in Here
      /\ \A i \in Here : /\ On(i) \in DOMAIN dfs /\ dfs[On(i)] \in Nat
                         /\ On(i) \in Marking
                         /\ dfs[On(i)] <= dfs[On(Top)]
      /\ \A m \in DOMAIN dfs : /\ m \in Marking /\ dfs[m] \in Nat /\ dfs[m] > 0
                               /\ dfs[m] \in 1 .. currentDFSNumber
  BY <1>0, StackFacts
<1>4. /\ k \in Nat /\ k \in Here' /\ 1 \in Here' /\ k # Top
      /\ \A i \in Here' : i \in Here /\ i # Top /\ i <= k
      /\ dfs[On(k)] < dfs[On(Top)]
  <2>1. k \in Nat /\ k \in Here' /\ 1 \in Here' /\ k # Top /\ k < Top
    BY <1>1, <1>3
  <2>2. \A i \in Here' : i \in Here /\ i # Top /\ i <= k
    BY <1>1, <1>3
  <2>3. dfs[On(k)] < dfs[On(Top)]
    BY <1>0, <1>1, <1>3, <2>1 DEF PathKnown
  <2> QED BY <2>1, <2>2, <2>3
<1>5. \A i \in Here : /\ dfsstack[i].lowlink \in 1 .. dfs[On(i)] /\ dfsstack[i].lowlink \in Nat
                      /\ \E m \in DOMAIN dfs : dfs[m] = dfsstack[i].lowlink
  BY <1>0, <1>3 DEF LowlinksTyped
<1>6. /\ dfsstack'[k].lowlink <= dfsstack[k].lowlink
      /\ dfsstack'[k].lowlink <= dfsstack[Top].lowlink
      /\ dfsstack'[k].lowlink = dfsstack[k].lowlink \/ dfsstack'[k].lowlink = dfsstack[Top].lowlink
      /\ dfsstack'[k].lowlink \in 1 .. dfs[On(k)]
  <2>1. dfsstack'[k].lowlink = Lower(dfsstack[Top].lowlink, dfsstack[k].lowlink)
    BY <1>2, <1>4
  <2>2. dfsstack[Top].lowlink \in Nat /\ dfsstack[k].lowlink \in Nat
    BY <1>1, <1>3, <1>5
  <2>3. dfsstack[k].lowlink \in 1 .. dfs[On(k)] /\ dfsstack[Top].lowlink > 0 /\ dfs[On(k)] \in Nat
    BY <1>1, <1>3, <1>5
  <2> QED BY <2>1, <2>2, <2>3 DEF Lower
<1>7. NumbersKnown'
  BY <1>0, <1>1 DEF NumbersKnown
<1>8. PathKnown'
  <2>1. On(1)' = Initial
    BY <1>0, <1>2, <1>4 DEF PathKnown
  <2>2. On(Top)' = On(k)
    <3>1. dfsstack'[k].payload = dfsstack[k].payload
      BY <1>2, <1>4 DEF On
    <3> QED BY <1>1, <3>1 DEF On
  <2>3. ns' = [Current |-> On(Top)', Enabled |-> Enabled[On(Top)']]
    BY <1>1, <2>2
  <2>4. ASSUME NEW i \in Here'
        PROVE  /\ On(i)' \in DOMAIN dfs' /\ List(i)' \in Firelists[On(i)']
               /\ Left(i)' \in 0 .. Len(List(i)')
    <3>1. /\ On(i) \in DOMAIN dfs /\ List(i) \in Firelists[On(i)]
          /\ Left(i) \in 0 .. Len(List(i))
      BY <1>0, <1>4 DEF PathKnown
    <3> QED BY <1>1, <1>2, <3>1
  <2>5. ASSUME NEW i \in Here' \ {Top'}
        PROVE  /\ Left(i)' + 1 \in DOMAIN List(i)'
               /\ On(i + 1)' = Fire(On(i)', List(i)'[Left(i)' + 1])
    <3>1. i \in Here /\ i # Top /\ i + 1 \in Here'
      BY <1>1, <1>4
    <3>2. /\ Left(i) + 1 \in DOMAIN List(i)
          /\ On(i + 1) = Fire(On(i), List(i)[Left(i) + 1])
      BY <1>0, <3>1 DEF PathKnown
    <3>3. On(i + 1)' = On(i + 1)
      BY <1>2, <3>1
    <3> QED BY <1>2, <3>2, <3>3
  <2>6. ASSUME NEW i \in Here', NEW j \in Here', i < j PROVE dfs'[On(i)'] < dfs'[On(j)']
    <3>1. dfs[On(i)] < dfs[On(j)]
      BY <1>0, <1>4, <2>6 DEF PathKnown
    <3> QED BY <1>1, <1>2, <3>1
  <2> QED BY <1>1, <2>1, <2>3, <2>4, <2>5, <2>6 DEF PathKnown
<1>9. LowlinksTyped'
  <2>1. ASSUME NEW i \in Here'
        PROVE  /\ dfsstack'[i].lowlink \in 1 .. dfs'[On(i)']
               /\ \E m \in DOMAIN dfs' : dfs'[m] = dfsstack'[i].lowlink
    <3>1. CASE i = k
      BY <1>1, <1>2, <1>3, <1>5, <1>6, <3>1
    <3>2. CASE i # k
      BY <1>1, <1>2, <1>4, <1>5, <3>2
    <3> QED BY <3>1, <3>2
  <2> QED BY <2>1 DEF LowlinksTyped
<1>10. AboveReached'
  <2>1. ASSUME NEW i \in Here', NEW m \in DOMAIN dfs,
               dfs[On(i)] <= dfs[m] \/ dfs[m] = dfsstack'[i].lowlink
        PROVE  On(i) \in SatEF({m})
    <3>1. CASE dfs[On(i)] <= dfs[m] \/ dfs[m] = dfsstack[i].lowlink
      BY <1>0, <1>4, <3>1 DEF AboveReached
    <3>2. CASE i = k /\ dfs[m] = dfsstack[Top].lowlink
      <4>1. On(Top) \in SatEF({m})
        BY <1>0, <1>3, <3>2 DEF AboveReached
      <4>2. On(k) \in SatEF({On(Top)})
        BY <1>0, <1>1, <1>3 DEF AboveReached
      <4> QED BY <1>3, <3>2, <4>1, <4>2, ReachMarking DEF FullSearch
    <3> QED BY <1>2, <1>6, <2>1, <3>1, <3>2
  <2>2. \A i \in Here' : On(i)' = On(i)
    BY <1>2
  <2> QED BY <1>1, <2>1, <2>2 DEF AboveReached
<1>11. ASSUME NEW i \in Here', NEW m \in Section(i)'
       PROVE  m \in DOMAIN dfs /\ (m \in Section(i) \/ (i = k /\ m \in Section(Top)))
  <2>1. m \in DOMAIN dfs /\ dfs[On(i)] <= dfs[m]
    BY <1>1, <1>2 DEF Section
  <2>2. CASE i = k
    <3>1. m \in Section(Top) \/ dfs[m] < dfs[On(Top)]
      BY <1>0, <1>3, <2>1, Sections
    <3>2. dfs[m] < dfs[On(Top)] => m \in Section(k)
      BY <1>1, <2>1, <2>2 DEF Section
    <3> QED BY <2>1, <2>2, <3>1, <3>2
  <2>3. CASE i # k
    <3>1. i + 1 \in Here' /\ i < Top' /\ i < Top
      BY <1>1, <1>3, <1>4, <2>3
    <3>2. dfs'[m] < dfs'[On(i + 1)'] /\ On(i + 1)' = On(i + 1)
      BY <1>2, <3>1 DEF Section
    <3>3. m \in Section(i)
      BY <1>1, <2>1, <3>1, <3>2 DEF Section
    <3> QED BY <2>1, <3>3
  <2> QED BY <2>2, <2>3
<1>12. ASSUME NEW m \in DOMAIN dfs, NEW t \in Taken(m)' PROVE t \in Taken(m)
  <2>1. CASE \A i \in Here' : On(i) # m
    <3>1. t \in Enabled[m]
      BY DEF Taken
    <3>2. CASE m = On(Top)
      <4>1. m \in Section(Top)
        BY <1>0, <1>3, <3>2, Sections
      <4> QED BY <1>0, <1>1, <3>1, <4>1, AllTaken
    <3>3. CASE m # On(Top)
      BY <1>0, <1>1, <2>1, <3>1, <3>3, TakenFacts
    <3> QED BY <3>2, <3>3
  <2>2. CASE \E i \in Here' : On(i) = m
    <3>1. PICK i \in Here' : On(i) = m
      BY <2>2
    <3>2. Under(m)' = {i} /\ Under(m)' # {}
      <4>1. \A h \in Here' : On(h)' = m <=> h = i
        BY <1>0, <1>2, <1>4, <3>1, StackFacts
      <4> QED BY <4>1 DEF Under
    <3>3. PICK j \in DOMAIN List(i)' : j > Left(i)' /\ t = List(i)'[j] /\ t \in Enabled[m]
      BY <3>2 DEF Taken
    <3>4. j \in DOMAIN List(i) /\ j > Left(i) /\ t = List(i)[j]
      <4>1. List(i)' = List(i) /\ Left(i)' = Left(i)
        BY <1>2
      <4>2. j \in DOMAIN List(i) /\ t = List(i)[j]
        BY <3>3, <4>1
      <4>3. j > Left(i)
        BY <3>3, <4>1, Zenon
      <4> QED BY <4>2, <4>3
    <3>5. Taken(On(i)) = {u \in Enabled[On(i)] :
                            \E h \in DOMAIN List(i) : h > Left(i) /\ u = List(i)[h]}
      BY <1>0, <1>4, TakenFacts
    <3> QED BY <3>1, <3>3, <3>4, <3>5
  <2> QED BY <2>1, <2>2
<1>13. EdgesKnown'
  <2>1. ASSUME NEW m \in DOMAIN dfs, NEW t \in Taken(m)'
        PROVE  /\ Fire(m, t) \in DOMAIN dfs
               /\ \A i \in Here' : m \in Section(i)' => dfsstack'[i].lowlink <= dfs[Fire(m, t)]
    <3>1. /\ Fire(m, t) \in DOMAIN dfs /\ dfs[Fire(m, t)] \in Nat
          /\ \A i \in Here : m \in Section(i) => dfsstack[i].lowlink <= dfs[Fire(m, t)]
      BY <1>0, <1>3, <1>12 DEF EdgesKnown
    <3>2. ASSUME NEW i \in Here', m \in Section(i)'
          PROVE  dfsstack'[i].lowlink <= dfs[Fire(m, t)]
      <4>0. dfsstack[i].lowlink \in Nat /\ dfsstack[Top].lowlink \in Nat /\ dfsstack[k].lowlink \in Nat
            /\ dfsstack'[k].lowlink \in Nat
        BY <1>1, <1>3, <1>4, <1>5, <1>6
      <4>1. CASE m \in Section(i)
        <5>1. dfsstack[i].lowlink <= dfs[Fire(m, t)]
          BY <1>4, <3>1, <4>1
        <5>2. dfsstack'[i].lowlink <= dfsstack[i].lowlink
          BY <1>2, <1>6, <4>0
        <5>3. dfsstack'[i].lowlink \in Nat
          BY <1>2, <4>0
        <5> QED BY <3>1, <4>0, <5>1, <5>2, <5>3
      <4>2. CASE i = k /\ m \in Section(Top)
        <5>1. dfsstack[Top].lowlink <= dfs[Fire(m, t)]
          BY <1>3, <3>1, <4>2
        <5> QED BY <1>6, <3>1, <4>0, <4>2, <5>1
      <4> QED BY <1>11, <3>2, <4>1, <4>2
    <3> QED BY <3>1, <3>2
  <2> QED BY <1>1, <2>1 DEF EdgesKnown
<1>14. PredicateKnown'
  BY <1>0, <1>1 DEF PredicateKnown
<1>15. /\ highest_lowlink \in Nat
       /\ highest_lowlink' = IF TerminalRoot THEN dfs[On(Top)] ELSE highest_lowlink
       /\ TerminalRoot => highest_lowlink < dfs[On(Top)]
  <2>1. highest_lowlink \in Nat
    BY <1>0 DEF RootsKnown, NumbersKnown
  <2>2. Last(dfsstack) = dfsstack[Top] /\ dfsstack[Top].lowlink \in 1 .. dfs[On(Top)]
        /\ dfs[On(Top)] \in Nat
    BY <1>0, <1>3, <1>5, StackFacts
  <2>3. highest_lowlink' = IF TerminalRoot THEN Last(dfsstack).lowlink ELSE highest_lowlink
    BY DEF Backtrack, RootsCounted
  <2>4. TerminalRoot <=> /\ dfs[On(Top)] = dfsstack[Top].lowlink
                         /\ highest_lowlink < dfsstack[Top].lowlink
    BY <2>2 DEF TerminalRoot, On
  <2> QED BY <2>1, <2>2, <2>3, <2>4
<1>16. TerminalRoot => On(Top) \in Harmless /\ On(Top) \in RootsPassed'
  <2>1. ASSUME TerminalRoot PROVE On(Top) \in Harmless
    <3>1. ~(TrueInside = Possible)
      BY <2>1 DEF Backtrack
    <3> QED BY <1>1, <2>1, <3>1, TopHarmless
  <2> QED BY <1>1, <1>3, <1>15, <2>1 DEF RootsPassed
<1>17. RootsPassed \subseteq RootsPassed'
  <2>1. highest_lowlink <= highest_lowlink' /\ highest_lowlink' \in Nat
    BY <1>3, <1>15
  <2>2. \A m \in RootsPassed : m \in DOMAIN dfs \cap Harmless /\ dfs[m] <= highest_lowlink
    BY DEF RootsPassed
  <2>3. \A m \in RootsPassed : dfs[m] <= highest_lowlink'
    BY <1>3, <1>15, <2>1, <2>2
  <2> QED BY <1>1, <2>2, <2>3 DEF RootsPassed
<1>18. RootsKnown'
  <2>0. /\ highest_lowlink \in 0 .. currentDFSNumber
        /\ highest_lowlink > 0 => \E m \in RootsPassed : dfs[m] = highest_lowlink
    BY <1>0 DEF RootsKnown
  <2>1. CASE TerminalRoot
    <3>1. highest_lowlink' = dfs[On(Top)] /\ dfs[On(Top)] \in 1 .. currentDFSNumber
      BY <1>3, <1>15, <2>1
    <3>2. currentDFSNumber' \in Nat /\ currentDFSNumber' = currentDFSNumber
      BY <1>0, <1>1 DEF NumbersKnown
    <3>3. highest_lowlink' \in 0 .. currentDFSNumber'
      BY <3>1, <3>2
    <3>4. On(Top) \in RootsPassed' /\ dfs'[On(Top)] = highest_lowlink'
      BY <1>1, <1>16, <2>1, <3>1
    <3> QED BY <3>3, <3>4 DEF RootsKnown
  <2>2. CASE ~TerminalRoot
    BY <1>1, <1>15, <1>17, <2>0, <2>2 DEF RootsKnown
  <2> QED BY <2>1, <2>2
<1>19. PICK R : R = RootsPassed'
  OBVIOUS
<1>20. /\ R \in SUBSET Marking /\ RootsPassed \in SUBSET Marking
       /\ RootsPassed \subseteq SatEF(R) /\ SatEF(RootsPassed) \subseteq SatEF(R)
  <2>1. R \in SUBSET Marking /\ RootsPassed \in SUBSET Marking /\ RootsPassed \subseteq R
    BY <1>1, <1>3, <1>17, <1>19 DEF RootsPassed
  <2>2. RootsPassed \subseteq SatEF(R)
    BY <2>1, ReachSet DEF FullSearch
  <2> QED BY <2>1, <2>2, ReachOn DEF FullSearch
<1>21. \/ On(Top) \in SatEF(R)
       \/ \E i \in Here' : dfs[On(i)] <= dfs[On(Top)] /\ On(Top) \in SatEF({On(i)})
  <2>1. CASE TerminalRoot
    <3>1. On(Top) \in R
      BY <1>16, <1>19, <2>1
    <3> QED BY <1>20, <3>1, ReachSet DEF FullSearch
  <2>2. CASE ~TerminalRoot
    <3>1. On(Top) \in SatEF(RootsPassed) => On(Top) \in SatEF(R)
      BY <1>20
    <3> QED BY <1>1, <2>2, <3>1, TopBack
  <2> QED BY <2>1, <2>2
<1>22. WayBack'
  <2>1. ASSUME NEW m \in DOMAIN dfs
        PROVE  \/ m \in SatEF(R)
               \/ \E i \in Here' : dfs[On(i)] <= dfs[m] /\ m \in SatEF({On(i)})
    <3>1. CASE m \in SatEF(RootsPassed)
      BY <1>20, <3>1
    <3>2. CASE \E i \in Here : dfs[On(i)] <= dfs[m] /\ m \in SatEF({On(i)})
      <4>1. PICK i \in Here : dfs[On(i)] <= dfs[m] /\ m \in SatEF({On(i)})
        BY <3>2
      <4>2. CASE i # Top
        BY <1>1, <4>1, <4>2
      <4>3. CASE i = Top
        <5>1. dfs[On(Top)] <= dfs[m] /\ m \in SatEF({On(Top)})
          BY <4>1, <4>3
        <5>2. CASE On(Top) \in SatEF(R)
          BY <1>20, <5>1, <5>2, ReachMarking DEF FullSearch
        <5>3. CASE \E h \in Here' : dfs[On(h)] <= dfs[On(Top)] /\ On(Top) \in SatEF({On(h)})
          <6>1. PICK h \in Here' : dfs[On(h)] <= dfs[On(Top)] /\ On(Top) \in SatEF({On(h)})
            BY <5>3
          <6>2. m \in SatEF({On(h)})
            BY <1>3, <1>4, <5>1, <6>1, ReachMarking DEF FullSearch
          <6>3. dfs[On(h)] <= dfs[m]
            BY <1>3, <1>4, <5>1, <6>1
          <6> QED BY <6>2, <6>3
        <5> QED BY <1>21, <5>2, <5>3
      <4> QED BY <4>2, <4>3
    <3> QED BY <1>0, <3>1, <3>2 DEF WayBack
  <2>2. \A i \in Here' : On(i)' = On(i)
    BY <1>2
  <2>3. ASSUME NEW m \in DOMAIN dfs'
        PROVE  \/ m \in SatEF(RootsPassed')
               \/ \E i \in Here' : dfs'[On(i)'] <= dfs'[m] /\ m \in SatEF({On(i)'})
    BY <1>1, <1>19, <2>1, <2>2
  <2> QED BY <2>3 DEF WayBack
<1> QED BY <1>7, <1>8, <1>9, <1>10, <1>13, <1>14, <1>18, <1>22 DEF Known
-----------------------------------------------------------------------------
(* A terminal component that decides: it is reached from the initial       *)
(* marking and never left, and the predicate holds somewhere in it, or     *)
(* nowhere.                                                                *)
LEMMA DecideVerdict ==
  ASSUME FullSearch, Known, entry = 0, TerminalRoot, TrueInside = Possible
  PROVE  Possible = (Initial \in IF Possible THEN SatEF(SatAG(SatEF(Goal)))
                                             ELSE SatAG(SatEF(Goal)))
<1>0. /\ NumbersKnown /\ PathKnown /\ LowlinksTyped /\ AboveReached
      /\ EdgesKnown /\ PredicateKnown /\ RootsKnown /\ WayBack
  BY DEF Known
<1>1. /\ dfsstack[Top].lowlink = dfs[On(Top)] /\ dfs[On(Top)] \in Nat
      /\ highest_lowlink < dfs[On(Top)]
      /\ TrueInside <=> lasttrue >= dfs[On(Top)]
  BY <1>0, StackFacts DEF TerminalRoot, TrueInside, On
<1>2. /\ On(Top) \in Marking /\ On(Top) \in DOMAIN dfs /\ Top \in Here /\ 1 \in Here
      /\ \A i \in Here : On(i) \in Marking /\ On(i) \in DOMAIN dfs /\ dfs[On(i)] \in Nat
      /\ \A i \in Here : dfs[On(i)] <= dfs[On(Top)]
      /\ \A m \in DOMAIN dfs : m \in Marking /\ dfs[m] \in Nat
  BY <1>0, StackFacts
<1>3. highest_lowlink \in Nat /\ lasttrue \in Nat
  BY <1>0 DEF RootsKnown, PredicateKnown, NumbersKnown
<1>4. PICK N : N = Section(Top)
  OBVIOUS
<1>5. /\ N \in SUBSET Marking /\ On(Top) \in N
      /\ \A m \in N : \A t \in Enabled[m] : Fire(m, t) \in N
  BY <1>0, <1>1, <1>4, TopClosed
<1>6. N = {m \in DOMAIN dfs : dfs[On(Top)] <= dfs[m]}
  BY <1>0, <1>4, Sections
<1>7. \A S \in SUBSET (Marking \ N) : SatEF(S) \cap N = {}
  BY <1>5, ReachClosed DEF FullSearch
<1>8. Initial \in SatEF({On(Top)})
  <2>1. On(1) = Initial
    BY <1>0 DEF PathKnown
  <2> QED BY <1>0, <1>2, <2>1 DEF AboveReached
<1>9. PICK G \in SUBSET Marking : G = SatEF(Goal)
  BY GraphFacts, ReachSet DEF FullSearch
<1>10. CASE Possible
  <2>1. lasttrue >= dfs[On(Top)] /\ lasttrue > 0
    <3>1. TrueInside
      <4>1. Possible = TRUE
        BY <1>10 DEF FullSearch
      <4> QED BY <4>1
    <3> QED BY <1>1, <1>3, <3>1
  <2>2. PICK g \in DOMAIN dfs \cap Goal : dfs[g] = lasttrue
    BY <1>0, <2>1 DEF PredicateKnown
  <2>3. On(Top) \in SatEF({g})
    BY <1>0, <1>1, <1>2, <1>3, <2>1, <2>2 DEF AboveReached
  <2>4. g \in SatEF(Goal)
    BY <2>2, GraphFacts, ReachSet DEF FullSearch
  <2>5. On(Top) \in SatEF(Goal)
    BY <2>3, <2>4, GraphFacts, ReachMarking DEF FullSearch
  <2>6. ASSUME NEW m \in N PROVE m \in G
    <3>1. m \in DOMAIN dfs /\ m \in Marking /\ dfs[On(Top)] <= dfs[m]
      BY <1>2, <1>6
    <3>2. m \notin SatEF(RootsPassed)
      <4>1. RootsPassed \in SUBSET (Marking \ N)
        BY <1>1, <1>2, <1>3, <1>6 DEF RootsPassed
      <4> QED BY <1>7, <4>1
    <3>3. PICK i \in Here : m \in SatEF({On(i)})
      BY <1>0, <3>1, <3>2 DEF WayBack
    <3>4. On(i) \in N
      <4>1. On(i) \notin N => {On(i)} \in SUBSET (Marking \ N)
        BY <1>2
      <4> QED BY <1>7, <3>3, <4>1
    <3>5. dfs[On(i)] = dfs[On(Top)]
      BY <1>2, <1>6, <3>4
    <3>6. On(i) = On(Top)
      BY <1>0, <1>2, <3>5 DEF NumbersKnown
    <3>7. m \in SatEF({On(Top)})
      BY <3>3, <3>6
    <3> QED BY <1>9, <2>5, <3>7, GraphFacts, ReachMarking DEF FullSearch
  <2>7. SatEF(Marking \ G) \cap N = {}
    <3>1. (Marking \ G) \in SUBSET (Marking \ N)
      BY <2>6
    <3> QED BY <1>7, <3>1
  <2>8. PICK A : A = SatAG(G)
    OBVIOUS
  <2>9. A \in SUBSET Marking /\ On(Top) \in A
    BY <1>5, <2>7, <2>8 DEF SatAG
  <2>10. On(Top) \in SatEF(A)
    BY <2>9, ReachSet DEF FullSearch
  <2>11. Initial \in SatEF(A)
    BY <1>8, <2>9, <2>10, ReachMarking DEF FullSearch
  <2> QED BY <1>9, <1>10, <2>8, <2>11 DEF FullSearch
<1>11. CASE ~Possible
  <2>1. ~(lasttrue >= dfs[On(Top)])
    BY <1>1, <1>11 DEF FullSearch, TrueInside
  <2>2. ASSUME NEW m \in N \cap Goal PROVE FALSE
    <3>1. m \in DOMAIN dfs /\ dfs[On(Top)] <= dfs[m] /\ dfs[m] \in Nat
      BY <1>2, <1>6, <2>2
    <3>2. dfs[m] <= lasttrue
      BY <1>0, <2>2, <3>1 DEF PredicateKnown
    <3> QED BY <1>1, <1>3, <2>1, <3>1, <3>2
  <2>3. Goal \in SUBSET (Marking \ N)
    BY <2>2, GraphFacts
  <2>4. PICK B : B = Marking \ G
    OBVIOUS
  <2>5. B \in SUBSET Marking /\ On(Top) \in B
    BY <1>5, <1>7, <1>9, <2>3, <2>4
  <2>6. On(Top) \in SatEF(B)
    BY <2>5, ReachSet DEF FullSearch
  <2>7. Initial \in SatEF(B)
    BY <1>8, <2>5, <2>6, ReachMarking DEF FullSearch
  <2>8. Initial \notin SatAG(SatEF(Goal))
    BY <1>9, <2>4, <2>7 DEF SatAG
  <2> QED BY <1>11, <2>8 DEF FullSearch
<1> QED BY <1>10, <1>11

(* The search is exhausted: what it has found is closed, and all of it is  *)
(* harmless.                                                               *)
LEMMA ExhaustedVerdict ==
  ASSUME FullSearch, Known, entry = 0, ~(TerminalRoot /\ TrueInside = Possible), Top = 1
  PROVE  (~Possible) = (Initial \in IF Possible THEN SatEF(SatAG(SatEF(Goal)))
                                                ELSE SatAG(SatEF(Goal)))
<1>0. /\ NumbersKnown /\ PathKnown /\ EdgesKnown /\ RootsKnown /\ WayBack
  BY DEF Known
<1>1. /\ Here = {Top} /\ On(Top) = Initial /\ Initial \in DOMAIN dfs
      /\ \A m \in DOMAIN dfs : m \in Marking /\ dfs[m] \in Nat
  BY <1>0, StackFacts DEF PathKnown
<1>2. PICK N : N = DOMAIN dfs
  OBVIOUS
<1>3. ASSUME NEW m \in N, NEW t \in Enabled[m] PROVE Fire(m, t) \in N
  <2>1. CASE m = On(Top)
    <3>1. m \in Section(Top)
      BY <1>0, <1>1, <2>1, Sections
    <3> QED BY <1>0, <1>2, <1>3, <3>1, AllTaken DEF EdgesKnown
  <2>2. CASE m # On(Top)
    BY <1>0, <1>1, <1>2, <1>3, <2>2, TakenFacts DEF EdgesKnown
  <2> QED BY <2>1, <2>2
<1>4. \A S \in SUBSET (Marking \ N) : SatEF(S) \cap N = {}
  BY <1>1, <1>2, <1>3, ReachClosed DEF FullSearch
<1>5. SatEF(RootsPassed) \subseteq Harmless
  <2>1. RootsPassed \in SUBSET Marking /\ RootsPassed \subseteq Harmless
    BY <1>1 DEF RootsPassed
  <2> QED BY <2>1, HarmlessReach DEF FullSearch
<1>6. Initial \in Harmless
  <2>1. CASE TerminalRoot
    BY <1>1, <2>1, TopHarmless
  <2>2. CASE ~TerminalRoot
    BY <1>1, <1>5, <2>2, TopBack
  <2> QED BY <2>1, <2>2
<1>7. N \subseteq Harmless
  <2>1. ASSUME NEW m \in DOMAIN dfs, m \in SatEF({Initial}) PROVE m \in Harmless
    BY <1>6, <2>1, HarmlessReach DEF FullSearch
  <2> QED BY <1>0, <1>1, <1>2, <1>5, <2>1 DEF WayBack
<1>8. PICK G \in SUBSET Marking : G = SatEF(Goal)
  BY GraphFacts, ReachSet DEF FullSearch
<1>9. CASE Possible
  <2>1. PICK A : A = SatAG(G)
    OBVIOUS
  <2>2. A \in SUBSET (Marking \ N)
    BY <1>7, <1>8, <1>9, <2>1 DEF SatAG, Harmless
  <2>3. Initial \notin SatEF(A)
    BY <1>1, <1>2, <1>4, <2>2
  <2> QED BY <1>8, <1>9, <2>1, <2>3 DEF FullSearch
<1>10. CASE ~Possible
  <2>1. (Marking \ G) \in SUBSET (Marking \ N)
    BY <1>7, <1>8, <1>10 DEF Harmless
  <2>2. Initial \notin SatEF(Marking \ G)
    BY <1>1, <1>2, <1>4, <2>1
  <2>3. Initial \in SatAG(SatEF(Goal))
    BY <1>8, <2>2, GraphFacts DEF SatAG
  <2> QED BY <1>10, <2>3 DEF FullSearch
<1> QED BY <1>9, <1>10
-----------------------------------------------------------------------------
(* What the first step sets up.                                            *)
LEMMA StartView ==
  ASSUME Init, Start
  PROVE  /\ DOMAIN dfs' = {Initial} /\ dfs' = [m \in {Initial} |-> 1]
         /\ ns' = InitialNetState /\ highest_lowlink' = 0 /\ currentDFSNumber' = 1
         /\ holds' = Evaluate(InitialNetState) /\ lasttrue' = IF holds' THEN 1 ELSE 0
         /\ firelist' \in Firelists[Initial] /\ entry' = Len(firelist')
         /\ Top' = 1 /\ Here' = {1}
         /\ dfsstack' \in Seq(StackEntry) /\ dfsstack' # <<>>
         /\ On(1)' = Initial /\ List(1)' = firelist' /\ Left(1)' = entry'
         /\ dfsstack'[1].lowlink = 1
<1>1. /\ ns = InitialNetState /\ ns.Current = Initial /\ dfs = <<>> /\ highest_lowlink = 0
  BY DEF Init, InitialNetState
<1>2. /\ dfs' = setDFS(Initial, 1) /\ ns' = InitialNetState /\ highest_lowlink' = 0
      /\ currentDFSNumber' = 1 /\ holds' = Evaluate(InitialNetState)
      /\ lasttrue' = IF holds' THEN 1 ELSE 0
      /\ firelist' \in Firelists[Initial] /\ entry' = Len(firelist')
      /\ dfsstack' = <<[fl |-> firelist', flIndex |-> entry', payload |-> Initial, lowlink |-> 1]>>
  BY <1>1 DEF Start
<1>3. DOMAIN dfs = {}
  BY <1>1
<1>4. dfs' = [m \in {Initial} |-> 1] /\ DOMAIN dfs' = {Initial}
  BY <1>2, <1>3 DEF setDFS
<1>5. firelist' \in Seq(Transition) /\ Initial \in Marking /\ entry' \in Nat
  BY <1>2, GraphFacts
<1>6. PICK e : e = [fl |-> firelist', flIndex |-> entry', payload |-> Initial, lowlink |-> 1]
  OBVIOUS
<1>7. /\ e \in StackEntry /\ e.payload = Initial /\ e.lowlink = 1
      /\ e.fl = firelist' /\ e.flIndex = entry'
  BY <1>5, <1>6 DEF StackEntry
<1>8. dfsstack' = <<e>>
  BY <1>2, <1>6
<1>9. Top' = 1 /\ Here' = {1} /\ dfsstack' \in Seq(StackEntry) /\ dfsstack' # <<>> /\ dfsstack'[1] = e
  BY <1>7, <1>8 DEF Top, Here
<1>10. On(1)' = Initial /\ List(1)' = firelist' /\ Left(1)' = entry'
  BY <1>7, <1>9 DEF On, List, Left
<1> QED BY <1>2, <1>4, <1>7, <1>9, <1>10

(* After it the search knows the initial marking.                          *)
LEMMA StartStep ==
  ASSUME FullSearch, Init, Start
  PROVE  Known'
<1>1. /\ DOMAIN dfs' = {Initial} /\ dfs' = [m \in {Initial} |-> 1] /\ dfs'[Initial] = 1
      /\ ns' = InitialNetState /\ highest_lowlink' = 0 /\ currentDFSNumber' = 1
      /\ holds' = Evaluate(InitialNetState) /\ lasttrue' = IF holds' THEN 1 ELSE 0
      /\ firelist' \in Firelists[Initial] /\ entry' = Len(firelist')
      /\ Top' = 1 /\ Here' = {1}
      /\ dfsstack' \in Seq(StackEntry) /\ dfsstack' # <<>>
      /\ On(1)' = Initial /\ List(1)' = firelist' /\ Left(1)' = entry'
      /\ dfsstack'[1].lowlink = 1
  BY StartView
<1>2. Initial \in Marking /\ firelist' \in Seq(Transition) /\ Len(firelist') \in Nat
  BY <1>1, GraphFacts
<1>3. Initial \in SatEF({Initial})
  BY <1>2, ReachSet DEF FullSearch
<1>4. NumbersKnown'
  BY <1>1, <1>2 DEF NumbersKnown
<1>5. PathKnown'
  <2>1. On(Top)' = Initial
    BY <1>1 DEF On
  <2>2. Left(1)' \in 0 .. Len(List(1)')
    BY <1>1, <1>2
  <2>3. ns' = [Current |-> On(Top)', Enabled |-> Enabled[On(Top)']]
    BY <1>1, <2>1 DEF InitialNetState
  <2>4. \A i \in Here' : i = 1
    BY <1>1
  <2> QED BY <1>1, <2>2, <2>3, <2>4 DEF PathKnown
<1>6. LowlinksTyped'
  BY <1>1 DEF LowlinksTyped
<1>7. AboveReached'
  BY <1>1, <1>3 DEF AboveReached
<1>8. EdgesKnown'
  <2>1. ASSUME NEW t \in Taken(Initial)' PROVE FALSE
    <3>1. Under(Initial)' = {1}
      BY <1>1 DEF Under
    <3>2. PICK j \in DOMAIN List(1)' : j > Left(1)'
      BY <3>1 DEF Taken
    <3> QED BY <1>1, <1>2, <3>2
  <2> QED BY <1>1, <2>1 DEF EdgesKnown
<1>9. PredicateKnown'
  <2>1. holds' = (Initial \in Goal)
    BY <1>1 DEF FullSearch, Fireability, Evaluate, InitialNetState
  <2>2. CASE Initial \in Goal
    <3>1. lasttrue' = 1
      BY <1>1, <2>1, <2>2
    <3> QED BY <1>1, <2>2, <3>1 DEF PredicateKnown
  <2>3. CASE Initial \notin Goal
    <3>1. lasttrue' = 0
      BY <1>1, <2>1, <2>3
    <3> QED BY <1>1, <2>3, <3>1 DEF PredicateKnown
  <2> QED BY <2>2, <2>3
<1>10. RootsKnown'
  BY <1>1 DEF RootsKnown
<1>11. WayBack'
  <2>1. 1 \in Here' /\ dfs'[On(1)'] <= dfs'[Initial] /\ Initial \in SatEF({On(1)'})
    <3>1. dfs'[On(1)'] <= dfs'[Initial]
      BY <1>1
    <3>2. SatEF({On(1)'}) = SatEF({Initial})
      BY <1>1
    <3> QED BY <1>1, <1>3, <3>1, <3>2
  <2> QED BY <1>1, <2>1 DEF WayBack
<1> QED BY <1>4, <1>5, <1>6, <1>7, <1>8, <1>9, <1>10, <1>11 DEF Known
-----------------------------------------------------------------------------
(* The initial state.                                                      *)
LEMMA TSCCInvInit ==
  ASSUME Init
  PROVE  TSCCInv
BY DEF Init, TSCCInv, LivenessVerdictCorrect

(* Every step keeps the inductive invariant.                               *)
LEMMA TSCCInvNext ==
  ASSUME FullSearch, TSCCInv, [Next]_tsccVars
  PROVE  TSCCInv'
<1>0. /\ pc \in {"start", "loop", "returned"} /\ (pc = "start" => Init)
      /\ (pc = "loop" => Known) /\ LivenessVerdictCorrect
  BY DEF TSCCInv, Known
<1>1. ASSUME pc' = "loop", Known' PROVE TSCCInv'
  BY <1>1 DEF TSCCInv, Known, LivenessVerdictCorrect
<1>2. ASSUME pc' = "returned", LivenessVerdictCorrect' PROVE TSCCInv'
  BY <1>2 DEF TSCCInv
<1>3. CASE Start
  <2>1. pc = "start" /\ pc' = "loop"
    BY <1>3 DEF Start
  <2> QED BY <1>0, <1>1, <1>3, <2>1, StartStep
<1>4. CASE FireKnown
  <2>1. pc = "loop" /\ pc' = "loop"
    BY <1>4 DEF FireKnown
  <2> QED BY <1>0, <1>1, <1>4, <2>1, FireKnownStep
<1>5. CASE FireNew
  <2>1. pc = "loop" /\ pc' = "loop"
    BY <1>5 DEF FireNew
  <2> QED BY <1>0, <1>1, <1>5, <2>1, FireNewStep
<1>6. CASE Decide
  <2>1. /\ pc = "loop" /\ pc' = "returned" /\ answer' = Possible
        /\ entry = 0 /\ TerminalRoot /\ TrueInside = Possible
    BY <1>6 DEF Decide
  <2>2. LivenessVerdictCorrect'
    BY <1>0, <2>1, DecideVerdict DEF LivenessVerdictCorrect
  <2> QED BY <1>2, <2>1, <2>2
<1>7. CASE Backtrack
  <2>1. pc = "loop" /\ pc' = "loop"
    BY <1>7 DEF Backtrack
  <2> QED BY <1>0, <1>1, <1>7, <2>1, BacktrackStep
<1>8. CASE Exhausted
  <2>1. /\ pc = "loop" /\ pc' = "returned" /\ answer' = ~Possible
        /\ entry = 0 /\ ~(TerminalRoot /\ TrueInside = Possible) /\ Top = 1
    BY <1>8 DEF Exhausted, Top
  <2>2. LivenessVerdictCorrect'
    BY <1>0, <2>1, ExhaustedVerdict DEF LivenessVerdictCorrect
  <2> QED BY <1>2, <2>1, <2>2
<1>9. CASE UNCHANGED tsccVars
  <2>1. pc = "start" => Init'
    BY <1>0, <1>9 DEF tsccVars, Init
  <2>2. pc = "loop" => Known'
    <3> SUFFICES ASSUME Known PROVE Known'
      BY <1>0
    <3>1. /\ UNCHANGED <<ns, dfs, dfsstack, firelist, entry, currentDFSNumber>>
          /\ UNCHANGED <<highest_lowlink, lasttrue>>
      BY <1>9 DEF tsccVars
    <3>2. Top' = Top /\ Here' = Here /\ \A i : On(i)' = On(i)
      BY <3>1 DEF Top, Here, On
    <3>3. \A i : List(i)' = List(i) /\ Left(i)' = Left(i)
      BY <3>1, <3>2 DEF List, Left
    <3>4. \A m : Taken(m)' = Taken(m)
      BY <3>2, <3>3 DEF Taken, Under
    <3>5. \A i : Section(i)' = Section(i)
      BY <3>1, <3>2 DEF Section
    <3>6. On(Top)' = On(Top)
      BY <3>1, <3>2 DEF On
    <3>7. NumbersKnown' /\ PredicateKnown'
      BY <3>1 DEF Known, NumbersKnown, PredicateKnown
    <3>8. PathKnown'
      BY <3>1, <3>2, <3>3, <3>6 DEF Known, PathKnown
    <3>9. LowlinksTyped' /\ AboveReached'
      BY <3>1, <3>2 DEF Known, LowlinksTyped, AboveReached
    <3>10. EdgesKnown'
      BY <3>1, <3>2, <3>4, <3>5 DEF Known, EdgesKnown
    <3>11. RootsPassed' = RootsPassed
      BY <3>1 DEF RootsPassed
    <3>12. RootsKnown'
      BY <3>1, <3>11 DEF Known, RootsKnown
    <3>13. WayBack'
      BY <3>1, <3>2, <3>11 DEF Known, WayBack
    <3> QED BY <3>7, <3>8, <3>9, <3>10, <3>12, <3>13 DEF Known
  <2>3. LivenessVerdictCorrect'
    BY <1>0, <1>9 DEF tsccVars, LivenessVerdictCorrect
  <2>4. pc' = pc
    BY <1>9 DEF tsccVars
  <2> QED BY <1>0, <2>1, <2>2, <2>3, <2>4 DEF TSCCInv, Known
<1>10. CASE Return
  BY <1>9, <1>10 DEF Return
<1> QED BY <1>3, <1>4, <1>5, <1>6, <1>7, <1>8, <1>9, <1>10 DEF Next

(* TSCCExplorationAGEF and TSCCExplorationEGAGEF answer rightly, on every  *)
(* finite state graph: the predicate is live, or possibly live, just if    *)
(* the search says so (TSCCExplorationAGEF.cc and TSCCExplorationEGAGEF.cc *)
(* 123-166). The comparison of one number with the number of the last root *)
(* found is enough, though the search has no stack of open components.     *)
THEOREM LivenessVerdict ==
  ASSUME FullSearch
  PROVE  Spec => []LivenessVerdictCorrect
<1>1. Init => TSCCInv
  BY TSCCInvInit
<1>2. TSCCInv /\ [Next]_tsccVars => TSCCInv'
  BY TSCCInvNext
<1>3. TSCCInv => LivenessVerdictCorrect
  BY DEF TSCCInv
<1> QED BY <1>1, <1>2, <1>3, PTL DEF Spec
=============================================================================
