----------------------- MODULE StatePredicateProperty -----------------------
(***************************************************************************)
(* StatePredicateProperty (Exploration/StatePredicateProperty.cc): the     *)
(* value of a formula about markings, kept up to date while a search goes  *)
(* forward and backward.  A step updates only the leaves the transition    *)
(* can change; a leaf that changes tells its parent, which moves it across *)
(* the border between its satisfied and its other subformulas and tells    *)
(* its own parent when its value changes by that.  A junction that loses   *)
(* a subformula tells its parent before it touches its list, and a         *)
(* deadlock predicate that becomes false before it has its new value: what *)
(* they have left to do waits on a stack until the parent returns.         *)
(*                                                                         *)
(* The leaves of one step are updated in any order.  The beginning of a    *)
(* call of updateTF or updateFT and what follows the parent's call in it   *)
(* are steps of their own, so that the states in between are seen; nothing *)
(* else runs there.                                                        *)
(***************************************************************************)
EXTENDS NetState, Sequences

CONSTANTS
  InitialMarking,     \* Marking::Initial
  Junction,           \* the AtomicBooleanPredicate objects
  Atomic,             \* the AtomicStatePredicate objects: sum <= threshold
  Fireable,           \* the FireablePredicate objects
  Deadlock,           \* the DeadlockPredicate objects
  Root,               \* the formula
  Parent,             \* StatePredicate::parent
  IsAnd,              \* AtomicBooleanPredicate::isAnd
  Factor, Threshold,  \* of an atomic predicate; negative factors included
  Observed,           \* FireablePredicate::t
  Sign,               \* whether a fireable or deadlock predicate is positive
  MaxDepth            \* bound: the steps a search goes forward

Leaf == Atomic \cup Fireable \cup Deadlock

Formula == Junction \cup Leaf

Subformulas(j) == {f \in Formula \ {Root} : Parent[f] = j}

CardSub(j) == Cardinality(Subformulas(j))

FormulaAssumption ==
  /\ InitialMarking \in [Place -> Tokens]
  /\ IsFiniteSet(Formula)
  /\ Junction \cap Leaf = {}
  /\ Atomic \cap (Fireable \cup Deadlock) = {}
  /\ Fireable \cap Deadlock = {}
  /\ Root \in Formula
  /\ Parent \in [Formula \ {Root} -> Junction]
  /\ \A S \in (SUBSET Formula) \ {{}} :            \* no formula is a part of itself
        \E f \in S : Subformulas(f) \cap S = {}
  /\ IsAnd \in [Junction -> BOOLEAN]
  /\ Factor \in [Atomic -> [Place -> Int]]
  /\ Threshold \in [Atomic -> Int]
  /\ Observed \in [Fireable -> Transition]
  /\ Sign \in [Fireable \cup Deadlock -> BOOLEAN]
  /\ MaxDepth \in Nat

ASSUME FormulaParameters == FormulaAssumption
-----------------------------------------------------------------------------
(* The formal sum of an atomic predicate, and what t adds to it.           *)
SumOf(a, m) == SumFunction([p \in Place |-> Factor[a][p] * m[p]])

ChangedSum(t, a) ==
  SumFunction([p \in Place |-> Factor[a][p] * (DeltaPost(t, p) - DeltaPre(t, p))])

(* The transitions that put tokens on a pre-place of t.                    *)
Feeding(t) == {u \in Transition : \E p \in Place : Pre[t][p] > 0 /\ Post[u][p] > 0}

(* Variant: only the conflicting transitions invalidate or validate.       *)
ChangedWithoutFeeding(t) ==
  {a \in Atomic : ChangedSum(t, a) # 0}
    \cup {f \in Fireable : t \in Conflicting[Observed[f]]}
    \cup Deadlock

(* changedPredicate[t], changedFireable[t] and changedDeadlock: the leaves *)
(* to update when t is fired or undone.                                    *)
Changed(t) ==
  {a \in Atomic : ChangedSum(t, a) # 0}
    \cup {f \in Fireable : t \in Conflicting[Observed[f]] \cup Feeding(Observed[f])}
    \cup Deadlock
-----------------------------------------------------------------------------
VARIABLES
  ns,         \* the net state of the search
  path,       \* the transitions fired and not undone
  trail,      \* history: the net states they were fired from
  sum,        \* AtomicStatePredicate::sum
  value,      \* StatePredicate::value
  sub,        \* AtomicBooleanPredicate::sub
  position,   \* StatePredicate::position, the place in the parent's sub
  cardSat,    \* AtomicBooleanPredicate::cardSat
  todo,       \* the leaves checkProperty or updateProperty has yet to update
  moved,      \* the transition that was fired or undone last
  direction,  \* 1 after fire, -1 after backfire
  call,       \* the call of updateTF or updateFT to execute next
  pending     \* the stack of those that have told their parent and have not
              \* acted themselves, the last one on top

vars == <<ns, path, trail, sum, value, sub, position, cardSat, todo, moved,
          direction, call, pending>>

NoCall == [kind |-> "none"]

(* The value of a fireable or deadlock predicate in net state n.           *)
Observes(f, n) ==
  IF f \in Fireable THEN n.Enabled[Observed[f]] = Sign[f]
                    ELSE (n.CardEnabled = 0) = Sign[f]

Satisfied(j, v) == Cardinality({f \in Subformulas(j) : v[f]})

(* The lists of the subformulas of j with the satisfied ones first.        *)
Sorted(j, v) ==
  {s \in Bijection(1 .. CardSub(j), Subformulas(j)) :
     \A i \in 1 .. CardSub(j) : v[s[i]] <=> i <= Satisfied(j, v)}

JunctionValue(j, sat) == IF IsAnd[j] THEN sat = CardSub(j) ELSE sat > 0

(* v is the value of every part of the formula in net state n.             *)
ValuesIn(v, n) ==
  /\ \A a \in Atomic : v[a] = (SumOf(a, n.Current) <= Threshold[a])
  /\ \A f \in Fireable \cup Deadlock : v[f] = Observes(f, n)
  /\ \A j \in Junction : v[j] = JunctionValue(j, Satisfied(j, v))

(* evaluate, for the whole formula: its values in net state n, and the     *)
(* lists of subformulas sorted by the values v.                            *)
Valuations(n) == {v \in [Formula -> BOOLEAN] : ValuesIn(v, n)}

SubLists(v) ==
  {s \in [Junction -> UNION {Sorted(j, v) : j \in Junction}] :
     \A j \in Junction : s[j] \in Sorted(j, v)}

SumsIn(n) == [a \in Atomic |-> SumOf(a, n.Current)]

PositionsIn(s) ==
  [f \in Formula \ {Root} |->
     CHOOSE i \in 1 .. CardSub(Parent[f]) : s[Parent[f]][i] = f]

CardsIn(v) == [j \in Junction |-> Satisfied(j, v)]
-----------------------------------------------------------------------------
(* No call is open.                                                        *)
Idle == call = NoCall /\ pending = <<>>

(* Nothing is left of the last step: the search goes on with value[Root].  *)
Answered == todo = {} /\ Idle

(* initProperty, in the initial marking.                                   *)
Init ==
  /\ ns = InitialNetState(InitialMarking)
  /\ path = <<>>
  /\ trail = <<>>
  /\ sum = SumsIn(ns)
  /\ value \in Valuations(ns)
  /\ sub \in SubLists(value)
  /\ position = PositionsIn(sub)
  /\ cardSat = CardsIn(value)
  /\ todo = {}
  /\ moved \in Transition
  /\ direction = 1
  /\ Idle

(* The search fires t, and calls checkProperty.                            *)
Forward(t) ==
  /\ Answered
  /\ Len(path) < MaxDepth
  /\ ns.Enabled[t]
  /\ ~Overflows(ns.Current, t)
  /\ ns' = UpdateEnabled(Fire(ns, t), t)
  /\ path' = Append(path, t)
  /\ trail' = Append(trail, ns)
  /\ todo' = Changed(t)
  /\ moved' = t
  /\ direction' = 1
  /\ UNCHANGED <<sum, value, sub, position, cardSat, call, pending>>

(* Variant: updateProperty adds the changes as checkProperty does.         *)
BackwardAdding ==
  /\ Answered
  /\ path # <<>>
  /\ LET t == path[Len(path)]
     IN /\ ns' = RevertEnabled(Backfire(ns, t), t)
        /\ todo' = Changed(t)
        /\ moved' = t
  /\ path' = SubSeq(path, 1, Len(path) - 1)
  /\ trail' = SubSeq(trail, 1, Len(trail) - 1)
  /\ direction' = 1
  /\ UNCHANGED <<sum, value, sub, position, cardSat, call, pending>>

(* The search undoes the last transition, and calls updateProperty.        *)
Backward ==
  /\ Answered
  /\ path # <<>>
  /\ LET t == path[Len(path)]
     IN /\ ns' = RevertEnabled(Backfire(ns, t), t)
        /\ todo' = Changed(t)
        /\ moved' = t
  /\ path' = SubSeq(path, 1, Len(path) - 1)
  /\ trail' = SubSeq(trail, 1, Len(trail) - 1)
  /\ direction' = -1
  /\ UNCHANGED <<sum, value, sub, position, cardSat, call, pending>>

(* The search starts anew (the next attempt of find_path): the formula is  *)
(* evaluated, whatever state the last attempt left it in.                  *)
Restart ==
  /\ Answered
  /\ path # <<>>
  /\ ns' = InitialNetState(InitialMarking)
  /\ path' = <<>>
  /\ trail' = <<>>
  /\ sum' = SumsIn(ns')
  /\ value' \in Valuations(ns')
  /\ sub' \in SubLists(value')
  /\ position' = PositionsIn(sub')
  /\ cardSat' = CardsIn(value')
  /\ UNCHANGED <<todo, moved, direction, call, pending>>

(* f has changed to v: its parent is to be told, if there is one.          *)
Tell(f, v) ==
  IF f = Root THEN NoCall
  ELSE [kind |-> IF v THEN "FT" ELSE "TF", junction |-> Parent[f],
        i |-> position[f]]

(* The value of a leaf is assigned, and its parent told of a change.       *)
SetLeaf(l, v) ==
  /\ value' = [value EXCEPT ![l] = v]
  /\ call' = IF v # value[l] THEN Tell(l, v) ELSE NoCall

(* AtomicStatePredicate::update                                            *)
UpdateAtomic(a) ==
  /\ Idle
  /\ a \in todo
  /\ todo' = todo \ {a}
  /\ sum' = [sum EXCEPT ![a] = sum[a] + direction * ChangedSum(moved, a)]
  /\ SetLeaf(a, sum'[a] <= Threshold[a])
  /\ UNCHANGED <<ns, path, trail, sub, position, cardSat, moved, direction, pending>>

(* Variant: the predicate stays in the list.                               *)
UpdateFireableAgain(f) ==
  /\ Idle
  /\ f \in todo
  /\ SetLeaf(f, Observes(f, ns))
  /\ UNCHANGED <<ns, path, trail, sum, sub, position, cardSat, todo, moved,
                 direction, pending>>

(* FireablePredicate::update                                               *)
UpdateFireable(f) ==
  /\ Idle
  /\ f \in todo
  /\ todo' = todo \ {f}
  /\ SetLeaf(f, Observes(f, ns))
  /\ UNCHANGED <<ns, path, trail, sum, sub, position, cardSat, moved, direction,
                 pending>>

(* Variant: the parent is told that d is false whether it was true or not. *)
UpdateDeadlockTelling(d) ==
  /\ Idle
  /\ d \in todo
  /\ todo' = todo \ {d}
  /\ LET v == Observes(d, ns)
         tells == d # Root /\ ~v
     IN /\ call' = IF v # value[d] \/ tells THEN Tell(d, v) ELSE NoCall
        /\ value' = [value EXCEPT ![d] = v \/ (tells /\ value[d])]
        /\ pending' = IF tells THEN <<[formula |-> d, i |-> 0]>> ELSE <<>>
  /\ UNCHANGED <<ns, path, trail, sum, sub, position, cardSat, moved, direction>>

(* DeadlockPredicate::update: a predicate that becomes false tells its     *)
(* parent first, and has its new value when the parent has returned.       *)
UpdateDeadlock(d) ==
  /\ Idle
  /\ d \in todo
  /\ todo' = todo \ {d}
  /\ LET v == Observes(d, ns)
         tells == d # Root /\ value[d] /\ ~v
     IN /\ call' = IF v # value[d] THEN Tell(d, v) ELSE NoCall
        /\ value' = [value EXCEPT ![d] = v \/ tells]
        /\ pending' = IF tells THEN <<[formula |-> d, i |-> 0]>> ELSE <<>>
  /\ UNCHANGED <<ns, path, trail, sum, sub, position, cardSat, moved, direction>>

(* Variant: a formula that is moved is not told its new position.          *)
SwapSilently(j, i, k) ==
  /\ sub' = [sub EXCEPT ![j] = [sub[j] EXCEPT ![i] = sub[j][k],
                                              ![k] = sub[j][i]]]
  /\ position' = [position EXCEPT ![sub[j][i]] = k]

(* The subformulas at i and k change places.                               *)
Swap(j, i, k) ==
  /\ sub' = [sub EXCEPT ![j] = [sub[j] EXCEPT ![i] = sub[j][k],
                                              ![k] = sub[j][i]]]
  /\ position' = [position EXCEPT ![sub[j][i]] = k, ![sub[j][k]] = i]

(* AtomicBooleanPredicate::updateTF: the subformula at i is not satisfied  *)
(* any more.  The junction takes its new value and tells its parent.       *)
UpdateTF ==
  /\ call.kind = "TF"
  /\ LET j == call.junction
         flips == IF IsAnd[j] THEN cardSat[j] = CardSub(j) ELSE cardSat[j] = 1
     IN /\ value' = [value EXCEPT ![j] = ~flips /\ value[j]]
        /\ call' = IF flips THEN Tell(j, FALSE) ELSE NoCall
        /\ pending' = Append(pending, [formula |-> j, i |-> call.i])
  /\ UNCHANGED <<ns, path, trail, sum, sub, position, cardSat, todo, moved,
                 direction>>

(* What is on top of the stack, and the rest.                              *)
Top == pending[Len(pending)]

Pop == pending' = SubSeq(pending, 1, Len(pending) - 1)

(* The rest of updateTF: the subformula at i changes places with the last  *)
(* satisfied one.                                                          *)
ReturnTF ==
  /\ call = NoCall
  /\ pending # <<>>
  /\ Top.formula \in Junction
  /\ LET j == Top.formula
     IN /\ cardSat' = [cardSat EXCEPT ![j] = cardSat[j] - 1]
        /\ Swap(j, Top.i, cardSat[j])
  /\ Pop
  /\ UNCHANGED <<ns, path, trail, sum, value, todo, moved, direction, call>>

(* The rest of DeadlockPredicate::update.                                  *)
ReturnDeadlock ==
  /\ call = NoCall
  /\ pending # <<>>
  /\ Top.formula \in Deadlock
  /\ value' = [value EXCEPT ![Top.formula] = FALSE]
  /\ Pop
  /\ UNCHANGED <<ns, path, trail, sum, sub, position, cardSat, todo, moved,
                 direction, call>>

(* AtomicBooleanPredicate::updateFT: the subformula at i is satisfied now. *)
(* It changes places with the first unsatisfied one.                       *)
UpdateFT ==
  /\ call.kind = "FT"
  /\ LET j == call.junction
         flips == IF IsAnd[j] THEN cardSat[j] + 1 = CardSub(j)
                              ELSE cardSat[j] + 1 = 1
     IN /\ value' = [value EXCEPT ![j] = flips \/ value[j]]
        /\ call' = IF flips THEN Tell(j, TRUE) ELSE NoCall
        /\ cardSat' = [cardSat EXCEPT ![j] = cardSat[j] + 1]
        /\ Swap(j, call.i, cardSat[j] + 1)
  /\ UNCHANGED <<ns, path, trail, sum, todo, moved, direction, pending>>

Update == \/ \E a \in Atomic : UpdateAtomic(a)
          \/ \E f \in Fireable : UpdateFireable(f)
          \/ \E d \in Deadlock : UpdateDeadlock(d)
          \/ UpdateTF
          \/ UpdateFT
          \/ ReturnTF
          \/ ReturnDeadlock

Next == \/ \E t \in Transition : Forward(t)
        \/ Backward
        \/ Restart
        \/ Update

Spec == Init /\ [][Next]_vars

(* checkProperty and updateProperty are loops that run on.                 *)
FairSpec == Spec /\ WF_vars(Update)
-----------------------------------------------------------------------------
CallType ==
  {NoCall} \cup [kind : {"TF", "FT"}, junction : Junction, i : Nat]

Frame == [formula : Junction \cup Deadlock, i : Nat]

TypeOK ==
  /\ ns \in NetStateType
  /\ path \in Seq(Transition)
  /\ trail \in Seq(NetStateType)
  /\ Len(trail) = Len(path)
  /\ sum \in [Atomic -> Int]
  /\ value \in [Formula -> BOOLEAN]
  /\ sub \in [Junction -> UNION {[1 .. CardSub(j) -> Subformulas(j)] : j \in Junction}]
  /\ \A j \in Junction : sub[j] \in [1 .. CardSub(j) -> Subformulas(j)]
  /\ position \in [Formula \ {Root} -> Nat]
  /\ cardSat \in [Junction -> Nat]
  /\ \A j \in Junction : cardSat[j] <= CardSub(j)
  /\ todo \subseteq Leaf
  /\ moved \in Transition
  /\ direction \in {1, -1}
  /\ call \in CallType
  /\ pending \in Seq(Frame)

(* What DEBUG__consistency asserts of a junction ("sub[i]->position == i", *)
(* "sub[i] != sub[j]", AtomicBooleanPredicate.cc 549-556): every           *)
(* subformula is listed once, and knows where.  It holds between the calls *)
(* of a propagation, too, when a formula can be moved while one above it   *)
(* is about to be told its position.                                       *)
PositionsConsistent ==
  \A j \in Junction :
    /\ \A i \in 1 .. CardSub(j) : position[sub[j][i]] = i
    /\ \A f \in Subformulas(j) : \E i \in 1 .. CardSub(j) : sub[j][i] = f

(* A deadlock predicate that has told its parent that it is false, and is  *)
(* not yet.                                                                *)
Unassigned(f) ==
  f \in Deadlock /\ \E k \in 1 .. Len(pending) : pending[k].formula = f

(* The calls of updateTF and updateFT that are open: begun and waiting for *)
(* the parent, or about to begin.                                          *)
OpenCalls ==
  {[kind |-> "TF", junction |-> pending[k].formula, i |-> pending[k].i] :
     k \in {n \in 1 .. Len(pending) : pending[n].formula \in Junction}}
    \cup ({call} \ {NoCall})

(* "assumption: satisfied left, unsatisfied right": from its beginning     *)
(* until it acts, whatever the parents do meanwhile, a call of updateTF    *)
(* names a subformula that is listed as satisfied and has become false, or *)
(* will as soon as the calls are done; a call of updateFT names one that   *)
(* is listed as unsatisfied and has become true.                           *)
CallsFit ==
  \A c \in OpenCalls :
    LET j == c.junction
        f == sub[j][c.i]
    IN /\ c.i \in 1 .. CardSub(j)
       /\ IF c.kind = "TF"
          THEN (value[f] => Unassigned(f)) /\ c.i <= cardSat[j]
          ELSE value[f] /\ c.i > cardSat[j]

(* Once the leaves are updated, each of them says the truth about the net  *)
(* state, and the sums are exact (AtomicStatePredicate.cc 470-478).        *)
LeavesExact ==
  Answered =>
    /\ sum = SumsIn(ns)
    /\ \A a \in Atomic : value[a] = (SumOf(a, ns.Current) <= Threshold[a])
    /\ \A f \in Fireable \cup Deadlock :
          value[f] = IF f \in Fireable
                     THEN Activated(ns.Current, Observed[f]) = Sign[f]
                     ELSE (EnabledSet(ns.Current) = {}) = Sign[f]

(* The answer is that of the leaves: every junction has the value its      *)
(* subformulas give it, and they are sorted by it.                         *)
JunctionsExact ==
  Answered =>
    \A j \in Junction :
      /\ value[j] = IF IsAnd[j] THEN \A f \in Subformulas(j) : value[f]
                               ELSE \E f \in Subformulas(j) : value[f]
      /\ \A i \in 1 .. CardSub(j) : value[sub[j][i]] <=> i <= cardSat[j]

(* The truth of the parts of the formula in a marking, by their meaning.   *)
Truth(m) ==
  LET holds[f \in Formula] ==
        IF f \in Atomic THEN SumOf(f, m) <= Threshold[f]
        ELSE IF f \in Fireable THEN Activated(m, Observed[f]) = Sign[f]
        ELSE IF f \in Deadlock THEN (EnabledSet(m) = {}) = Sign[f]
        ELSE IF IsAnd[f] THEN \A g \in Subformulas(f) : holds[g]
        ELSE \E g \in Subformulas(f) : holds[g]
  IN holds

(* checkProperty and updateProperty return the truth of the formula in the *)
(* current marking, whatever the search did before.                        *)
AnswerCorrect == Answered => value[Root] = Truth(ns.Current)[Root]

(* An update ends, with an answer.                                         *)
UpdateEnds == ~Answered ~> Answered
=============================================================================
