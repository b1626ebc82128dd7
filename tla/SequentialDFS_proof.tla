------------------------ MODULE SequentialDFS_proof -------------------------
(***************************************************************************)
(* Proofs about SequentialDFS, for every net, every goal and every order   *)
(* of the fire lists.                                                      *)
(***************************************************************************)
EXTENDS SequentialDFSInv, NetState_proof
-----------------------------------------------------------------------------
(* A fire list has the flagged transitions.                                *)
LEMMA FirelistFacts ==
  ASSUME NEW n \in NetStateType, NEW f \in FirelistsOf(n)
  PROVE  /\ f \in Seq(Transition)
         /\ Len(f) \in Nat
         /\ \A j \in 1 .. Len(f) : f[j] \in Flagged(n)
         /\ \A t \in Flagged(n) : \E j \in 1 .. Len(f) : f[j] = t
<1>1. n.CardEnabled \in Nat
  BY Net DEF NetStateType, NetAssumption
<1>2. f \in [1 .. n.CardEnabled -> Flagged(n)] /\ Range(f) = Flagged(n)
  BY DEF FirelistsOf
<1>3. Flagged(n) \subseteq Transition
  BY DEF Flagged
<1>4. f \in Seq(Transition)
  BY <1>1, <1>2, <1>3, IsASeq
<1>5. Len(f) = n.CardEnabled
  BY <1>1, <1>2, <1>4, LenProperties
<1> QED BY <1>1, <1>2, <1>4, <1>5 DEF Range

(* No operation on a net state breaks its type or the count of its flags.  *)
LEMMA OperationsCount ==
  ASSUME NEW n \in NetStateType, Counted(n), NEW t \in Transition
  PROVE  /\ Fire(n, t) \in NetStateType /\ Counted(Fire(n, t))
         /\ Backfire(n, t) \in NetStateType /\ Counted(Backfire(n, t))
         /\ UpdateEnabled(n, t) \in NetStateType
         /\ Counted(UpdateEnabled(n, t))
         /\ RevertEnabled(n, t) \in NetStateType
         /\ Counted(RevertEnabled(n, t))
<1>1. Fire(n, t) \in NetStateType /\ Counted(Fire(n, t))
  BY FireType DEF Counted, Flagged
<1>2. Backfire(n, t) \in NetStateType /\ Counted(Backfire(n, t))
  BY BackfireType DEF Counted, Flagged
<1>3. Conflicting[t] \in SUBSET Transition
      /\ BackConflicting[t] \in SUBSET Transition
  BY DEF Conflicting, BackConflicting, Consumers
<1>4. ASSUME NEW A \in SUBSET Transition, NEW B \in SUBSET Transition
      PROVE  LET first == CheckEnabled(n, {u \in A : n.Enabled[u]})
                 c == CheckEnabled(first, {u \in B : ~first.Enabled[u]})
             IN c \in NetStateType /\ Counted(c)
  <2> DEFINE S1 == {u \in A : n.Enabled[u]}
             first == CheckEnabled(n, S1)
             S2 == {u \in B : ~first.Enabled[u]}
  <2>1. S1 \in SUBSET Transition /\ S2 \in SUBSET Transition
    OBVIOUS
  <2>2. first \in NetStateType /\ Counted(first)
    <3> HIDE DEF S1
    <3> QED BY <2>1, CheckEnabledExact
  <2>3. CheckEnabled(first, S2) \in NetStateType
        /\ Counted(CheckEnabled(first, S2))
    <3> HIDE DEF first, S2
    <3> QED BY <2>1, <2>2, CheckEnabledExact
  <2> QED BY <2>3
<1>5. UpdateEnabled(n, t) \in NetStateType /\ Counted(UpdateEnabled(n, t))
  BY <1>3, <1>4 DEF UpdateEnabled
<1>6. RevertEnabled(n, t) \in NetStateType /\ Counted(RevertEnabled(n, t))
  BY <1>3, <1>4 DEF RevertEnabled
<1> QED BY <1>1, <1>2, <1>5, <1>6

(* Recognising the property by the counter, for deadlocks, is right when   *)
(* the enabledness is exact.                                               *)
LEMMA CheckPropertyExact ==
  ASSUME NEW n \in NetStateType, EnabledExact(n), n.Current \in Markings
  PROVE  CheckProperty(n) <=> n.Current \in Goal
<1>1. Flagged(n) = EnabledSet(n.Current)
      /\ n.CardEnabled = Cardinality(Flagged(n))
  BY DEF EnabledExact, Counted
<1>2. Flagged(n) \in SUBSET Transition
  BY DEF Flagged
<1>3. IsFiniteSet(Flagged(n))
  BY <1>2, PartOfTransitions
<1>4. n.CardEnabled = 0 <=> EnabledSet(n.Current) = {}
  BY <1>1, <1>3, FS_EmptySet
<1> QED BY <1>4 DEF CheckProperty, Goal, IsGoal
-----------------------------------------------------------------------------
(* The invariant of any run.                                               *)
(* What IType says, with the lengths and the elements spelt out.           *)
LEMMA TypeFacts ==
  ASSUME IType
  PROVE  /\ ns \in NetStateType /\ Counted(ns)
         /\ store \subseteq [Place -> Tokens]
         /\ stack \in Seq(StackEntry) /\ trail \in Seq(NetStateType)
         /\ Len(stack) \in Nat /\ Len(trail) \in Nat
         /\ DOMAIN stack = 1 .. Len(stack) /\ DOMAIN trail = 1 .. Len(trail)
         /\ \A i \in 1 .. Len(stack) :
               /\ stack[i] \in StackEntry
               /\ stack[i].current < Len(stack[i].fl)
         /\ \A i \in 1 .. Len(trail) : trail[i] \in NetStateType
         /\ firelist \in Seq(Transition) /\ Len(firelist) \in Nat
         /\ \A j \in 1 .. Len(firelist) : firelist[j] \in Transition
         /\ entry \in Nat /\ entry <= Len(firelist)
         /\ Len(trail) = Len(stack) + (IF OnTheWay THEN 1 ELSE 0)
         /\ OnTheWay => entry < Len(firelist)
<1>1. /\ stack \in Seq(StackEntry) /\ trail \in Seq(NetStateType)
      /\ firelist \in Seq(Transition)
  BY DEF IType, TypeOK
<1>2. /\ Len(stack) \in Nat /\ Len(trail) \in Nat /\ Len(firelist) \in Nat
      /\ DOMAIN stack = 1 .. Len(stack) /\ DOMAIN trail = 1 .. Len(trail)
      /\ DOMAIN firelist = 1 .. Len(firelist)
  BY <1>1, LenProperties
<1>3. /\ \A i \in 1 .. Len(stack) : stack[i] \in StackEntry
      /\ \A i \in 1 .. Len(trail) : trail[i] \in NetStateType
      /\ \A j \in 1 .. Len(firelist) : firelist[j] \in Transition
  BY <1>1, ElementOfSeq
<1> QED BY <1>1, <1>2, <1>3 DEF IType, TypeOK

(* The net states left are those of the stack, and the one a step is on    *)
(* its way from.                                                           *)
LEMMA Lengths ==
  ASSUME IType
  PROVE  Len(trail) = IF OnTheWay THEN Len(stack) + 1 ELSE Len(stack)
<1>1. /\ Len(stack) \in Nat
      /\ Len(trail) = Len(stack) + (IF OnTheWay THEN 1 ELSE 0)
  BY TypeFacts
<1> QED BY <1>1

(* The transition of an entry on the stack, or of the current one.         *)
LEMMA TakenTransition ==
  ASSUME IType
  PROVE  /\ OnTheWay => Fired \in Transition
         /\ \A i \in 1 .. Len(stack) : StackTransition(i) \in Transition
<1>1. OnTheWay => Fired \in Transition
  <2>1. OnTheWay => entry + 1 \in 1 .. Len(firelist)
    BY TypeFacts
  <2> QED BY <2>1, TypeFacts DEF Fired
<1>2. ASSUME NEW i \in 1 .. Len(stack)
      PROVE  StackTransition(i) \in Transition
  <2>1. /\ stack[i].fl \in Seq(Transition) /\ stack[i].current \in Nat
        /\ stack[i].current < Len(stack[i].fl)
    BY TypeFacts DEF StackEntry
  <2>2. Len(stack[i].fl) \in Nat
    BY <2>1, LenProperties
  <2>3. stack[i].current + 1 \in 1 .. Len(stack[i].fl)
    BY <2>1, <2>2
  <2> QED BY <2>1, <2>3, ElementOfSeq DEF StackTransition
<1> QED BY <1>1, <1>2

LEMMA BeginningExact ==
  /\ InitialNetState(InitialMarking) \in NetStateType
  /\ EnabledExact(InitialNetState(InitialMarking))
  /\ InitialNetState(InitialMarking).Current = InitialMarking
  /\ InitialNetState(InitialMarking).HashCurrent = HashOf(InitialMarking)
<1>1. InitialMarking \in [Place -> Tokens]
  BY Parameters DEF SearchAssumption
<1> QED BY <1>1, InitialExact

(* IType holds in the beginning.                                           *)
LEMMA InitType == Init => IType
<1> SUFFICES ASSUME Init PROVE IType
  OBVIOUS
<1>1. /\ ns \in NetStateType /\ Counted(ns)
  BY BeginningExact DEF Init, EnabledExact
<1>2. /\ stack = <<>> /\ trail = <<>> /\ firelist = <<>> /\ entry = 0
      /\ pc = "start" /\ ns = InitialNetState(InitialMarking) /\ store = {}
      /\ value = FALSE /\ overflowed = FALSE
  BY DEF Init
<1>3. /\ stack \in Seq(StackEntry) /\ trail \in Seq(NetStateType)
      /\ firelist \in Seq(Transition)
      /\ Len(stack) = 0 /\ Len(trail) = 0 /\ Len(firelist) = 0
      /\ DOMAIN stack = {}
  BY <1>2, EmptySeq
<1>4. /\ entry \in 0 .. Len(firelist)
      /\ pc \in {"start", "loop", "fired", "inserted", "returned"}
      /\ value \in BOOLEAN /\ overflowed \in BOOLEAN
  <2>1. entry \in 0 .. Len(firelist)
    BY <1>2, <1>3
  <2>2. value \in BOOLEAN /\ overflowed \in BOOLEAN
    BY <1>2
  <2>3. pc \in {"start", "loop", "fired", "inserted", "returned"}
    BY <1>2
  <2> QED BY <2>1, <2>2, <2>3
<1>5. store \subseteq [Place -> Tokens]
  BY <1>2
<1>6. \A i \in DOMAIN stack : stack[i].current < Len(stack[i].fl)
  BY <1>3
<1>7. TypeOK
  BY <1>1, <1>3, <1>4, <1>5, <1>6 DEF TypeOK
<1> QED BY <1>1, <1>2, <1>3, <1>7 DEF IType, OnTheWay

(* IType of the next state, from what a step makes of each variable.       *)
LEMMA TypeAfter ==
  ASSUME ns' \in NetStateType, Counted(ns'),
         store' \subseteq [Place -> Tokens],
         stack' \in Seq(StackEntry),
         \A i \in 1 .. Len(stack') : stack'[i].current < Len(stack'[i].fl),
         trail' \in Seq(NetStateType),
         firelist' \in Seq(Transition),
         entry' \in Nat, entry' <= Len(firelist'),
         value' \in BOOLEAN, overflowed' \in BOOLEAN,
         pc' \in {"loop", "fired", "inserted", "returned"},
         Len(trail') = Len(stack') + (IF OnTheWay' THEN 1 ELSE 0),
         OnTheWay' => entry' < Len(firelist')
  PROVE  IType'
<1>1. DOMAIN stack' = 1 .. Len(stack')
  BY LenProperties
<1>2. entry' \in 0 .. Len(firelist')
  BY LenProperties
<1>3. TypeOK'
  BY <1>1, <1>2 DEF TypeOK
<1>4. Counted(ns)'
  BY DEF Counted, Flagged
<1> QED BY <1>3, <1>4 DEF IType

(* Every step keeps IType, an overflowing one included.                    *)
LEMMA StepType == IType /\ Next => IType'
<1> SUFFICES ASSUME IType, Next PROVE IType'
  OBVIOUS
<1>1. /\ ns \in NetStateType /\ Counted(ns)
      /\ store \subseteq [Place -> Tokens]
      /\ ns.Current \in [Place -> Tokens]
  BY TypeFacts DEF NetStateType
<1>2. /\ stack \in Seq(StackEntry)
      /\ Len(stack) \in Nat
      /\ DOMAIN stack = 1 .. Len(stack)
      /\ \A i \in 1 .. Len(stack) : stack[i].current < Len(stack[i].fl)
  BY TypeFacts
<1>3. /\ trail \in Seq(NetStateType) /\ Len(trail) \in Nat
      /\ Len(trail) = Len(stack) + (IF OnTheWay THEN 1 ELSE 0)
  BY TypeFacts
<1>4. /\ firelist \in Seq(Transition) /\ Len(firelist) \in Nat
      /\ \A j \in 1 .. Len(firelist) : firelist[j] \in Transition
      /\ entry \in Nat /\ entry <= Len(firelist)
      /\ OnTheWay => entry < Len(firelist)
  BY TypeFacts
<1>5. value \in BOOLEAN /\ overflowed \in BOOLEAN
  BY DEF IType, TypeOK
<1>6. ASSUME Expand(ns)
      PROVE  /\ firelist' \in Seq(Transition)
             /\ entry' \in Nat /\ entry' <= Len(firelist')
             /\ pc' = "loop"
  <2>1. firelist' \in FirelistsOf(ns) /\ entry' = Len(firelist') /\ pc' = "loop"
    BY <1>6 DEF Expand
  <2>2. firelist' \in Seq(Transition)
    BY <1>1, <2>1, FirelistFacts
  <2> QED BY <2>1, <2>2, LenProperties
<1>7. CheckProperty(ns) \in BOOLEAN
  BY DEF CheckProperty
<1>8. CASE Start
  <2>1. /\ ns' = ns /\ stack' = stack /\ trail' = trail /\ pc = "start"
        /\ value' = CheckProperty(ns) /\ overflowed' = overflowed
    BY <1>8 DEF Start
  <2>2. /\ store' \subseteq [Place -> Tokens]
        /\ firelist' \in Seq(Transition)
        /\ entry' \in Nat /\ entry' <= Len(firelist')
        /\ pc' \in {"loop", "returned"}
    BY <1>1, <1>4, <1>6, <1>8 DEF Start
  <2>3. ~OnTheWay /\ ~OnTheWay'
    BY <2>1, <2>2 DEF OnTheWay
  <2> QED BY <1>1, <1>2, <1>3, <1>5, <1>7, <2>1, <2>2, <2>3, TypeAfter
<1>9. CASE FireNext
  <2>1. /\ entry > 0 /\ entry' = entry - 1 /\ ns' = Fire(ns, firelist[entry])
        /\ trail' = Append(trail, ns) /\ pc = "loop" /\ pc' = "fired"
        /\ overflowed' \in BOOLEAN
        /\ UNCHANGED <<store, stack, firelist, value>>
    BY <1>5, <1>9 DEF FireNext
  <2>2. firelist[entry] \in Transition
    <3>1. entry \in 1 .. Len(firelist)
      BY <1>4, <2>1
    <3> QED BY <1>4, <3>1
  <2>3. ns' \in NetStateType /\ Counted(ns')
    BY <1>1, <2>1, <2>2, OperationsCount
  <2>4. trail' \in Seq(NetStateType) /\ Len(trail') = Len(trail) + 1
    BY <1>1, <1>3, <2>1, SeqGrows
  <2>5. ~OnTheWay /\ OnTheWay'
    BY <2>1 DEF OnTheWay
  <2>6. entry' \in Nat /\ entry' < Len(firelist') /\ entry' <= Len(firelist')
    BY <1>4, <2>1
  <2>7. Len(trail') = Len(stack') + 1
    BY <1>2, <1>3, <2>1, <2>4, <2>5
  <2> QED BY <1>1, <1>2, <1>4, <1>5, <2>1, <2>3, <2>4, <2>5, <2>6, <2>7,
             TypeAfter
<1>10. CASE Known
  <2>1. /\ ns' = Backfire(ns, Fired) /\ pc = "fired" /\ pc' = "loop"
        /\ trail' = SubSeq(trail, 1, Len(trail) - 1)
        /\ UNCHANGED <<store, stack, firelist, entry, value, overflowed>>
    BY <1>10 DEF Known
  <2>2. OnTheWay /\ ~OnTheWay'
    BY <2>1 DEF OnTheWay
  <2>3. ns' \in NetStateType /\ Counted(ns')
    BY <1>1, <2>1, <2>2, TakenTransition, OperationsCount
  <2>4. Len(trail) = Len(stack) + 1 /\ Len(trail) # 0
    BY <1>2, <1>3, <2>2
  <2>5. trail' \in Seq(NetStateType) /\ Len(trail') = Len(trail) - 1
    BY <1>3, <2>1, <2>4, SeqShrinks
  <2>6. Len(trail') = Len(stack')
    <3>1. stack' = stack
      BY <2>1
    <3> QED BY <1>2, <2>4, <2>5, <3>1
  <2> QED BY <1>1, <1>2, <1>4, <1>5, <2>1, <2>2, <2>3, <2>5, <2>6, TypeAfter
<1>11. CASE Insert
  <2>1. /\ ns' = UpdateEnabled(ns, Fired) /\ pc = "fired" /\ pc' = "inserted"
        /\ store' = store \cup {ns.Current}
        /\ UNCHANGED <<stack, firelist, entry, value, overflowed, trail>>
    BY <1>11 DEF Insert
  <2>2. OnTheWay /\ OnTheWay'
    BY <2>1 DEF OnTheWay
  <2>3. ns' \in NetStateType /\ Counted(ns')
    BY <1>1, <2>1, <2>2, TakenTransition, OperationsCount
  <2>4. store' \subseteq [Place -> Tokens]
    BY <1>1, <2>1
  <2> QED BY <1>2, <1>3, <1>4, <1>5, <2>1, <2>2, <2>3, <2>4, TypeAfter
<1>12. CASE Push
  <2> DEFINE e == [fl |-> firelist, current |-> entry]
  <2>1. /\ stack' = Append(stack, e) /\ value' = CheckProperty(ns)
        /\ UNCHANGED <<ns, store, trail, overflowed>> /\ pc = "inserted"
    BY <1>12 DEF Push
  <2>2. OnTheWay
    BY <2>1 DEF OnTheWay
  <2>3. e \in StackEntry /\ e.current < Len(e.fl)
    BY <1>4, <2>2 DEF StackEntry
  <2> HIDE DEF e
  <2>4. /\ stack' \in Seq(StackEntry)
        /\ Len(stack') = Len(stack) + 1
        /\ \A i \in 1 .. Len(stack) : stack'[i] = stack[i]
        /\ stack'[Len(stack) + 1] = e
    BY <1>2, <2>1, <2>3, SeqGrows
  <2>5. ASSUME NEW i \in 1 .. Len(stack')
        PROVE  stack'[i].current < Len(stack'[i].fl)
    <3>1. i \in 1 .. Len(stack) \/ i = Len(stack) + 1
      BY <1>2, <2>4
    <3> QED BY <1>2, <2>3, <2>4, <3>1
  <2>6. /\ firelist' \in Seq(Transition)
        /\ entry' \in Nat /\ entry' <= Len(firelist')
        /\ pc' \in {"loop", "returned"}
    BY <1>4, <1>6, <1>12 DEF Push
  <2>7. ~OnTheWay'
    BY <2>6 DEF OnTheWay
  <2>8. Len(trail') = Len(stack')
    BY <1>2, <1>3, <2>1, <2>2, <2>4
  <2> QED BY <1>1, <1>3, <1>5, <1>7, <2>1, <2>4, <2>5, <2>6, <2>7, <2>8,
             LenProperties, TypeAfter
<1>13. CASE Backtrack
  <2> DEFINE top == stack[Len(stack)]
             t == top.fl[top.current + 1]
  <2>1. /\ firelist' = top.fl /\ entry' = top.current
        /\ ns' = RevertEnabled(Backfire(ns, t), t)
        /\ pc = "loop" /\ pc' = pc /\ stack # <<>>
        /\ stack' = SubSeq(stack, 1, Len(stack) - 1)
        /\ trail' = SubSeq(trail, 1, Len(trail) - 1)
        /\ UNCHANGED <<store, value, overflowed>>
    BY <1>13 DEF Backtrack
  <2>2. Len(stack) # 0 /\ Len(stack) \in 1 .. Len(stack)
    BY <1>2, <2>1, EmptySeq
  <2>3. t = StackTransition(Len(stack))
    BY DEF StackTransition
  <2>4. top \in StackEntry /\ top.current < Len(top.fl) /\ t \in Transition
    BY <2>2, <2>3, TypeFacts, TakenTransition
  <2> HIDE DEF top, t
  <2>5. /\ firelist' \in Seq(Transition)
        /\ entry' \in Nat /\ entry' <= Len(firelist')
    <3>1. top.fl \in Seq(Transition) /\ top.current \in Nat
      BY <2>4 DEF StackEntry
    <3>2. Len(top.fl) \in Nat
      BY <3>1, LenProperties
    <3> QED BY <2>1, <2>4, <3>1, <3>2
  <2>6. ns' \in NetStateType /\ Counted(ns')
    BY <1>1, <2>1, <2>4, OperationsCount
  <2>7. /\ stack' \in Seq(StackEntry)
        /\ Len(stack') = Len(stack) - 1
        /\ \A i \in 1 .. Len(stack) - 1 : stack'[i] = stack[i]
    BY <1>2, <2>1, <2>2, SeqShrinks
  <2>8. \A i \in 1 .. Len(stack') : stack'[i].current < Len(stack'[i].fl)
    BY <1>2, <2>7
  <2>9. ~OnTheWay /\ ~OnTheWay'
    BY <2>1 DEF OnTheWay
  <2>10. Len(trail) = Len(stack) /\ Len(trail) # 0
    BY <1>2, <1>3, <2>2, <2>9
  <2>11. trail' \in Seq(NetStateType) /\ Len(trail') = Len(trail) - 1
    BY <1>3, <2>1, <2>10, SeqShrinks
  <2>12. Len(trail') = Len(stack')
    BY <2>7, <2>10, <2>11
  <2>13. /\ store' \subseteq [Place -> Tokens]
         /\ value' \in BOOLEAN /\ overflowed' \in BOOLEAN
         /\ pc' \in {"loop", "fired", "inserted", "returned"}
         /\ Len(stack') \in Nat
    BY <1>1, <1>5, <2>1, <2>7, LenProperties
  <2> QED BY <2>5, <2>6, <2>7, <2>8, <2>9, <2>11, <2>12, <2>13, TypeAfter
<1>14. CASE Exhausted
  <2>1. /\ pc = "loop" /\ pc' = "returned"
        /\ UNCHANGED <<ns, store, stack, firelist, entry, value, overflowed,
                       trail>>
    BY <1>14 DEF Exhausted
  <2>2. ~OnTheWay /\ ~OnTheWay'
    BY <2>1 DEF OnTheWay
  <2> QED BY <1>1, <1>2, <1>3, <1>4, <1>5, <2>1, <2>2, TypeAfter
<1>15. CASE Return
  BY <1>15 DEF Return, vars, IType, TypeOK, OnTheWay, Counted, Flagged
<1> QED BY <1>8, <1>9, <1>10, <1>11, <1>12, <1>13, <1>14, <1>15 DEF Next

(* The types, of any run.                                                  *)
THEOREM TypeCorrect == Spec => []TypeOK
<1>1. Spec => []IType
  <2>1. IType /\ UNCHANGED vars => IType'
    BY DEF vars, IType, TypeOK, OnTheWay, Counted, Flagged
  <2> QED BY <2>1, InitType, StepType, PTL DEF Spec
<1>2. IType => TypeOK
  BY DEF IType
<1> QED BY <1>1, <1>2, PTL
-----------------------------------------------------------------------------
(* What each step does to the levels.                                      *)
LEMMA FireNextLevels ==
  ASSUME IType, FireNext
  PROVE  /\ Len(trail) = Len(stack) /\ Len(trail') = Len(stack) + 1
         /\ Len(stack') = Len(stack)
         /\ \A i \in 1 .. Len(stack) : trail'[i] = trail[i]
         /\ trail'[Len(stack) + 1] = ns
         /\ \A i \in 1 .. Len(stack) + 1 : At(i)' = At(i)
         /\ At(Len(stack) + 1) = ns /\ At(Len(stack) + 2)' = ns'
         /\ \A i \in 1 .. Len(stack) + 1 : ListAt(i)' = ListAt(i)
         /\ ListAt(Len(stack) + 1) = firelist
         /\ \A i \in 1 .. Len(stack) : EntryAt(i)' = EntryAt(i)
         /\ EntryAt(Len(stack) + 1) = entry
         /\ EntryAt(Len(stack) + 1)' = entry - 1
<1>1. /\ trail' = Append(trail, ns) /\ stack' = stack /\ firelist' = firelist
      /\ entry' = entry - 1 /\ pc = "loop"
  BY DEF FireNext
<1>2. /\ Len(stack) \in Nat /\ Len(trail) = Len(stack)
      /\ trail \in Seq(NetStateType) /\ ns \in NetStateType
  <2>1. ~OnTheWay
    BY <1>1 DEF OnTheWay
  <2> QED BY <2>1, TypeFacts, Lengths
<1>3. /\ Len(trail') = Len(stack) + 1
      /\ \A i \in 1 .. Len(stack) : trail'[i] = trail[i]
      /\ trail'[Len(stack) + 1] = ns
  BY <1>1, <1>2, SeqGrows
<1>4. ASSUME NEW i \in 1 .. Len(stack) + 1
      PROVE  At(i)' = At(i)
  <2>1. i \in 1 .. Len(stack) \/ i = Len(stack) + 1
    BY <1>2
  <2> QED BY <1>2, <1>3, <2>1 DEF At
<1>5. At(Len(stack) + 1) = ns /\ At(Len(stack) + 2)' = ns'
  <2>1. At(Len(stack) + 1) = ns
    BY <1>2 DEF At
  <2>2. ~(Len(stack) + 2 <= Len(trail'))
    BY <1>2, <1>3
  <2>3. At(Len(stack) + 2)' = ns'
    <3>1. At(Len(stack) + 2)' = IF Len(stack') + 2 <= Len(trail')
                                THEN trail'[Len(stack') + 2] ELSE ns'
      BY DEF At
    <3> QED BY <1>1, <2>2, <3>1
  <2> QED BY <2>1, <2>3
<1>6. ASSUME NEW i \in 1 .. Len(stack) + 1
      PROVE  ListAt(i)' = ListAt(i)
  BY <1>1 DEF ListAt
<1>7. ASSUME NEW i \in 1 .. Len(stack)
      PROVE  EntryAt(i)' = EntryAt(i)
  BY <1>1, <1>2 DEF EntryAt
<1>8. /\ ListAt(Len(stack) + 1) = firelist
      /\ EntryAt(Len(stack) + 1) = entry /\ EntryAt(Len(stack) + 1)' = entry - 1
  BY <1>1, <1>2 DEF EntryAt, ListAt
<1>9. Len(stack') = Len(stack)
  BY <1>1
<1> QED BY <1>2, <1>3, <1>4, <1>5, <1>6, <1>7, <1>8, <1>9

(* A known marking is left, the levels stay.                               *)
LEMMA KnownLevels ==
  ASSUME IType, Known, ns' = trail[Len(trail)]
  PROVE  /\ Len(trail) = Len(stack) + 1 /\ Len(trail') = Len(stack)
         /\ Len(stack') = Len(stack)
         /\ \A i \in 1 .. Len(stack) : trail'[i] = trail[i]
         /\ \A i \in 1 .. Len(stack) + 1 : /\ At(i)' = At(i)
                                           /\ ListAt(i)' = ListAt(i)
                                           /\ EntryAt(i)' = EntryAt(i)
         /\ ListAt(Len(stack) + 1) = firelist
         /\ EntryAt(Len(stack) + 1) = entry
         /\ At(Len(stack) + 2) = ns
<1>1. /\ trail' = SubSeq(trail, 1, Len(trail) - 1) /\ stack' = stack
      /\ firelist' = firelist /\ entry' = entry /\ pc = "fired"
  BY DEF Known
<1>2. /\ Len(stack) \in Nat /\ Len(trail) = Len(stack) + 1
      /\ trail \in Seq(NetStateType)
  BY <1>1, TypeFacts DEF OnTheWay
<1>3. Len(trail) # 0
  BY <1>2
<1>4. /\ Len(trail') = Len(trail) - 1
      /\ \A i \in 1 .. Len(trail) - 1 : trail'[i] = trail[i]
  BY <1>1, <1>2, <1>3, SeqShrinks
<1>5. /\ Len(trail') = Len(stack)
      /\ \A i \in 1 .. Len(stack) : trail'[i] = trail[i]
  BY <1>2, <1>4
<1>6. ASSUME NEW i \in 1 .. Len(stack) + 1
      PROVE  At(i)' = At(i)
  <2>1. i \in 1 .. Len(stack) \/ i = Len(stack) + 1
    BY <1>2
  <2> QED BY <1>2, <1>5, <2>1 DEF At
<1>7. ASSUME NEW i \in 1 .. Len(stack) + 1
      PROVE  ListAt(i)' = ListAt(i) /\ EntryAt(i)' = EntryAt(i)
  BY <1>1 DEF ListAt, EntryAt
<1>8. /\ ListAt(Len(stack) + 1) = firelist /\ EntryAt(Len(stack) + 1) = entry
      /\ At(Len(stack) + 2) = ns
  BY <1>2 DEF ListAt, EntryAt, At
<1>9. Len(stack') = Len(stack)
  BY <1>1
<1> QED BY <1>2, <1>5, <1>6, <1>7, <1>8, <1>9

(* Entering a marking changes the current level only.                      *)
LEMMA InsertLevels ==
  ASSUME IType, Insert
  PROVE  /\ Len(trail) = Len(stack) + 1 /\ trail' = trail /\ stack' = stack
         /\ \A i \in 1 .. Len(stack) + 1 : /\ At(i)' = At(i)
                                           /\ ListAt(i)' = ListAt(i)
                                           /\ EntryAt(i)' = EntryAt(i)
         /\ At(Len(stack) + 2) = ns /\ At(Len(stack) + 2)' = ns'
<1>1. /\ trail' = trail /\ stack' = stack /\ firelist' = firelist
      /\ entry' = entry /\ pc = "fired"
  BY DEF Insert
<1>2. Len(stack) \in Nat /\ Len(trail) = Len(stack) + 1
  BY <1>1, TypeFacts DEF OnTheWay
<1>3. ASSUME NEW i \in 1 .. Len(stack) + 1
      PROVE  At(i)' = At(i) /\ ListAt(i)' = ListAt(i) /\ EntryAt(i)' = EntryAt(i)
  BY <1>1, <1>2 DEF At, ListAt, EntryAt
<1>4. At(Len(stack) + 2) = ns /\ At(Len(stack) + 2)' = ns'
  BY <1>1, <1>2 DEF At
<1> QED BY <1>1, <1>2, <1>3, <1>4

(* A push opens a level, those below stay.                                 *)
LEMMA PushLevels ==
  ASSUME IType, Push
  PROVE  /\ Len(trail) = Len(stack) + 1 /\ Len(stack') = Len(stack) + 1
         /\ trail' = trail /\ ns' = ns
         /\ \A i \in 1 .. Len(stack) + 2 : At(i)' = At(i)
         /\ \A i \in 1 .. Len(stack) + 1 : /\ ListAt(i)' = ListAt(i)
                                           /\ EntryAt(i)' = EntryAt(i)
         /\ At(Len(stack) + 2) = ns
         /\ ListAt(Len(stack) + 1)' = firelist'
         /\ EntryAt(Len(stack) + 1)' = entry'
<1> DEFINE e == [fl |-> firelist, current |-> entry]
<1>1. trail' = trail /\ ns' = ns /\ stack' = Append(stack, e) /\ pc = "inserted"
  BY DEF Push
<1>2. /\ Len(stack) \in Nat /\ Len(trail) = Len(stack) + 1
      /\ stack \in Seq(StackEntry)
  BY <1>1, TypeFacts DEF OnTheWay
<1>3. e \in StackEntry /\ e.fl = firelist /\ e.current = entry
  BY TypeFacts DEF StackEntry
<1> HIDE DEF e
<1>4. /\ Len(stack') = Len(stack) + 1
      /\ \A i \in 1 .. Len(stack) : stack'[i] = stack[i]
      /\ stack'[Len(stack) + 1] = e
  BY <1>1, <1>2, <1>3, SeqGrows
<1>5. ASSUME NEW i \in 1 .. Len(stack) + 2
      PROVE  At(i)' = At(i)
  BY <1>1 DEF At
<1>6. ASSUME NEW i \in 1 .. Len(stack) + 1
      PROVE  ListAt(i)' = ListAt(i) /\ EntryAt(i)' = EntryAt(i)
  <2>1. i \in 1 .. Len(stack) \/ i = Len(stack) + 1
    BY <1>2
  <2> QED BY <1>2, <1>3, <1>4, <2>1 DEF ListAt, EntryAt
<1>7. /\ At(Len(stack) + 2) = ns /\ ListAt(Len(stack) + 1)' = firelist'
      /\ EntryAt(Len(stack) + 1)' = entry'
  BY <1>2, <1>4 DEF At, ListAt, EntryAt
<1> QED BY <1>1, <1>2, <1>4, <1>5, <1>6, <1>7

(* A backtrack closes a level, those below stay.                           *)
LEMMA BacktrackLevels ==
  ASSUME IType, Backtrack, ns' = trail[Len(trail)]
  PROVE  /\ Len(trail) = Len(stack) /\ Len(stack) \in Nat \ {0}
         /\ Len(trail') = Len(stack) - 1 /\ Len(stack') = Len(stack) - 1
         /\ \A i \in 1 .. Len(stack) - 1 : trail'[i] = trail[i]
         /\ \A i \in 1 .. Len(stack) : /\ At(i)' = At(i)
                                       /\ ListAt(i)' = ListAt(i)
                                       /\ EntryAt(i)' = EntryAt(i)
         /\ At(Len(stack) + 1) = ns
         /\ ListAt(Len(stack) + 1) = firelist
         /\ EntryAt(Len(stack) + 1) = 0
<1>1. /\ trail' = SubSeq(trail, 1, Len(trail) - 1)
      /\ stack' = SubSeq(stack, 1, Len(stack) - 1) /\ stack # <<>>
      /\ firelist' = stack[Len(stack)].fl /\ entry' = stack[Len(stack)].current
      /\ pc = "loop" /\ entry = 0
  BY DEF Backtrack
<1>2. /\ Len(stack) \in Nat /\ Len(trail) = Len(stack)
      /\ trail \in Seq(NetStateType) /\ stack \in Seq(StackEntry)
  <2>1. ~OnTheWay
    BY <1>1 DEF OnTheWay
  <2> QED BY <2>1, TypeFacts, Lengths
<1>3. Len(stack) # 0 /\ Len(trail) # 0
  BY <1>1, <1>2, EmptySeq
<1>4. /\ Len(trail') = Len(trail) - 1
      /\ \A i \in 1 .. Len(trail) - 1 : trail'[i] = trail[i]
  BY <1>1, <1>2, <1>3, SeqShrinks
<1>5. /\ Len(stack') = Len(stack) - 1
      /\ \A i \in 1 .. Len(stack) - 1 : stack'[i] = stack[i]
  BY <1>1, <1>2, <1>3, SeqShrinks
<1>6. ASSUME NEW i \in 1 .. Len(stack)
      PROVE  At(i)' = At(i) /\ ListAt(i)' = ListAt(i) /\ EntryAt(i)' = EntryAt(i)
  <2>1. i \in 1 .. Len(stack) - 1 \/ i = Len(stack)
    BY <1>2
  <2>2. CASE i = Len(stack)
    BY <1>1, <1>2, <1>3, <1>4, <1>5, <2>2 DEF At, ListAt, EntryAt
  <2>3. CASE i \in 1 .. Len(stack) - 1
    BY <1>2, <1>4, <1>5, <2>3 DEF At, ListAt, EntryAt
  <2> QED BY <2>1, <2>2, <2>3
<1>7. /\ At(Len(stack) + 1) = ns /\ ListAt(Len(stack) + 1) = firelist
      /\ EntryAt(Len(stack) + 1) = 0
  BY <1>1, <1>2 DEF At, ListAt, EntryAt
<1> QED BY <1>2, <1>3, <1>4, <1>5, <1>6, <1>7
-----------------------------------------------------------------------------
(* Undoing a step leads back to the net state it started from.             *)
LEMMA KnownRestores ==
  ASSUME IType, IChain, Known
  PROVE  ns' = trail[Len(trail)]
<1> DEFINE n == trail[Len(trail)]
<1>1. pc = "fired" /\ ns' = Backfire(ns, Fired)
  BY DEF Known
<1>2. OnTheWay
  BY <1>1 DEF OnTheWay
<1>3. /\ Len(trail) = Len(stack) + 1 /\ Len(stack) \in Nat
      /\ ns \in NetStateType /\ Fired \in Transition
  BY <1>2, TypeFacts, TakenTransition
<1>4. Len(trail) \in 1 .. Len(trail) /\ n \in NetStateType
  <2>1. Len(trail) \in 1 .. Len(trail)
    BY <1>3
  <2> QED BY <2>1, TypeFacts
<1>5. Taken(Len(trail)) = Fired /\ At(Len(trail) + 1) = ns
  BY <1>3 DEF Taken, ListAt, EntryAt, Fired, At
<1>6. LeadsTo(n, Fired, ns)
  BY <1>4, <1>5 DEF IChain
<1>7. ns.Enabled = n.Enabled /\ ns.CardEnabled = n.CardEnabled
  BY <1>1 DEF IChain
<1> HIDE DEF n
<1>8. /\ ns' \in NetStateType
      /\ ns'.Current = n.Current /\ ns'.HashCurrent = n.HashCurrent
      /\ ns'.Enabled = n.Enabled /\ ns'.CardEnabled = n.CardEnabled
  BY <1>1, <1>3, <1>4, <1>6, <1>7, BackfireUndoesFire DEF LeadsTo
<1>9. ns' = n
  BY <1>4, <1>8 DEF NetStateType
<1> QED BY <1>9 DEF n

(* A backtrack over the stack restores the whole net state.                *)
LEMMA BacktrackRestoresState ==
  ASSUME IType, IChain, Backtrack
  PROVE  ns' = trail[Len(trail)]
<1> DEFINE n == trail[Len(trail)]
           t == StackTransition(Len(stack))
           b == Backfire(ns, t)
<1>1. /\ pc = "loop" /\ stack # <<>> /\ ns' = RevertEnabled(b, t)
  BY DEF Backtrack, StackTransition
<1>2. ~OnTheWay
  BY <1>1 DEF OnTheWay
<1>3. /\ Len(trail) = Len(stack) /\ Len(stack) \in Nat
      /\ ns \in NetStateType /\ stack \in Seq(StackEntry)
  BY <1>2, TypeFacts, Lengths
<1>4. Len(stack) \in 1 .. Len(stack)
  <2>1. Len(stack) # 0
    BY <1>1, <1>3, EmptySeq
  <2> QED BY <1>3, <2>1
<1>5. n \in NetStateType /\ t \in Transition
  BY <1>3, <1>4, TypeFacts, TakenTransition
<1>6. Taken(Len(trail)) = t /\ At(Len(trail) + 1) = ns
  BY <1>3, <1>4 DEF Taken, ListAt, EntryAt, StackTransition, At
<1>7. LeadsTo(n, t, ns) /\ EnabledExact(n) /\ EnabledExact(ns)
  BY <1>1, <1>3, <1>4, <1>6 DEF IChain
<1> HIDE DEF n, t
<1>8. /\ b \in NetStateType
      /\ b.Current = n.Current /\ b.HashCurrent = n.HashCurrent
      /\ b.Enabled = ns.Enabled /\ b.CardEnabled = ns.CardEnabled
  BY <1>3, <1>5, <1>7, BackfireUndoesFire DEF LeadsTo
<1>9. ns.Current = MarkingAfter(b.Current, t)
  BY <1>5, <1>7, <1>8, FireIsTokenGame DEF LeadsTo
<1> HIDE DEF b
<1>10. LET c == RevertEnabled(b, t) IN
       /\ c \in NetStateType
       /\ EnabledExact(c)
       /\ c.Current = b.Current
       /\ c.HashCurrent = b.HashCurrent
  BY <1>3, <1>5, <1>7, <1>8, <1>9, RevertEnabledExact
<1>11. /\ ns' \in NetStateType /\ EnabledExact(ns')
       /\ ns'.Current = n.Current /\ ns'.HashCurrent = n.HashCurrent
  BY <1>1, <1>8, <1>10
<1>12. ns' = n
  BY <1>5, <1>7, <1>11, ExactIsUnique
<1> QED BY <1>12 DEF n
-----------------------------------------------------------------------------
(* The chain of the next state, from what a step makes of its parts.       *)
LEMMA ChainAfter ==
  ASSUME \A i \in 1 .. Len(trail') : EnabledExact(trail'[i]),
         pc' # "fired" => EnabledExact(ns'),
         pc' = "fired" => /\ ns'.Enabled = trail'[Len(trail')].Enabled
                          /\ ns'.CardEnabled = trail'[Len(trail')].CardEnabled,
         AtBeginning(At(1)'),
         \A i \in 1 .. Len(trail') : LeadsTo(trail'[i], Taken(i)', At(i + 1)'),
         Open' => \A i \in 1 .. Len(stack') + 1 :
                     ListAt(i)' \in FirelistsOf(At(i)')
  PROVE  IChain'
  BY DEF IChain

(* IChain holds in the beginning.                                          *)
LEMMA InitChain == Init => IChain
<1> SUFFICES ASSUME Init PROVE IChain
  OBVIOUS
<1>1. /\ trail = <<>> /\ Len(trail) = 0 /\ pc = "start"
      /\ ns = InitialNetState(InitialMarking)
  BY EmptySeq DEF Init
<1>2. EnabledExact(ns) /\ AtBeginning(ns)
  BY <1>1, BeginningExact DEF AtBeginning
<1>3. At(1) = ns /\ ~Open
  BY <1>1 DEF At, Open
<1> QED BY <1>1, <1>2, <1>3 DEF IChain

(* The parts of IChain, and the types they need.                           *)
LEMMA ChainFacts ==
  ASSUME IType, IType', IChain
  PROVE  /\ \A i \in 1 .. Len(trail) : EnabledExact(trail[i])
         /\ pc # "fired" => EnabledExact(ns)
         /\ AtBeginning(At(1))
         /\ \A i \in 1 .. Len(trail) : LeadsTo(trail[i], Taken(i), At(i + 1))
         /\ Open => \A i \in 1 .. Len(stack) + 1 :
                       ListAt(i) \in FirelistsOf(At(i))
         /\ ns \in NetStateType /\ ns' \in NetStateType
         /\ Len(stack) \in Nat /\ Len(trail) \in Nat
         /\ Len(stack') \in Nat /\ Len(trail') \in Nat
         /\ \A i \in Nat : ListAt(i)' = ListAt(i) /\ EntryAt(i)' = EntryAt(i)
                             => Taken(i)' = Taken(i)
<1>1. /\ stack' \in Seq(StackEntry) /\ trail' \in Seq(NetStateType)
      /\ ns' \in NetStateType
  BY DEF IType, TypeOK
<1>2. Len(stack') \in Nat /\ Len(trail') \in Nat
  BY <1>1, LenProperties
<1>3. \A i \in Nat : ListAt(i)' = ListAt(i) /\ EntryAt(i)' = EntryAt(i)
                      => Taken(i)' = Taken(i)
  BY DEF Taken
<1>4. ns \in NetStateType /\ Len(stack) \in Nat /\ Len(trail) \in Nat
  BY TypeFacts
<1> QED BY <1>1, <1>2, <1>3, <1>4 DEF IChain

(* The initial marking begins the chain.                                   *)
LEMMA StartChain ==
  ASSUME IType, IType', IChain, Start
  PROVE  IChain'
<1>1. /\ ns' = ns /\ stack' = stack /\ trail' = trail /\ pc = "start"
      /\ stack = <<>>
  BY DEF Start, IType
<1>2. Len(stack) = 0 /\ Len(trail) = 0
  <2>1. ~OnTheWay
    BY <1>1 DEF OnTheWay
  <2> QED BY <1>1, <2>1, Lengths, EmptySeq
<1>3. /\ pc' \in {"loop", "returned"}
      /\ pc' = "loop" => firelist' \in FirelistsOf(ns)
  BY DEF Start, Expand
<1>4. At(1) = ns /\ At(1)' = ns /\ ListAt(1)' = firelist'
  BY <1>1, <1>2 DEF At, ListAt
<1>5. Open' => \A i \in 1 .. Len(stack') + 1 : ListAt(i)' \in FirelistsOf(At(i)')
  <2> SUFFICES ASSUME Open', NEW i \in 1 .. Len(stack') + 1
               PROVE  ListAt(i)' \in FirelistsOf(At(i)')
    OBVIOUS
  <2>1. i = 1 /\ pc' = "loop"
    BY <1>1, <1>2, <1>3 DEF Open
  <2> QED BY <1>3, <1>4, <2>1
<1>6. EnabledExact(ns) /\ AtBeginning(At(1))
  BY <1>1, ChainFacts
<1> QED BY <1>1, <1>2, <1>3, <1>4, <1>5, <1>6, ChainAfter

(* A step leads on from the current level.                                 *)
LEMMA FireNextChain ==
  ASSUME IType, IType', IChain, ~overflowed', FireNext
  PROVE  IChain'
<1> DEFINE K == Len(stack)
           t == firelist[entry]
<1>1. /\ entry > 0 /\ ns' = Fire(ns, t) /\ pc = "loop" /\ pc' = "fired"
      /\ ~Overflows(ns.Current, t) /\ stack' = stack
  BY DEF FireNext
<1>2. /\ Len(trail) = K /\ Len(trail') = K + 1
      /\ \A i \in 1 .. K : trail'[i] = trail[i]
      /\ trail'[K + 1] = ns
      /\ \A i \in 1 .. K + 1 : At(i)' = At(i) /\ ListAt(i)' = ListAt(i)
      /\ At(K + 1) = ns
      /\ \A i \in 1 .. K : EntryAt(i)' = EntryAt(i)
      /\ ListAt(K + 1) = firelist
  BY FireNextLevels
<1>3. K \in Nat /\ entry \in Nat
  BY TypeFacts
<1>4. \A i : i = K + 2 => At(i)' = ns'
  BY <1>2, <1>3 DEF At
<1>5. \A i : i = K + 1 => Taken(i)' = t
  <2> SUFFICES ASSUME NEW i, i = K + 1 PROVE Taken(i)' = t
    OBVIOUS
  <2>1. EntryAt(K + 1)' = entry - 1
    BY FireNextLevels
  <2>2. ListAt(i)' = firelist /\ EntryAt(i)' = entry - 1
    BY <1>1, <1>2, <1>3, <2>1
  <2> QED BY <1>3, <2>2 DEF Taken
<1>6. firelist \in FirelistsOf(ns) /\ entry \in 1 .. Len(firelist)
  <2>1. K + 1 \in 1 .. K + 1 /\ Open
    BY <1>1, <1>3 DEF Open
  <2>2. ListAt(K + 1) \in FirelistsOf(At(K + 1))
    BY <2>1, ChainFacts
  <2>3. entry <= Len(firelist) /\ Len(firelist) \in Nat
    BY TypeFacts
  <2> QED BY <1>1, <1>2, <1>3, <2>2, <2>3
<1>7. ns \in NetStateType /\ EnabledExact(ns)
  BY <1>1, ChainFacts
<1>8. t \in Flagged(ns)
  BY <1>6, <1>7, FirelistFacts
<1>9. t \in Transition /\ Activated(ns.Current, t)
  BY <1>7, <1>8 DEF EnabledExact, Flagged, EnabledSet
<1>10. /\ LeadsTo(ns, t, ns')
       /\ ns'.Enabled = ns.Enabled /\ ns'.CardEnabled = ns.CardEnabled
  BY <1>1, <1>7, <1>9, FireType DEF LeadsTo
<1> HIDE DEF K, t
<1>11. \A i \in 1 .. Len(trail') : EnabledExact(trail'[i])
  <2> SUFFICES ASSUME NEW i \in 1 .. K + 1 PROVE EnabledExact(trail'[i])
    BY <1>2
  <2>1. i \in 1 .. K \/ i = K + 1
    BY <1>3
  <2>2. CASE i \in 1 .. K
    BY <1>2, <2>2, ChainFacts
  <2> QED BY <1>2, <1>7, <2>1, <2>2
<1>12. \A i \in 1 .. Len(trail') : LeadsTo(trail'[i], Taken(i)', At(i + 1)')
  <2> SUFFICES ASSUME NEW i \in 1 .. K + 1
               PROVE  LeadsTo(trail'[i], Taken(i)', At(i + 1)')
    BY <1>2
  <2>1. CASE i \in 1 .. K
    <3>1. i + 1 \in 1 .. K + 1 /\ i \in 1 .. K + 1 /\ i \in Nat
      BY <1>3, <2>1
    <3>2. Taken(i)' = Taken(i) /\ trail'[i] = trail[i] /\ At(i + 1)' = At(i + 1)
      BY <1>2, <2>1, <3>1, ChainFacts
    <3>3. LeadsTo(trail[i], Taken(i), At(i + 1))
      BY <1>2, <2>1, ChainFacts
    <3> QED BY <3>2, <3>3
  <2>2. CASE i = K + 1
    <3>1. i + 1 = K + 2
      BY <1>3, <2>2
    <3>2. At(i + 1)' = ns' /\ Taken(i)' = t /\ trail'[i] = ns
      BY <1>2, <1>4, <1>5, <2>2, <3>1
    <3> QED BY <1>10, <3>2
  <2> QED BY <1>3, <2>1, <2>2
<1>13. Open' => \A i \in 1 .. Len(stack') + 1 : ListAt(i)' \in FirelistsOf(At(i)')
  <2>1. Open /\ Len(stack') = K
    BY <1>1 DEF Open, K
  <2>2. \A i \in 1 .. K + 1 : ListAt(i) \in FirelistsOf(At(i))
    BY <2>1, ChainFacts DEF K
  <2> QED BY <1>2, <2>1, <2>2
<1>14. AtBeginning(At(1)')
  <2>1. 1 \in 1 .. K + 1
    BY <1>3
  <2>2. At(1)' = At(1)
    BY <1>2, <2>1
  <2> QED BY <2>2, ChainFacts
<1>15. ns'.Enabled = trail'[Len(trail')].Enabled
       /\ ns'.CardEnabled = trail'[Len(trail')].CardEnabled
  BY <1>2, <1>10
<1> QED BY <1>1, <1>11, <1>12, <1>13, <1>14, <1>15, ChainAfter

(* The levels that remain after a step back form a chain.                  *)
LEMMA ShorterChain ==
  ASSUME IType, IType', IChain, ns' = trail[Len(trail)],
         Len(trail) \in Nat \ {0}, Len(trail') = Len(trail) - 1,
         Len(stack') = Len(trail'), pc' = "loop",
         \A i \in 1 .. Len(trail) - 1 : trail'[i] = trail[i],
         \A i \in 1 .. Len(trail) : /\ At(i)' = At(i)
                                    /\ ListAt(i)' = ListAt(i)
                                    /\ EntryAt(i)' = EntryAt(i),
         \A i \in 1 .. Len(trail) : ListAt(i) \in FirelistsOf(At(i))
  PROVE  IChain'
<1> DEFINE L == Len(trail)
<1>1. L \in Nat \ {0} /\ Len(trail') = L - 1
  OBVIOUS
<1> HIDE DEF L
<1>2. \A i \in 1 .. Len(trail') : EnabledExact(trail'[i])
  <2> SUFFICES ASSUME NEW i \in 1 .. L - 1 PROVE EnabledExact(trail'[i])
    BY <1>1
  <2>1. i \in 1 .. L /\ trail'[i] = trail[i]
    BY <1>1 DEF L
  <2> QED BY <2>1, ChainFacts DEF L
<1>3. EnabledExact(ns')
  <2>1. L \in 1 .. L
    BY <1>1
  <2> QED BY <2>1, ChainFacts DEF L
<1>4. AtBeginning(At(1)')
  <2>1. 1 \in 1 .. L
    BY <1>1
  <2>2. At(1)' = At(1)
    BY <2>1 DEF L
  <2> QED BY <2>2, ChainFacts
<1>5. \A i \in 1 .. Len(trail') : LeadsTo(trail'[i], Taken(i)', At(i + 1)')
  <2> SUFFICES ASSUME NEW i \in 1 .. L - 1
               PROVE  LeadsTo(trail'[i], Taken(i)', At(i + 1)')
    BY <1>1
  <2>1. i \in 1 .. L /\ i + 1 \in 1 .. L /\ i \in Nat
    BY <1>1
  <2>2. Taken(i)' = Taken(i) /\ trail'[i] = trail[i] /\ At(i + 1)' = At(i + 1)
    BY <2>1, ChainFacts DEF L
  <2>3. LeadsTo(trail[i], Taken(i), At(i + 1))
    BY <2>1, ChainFacts DEF L
  <2> QED BY <2>2, <2>3
<1>6. \A i \in 1 .. Len(stack') + 1 : ListAt(i)' \in FirelistsOf(At(i)')
  <2> SUFFICES ASSUME NEW i \in 1 .. Len(stack') + 1
               PROVE  ListAt(i)' \in FirelistsOf(At(i)')
    OBVIOUS
  <2>1. i \in 1 .. L
    BY <1>1
  <2> QED BY <2>1 DEF L
<1> QED BY <1>2, <1>3, <1>4, <1>5, <1>6, ChainAfter

(* A known marking is dropped from the chain.                              *)
LEMMA KnownChain ==
  ASSUME IType, IType', IChain, Known
  PROVE  IChain'
<1>1. ns' = trail[Len(trail)]
  BY KnownRestores
<1>2. /\ Len(trail) = Len(stack) + 1 /\ Len(trail') = Len(stack)
      /\ Len(stack') = Len(stack)
      /\ \A i \in 1 .. Len(stack) : trail'[i] = trail[i]
      /\ \A i \in 1 .. Len(stack) + 1 : /\ At(i)' = At(i)
                                        /\ ListAt(i)' = ListAt(i)
                                        /\ EntryAt(i)' = EntryAt(i)
  BY <1>1, KnownLevels
<1>3. Len(stack) \in Nat
  BY TypeFacts
<1>4. /\ Len(trail) \in Nat \ {0} /\ Len(trail') = Len(trail) - 1
      /\ Len(trail) - 1 = Len(stack)
  BY <1>2, <1>3
<1>5. pc = "fired" /\ pc' = "loop"
  BY DEF Known
<1>6. \A i \in 1 .. Len(trail) : ListAt(i) \in FirelistsOf(At(i))
  <2>1. Open
    BY <1>5 DEF Open
  <2> QED BY <1>2, <2>1, ChainFacts
<1> QED BY <1>1, <1>2, <1>4, <1>5, <1>6, ShorterChain

(* A backtrack drops the last level from the chain.                        *)
LEMMA BacktrackChain ==
  ASSUME IType, IType', IChain, Backtrack
  PROVE  IChain'
<1>1. ns' = trail[Len(trail)]
  BY BacktrackRestoresState
<1>2. /\ Len(trail) = Len(stack) /\ Len(stack) \in Nat \ {0}
      /\ Len(trail') = Len(stack) - 1 /\ Len(stack') = Len(stack) - 1
      /\ \A i \in 1 .. Len(stack) - 1 : trail'[i] = trail[i]
      /\ \A i \in 1 .. Len(stack) : /\ At(i)' = At(i)
                                    /\ ListAt(i)' = ListAt(i)
                                    /\ EntryAt(i)' = EntryAt(i)
  BY <1>1, BacktrackLevels
<1>3. pc = "loop" /\ pc' = "loop"
  BY DEF Backtrack
<1>4. \A i \in 1 .. Len(trail) : ListAt(i) \in FirelistsOf(At(i))
  <2>1. Open
    BY <1>3 DEF Open
  <2>2. \A i \in 1 .. Len(stack) + 1 : ListAt(i) \in FirelistsOf(At(i))
    BY <2>1, ChainFacts
  <2>3. \A i \in 1 .. Len(stack) : i \in 1 .. Len(stack) + 1
    BY <1>2
  <2> QED BY <1>2, <2>2, <2>3
<1> QED BY <1>1, <1>2, <1>3, <1>4, ShorterChain

(* Updated enabledness is exact in the new marking.                        *)
LEMMA InsertChain ==
  ASSUME IType, IType', IChain, Insert
  PROVE  IChain'
<1> DEFINE K == Len(stack)
           n == trail[Len(trail)]
<1>1. /\ pc = "fired" /\ pc' = "inserted" /\ ns' = UpdateEnabled(ns, Fired)
      /\ firelist' = firelist /\ entry' = entry
  BY DEF Insert
<1>2. /\ Len(trail) = K + 1 /\ trail' = trail /\ stack' = stack
      /\ \A i \in 1 .. K + 1 : /\ At(i)' = At(i)
                               /\ ListAt(i)' = ListAt(i)
                               /\ EntryAt(i)' = EntryAt(i)
      /\ At(K + 2) = ns /\ At(K + 2)' = ns'
  BY InsertLevels
<1>3. K \in Nat /\ ns \in NetStateType /\ Fired \in Transition
  <2>1. OnTheWay
    BY <1>1 DEF OnTheWay
  <2> QED BY <2>1, TypeFacts, TakenTransition
<1>4. K + 1 \in 1 .. K + 1 /\ n \in NetStateType /\ n = trail[K + 1]
  <2>1. K + 1 \in 1 .. K + 1
    BY <1>3
  <2> QED BY <1>2, <2>1, TypeFacts
<1>5. Taken(K + 1) = Fired
  BY <1>3 DEF Taken, ListAt, EntryAt, Fired
<1>6. LeadsTo(n, Fired, ns) /\ EnabledExact(n)
  <2>1. LeadsTo(trail[K + 1], Taken(K + 1), At(K + 2))
    <3>1. (K + 1) + 1 = K + 2
      BY <1>3
    <3>2. LeadsTo(trail[K + 1], Taken(K + 1), At((K + 1) + 1))
      BY <1>2, <1>4, ChainFacts
    <3> QED BY <3>1, <3>2
  <2>2. EnabledExact(trail[K + 1])
    BY <1>2, <1>4, ChainFacts
  <2> QED BY <1>2, <1>4, <1>5, <2>1, <2>2
<1>7. ns.Enabled = n.Enabled /\ ns.CardEnabled = n.CardEnabled
  BY <1>1 DEF IChain
<1>8. \A i \in 1 .. K + 1 : ListAt(i) \in FirelistsOf(At(i))
  <2>1. Open
    BY <1>1 DEF Open
  <2> QED BY <2>1, ChainFacts
<1> HIDE DEF K, n
<1>9. ns.Current = MarkingAfter(n.Current, Fired)
  BY <1>3, <1>4, <1>6, FireIsTokenGame DEF LeadsTo
<1>10. LET c == UpdateEnabled(ns, Fired) IN
       /\ EnabledExact(c)
       /\ c.Current = ns.Current
       /\ c.HashCurrent = ns.HashCurrent
  BY <1>3, <1>4, <1>6, <1>7, <1>9, UpdateEnabledExact
<1>11. EnabledExact(ns') /\ LeadsTo(n, Fired, ns')
  BY <1>1, <1>6, <1>10 DEF LeadsTo
<1>12. \A i \in 1 .. Len(trail') : EnabledExact(trail'[i])
  BY <1>2, ChainFacts
<1>13. AtBeginning(At(1)')
  <2>1. 1 \in 1 .. K + 1
    BY <1>3
  <2>2. At(1)' = At(1)
    BY <1>2, <2>1
  <2> QED BY <2>2, ChainFacts
<1>14. \A i \in 1 .. Len(trail') : LeadsTo(trail'[i], Taken(i)', At(i + 1)')
  <2> SUFFICES ASSUME NEW i \in 1 .. K + 1
               PROVE  LeadsTo(trail'[i], Taken(i)', At(i + 1)')
    BY <1>2
  <2>1. Taken(i)' = Taken(i) /\ trail'[i] = trail[i] /\ i \in Nat
    BY <1>2, <1>3, ChainFacts
  <2>2. CASE i = K + 1
    <3>1. At(i + 1)' = ns'
      <4>1. i + 1 = K + 2 /\ K' = K
        BY <1>2, <1>3, <2>2 DEF K
      <4> QED BY <1>2, <4>1
    <3> QED BY <1>4, <1>5, <1>11, <2>1, <2>2, <3>1
  <2>3. CASE i \in 1 .. K
    <3>1. i + 1 \in 1 .. K + 1
      BY <1>3, <2>3
    <3>2. At(i + 1)' = At(i + 1)
      BY <1>2, <3>1
    <3>3. LeadsTo(trail[i], Taken(i), At(i + 1))
      BY <1>2, ChainFacts
    <3> QED BY <2>1, <3>2, <3>3
  <2> QED BY <1>3, <2>2, <2>3
<1>15. \A i \in 1 .. Len(stack') + 1 : ListAt(i)' \in FirelistsOf(At(i)')
  <2>1. Len(stack') = K
    BY <1>2 DEF K
  <2> QED BY <1>2, <1>8, <2>1
<1> QED BY <1>1, <1>11, <1>12, <1>13, <1>14, <1>15, ChainAfter

(* The new level has a fire list of its own.                               *)
LEMMA PushChain ==
  ASSUME IType, IType', IChain, Push
  PROVE  IChain'
<1> DEFINE K == Len(stack)
<1>1. /\ pc = "inserted" /\ pc' \in {"loop", "returned"}
      /\ pc' = "loop" => firelist' \in FirelistsOf(ns)
  BY DEF Push, Expand
<1>2. /\ Len(trail) = K + 1 /\ Len(stack') = K + 1 /\ trail' = trail /\ ns' = ns
      /\ \A i \in 1 .. K + 2 : At(i)' = At(i)
      /\ \A i \in 1 .. K + 1 : /\ ListAt(i)' = ListAt(i)
                               /\ EntryAt(i)' = EntryAt(i)
      /\ At(K + 2) = ns
      /\ ListAt(K + 1)' = firelist'
  BY PushLevels
<1>3. K \in Nat
  BY TypeFacts
<1>4. \A i : i = K + 2 => ListAt(i)' = firelist'
  BY <1>2, <1>3 DEF ListAt
<1>5. \A i \in 1 .. K + 1 : ListAt(i) \in FirelistsOf(At(i))
  <2>1. Open
    BY <1>1 DEF Open
  <2> QED BY <2>1, ChainFacts
<1> HIDE DEF K
<1>6. /\ \A i \in 1 .. Len(trail') : EnabledExact(trail'[i])
      /\ EnabledExact(ns')
  BY <1>1, <1>2, ChainFacts
<1>7. AtBeginning(At(1)')
  <2>1. 1 \in 1 .. K + 2
    BY <1>3
  <2>2. At(1)' = At(1)
    BY <1>2, <2>1
  <2> QED BY <2>2, ChainFacts
<1>8. \A i \in 1 .. Len(trail') : LeadsTo(trail'[i], Taken(i)', At(i + 1)')
  <2> SUFFICES ASSUME NEW i \in 1 .. K + 1
               PROVE  LeadsTo(trail'[i], Taken(i)', At(i + 1)')
    BY <1>2
  <2>1. Taken(i)' = Taken(i) /\ trail'[i] = trail[i]
    BY <1>2, <1>3, ChainFacts
  <2>2. At(i + 1)' = At(i + 1)
    <3>1. i + 1 \in 1 .. K + 2
      BY <1>3
    <3> QED BY <1>2, <3>1
  <2>3. LeadsTo(trail[i], Taken(i), At(i + 1))
    BY <1>2, ChainFacts
  <2> QED BY <2>1, <2>2, <2>3
<1>9. Open' => \A i \in 1 .. Len(stack') + 1 : ListAt(i)' \in FirelistsOf(At(i)')
  <2> SUFFICES ASSUME Open', NEW i \in 1 .. K + 2
               PROVE  ListAt(i)' \in FirelistsOf(At(i)')
    BY <1>2, <1>3
  <2>1. pc' = "loop"
    BY <1>1 DEF Open
  <2>2. CASE i = K + 2
    BY <1>1, <1>2, <1>4, <2>1, <2>2
  <2>3. CASE i \in 1 .. K + 1
    BY <1>2, <1>5, <2>3
  <2> QED BY <1>3, <2>2, <2>3
<1> QED BY <1>1, <1>6, <1>7, <1>8, <1>9, ChainAfter

(* Every step without overflow keeps IChain.                               *)
LEMMA StepChain ==
  ASSUME IType, IType', IChain, ~overflowed', Next
  PROVE  IChain'
<1>1. CASE Exhausted \/ Return
  <2>1. /\ UNCHANGED <<ns, stack, firelist, entry, trail>>
        /\ pc # "fired" /\ pc' = "returned"
    BY <1>1 DEF Exhausted, Return, Returned, vars
  <2> QED BY <2>1 DEF IChain, Open, At, Taken, ListAt, EntryAt
<1> QED BY <1>1, StartChain, FireNextChain, KnownChain, InsertChain, PushChain,
           BacktrackChain DEF Next
-----------------------------------------------------------------------------
(* What ICover says while the search is open.                              *)
LEMMA CoverFacts ==
  ASSUME IType, IChain, ICover, Open
  PROVE  /\ ~value
         /\ store \subseteq Markings /\ ns.Current \in Markings
         /\ \A i \in Levels : At(i).Current \in store
         /\ \A m \in store : Done(m) \/ \E i \in Levels : m = At(i).Current
         /\ \A m \in store : m \in Goal => pc = "inserted" /\ m = ns.Current
         /\ \A i \in 1 .. Len(stack) + 1 : \A j \in Explored(i) :
               MarkingAfter(At(i).Current, ListAt(i)[j]) \in store
         /\ \A i \in 1 .. Len(stack) + 1 : ListAt(i) \in FirelistsOf(At(i))
  BY DEF ICover, IChain

(* ICover after a step that does not end the search.                       *)
LEMMA CoverAfter ==
  ASSUME store' \subseteq Markings, ns'.Current \in Markings, Open', ~value',
         \A i \in Levels' : At(i)'.Current \in store',
         \A m \in store' : Done(m)' \/ \E i \in Levels' : m = At(i)'.Current,
         \A m \in store' : m \in Goal => pc' = "inserted" /\ m = ns'.Current,
         \A i \in 1 .. Len(stack') + 1 : \A j \in Explored(i)' :
            MarkingAfter(At(i)'.Current, ListAt(i)'[j]) \in store'
  PROVE  ICover'
<1>1. ~Returned'
  BY DEF Open, Returned
<1> QED BY <1>1 DEF ICover

(* A marking stays done when the store grows.                              *)
LEMMA DoneGrows ==
  ASSUME NEW m, store \subseteq store', Done(m)
  PROVE  Done(m)'
<1>1. \A t \in EnabledSet(m) : MarkingAfter(m, t) \in store'
  BY DEF Done
<1> QED BY <1>1 DEF Done

(* The marking a step that does not overflow leads to, from level i to     *)
(* level i + 1.                                                            *)
LEMMA NextLevel ==
  ASSUME IType, IType', IChain, NEW i \in 1 .. Len(trail)
  PROVE  /\ At(i + 1).Current = MarkingAfter(At(i).Current, Taken(i))
         /\ Taken(i) \in EnabledSet(At(i).Current)
         /\ At(i) \in NetStateType
<1>1. LeadsTo(trail[i], Taken(i), At(i + 1)) /\ trail[i] \in NetStateType
  BY ChainFacts, TypeFacts
<1>2. At(i) = trail[i] /\ i \in Nat /\ Len(stack) \in Nat
      /\ Len(trail) = IF OnTheWay THEN Len(stack) + 1 ELSE Len(stack)
  <2>1. Len(trail) \in Nat /\ Len(stack) \in Nat
    BY TypeFacts
  <2>2. At(i) = trail[i]
    BY <2>1 DEF At
  <2> QED BY <2>1, <2>2, Lengths
<1>3. Taken(i) \in Transition
  <2>1. CASE i <= Len(stack)
    <3>1. Taken(i) = StackTransition(i) /\ i \in 1 .. Len(stack)
      BY <1>2, <2>1 DEF Taken, ListAt, EntryAt, StackTransition
    <3> QED BY <3>1, TakenTransition
  <2>2. CASE ~(i <= Len(stack))
    <3>1. OnTheWay
      BY <1>2, <2>2
    <3>2. Taken(i) = Fired
      BY <2>2 DEF Taken, ListAt, EntryAt, Fired
    <3> QED BY <3>1, <3>2, TakenTransition
  <2> QED BY <2>1, <2>2
<1>4. At(i + 1).Current = MarkingAfter(trail[i].Current, Taken(i))
  BY <1>1, <1>3, FireIsTokenGame DEF LeadsTo
<1> QED BY <1>1, <1>2, <1>3, <1>4 DEF LeadsTo, EnabledSet

(* When the fire list of a marking is finished, the marking is done.       *)
LEMMA TopDone ==
  ASSUME IType, IChain, ICover, pc = "loop", entry = 0
  PROVE  Done(ns.Current)
<1> DEFINE K == Len(stack)
<1>1. Open /\ ~OnTheWay
  BY DEF Open, OnTheWay
<1>2. K \in Nat /\ Len(trail) = K /\ ns \in NetStateType
  BY <1>1, TypeFacts, Lengths
<1>3. At(K + 1) = ns /\ ListAt(K + 1) = firelist /\ EntryAt(K + 1) = 0
  BY <1>2 DEF At, ListAt, EntryAt
<1>4. Explored(K + 1) = 1 .. Len(firelist)
  BY <1>2, <1>3 DEF Explored
<1>5. K + 1 \in 1 .. Len(stack) + 1
  BY <1>2
<1>6. /\ firelist \in FirelistsOf(ns)
      /\ \A j \in 1 .. Len(firelist) :
            MarkingAfter(ns.Current, firelist[j]) \in store
  BY <1>1, <1>3, <1>4, <1>5, CoverFacts
<1>7. Flagged(ns) = EnabledSet(ns.Current)
  BY DEF IChain, EnabledExact
<1>8. ASSUME NEW t \in EnabledSet(ns.Current)
      PROVE  MarkingAfter(ns.Current, t) \in store
  <2>1. PICK j \in 1 .. Len(firelist) : firelist[j] = t
    BY <1>2, <1>6, <1>7, FirelistFacts
  <2> QED BY <1>6, <2>1
<1> QED BY <1>8 DEF Done

(* ICover holds in the beginning.                                          *)
LEMMA InitCover == Init => ICover
<1> SUFFICES ASSUME Init PROVE ICover
  OBVIOUS
<1>1. store = {} /\ pc = "start" /\ ns = InitialNetState(InitialMarking)
  BY DEF Init
<1>2. ns.Current \in Markings
  BY <1>1, BeginningExact, Parameters DEF SearchAssumption
<1> QED BY <1>1, <1>2 DEF ICover, Open, Returned

(* The initial marking is in the store, or the goal.                       *)
LEMMA StartCover ==
  ASSUME IType, IType', IChain, ICover, Start
  PROVE  ICover'
<1>1. /\ ns' = ns /\ stack' = stack /\ trail' = trail /\ pc = "start"
      /\ stack = <<>> /\ store = {} /\ ns = InitialNetState(InitialMarking)
      /\ value' = CheckProperty(ns)
  BY DEF Start, IType
<1>2. Len(stack) = 0 /\ Len(trail) = 0
  <2>1. ~OnTheWay
    BY <1>1 DEF OnTheWay
  <2> QED BY <1>1, <2>1, Lengths, EmptySeq
<1>3. /\ ns.Current = InitialMarking /\ InitialMarking \in Markings
      /\ ns \in NetStateType /\ EnabledExact(ns)
  BY <1>1, BeginningExact, Parameters DEF SearchAssumption
<1>4. value' <=> ns.Current \in Goal
  BY <1>1, <1>3, CheckPropertyExact
<1>5. CASE value'
  <2>1. pc' = "returned" /\ store' = store
    BY <1>5 DEF Start
  <2> QED BY <1>1, <1>3, <1>4, <1>5, <2>1 DEF ICover, Open, Returned
<1>6. CASE ~value'
  <2>1. /\ store' = {ns.Current} /\ pc' = "loop"
        /\ entry' = Len(firelist')
    BY <1>6 DEF Start, Expand
  <2>2. At(1)' = ns /\ Levels' = {1} /\ Open'
    BY <1>1, <1>2, <2>1 DEF At, Levels, Open
  <2>3. Explored(1)' = {}
    <3>1. firelist' \in Seq(Transition)
      BY DEF IType, TypeOK
    <3>2. Len(firelist') \in Nat
      BY <3>1, LenProperties
    <3>3. Explored(1)' = Len(firelist') + 1 .. Len(firelist')
      BY <1>1, <1>2, <2>1 DEF Explored, EntryAt, ListAt
    <3> QED BY <3>2, <3>3
  <2>4. \A i \in 1 .. Len(stack') + 1 : i = 1
    BY <1>1, <1>2
  <2>5. \A i \in 1 .. Len(stack') + 1 : \A j \in Explored(i)' :
            MarkingAfter(At(i)'.Current, ListAt(i)'[j]) \in store'
    BY <2>3, <2>4
  <2> QED BY <1>1, <1>3, <1>4, <1>6, <2>1, <2>2, <2>5, CoverAfter
<1> QED BY <1>5, <1>6

(* Firing leaves the store and what has been explored.                     *)
LEMMA FireNextCover ==
  ASSUME IType, IType', IChain, IChain', ICover, FireNext
  PROVE  ICover'
<1> DEFINE K == Len(stack)
<1>1. /\ pc = "loop" /\ pc' = "fired" /\ stack' = stack /\ store' = store
      /\ value' = value
  BY DEF FireNext
<1>2. Open /\ Open' /\ Levels = 1 .. K + 1 /\ Levels' = 1 .. K + 1
  BY <1>1 DEF Open, Levels
<1>3. /\ Len(trail) = K /\ Len(trail') = K + 1
      /\ \A i \in 1 .. K + 1 : At(i)' = At(i) /\ ListAt(i)' = ListAt(i)
      /\ \A i \in 1 .. K : EntryAt(i)' = EntryAt(i)
      /\ EntryAt(K + 1) = entry /\ EntryAt(K + 1)' = entry - 1
      /\ ListAt(K + 1) = firelist /\ At(K + 1) = ns
  BY FireNextLevels
<1>4. K \in Nat /\ entry \in Nat /\ Len(firelist) \in Nat
  BY TypeFacts
<1>5. ns'.Current \in Markings
  <2>1. K + 1 \in 1 .. Len(trail')
    BY <1>3, <1>4
  <2>2. LeadsTo(trail'[K + 1], Taken(K + 1)', At(K + 2)')
    <3>1. \A i \in 1 .. Len(trail') : LeadsTo(trail'[i], Taken(i)', At(i + 1)')
      BY DEF IChain
    <3>2. (K + 1) + 1 = K + 2 /\ K' = K
      BY <1>1, <1>4
    <3> QED BY <2>1, <3>1, <3>2
  <2>3. trail'[K + 1] = ns /\ At(K + 2)' = ns'
    BY FireNextLevels
  <2>4. Taken(K + 1)' = firelist[entry]
    <3>1. ListAt(K + 1)' = firelist /\ EntryAt(K + 1)' = entry - 1
      <4>1. K' = K /\ K + 1 \in 1 .. K + 1
        BY <1>1, <1>4
      <4> QED BY <1>3, <4>1
    <3>2. (entry - 1) + 1 = entry
      BY <1>4
    <3>3. Taken(K + 1)' = ListAt(K + 1)'[EntryAt(K + 1)' + 1]
      BY DEF Taken
    <3> QED BY <3>1, <3>2, <3>3
  <2>5. firelist[entry] \in Transition
    <3>1. entry > 0 /\ entry <= Len(firelist)
      BY TypeFacts DEF FireNext
    <3>2. entry \in 1 .. Len(firelist)
      BY <1>4, <3>1
    <3> QED BY <3>2, TypeFacts
  <2>6. ns \in NetStateType /\ ns.Current \in Markings
    BY <1>2, TypeFacts, CoverFacts
  <2>7. /\ ns'.Current = MarkingAfter(ns.Current, firelist[entry])
        /\ MarkingAfter(ns.Current, firelist[entry]) \in [Place -> Tokens]
        /\ firelist[entry] \in EnabledSet(ns.Current)
    BY <2>2, <2>3, <2>4, <2>5, <2>6, FireIsTokenGame DEF LeadsTo, EnabledSet
  <2> QED BY <2>6, <2>7, Parameters DEF SearchAssumption
<1>6. \A m \in store' : Done(m)' \/ \E i \in Levels' : m = At(i)'.Current
  <2> SUFFICES ASSUME NEW m \in store', ~Done(m)'
               PROVE  \E i \in Levels' : m = At(i)'.Current
    OBVIOUS
  <2>1. ~Done(m)
    BY <1>1, DoneGrows
  <2>2. PICK i \in Levels : m = At(i).Current
    BY <1>1, <1>2, <2>1, CoverFacts
  <2> QED BY <1>2, <1>3, <2>2
<1>7. \A i \in Levels' : At(i)'.Current \in store'
  BY <1>1, <1>2, <1>3, CoverFacts
<1>8. \A i \in 1 .. Len(stack') + 1 : \A j \in Explored(i)' :
         MarkingAfter(At(i)'.Current, ListAt(i)'[j]) \in store'
  <2> SUFFICES ASSUME NEW i \in 1 .. K + 1
               PROVE  \A j \in Explored(i)' :
                         MarkingAfter(At(i)'.Current, ListAt(i)'[j]) \in store'
    BY <1>1
  <2>1. Explored(i)' = Explored(i)
    <3>1. CASE i \in 1 .. K
      BY <1>3, <1>4, <3>1 DEF Explored
    <3>2. CASE i = K + 1
      <4>1. Explored(i) = entry + 1 .. Len(firelist)
        BY <1>3, <1>4, <3>2 DEF Explored
      <4>2. ListAt(i)' = firelist /\ EntryAt(i)' = entry - 1
        BY <1>1, <1>3, <3>2
      <4>3. Explored(i)' = (entry - 1) + 2 .. Len(firelist)
        BY <1>3, <1>4, <3>2, <4>2 DEF Explored
      <4>4. (entry - 1) + 2 = entry + 1
        BY <1>4
      <4> QED BY <4>1, <4>3, <4>4
    <3> QED BY <1>4, <3>1, <3>2
  <2> QED BY <1>1, <1>2, <1>3, <2>1, CoverFacts
<1>9. store' \subseteq Markings /\ ~value'
      /\ \A m \in store' : m \in Goal => pc' = "inserted" /\ m = ns'.Current
  BY <1>1, <1>2, CoverFacts
<1> QED BY <1>2, <1>5, <1>6, <1>7, <1>8, <1>9, CoverAfter

(* The successor is in the store: its entry is explored.                   *)
LEMMA KnownCover ==
  ASSUME IType, IType', IChain, ICover, Known
  PROVE  ICover'
<1> DEFINE K == Len(stack)
<1>1. /\ pc = "fired" /\ pc' = "loop" /\ stack' = stack /\ store' = store
      /\ value' = value /\ ns.Current \in store
  BY DEF Known
<1>2. Open /\ Open' /\ Levels = 1 .. K + 1 /\ Levels' = 1 .. K + 1
  BY <1>1 DEF Open, Levels
<1>3. /\ Len(trail) = K + 1 /\ Len(trail') = K
      /\ \A i \in 1 .. K + 1 : /\ At(i)' = At(i)
                               /\ ListAt(i)' = ListAt(i)
                               /\ EntryAt(i)' = EntryAt(i)
      /\ EntryAt(K + 1) = entry /\ ListAt(K + 1) = firelist
      /\ At(K + 2) = ns
  BY KnownRestores, KnownLevels
<1>4. K \in Nat /\ entry \in Nat /\ Len(firelist) \in Nat
  BY TypeFacts
<1>5. K + 1 \in 1 .. K + 1
  BY <1>4
<1>6. ns'.Current \in Markings
  <2>1. At(K + 1).Current \in store
    BY <1>2, <1>5, CoverFacts
  <2>2. At(K + 1) = ns'
    <3>1. At(K + 1) = trail[K + 1]
      BY <1>3, <1>4 DEF At
    <3> QED BY <1>3, <3>1, KnownRestores
  <2> QED BY <1>2, <2>1, <2>2, CoverFacts
<1>7. \A m \in store' : Done(m)' \/ \E i \in Levels' : m = At(i)'.Current
  <2> SUFFICES ASSUME NEW m \in store', ~Done(m)'
               PROVE  \E i \in Levels' : m = At(i)'.Current
    OBVIOUS
  <2>1. ~Done(m)
    BY <1>1, DoneGrows
  <2>2. PICK i \in Levels : m = At(i).Current
    BY <1>1, <1>2, <2>1, CoverFacts
  <2> QED BY <1>2, <1>3, <2>2
<1>8. \A i \in Levels' : At(i)'.Current \in store'
  BY <1>1, <1>2, <1>3, CoverFacts
<1>9. \A i \in 1 .. Len(stack') + 1 : \A j \in Explored(i)' :
         MarkingAfter(At(i)'.Current, ListAt(i)'[j]) \in store'
  <2> SUFFICES ASSUME NEW i \in 1 .. K + 1, NEW j \in Explored(i)'
               PROVE  MarkingAfter(At(i)'.Current, ListAt(i)'[j]) \in store'
    BY <1>1
  <2>1. CASE j \in Explored(i)
    BY <1>1, <1>2, <1>3, <2>1, CoverFacts
  <2>2. CASE j \notin Explored(i)
    <3>1. i = K + 1
      <4>1. i \in 1 .. K => Explored(i)' = Explored(i)
        BY <1>3, <1>4 DEF Explored
      <4> QED BY <1>4, <2>2, <4>1
    <3>2. EntryAt(i)' = entry /\ ListAt(i)' = firelist
      BY <1>3, <3>1
    <3>3. Explored(i)' = entry + 1 .. Len(firelist)
      BY <1>3, <1>4, <3>1, <3>2 DEF Explored
    <3>4. Explored(i) = entry + 2 .. Len(firelist)
      BY <1>3, <1>4, <3>1 DEF Explored
    <3>5. j = entry + 1
      BY <1>4, <2>2, <3>3, <3>4
    <3>6. ListAt(i)'[j] = Taken(i)
      BY <1>3, <3>1, <3>2, <3>5 DEF Taken
    <3>7. At(i + 1).Current = MarkingAfter(At(i).Current, Taken(i))
      BY <1>3, NextLevel
    <3>8. At(i + 1) = ns
      BY <1>3, <1>4, <3>1 DEF At
    <3> QED BY <1>1, <1>3, <3>6, <3>7, <3>8
  <2> QED BY <2>1, <2>2
<1>10. store' \subseteq Markings /\ ~value'
       /\ \A m \in store' : m \in Goal => pc' = "inserted" /\ m = ns'.Current
  BY <1>1, <1>2, CoverFacts
<1> QED BY <1>2, <1>6, <1>7, <1>8, <1>9, <1>10, CoverAfter

(* The new marking is in the store, and not done.                          *)
LEMMA InsertCover ==
  ASSUME IType, IType', IChain, ICover, Insert
  PROVE  ICover'
<1> DEFINE K == Len(stack)
<1>1. /\ pc = "fired" /\ pc' = "inserted" /\ stack' = stack
      /\ store' = store \cup {ns.Current} /\ value' = value
      /\ ns' = UpdateEnabled(ns, Fired)
  BY DEF Insert
<1>2. /\ Open /\ Open' /\ Levels = 1 .. K + 1 /\ Levels' = 1 .. K + 2
      /\ OnTheWay
  BY <1>1 DEF Open, Levels, OnTheWay
<1>3. /\ Len(trail) = K + 1 /\ trail' = trail
      /\ \A i \in 1 .. K + 1 : /\ At(i)' = At(i)
                               /\ ListAt(i)' = ListAt(i)
                               /\ EntryAt(i)' = EntryAt(i)
  BY InsertLevels
<1>4. /\ K \in Nat /\ ns \in NetStateType /\ Fired \in Transition
      /\ Counted(ns)
  BY <1>2, TypeFacts, TakenTransition
<1>5. ns'.Current = ns.Current
  <2> DEFINE S1 == {u \in Conflicting[Fired] : ns.Enabled[u]}
             first == CheckEnabled(ns, S1)
             S2 == {u \in BackConflicting[Fired] : ~first.Enabled[u]}
  <2>1. S1 \in SUBSET Transition /\ S2 \in SUBSET Transition
    BY <1>4 DEF Conflicting, BackConflicting, Consumers
  <2>2. /\ first \in NetStateType /\ Counted(first)
        /\ first.Current = ns.Current
    <3> HIDE DEF S1
    <3> QED BY <1>4, <2>1, CheckEnabledExact
  <2>3. CheckEnabled(first, S2).Current = first.Current
    <3> HIDE DEF S2, first
    <3> QED BY <2>1, <2>2, CheckEnabledExact
  <2> QED BY <1>1, <2>2, <2>3 DEF UpdateEnabled
<1>6. store' \subseteq Markings /\ ns'.Current \in Markings
      /\ ns'.Current \in store'
  BY <1>1, <1>2, <1>5, CoverFacts
<1>7. \A i : i = K + 2 => At(i)' = ns'
  BY <1>3, <1>4 DEF At
<1>8. \A m \in store' : Done(m)' \/ \E i \in Levels' : m = At(i)'.Current
  <2> SUFFICES ASSUME NEW m \in store', ~Done(m)'
               PROVE  \E i \in Levels' : m = At(i)'.Current
    OBVIOUS
  <2>1. CASE m = ns.Current
    <3>1. K + 2 \in Levels' /\ At(K + 2)'.Current = m
      <4>1. K + 2 \in 1 .. K + 2 /\ K' = K
        BY <1>1, <1>4
      <4> QED BY <1>2, <1>5, <1>7, <2>1, <4>1
    <3>2. K' = K
      BY <1>1
    <3> QED BY <3>1, <3>2
  <2>2. CASE m # ns.Current
    <3>1. m \in store /\ ~Done(m)
      BY <1>1, <2>2, DoneGrows
    <3>2. PICK i \in 1 .. K + 1 : m = At(i).Current
      BY <1>2, <3>1, CoverFacts
    <3>3. i \in Levels'
      BY <1>2, <1>4
    <3> QED BY <1>3, <3>2, <3>3
  <2> QED BY <2>1, <2>2
<1>9. \A i \in Levels' : At(i)'.Current \in store'
  <2> SUFFICES ASSUME NEW i \in 1 .. K + 2 PROVE At(i)'.Current \in store'
    BY <1>2
  <2>1. CASE i = K + 2
    BY <1>6, <1>7, <2>1
  <2>2. CASE i \in 1 .. K + 1
    BY <1>1, <1>2, <1>3, <2>2, CoverFacts
  <2> QED BY <1>4, <2>1, <2>2
<1>10. \A i \in 1 .. Len(stack') + 1 : \A j \in Explored(i)' :
          MarkingAfter(At(i)'.Current, ListAt(i)'[j]) \in store'
  <2> SUFFICES ASSUME NEW i \in 1 .. K + 1
               PROVE  \A j \in Explored(i)' :
                         MarkingAfter(At(i)'.Current, ListAt(i)'[j]) \in store'
    BY <1>1
  <2>1. Explored(i)' = Explored(i)
    BY <1>3 DEF Explored
  <2>2. At(i)' = At(i) /\ ListAt(i)' = ListAt(i)
    BY <1>3
  <2>3. \A j \in Explored(i) : MarkingAfter(At(i).Current, ListAt(i)[j]) \in store
    BY <1>2, CoverFacts
  <2> QED BY <1>1, <2>1, <2>2, <2>3
<1>11. \A m \in store' : m \in Goal => pc' = "inserted" /\ m = ns'.Current
  BY <1>1, <1>2, <1>5, CoverFacts
<1>12. ~value'
  BY <1>1, <1>2, CoverFacts
<1> QED BY <1>2, <1>6, <1>8, <1>9, <1>10, <1>11, <1>12, CoverAfter

(* The new level has nothing explored; the one below has one entry more on *)
(* the way.                                                                *)
LEMMA PushCover ==
  ASSUME IType, IType', IChain, ICover, Push
  PROVE  ICover'
<1> DEFINE K == Len(stack)
<1>1. /\ pc = "inserted" /\ store' = store /\ ns' = ns
      /\ value' = CheckProperty(ns)
  BY DEF Push
<1>2. Open /\ Levels = 1 .. K + 2
  BY <1>1 DEF Open, Levels
<1>3. /\ Len(trail) = K + 1 /\ Len(stack') = K + 1 /\ trail' = trail
      /\ \A i \in 1 .. K + 2 : At(i)' = At(i)
      /\ \A i \in 1 .. K + 1 : /\ ListAt(i)' = ListAt(i)
                               /\ EntryAt(i)' = EntryAt(i)
      /\ At(K + 2) = ns
  BY PushLevels
<1>4. /\ K \in Nat /\ ns \in NetStateType /\ EnabledExact(ns)
      /\ ns.Current \in Markings
  BY <1>1, <1>2, TypeFacts, CoverFacts DEF IChain
<1>5. value' <=> ns.Current \in Goal
  BY <1>1, <1>4, CheckPropertyExact
<1>6. CASE value'
  <2>1. pc' = "returned"
    BY <1>6 DEF Push
  <2> QED BY <1>1, <1>2, <1>4, <1>5, <1>6, <2>1, CoverFacts
          DEF ICover, Open, Returned
<1>7. CASE ~value'
  <2>1. /\ pc' = "loop" /\ entry' = Len(firelist')
        /\ firelist' \in FirelistsOf(ns)
    BY <1>7 DEF Push, Expand
  <2>2. Open' /\ Levels' = 1 .. K + 2
    <3>1. (K + 1) + 1 = K + 2
      BY <1>4
    <3> QED BY <1>3, <2>1, <3>1 DEF Open, Levels
  <2>3. \A m \in store' : Done(m)' \/ \E i \in Levels' : m = At(i)'.Current
    <3> SUFFICES ASSUME NEW m \in store', ~Done(m)'
                 PROVE  \E i \in Levels' : m = At(i)'.Current
      OBVIOUS
    <3>1. ~Done(m)
      BY <1>1, DoneGrows
    <3>2. PICK i \in Levels : m = At(i).Current
      BY <1>1, <1>2, <3>1, CoverFacts
    <3> QED BY <1>2, <1>3, <2>2, <3>2
  <2>4. \A i \in Levels' : At(i)'.Current \in store'
    BY <1>1, <1>2, <1>3, <2>2, CoverFacts
  <2>5. \A i \in 1 .. Len(stack') + 1 : \A j \in Explored(i)' :
           MarkingAfter(At(i)'.Current, ListAt(i)'[j]) \in store'
    <3> SUFFICES ASSUME NEW i \in 1 .. K + 2, NEW j \in Explored(i)'
                 PROVE  MarkingAfter(At(i)'.Current, ListAt(i)'[j]) \in store'
      BY <1>3, <1>4
    <3>1. CASE i = K + 2
      <4>1. ListAt(i)' = firelist' /\ EntryAt(i)' = entry'
        BY <1>3, <1>4, <3>1 DEF ListAt, EntryAt
      <4>2. Explored(i)' = entry' + 1 .. Len(firelist')
        BY <1>3, <1>4, <3>1, <4>1 DEF Explored
      <4>3. Len(firelist') \in Nat
        BY <1>4, <2>1, FirelistFacts
      <4> QED BY <2>1, <4>2, <4>3
    <3>2. CASE i \in 1 .. K + 1
      <4>1. Explored(i)' = Explored(i)
        BY <1>3, <3>2 DEF Explored
      <4>2. At(i)' = At(i) /\ ListAt(i)' = ListAt(i)
        BY <1>3, <3>2
      <4> QED BY <1>1, <1>2, <3>2, <4>1, <4>2, CoverFacts
    <3> QED BY <1>4, <3>1, <3>2
  <2>6. /\ store' \subseteq Markings /\ ns'.Current \in Markings
        /\ \A m \in store' : m \in Goal => pc' = "inserted" /\ m = ns'.Current
    BY <1>1, <1>2, <1>5, <1>7, CoverFacts
  <2> QED BY <1>7, <2>2, <2>3, <2>4, <2>5, <2>6, CoverAfter
<1> QED BY <1>6, <1>7

(* The level that is closed is done, and its entry below explored.         *)
LEMMA BacktrackCover ==
  ASSUME IType, IType', IChain, ICover, Backtrack
  PROVE  ICover'
<1> DEFINE K == Len(stack)
<1>1. /\ pc = "loop" /\ pc' = "loop" /\ store' = store /\ value' = value
      /\ entry = 0
  BY DEF Backtrack
<1>2. Open /\ Open' /\ Levels = 1 .. K + 1
  BY <1>1 DEF Open, Levels
<1>3. /\ Len(trail) = K /\ K \in Nat \ {0}
      /\ Len(trail') = K - 1 /\ Len(stack') = K - 1
      /\ \A i \in 1 .. K : /\ At(i)' = At(i)
                           /\ ListAt(i)' = ListAt(i)
                           /\ EntryAt(i)' = EntryAt(i)
      /\ At(K + 1) = ns
  BY BacktrackRestoresState, BacktrackLevels
<1>4. Levels' = 1 .. K
  <2>1. (K - 1) + 1 = K
    BY <1>3
  <2> QED BY <1>1, <1>3, <2>1 DEF Levels
<1>5. ns'.Current \in Markings
  <2>1. At(K) = ns' /\ K \in 1 .. K + 1
    BY <1>3, BacktrackRestoresState DEF At
  <2> QED BY <1>2, <2>1, CoverFacts
<1>6. \A m \in store' : Done(m)' \/ \E i \in Levels' : m = At(i)'.Current
  <2> SUFFICES ASSUME NEW m \in store', ~Done(m)'
               PROVE  \E i \in Levels' : m = At(i)'.Current
    OBVIOUS
  <2>1. ~Done(m)
    BY <1>1, DoneGrows
  <2>2. PICK i \in 1 .. K + 1 : m = At(i).Current
    BY <1>1, <1>2, <2>1, CoverFacts
  <2>3. i # K + 1
    BY <1>1, <1>3, <2>1, <2>2, TopDone
  <2>4. i \in 1 .. K
    BY <1>3, <2>3
  <2> QED BY <1>3, <1>4, <2>2, <2>4
<1>7. \A i \in Levels' : At(i)'.Current \in store'
  <2> SUFFICES ASSUME NEW i \in 1 .. K PROVE At(i)'.Current \in store'
    BY <1>4
  <2>1. i \in 1 .. K + 1
    BY <1>3
  <2> QED BY <1>1, <1>2, <1>3, <2>1, CoverFacts
<1>8. \A i \in 1 .. Len(stack') + 1 : \A j \in Explored(i)' :
         MarkingAfter(At(i)'.Current, ListAt(i)'[j]) \in store'
  <2> SUFFICES ASSUME NEW i \in 1 .. K, NEW j \in Explored(i)'
               PROVE  MarkingAfter(At(i)'.Current, ListAt(i)'[j]) \in store'
    BY <1>3
  <2>1. At(i)' = At(i) /\ ListAt(i)' = ListAt(i) /\ EntryAt(i)' = EntryAt(i)
        /\ i \in 1 .. K + 1
    BY <1>3
  <2>2. CASE j \in Explored(i)
    BY <1>1, <1>2, <2>1, <2>2, CoverFacts
  <2>3. CASE j \notin Explored(i)
    <3> DEFINE c == EntryAt(i)
               l == Len(ListAt(i))
    <3>1. Explored(i) = c + 2 .. l
      BY <1>3 DEF Explored
    <3>2. i = K
      <4>1. i \in 1 .. K - 1 => Explored(i)' = c + 2 .. l
        BY <1>3, <2>1 DEF Explored
      <4>2. ~(i \in 1 .. K - 1)
        BY <2>3, <3>1, <4>1
      <4> QED BY <1>3, <4>2
    <3>3. Explored(i)' = c + 1 .. l
      BY <1>3, <2>1, <3>2 DEF Explored
    <3>4. c \in Nat /\ l \in Nat
      <4>1. stack[i] \in StackEntry
        BY TypeFacts
      <4>2. c = stack[i].current /\ ListAt(i) = stack[i].fl
        BY <1>3 DEF EntryAt, ListAt
      <4>3. stack[i].fl \in Seq(Transition) /\ c \in Nat
        BY <4>1, <4>2 DEF StackEntry
      <4> QED BY <4>2, <4>3, LenProperties
    <3>5. j = c + 1
      <4> HIDE DEF c, l
      <4> QED BY <2>3, <3>1, <3>3, <3>4
    <3>6. ListAt(i)'[j] = Taken(i)
      BY <2>1, <3>5 DEF Taken
    <3>7. At(i + 1).Current = MarkingAfter(At(i).Current, Taken(i))
      BY <1>3, NextLevel
    <3>8. At(i + 1).Current \in store
      <4>1. i + 1 \in Levels
        BY <1>2, <1>3
      <4> QED BY <1>2, <4>1, CoverFacts
    <3> QED BY <1>1, <2>1, <3>6, <3>7, <3>8
  <2> QED BY <2>2, <2>3
<1>9. store' \subseteq Markings /\ ~value'
      /\ \A m \in store' : m \in Goal => pc' = "inserted" /\ m = ns'.Current
  BY <1>1, <1>2, CoverFacts
<1> QED BY <1>2, <1>5, <1>6, <1>7, <1>8, <1>9, CoverAfter

(* When the first level is done, everything is.                            *)
LEMMA ExhaustedCover ==
  ASSUME IType, IChain, ICover, Exhausted
  PROVE  ICover'
<1>1. /\ pc = "loop" /\ pc' = "returned" /\ entry = 0 /\ stack = <<>>
      /\ UNCHANGED <<ns, store, value>>
  BY DEF Exhausted
<1>2. Open /\ Len(stack) = 0 /\ Len(trail) = 0
  <2>1. ~OnTheWay
    BY <1>1 DEF OnTheWay
  <2> QED BY <1>1, <2>1, Lengths, EmptySeq DEF Open
<1>3. Levels = {1} /\ At(1) = ns
  BY <1>1, <1>2 DEF Levels, At
<1>4. ns.Current = InitialMarking
  BY <1>3 DEF IChain, AtBeginning
<1>5. Done(ns.Current)
  BY <1>1, TopDone
<1>6. \A m \in store : Done(m) /\ m \notin Goal
  BY <1>1, <1>2, <1>3, <1>5, CoverFacts
<1>7. InitialMarking \in store /\ ~value
  BY <1>2, <1>3, <1>4, CoverFacts
<1>8. \A m \in store : Done(m)'
  BY <1>1, <1>6, DoneGrows
<1>9. store' \cup {ns'.Current} \subseteq Markings
  BY <1>1, <1>2, CoverFacts
<1> QED BY <1>1, <1>6, <1>7, <1>8, <1>9 DEF ICover, Open, Returned

(* Every step without overflow keeps ICover.                               *)
LEMMA StepCover ==
  ASSUME IType, IType', IChain, IChain', ICover, Next
  PROVE  ICover'
<1>1. CASE Return
  BY <1>1 DEF Return, vars, ICover, Open, Returned, Done, Levels, At, ListAt,
     Explored, EntryAt
<1> QED BY <1>1, StartCover, FireNextCover, KnownCover, InsertCover, PushCover,
           BacktrackCover, ExhaustedCover DEF Next
-----------------------------------------------------------------------------
(* The invariant holds in the beginning.                                   *)
LEMMA InitInv == Init => IInv
  BY InitType, InitChain, InitCover DEF IInv

(* Every step keeps the invariant.                                         *)
LEMMA StepInv == IInv /\ [Next]_vars => IInv'
<1> SUFFICES ASSUME IInv, [Next]_vars PROVE IInv'
  OBVIOUS
<1>1. CASE UNCHANGED vars
  <2>1. IType'
    BY <1>1 DEF vars, IInv, IType, TypeOK, OnTheWay, Counted, Flagged
  <2>2. IChain => IChain'
    BY <1>1 DEF vars, IChain, Open, At, Taken, ListAt, EntryAt
  <2>3. ICover => ICover'
    BY <1>1 DEF vars, ICover, Open, Returned, Done, Levels, At, ListAt,
       Explored, EntryAt
  <2>4. overflowed' = overflowed
    BY <1>1 DEF vars
  <2> QED BY <2>1, <2>2, <2>3, <2>4 DEF IInv
<1>2. CASE Next
  <2>1. IType /\ IType'
    BY <1>2, StepType DEF IInv
  <2>2. ASSUME ~overflowed' PROVE ~overflowed
    BY <1>2, <2>2 DEF Next, Start, FireNext, Known, Insert, Push, Backtrack,
       Exhausted, Return, vars
  <2>3. ASSUME ~overflowed' PROVE IChain' /\ ICover'
    <3>1. IChain /\ ICover
      BY <2>2, <2>3 DEF IInv
    <3>2. IChain'
      BY <1>2, <2>1, <2>3, <3>1, StepChain
    <3> QED BY <1>2, <2>1, <3>1, <3>2, StepCover
  <2> QED BY <2>1, <2>3 DEF IInv
<1> QED BY <1>1, <1>2

(* The inductive invariant.                                                *)
THEOREM Invariance == Spec => []IInv
  BY InitInv, StepInv, PTL DEF Spec

(* Transition::updateEnabled and revertEnabled: whatever way the search    *)
(* took, the enabledness it keeps by increments is that of its marking,    *)
(* in every net whose token counts do not wrap around.                     *)
THEOREM EnablednessIsExact == Spec => []EnablednessExact
<1>1. IInv => EnablednessExact
  <2> SUFFICES ASSUME IType, IChain PROVE
        IF pc = "fired"
        THEN /\ EnabledExact(trail[Len(trail)])
             /\ ns.Enabled = trail[Len(trail)].Enabled
             /\ ns.CardEnabled = trail[Len(trail)].CardEnabled
        ELSE EnabledExact(ns)
    BY DEF IInv, IType, EnablednessExact
  <2>1. CASE pc # "fired"
    BY <2>1 DEF IChain
  <2>2. CASE pc = "fired"
    <3>1. OnTheWay
      BY <2>2 DEF OnTheWay
    <3>2. Len(trail) = Len(stack) + 1 /\ Len(stack) \in Nat
      BY <3>1, Lengths, TypeFacts
    <3>3. Len(trail) \in 1 .. Len(trail)
      BY <3>2
    <3> QED BY <2>2, <3>3 DEF IChain
  <2> QED BY <2>1, <2>2
<1> QED BY <1>1, Invariance, PTL

(* Along the chain every hash is that of its marking.                      *)
LEMMA ChainHashes ==
  ASSUME IType, IChain
  PROVE  \A i \in 1 .. Len(trail) + 1 : At(i).HashCurrent = HashOf(At(i).Current)
<1> DEFINE Right(i) == At(i).HashCurrent = HashOf(At(i).Current)
           G == {n \in Nat : n <= Len(trail) => Right(n + 1)}
<1>1. Len(trail) \in Nat
  BY TypeFacts
<1>2. 0 \in G
  BY DEF IChain, AtBeginning
<1>3. ASSUME NEW n \in Nat, n \in G
      PROVE  n + 1 \in G
  <2> SUFFICES ASSUME n + 1 <= Len(trail) PROVE Right((n + 1) + 1)
    BY <1>3
  <2> DEFINE i == n + 1
  <2>1. i \in 1 .. Len(trail) /\ i \in Nat
    BY <1>1
  <2>2. Right(i)
    BY <1>1, <1>3
  <2>3. trail[i] \in NetStateType /\ At(i) = trail[i]
    BY <2>1, TypeFacts DEF At
  <2>4. LeadsTo(At(i), Taken(i), At(i + 1))
    BY <2>1, <2>3 DEF IChain
  <2>5. Taken(i) \in Transition
    <3>1. Len(stack) \in Nat
      BY TypeFacts
    <3>2. i \in 1 .. Len(stack) \/ (OnTheWay /\ i = Len(stack) + 1)
      BY <2>1, <3>1, Lengths
    <3>3. CASE i \in 1 .. Len(stack)
      <4>1. Taken(i) = StackTransition(i)
        BY <3>3 DEF Taken, ListAt, EntryAt, StackTransition
      <4> QED BY <3>3, <4>1, TakenTransition
    <3>4. CASE OnTheWay /\ i = Len(stack) + 1
      <4>1. Taken(i) = Fired
        BY <3>1, <3>4 DEF Taken, ListAt, EntryAt, Fired
      <4> QED BY <3>4, <4>1, TakenTransition
    <3> QED BY <3>2, <3>3, <3>4
  <2> HIDE DEF i
  <2>6. Fire(At(i), Taken(i)).HashCurrent = HashOf(Fire(At(i), Taken(i)).Current)
    BY <2>2, <2>3, <2>4, <2>5, FireHashExact DEF LeadsTo
  <2>7. Right(i + 1)
    BY <2>4, <2>6 DEF LeadsTo
  <2> QED BY <2>7 DEF i
<1>4. Nat \subseteq G
  <2> HIDE DEF G
  <2> QED BY <1>2, <1>3, Numbers
<1> SUFFICES ASSUME NEW i \in 1 .. Len(trail) + 1 PROVE Right(i)
  OBVIOUS
<1>5. i - 1 \in G /\ i - 1 <= Len(trail) /\ (i - 1) + 1 = i
  <2>1. i - 1 \in Nat /\ i - 1 <= Len(trail) /\ (i - 1) + 1 = i
    BY <1>1
  <2> HIDE DEF G
  <2> QED BY <1>4, <2>1
<1> QED BY <1>5

(* Transition::fire and backfire: whatever path led to a marking, the hash *)
(* kept by increments is the hash of that marking, the sum of the place    *)
(* hashes weighted with its tokens, in every net whose token counts do not *)
(* wrap around.                                                            *)
THEOREM HashIsExact == Spec => []HashExact
<1>1. IInv => HashExact
  <2> SUFFICES ASSUME IType, IChain PROVE ns.HashCurrent = HashOf(ns.Current)
    BY DEF IInv, HashExact
  <2>1. Len(trail) + 1 \in 1 .. Len(trail) + 1 /\ At(Len(trail) + 1) = ns
    <3>1. Len(trail) \in Nat
      BY TypeFacts
    <3> QED BY <3>1 DEF At
  <2> QED BY <2>1, ChainHashes
<1> QED BY <1>1, Invariance, PTL

(* Transition::backfire and revertEnabled: a step back restores the whole  *)
(* net state that the step forward left.                                   *)
THEOREM BacktrackingRestores == Spec => BacktrackRestores
<1>1. IInv /\ [Next]_vars =>
        [~overflowed /\ Len(trail') < Len(trail) => ns' = trail[Len(trail)]]_vars
  <2> SUFFICES ASSUME IInv, Next, ~overflowed, Len(trail') < Len(trail)
               PROVE  ns' = trail[Len(trail)]
    OBVIOUS
  <2>1. IType /\ IChain /\ Len(trail) \in Nat
    BY TypeFacts DEF IInv
  <2>2. CASE Known \/ Backtrack
    BY <2>1, <2>2, KnownRestores, BacktrackRestoresState
  <2>3. CASE FireNext
    <3>1. Len(trail) = Len(stack) /\ Len(trail') = Len(stack) + 1
      BY <2>1, <2>3, FireNextLevels
    <3>2. Len(stack) \in Nat
      BY <2>1, TypeFacts
    <3> QED BY <3>1, <3>2
  <2>4. CASE Start \/ Insert \/ Push \/ Exhausted \/ Return
    <3>1. trail' = trail
      BY <2>4 DEF Start, Insert, Push, Exhausted, Return, vars
    <3> QED BY <2>1, <3>1
  <2> QED BY <2>2, <2>3, <2>4 DEF Next
<1> QED BY <1>1, Invariance, PTL DEF Spec, BacktrackRestores

(* DFSExploration::depth_first: "true" comes with a goal and a stack that  *)
(* is a path to it, "false" with a store without goals that no transition  *)
(* leaves.                                                                 *)
THEOREM VerdictIsCorrect == Spec => []VerdictCorrect
<1>1. IInv => VerdictCorrect
  <2> SUFFICES ASSUME IInv, pc = "returned", ~overflowed
               PROVE  /\ value => IsGoal(ns.Current) /\ StackIsWitness
                      /\ ~value =>
                           /\ InitialMarking \in store
                           /\ \A m \in store :
                                /\ ~IsGoal(m)
                                /\ \A t \in EnabledSet(m) :
                                      MarkingAfter(m, t) \in store
    BY DEF VerdictCorrect
  <2>1. IType /\ IChain /\ ICover /\ Returned
    BY DEF IInv, Returned
  <2>2. ~OnTheWay
    BY DEF OnTheWay
  <2>3. /\ Len(stack) \in Nat /\ Len(trail) = Len(stack)
        /\ DOMAIN stack = 1 .. Len(stack)
    BY <2>1, <2>2, TypeFacts, Lengths
  <2> DEFINE at(i) == IF i > Len(stack) THEN ns.Current ELSE trail[i].Current
  <2>4. \A i \in Nat : at(i) = At(i).Current
    BY <2>3 DEF At
  <2>5. at(1) = InitialMarking
    BY <2>1, <2>4 DEF IChain, AtBeginning
  <2>6. ASSUME NEW i \in DOMAIN stack
        PROVE  /\ Activated(at(i), StackTransition(i))
               /\ at(i + 1) = MarkingAfter(at(i), StackTransition(i))
    <3>1. i \in 1 .. Len(trail) /\ i \in Nat /\ i + 1 \in Nat
      BY <2>3
    <3>2. Taken(i) = StackTransition(i)
      BY <2>3 DEF Taken, ListAt, EntryAt, StackTransition
    <3>3. LeadsTo(trail[i], Taken(i), At(i + 1)) /\ trail[i] \in NetStateType
      BY <2>1, <3>1, TypeFacts DEF IChain
    <3>4. StackTransition(i) \in Transition
      BY <2>1, <2>3, TakenTransition
    <3>5. At(i) = trail[i]
      BY <3>1 DEF At
    <3>6. At(i + 1).Current = MarkingAfter(trail[i].Current, StackTransition(i))
      BY <3>2, <3>3, <3>4, FireIsTokenGame DEF LeadsTo
    <3> HIDE DEF at
    <3> QED BY <2>4, <3>1, <3>2, <3>3, <3>5, <3>6 DEF LeadsTo
  <2>7. StackIsWitness
    BY <2>3, <2>5, <2>6 DEF StackIsWitness
  <2>8. store \cup {ns.Current} \subseteq Markings
    BY <2>1 DEF ICover
  <2>9. \A m \in Markings : m \in Goal <=> IsGoal(m)
    BY DEF Goal
  <2> QED BY <2>1, <2>7, <2>8, <2>9 DEF ICover, Done
<1> QED BY <1>1, Invariance, PTL
-----------------------------------------------------------------------------
(* The refinement.                                                         *)
LEMMA SuccessorIsFire ==
  ASSUME NEW n \in NetStateType, n.Current \in Markings, NEW t \in Transition
  PROVE  Search!Fire(n.Current, t) = Fire(n, t).Current
<1>1. Fire(n, t).Current = [p \in Place |-> Add(Sub(n.Current[p],
                              DeltaPre(t, p)), DeltaPost(t, p))]
  BY DEF Fire, NetStateType
<1> QED BY <1>1 DEF Search!Fire, NetSuccessor

(* A set of markings that has all successors of its markings is complete.  *)
LEMMA ClosedIsComplete ==
  ASSUME NEW S \in SUBSET Markings, InitialMarking \in S,
         \A m \in S : \A t \in EnabledSet(m) : MarkingAfter(m, t) \in S
  PROVE  Search!Complete(S)
<1> SUFFICES ASSUME NEW m \in S
             PROVE  Search!Processed(m, S)
  BY DEF Search!Complete
<1>1. m \in Markings /\ m \in [Place -> Tokens]
  BY Parameters DEF SearchAssumption
<1>2. EnabledSet(m) \in SUBSET Transition
  BY DEF EnabledSet
<1> DEFINE C == Cardinality(EnabledSet(m))
<1>3. C \in Nat /\ ExistsBijection(1 .. C, EnabledSet(m))
  BY <1>2, PartOfTransitions, FS_CardinalityType
<1>4. PICK f \in Bijection(1 .. C, EnabledSet(m)) : TRUE
  BY <1>3 DEF ExistsBijection
<1>5. f \in [1 .. C -> EnabledSet(m)] /\ Range(f) = EnabledSet(m)
  BY <1>4 DEF Bijection, Injection, Surjection, Range
<1>6. f \in NetFirelists[m]
  BY <1>1, <1>5 DEF NetFirelists
<1> DEFINE n == [Current |-> m, HashCurrent |-> 0,
                 Enabled |-> [t \in Transition |-> FALSE], CardEnabled |-> 0]
<1>7. n \in NetStateType /\ n.Current = m
  <2>1. 0 \in 0 .. SIZEOF_MARKINGTABLE - 1 /\ 0 \in 0 .. CardTransition
    BY Net DEF NetAssumption
  <2> QED BY <1>1, <2>1 DEF NetStateType
<1> HIDE DEF n
<1>8. ASSUME NEW t \in EnabledSet(m)
      PROVE  Search!Fire(m, t) \in S
  <2>1. t \in Transition /\ Activated(m, t) /\ MarkingAfter(m, t) \in S
    BY DEF EnabledSet
  <2>2. ~Overflows(m, t)
    <3> SUFFICES ASSUME NEW p \in Place
                 PROVE  ~(m[p] - DeltaPre(t, p) + DeltaPost(t, p) >= TokenWidth)
      BY DEF Overflows
    <3>1. MarkingAfter(m, t) \in [Place -> Tokens]
      BY <2>1, Parameters DEF SearchAssumption
    <3>2. m[p] - Pre[t][p] + Post[t][p] \in Tokens
      BY <3>1 DEF MarkingAfter
    <3>3. m[p] \in Nat /\ Pre[t][p] \in Nat /\ Post[t][p] \in Nat
          /\ TokenWidth \in Nat
      BY <1>1, <2>1, Net DEF NetAssumption, Tokens
    <3>4. m[p] - DeltaPre(t, p) + DeltaPost(t, p) = m[p] - Pre[t][p] + Post[t][p]
      BY <3>3 DEF DeltaPre, DeltaPost
    <3> QED BY <3>2, <3>3, <3>4 DEF Tokens
  <2>3. Fire(n, t).Current = MarkingAfter(m, t)
    BY <1>7, <2>1, <2>2, FireIsTokenGame
  <2>4. Search!Fire(m, t) = Fire(n, t).Current
    BY <1>1, <1>7, <2>1, SuccessorIsFire
  <2> QED BY <2>1, <2>3, <2>4
<1>9. \A i \in DOMAIN f : Search!Fire(m, f[i]) \in S
  BY <1>5, <1>8
<1> QED BY <1>6, <1>9 DEF Search!Processed

(* A step without overflow is one of a ReachabilitySearch, or none.        *)
LEMMA SearchStep ==
  ASSUME IInv, IInv', ~overflowed, ~overflowed', Next
  PROVE  [Search!AbstractNext]_Search!avars
<1>1. IType /\ IChain /\ ICover /\ IType' /\ IChain' /\ ICover'
  BY DEF IInv
<1>2. CASE FireNext \/ Known \/ Backtrack \/ Return
  <2>1. store' = store /\ UNCHANGED Search!avars
    <3>1. CASE Return
      BY <3>1 DEF Return, vars, Search!avars
    <3>2. CASE FireNext \/ Known \/ Backtrack
      BY <3>2 DEF FireNext, Known, Backtrack, Search!avars
    <3> QED BY <1>2, <3>1, <3>2
  <2> QED BY <2>1
<1>3. CASE Start
  <2>1. /\ ns' = ns /\ pc = "start" /\ store = {}
        /\ ns = InitialNetState(InitialMarking)
        /\ value' = CheckProperty(ns)
    BY <1>1, <1>3 DEF Start, IType
  <2>2. /\ ns.Current = InitialMarking /\ InitialMarking \in Markings
        /\ ns \in NetStateType /\ EnabledExact(ns)
    BY <2>1, BeginningExact, Parameters DEF SearchAssumption
  <2>3. CASE value'
    <3>1. pc' = "returned" /\ store' = store /\ ns.Current \in Goal
      BY <1>3, <2>1, <2>2, <2>3, CheckPropertyExact DEF Start
    <3>2. Search!AnswerYes
      BY <2>1, <2>2, <2>3, <3>1 DEF Search!AnswerYes
    <3> QED BY <3>2 DEF Search!AbstractNext
  <2>4. CASE ~value'
    <3>1. store' = {ns.Current} /\ pc' = "loop"
      BY <1>3, <2>4 DEF Start, Expand
    <3>2. Search!Visit
      BY <2>1, <2>2, <2>4, <3>1 DEF Search!Visit
    <3> QED BY <3>2 DEF Search!AbstractNext
  <2> QED BY <2>3, <2>4
<1>4. CASE Insert
  <2> DEFINE K == Len(stack)
             n == trail[K + 1]
  <2>1. /\ pc = "fired" /\ pc' = "inserted" /\ ns.Current \notin store
        /\ store' = store \cup {ns.Current}
    BY <1>4 DEF Insert
  <2>2. Open /\ OnTheWay /\ Levels = 1 .. K + 1
    BY <2>1 DEF Open, OnTheWay, Levels
  <2>3. /\ K \in Nat /\ Len(trail) = K + 1 /\ Fired \in Transition
    BY <1>1, <2>2, Lengths, TypeFacts, TakenTransition
  <2>4. K + 1 \in 1 .. K + 1 /\ K + 1 \in 1 .. Len(trail)
    BY <2>3
  <2>5. /\ n \in NetStateType /\ n = At(K + 1) /\ Taken(K + 1) = Fired
        /\ At((K + 1) + 1) = ns
    <3>1. n \in NetStateType
      BY <1>1, <2>4, TypeFacts
    <3> QED BY <2>3, <3>1 DEF At, Taken, ListAt, EntryAt, Fired
  <2>6. n.Current \in store /\ n.Current \in Markings /\ ns.Current \in Markings
    BY <1>1, <2>2, <2>4, <2>5, CoverFacts
  <2>7. LeadsTo(n, Fired, ns)
    BY <1>1, <2>4, <2>5 DEF IChain
  <2>8. Fired \in NetEnabled[n.Current]
    BY <2>3, <2>6, <2>7 DEF LeadsTo, NetEnabled, EnabledSet
  <2>9. ns.Current = Search!Fire(n.Current, Fired)
    BY <2>3, <2>5, <2>6, <2>7, SuccessorIsFire DEF LeadsTo
  <2>10. Search!Visit
    BY <2>1, <2>6, <2>8, <2>9 DEF Search!Visit
  <2> QED BY <2>10 DEF Search!AbstractNext
<1>5. CASE Push
  <2>1. /\ pc = "inserted" /\ store' = store /\ ns' = ns
        /\ value' => pc' = "returned"
        /\ ~value' => pc' = "loop"
    BY <1>5 DEF Push, Expand
  <2>2. CASE ~value'
    BY <2>1, <2>2 DEF Search!avars
  <2>3. CASE value'
    <3>1. ns.Current \in Goal
      BY <1>1, <2>1, <2>3 DEF ICover, Returned
    <3>2. ns.Current \in store
      <4>1. Open /\ ~(Len(stack) + 2 <= Len(trail)) /\ Len(stack) \in Nat
        <5>1. OnTheWay /\ Open
          BY <2>1 DEF OnTheWay, Open
        <5>2. Len(trail) = Len(stack) + 1 /\ Len(stack) \in Nat
          BY <1>1, <5>1, Lengths, TypeFacts
        <5> QED BY <5>1, <5>2
      <4>2. Len(stack) + 2 \in Levels /\ At(Len(stack) + 2) = ns
        BY <2>1, <4>1 DEF Levels, At
      <4> QED BY <1>1, <4>1, <4>2, CoverFacts
    <3>3. Search!AnswerYes
      BY <2>1, <2>3, <3>1, <3>2 DEF Search!AnswerYes
    <3> QED BY <3>3 DEF Search!AbstractNext
  <2> QED BY <2>2, <2>3
<1>6. CASE Exhausted
  <2>1. /\ pc = "loop" /\ pc' = "returned"
        /\ UNCHANGED <<ns, store, value>>
    BY <1>6 DEF Exhausted
  <2>2. Open /\ Returned'
    BY <2>1 DEF Open, Returned
  <2>3. ~value
    BY <1>1, <2>2, CoverFacts
  <2>4. /\ InitialMarking \in store /\ store \in SUBSET Markings
        /\ \A m \in store : Done(m)' /\ m \notin Goal
    BY <1>1, <2>1, <2>2, <2>3 DEF ICover
  <2>5. \A m \in store : \A t \in EnabledSet(m) : MarkingAfter(m, t) \in store
    BY <2>1, <2>4 DEF Done
  <2>6. Search!Complete(store)
    BY <2>4, <2>5, ClosedIsComplete
  <2>7. Search!AnswerNo
    BY <2>1, <2>3, <2>4, <2>6 DEF Search!AnswerNo
  <2> QED BY <2>7 DEF Search!AbstractNext
<1> QED BY <1>2, <1>3, <1>4, <1>5, <1>6 DEF Next

(* DFSExploration::depth_first searches the state graph of the net, as     *)
(* long as no token count wraps around: what it enters into the store are  *)
(* reachable markings, entered from markings entered before, and it        *)
(* answers once, for the right reason.                                     *)
THEOREM Refinement == Spec /\ []~overflowed => ImplementsSearch
<1>1. Init => Search!AbstractInit
  BY DEF Init, Search!AbstractInit
<1>2. /\ IInv /\ IInv' /\ ~overflowed /\ ~overflowed' /\ [Next]_vars
      => [Search!AbstractNext]_Search!avars
  <2>1. CASE UNCHANGED vars
    BY <2>1 DEF vars, Search!avars
  <2> QED BY <2>1, SearchStep
<1> QED BY <1>1, <1>2, Invariance, PTL
        DEF Spec, ImplementsSearch, Search!AbstractSpec
=============================================================================
