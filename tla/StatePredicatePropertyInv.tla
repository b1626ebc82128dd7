--------------------- MODULE StatePredicatePropertyInv ---------------------
(***************************************************************************)
(* The inductive invariant of StatePredicateProperty.                      *)
(***************************************************************************)
EXTENDS StatePredicateProperty

(* Level i of the walk: the net state left by path[i], or the current one. *)
At(i) == IF i <= Len(trail) THEN trail[i] ELSE ns

LeadsTo(n, t, k) ==
  /\ Activated(n.Current, t)
  /\ ~Overflows(n.Current, t)
  /\ k.Current = Fire(n, t).Current
  /\ k.HashCurrent = Fire(n, t).HashCurrent

(* Every net state on the way is exact, and leads to the next.             *)
IWalk ==
  /\ \A i \in 1 .. Len(trail) + 1 : EnabledExact(At(i))
  /\ \A i \in 1 .. Len(trail) : LeadsTo(trail[i], path[i], At(i + 1))

(* The values when the open calls are done.                                *)
NewValue == [f \in Formula |-> value[f] /\ ~Unassigned(f)]

(* The sum and the value of an atomic predicate go together; the sum is    *)
(* that of the marking but for what its update will add.                   *)
ILeaves ==
  /\ \A a \in Atomic :
       /\ value[a] = (sum[a] <= Threshold[a])
       /\ SumOf(a, ns.Current) =
            sum[a] + (IF a \in todo THEN direction * ChangedSum(moved, a) ELSE 0)
  /\ \A f \in (Fireable \cup Deadlock) \ todo : NewValue[f] = Observes(f, ns)

(* sub and position are inverse to each other.                             *)
IPositions ==
  /\ \A j \in Junction : \A i \in 1 .. CardSub(j) : position[sub[j][i]] = i
  /\ \A f \in Formula \ {Root} :
       /\ position[f] \in 1 .. CardSub(Parent[f])
       /\ sub[Parent[f]][position[f]] = f

(* The next call tells j that its subformula at i has changed.             *)
Names(j, i) == call # NoCall /\ call.junction = j /\ call.i = i

(* A call of updateTF of j for the subformula at i waits for the parent.   *)
Waits(j, i) ==
  \E k \in 1 .. Len(pending) : pending[k].formula = j /\ pending[k].i = i

(* j is to move the subformula at i to the other side of its border.       *)
Calls(j, i) == Names(j, i) \/ Waits(j, i)

(* The subformulas are sorted by the values their junction knows of.       *)
SortedAt(j) ==
  \A i \in 1 .. CardSub(j) :
    (IF Calls(j, i) THEN ~NewValue[sub[j][i]] ELSE NewValue[sub[j][i]])
      <=> i <= cardSat[j]

(* The number of satisfied subformulas when the open calls are done.       *)
NewCard(j) ==
  IF \E k \in 1 .. Len(pending) : pending[k].formula = j
  THEN cardSat[j] - 1 ELSE cardSat[j]

CallFits ==
  call # NoCall =>
    /\ call.junction \in Junction
    /\ call.i \in 1 .. CardSub(call.junction)
    /\ NewValue[sub[call.junction][call.i]] <=> call.kind = "FT"

(* A call that waits is about a subformula that has become false.          *)
FrameFits(k) ==
  pending[k].formula \in Junction =>
    /\ pending[k].i \in 1 .. CardSub(pending[k].formula)
    /\ ~NewValue[sub[pending[k].formula][pending[k].i]]

(* The stack goes up the formula, from the leaf or junction that was       *)
(* updated first to the one that the next call is about: each has made the *)
(* call above it.  A call of updateFT is the last thing its caller does.   *)
IStack ==
  /\ \A k \in 1 .. Len(pending) : FrameFits(k)
  /\ \A k \in 2 .. Len(pending) :
       /\ pending[k].formula \in Junction
       /\ sub[pending[k].formula][pending[k].i] = pending[k - 1].formula
  /\ call # NoCall /\ pending # <<>> =>
       /\ call.kind = "TF"
       /\ sub[call.junction][call.i] = pending[Len(pending)].formula

IJunctions ==
  /\ \A j \in Junction : SortedAt(j)
  /\ \A j \in Junction : value[j] = JunctionValue(j, NewCard(j))
  /\ CallFits

IInv == TypeOK /\ IWalk /\ ILeaves /\ IPositions /\ IStack /\ IJunctions
=============================================================================
