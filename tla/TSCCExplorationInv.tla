------------------------- MODULE TSCCExplorationInv -------------------------
(***************************************************************************)
(* What the searches of TSCCExploration know about the markings they have  *)
(* numbered: the inductive invariant behind LivenessVerdictCorrect.        *)
(***************************************************************************)
EXTENDS TSCCExploration

Here == 1 .. Len(dfsstack)
Top == Len(dfsstack)

(* The marking of an entry of the stack, its fire list, and how many of    *)
(* that have not been fired: an entry holds those of the marking below.    *)
On(i) == dfsstack[i].payload
List(i) == IF i = Top THEN firelist ELSE dfsstack[i + 1].fl
Left(i) == IF i = Top THEN entry ELSE dfsstack[i + 1].flIndex

Under(m) == {i \in Here : On(i) = m}

(* The transitions that have been fired at marking m.                      *)
Taken(m) ==
  IF Under(m) = {} THEN Enabled[m]
  ELSE {t \in Enabled[m] :
          \E i \in Under(m) : \E j \in DOMAIN List(i) : j > Left(i) /\ t = List(i)[j]}

StackEntry ==
  [fl : Seq(Transition), flIndex : Nat, payload : Marking, lowlink : Nat]

(* Every marking found has a number of its own.                            *)
NumbersKnown ==
  /\ currentDFSNumber \in Nat
  /\ DOMAIN dfs \subseteq Marking
  /\ dfs \in [DOMAIN dfs -> 1 .. currentDFSNumber]
  /\ \A m, n \in DOMAIN dfs : dfs[m] = dfs[n] => m = n

(* The stack is the path to the current marking, in the order of the       *)
(* numbers.                                                                *)
PathKnown ==
  /\ dfsstack \in Seq(StackEntry) /\ dfsstack # <<>>
  /\ On(1) = Initial
  /\ ns = [Current |-> On(Top), Enabled |-> Enabled[On(Top)]]
  /\ \A i \in Here : /\ On(i) \in DOMAIN dfs
                     /\ List(i) \in Firelists[On(i)]
                     /\ Left(i) \in 0 .. Len(List(i))
  /\ \A i \in Here \ {Top} :
        /\ Left(i) + 1 \in DOMAIN List(i)
        /\ On(i + 1) = Fire(On(i), List(i)[Left(i) + 1])
  /\ \A i, j \in Here : i < j => dfs[On(i)] < dfs[On(j)]

(* From the marking of an entry every marking with a higher number can be  *)
(* reached, and the one whose number is the lowlink of the entry.          *)
AboveReached ==
  \A i \in Here : \A m \in DOMAIN dfs :
     dfs[On(i)] <= dfs[m] \/ dfs[m] = dfsstack[i].lowlink => On(i) \in SatEF({m})

LowlinksTyped ==
  \A i \in Here : dfsstack[i].lowlink \in 1 .. dfs[On(i)]
                  /\ \E m \in DOMAIN dfs : dfs[m] = dfsstack[i].lowlink

(* The markings numbered from entry i on and before the next entry.        *)
Section(i) ==
  {m \in DOMAIN dfs : /\ dfs[On(i)] <= dfs[m]
                      /\ i < Top => dfs[m] < dfs[On(i + 1)]}

(* Every transition that has been fired leads to a marking found, and from *)
(* the section of an entry to none with a number below its lowlink.        *)
EdgesKnown ==
  \A m \in DOMAIN dfs : \A t \in Taken(m) :
     /\ Fire(m, t) \in DOMAIN dfs
     /\ \A i \in Here : m \in Section(i) => dfsstack[i].lowlink <= dfs[Fire(m, t)]

(* The markings that do not decide: for AGEF those from which the          *)
(* predicate can be reached, for EGAGEF those from which a marking can be  *)
(* reached where it cannot be reached any more.                            *)
Harmless == IF Possible THEN SatEF(Marking \ SatEF(Goal)) ELSE SatEF(Goal)

(* What lasttrue and highest_lowlink say.                                  *)
PredicateKnown ==
  /\ lasttrue \in 0 .. currentDFSNumber
  /\ \A m \in DOMAIN dfs \cap Goal : dfs[m] <= lasttrue
  /\ lasttrue > 0 => \E m \in DOMAIN dfs \cap Goal : dfs[m] = lasttrue

RootsPassed == {m \in DOMAIN dfs \cap Harmless : dfs[m] <= highest_lowlink}

RootsKnown ==
  /\ highest_lowlink \in 0 .. currentDFSNumber
  /\ highest_lowlink > 0 => \E m \in RootsPassed : dfs[m] = highest_lowlink

(* From every marking found either an entry of the stack with a lower      *)
(* number can be reached again, or a marking that has been passed.         *)
WayBack ==
  \A m \in DOMAIN dfs :
     \/ m \in SatEF(RootsPassed)
     \/ \E i \in Here : dfs[On(i)] <= dfs[m] /\ m \in SatEF({On(i)})

(* The setting of the theorem: the predicate is one about markings, and    *)
(* fire lists are not reduced, so that each has all enabled transitions.   *)
FullSearch ==
  /\ IsFiniteSet(Marking) /\ Possible \in BOOLEAN
  /\ Touching = {}
  /\ \A m \in Marking : \A f \in Firelists[m] : \A t \in Enabled[m] :
        \E j \in DOMAIN f : f[j] = t

(* What a search knows while it runs.                                      *)
Known == /\ NumbersKnown /\ PathKnown /\ LowlinksTyped /\ AboveReached
         /\ EdgesKnown /\ PredicateKnown /\ RootsKnown /\ WayBack

TSCCInv == /\ pc \in {"start", "loop", "returned"}
           /\ pc = "start" => Init
           /\ pc = "loop" => Known
           /\ LivenessVerdictCorrect
=============================================================================
