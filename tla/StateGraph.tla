----------------------------- MODULE StateGraph -----------------------------
(***************************************************************************)
(* The state graph every exploration of LoLA walks over: markings, the     *)
(* transitions that lead from one to the next, the fire lists that say     *)
(* which of them a search tries, and the state predicate it looks for.     *)
(*                                                                         *)
(* A marking is an opaque value here.  How a marking, its enabledness      *)
(* vector and its hash follow from the arcs of a net is the subject of     *)
(* module NetState, which shows that Transition::backfire undoes           *)
(* Transition::fire and that the enabled transitions are those of the      *)
(* marking; GraphAssumption states just that of the graph.                 *)
(***************************************************************************)
EXTENDS Integers, Sequences

CONSTANTS
  Marking,      \* the markings of the net
  Initial,      \* Marking::Initial
  Transition,   \* the transitions of the net
  Enabled,      \* Enabled[m]: the transitions enabled in marking m
  Successor,    \* Successor[m][t]: the marking t produces from m
  Firelists,    \* Firelists[m]: the arrays getFirelist may return for m
  Goal          \* the markings that satisfy the property

GraphAssumption ==
  /\ Initial \in Marking
  /\ Goal \subseteq Marking
  /\ Enabled \in [Marking -> SUBSET Transition]
  /\ Successor \in [Marking -> [Transition -> Marking]]
  /\ \A m \in Marking : Firelists[m] # {}
  /\ \A m \in Marking : \A f \in Firelists[m] :
        /\ f \in Seq(Transition)
        /\ \A i \in DOMAIN f : f[i] \in Enabled[m]
  /\ \A m, n \in Marking : \A t \in Enabled[m] \cap Enabled[n] :
        Successor[m][t] = Successor[n][t] => m = n

ASSUME Graph == GraphAssumption
-----------------------------------------------------------------------------
(* Transition::fire, and Transition::backfire, which returns to the only   *)
(* marking that t leads from to m.                                         *)
Fire(m, t) == Successor[m][t]

Backfire(m, t) ==
  CHOOSE k \in Marking : t \in Enabled[k] /\ Successor[k][t] = m

(* A marking is processed in S when, for some fire list of it, S has all   *)
(* the successors that list leads to.                                      *)
Processed(m, S) ==
  \E f \in Firelists[m] : \A i \in DOMAIN f : Fire(m, f[i]) \in S

(* S is a complete reduced state space: it has the initial marking and     *)
(* every marking of it is processed.                                       *)
Complete(S) == /\ Initial \in S
               /\ \A m \in S : Processed(m, S)
=============================================================================
