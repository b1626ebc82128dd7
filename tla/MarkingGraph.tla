---------------------------- MODULE MarkingGraph ----------------------------
(***************************************************************************)
(* The net state of a search of one thread over a state graph, and what    *)
(* temporal formulas mean in the graph: the reference the searches for     *)
(* liveness and for CTL formulas are compared with.                        *)
(*                                                                         *)
(* A net state is a marking with the flags of the enabled transitions.     *)
(* Transition::fire and backfire change the marking only, updateEnabled    *)
(* and revertEnabled the flags only; module NetState has the increments    *)
(* these work with.                                                        *)
(***************************************************************************)
EXTENDS StateGraph, FiniteSets

InitialNetState == [Current |-> Initial, Enabled |-> Enabled[Initial]]

Fired(ns, t) == [ns EXCEPT !.Current = Fire(@, t)]

Updated(ns) == [ns EXCEPT !.Enabled = Enabled[ns.Current]]

Backfired(ns, t) == [ns EXCEPT !.Current = Backfire(@, t)]

Undone(ns, t) == Updated(Backfired(ns, t))
-----------------------------------------------------------------------------
Successors(m) == {Fire(m, t) : t \in Enabled[m]}

(* The least set of markings with Z = Step(Z): a step that only adds adds  *)
(* its last marking after as many rounds as there are markings.            *)
LeastFixpoint(Step(_)) ==
  LET after[n \in 0 .. Cardinality(Marking)] ==
        IF n = 0 THEN {} ELSE Step(after[n - 1])
  IN after[Cardinality(Marking)]

(* E(phi U psi) and A(phi U psi).  A marking without a successor ends its  *)
(* paths.                                                                  *)
SatEU(phi, psi) == LeastFixpoint(LAMBDA Z :
  psi \cup {m \in phi : Successors(m) \cap Z # {}})

SatAU(phi, psi) == LeastFixpoint(LAMBDA Z :
  psi \cup {m \in phi : Successors(m) # {} /\ Successors(m) \subseteq Z})

SatEF(psi) == SatEU(Marking, psi)

SatAG(psi) == Marking \ SatEF(Marking \ psi)
=============================================================================
