---------------------------- MODULE CoverGraphMC ----------------------------
(***************************************************************************)
(* Small nets for CoverGraph, and the coverability of a marking computed   *)
(* backwards, as the reference for the verdicts.                           *)
(***************************************************************************)
EXTENDS CoverGraphInv

CONSTANT Arcs     \* a sequence of <<pre-places, post-places>>, as bags

(* A bag of places is a function from places to numbers.                   *)
Count(bag, p) == IF p \in DOMAIN bag THEN bag[p] ELSE 0

MCPre == [t \in 0 .. Len(Arcs) - 1 |->
            [p \in Place |-> Count(Arcs[t + 1][1], p)]]
MCPost == [t \in 0 .. Len(Arcs) - 1 |->
             [p \in Place |-> Count(Arcs[t + 1][2], p)]]

MCHash == [p \in Place |-> CASE p = "A" -> 1 [] p = "B" -> 3 [] p = "P" -> 5
                             [] OTHER -> 7]
OnA == [p \in Place |-> IF p = "A" THEN 1 ELSE 0]

(* A turns to B and back, marking P, or to C, where P is turned to Q.  All *)
(* weights are 1.                                                          *)
FactoryArcs == << << "A" :> 1, "B" :> 1 @@ "P" :> 1 >>,
                  << "A" :> 1, "C" :> 1 >>,
                  << "B" :> 1, "A" :> 1 >>,
                  << "C" :> 1 @@ "P" :> 1, "C" :> 1 @@ "Q" :> 1 >> >>

(* A helper is taken a second time while another thread finds a marking.   *)
CycleArcs == << << "A" :> 1, "B" :> 1 @@ "P" :> 1 >>,
                << "B" :> 1, "A" :> 1 >>,
                << "P" :> 1, "Q" :> 1 >>,
                << "B" :> 1 @@ "Q" :> 1, "P" :> 1 >> >>

(* A property: the sum of the tokens with factors from -1 .. 1 is at most  *)
(* the threshold.                                                          *)
Linear(minus, plus, threshold) ==
  [minus |-> minus, plus |-> plus, threshold |-> threshold]

(* Can be met with an omega only.                                          *)
OneProperty == {Linear({"Q"}, {}, -2)}

(* Can be met with an omega only, cannot be met, and an omega leaves it    *)
(* open.                                                                   *)
ThreeProperties == {Linear({"Q"}, {}, -2), Linear({"B"}, {}, -2),
                    Linear({}, {"A", "B", "C", "P"}, 0)}

Sum(m, S) == SumFunction([p \in S |-> m[p]])
Meets(f, m) == Sum(m, f.plus) - Sum(m, f.minus) <= f.threshold
HasOmega(m, S) == \E p \in S : m[p] = OMEGA

(* AtomicStatePredicate::evaluateOmega.  An omega counts more than         *)
(* anything else, and with omegas on both sides the sum is not lowered.    *)
MCValue(f, s) ==
  IF HasOmega(s.Current, f.plus) THEN FALSE
  ELSE HasOmega(s.Current, f.minus) \/ Meets(f, s.Current)
MCUnknown(f, s) == HasOmega(s.Current, f.plus \cup f.minus)

-----------------------------------------------------------------------------
(* The markings with at most Bound tokens on a place, more counting as     *)
(* Bound, from which a marking with f can be reached.                      *)
Bound == 2

Box == {m : m \in [Place -> 0 .. Bound]}

Capped(m) == [p \in Place |-> IF m[p] > Bound THEN Bound ELSE m[p]]

Successors ==
  [m \in Box |-> {Capped(n) : n \in {MarkingAfter(m, t) : t \in EnabledSet(m)}}]

RECURSIVE CanReach(_)
CanReach(S) ==
  LET more == S \cup {m \in Box \ S : Successors[m] \cap S # {}}
  IN IF more = S THEN S ELSE CanReach(more)

Coverable == [f \in Properties |->
                InitialMarking \in CanReach({m \in Box : Meets(f, m)})]

(* The answer is yes or no as the property is coverable or not, and        *)
(* unknown only where an omega made a thread doubt a no.                   *)
VerdictCorrect ==
  /\ verdict = "yes" => Coverable[prop]
  /\ verdict = "no" => ~Coverable[prop]
  /\ verdict = "unknown" => \E m \in DOMAIN store : MCUnknown(prop, [Current |-> m])
=============================================================================
