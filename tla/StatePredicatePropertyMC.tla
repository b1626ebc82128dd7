---------------------- MODULE StatePredicatePropertyMC ----------------------
(***************************************************************************)
(* A formula of depth four about a net with three places and four          *)
(* transitions in which every transition feeds another, a test arc makes   *)
(* the observed transition 3 depend on a place that it does not change,    *)
(* and the tokens are used up: the net has deadlocks.                      *)
(***************************************************************************)
EXTENDS StatePredicateProperty

CONSTANTS M, root, left, right, some, few, many, fire, nofire, dead

MCPlace == 1 .. 3
Arcs(S) == [p \in MCPlace |-> IF \E a \in S : a[1] = p
                              THEN (CHOOSE a \in S : a[1] = p)[2] ELSE 0]
MCPre == [t \in 0 .. 3 |->
            CASE t = 0 -> Arcs({<<1, 1>>})
              [] t = 1 -> Arcs({<<2, 1>>})
              [] t = 2 -> Arcs({<<3, 2>>})
              [] t = 3 -> Arcs({<<1, 1>>, <<2, 1>>})]
MCPost == [t \in 0 .. 3 |->
            CASE t = 0 -> Arcs({<<2, 1>>})
              [] t = 1 -> Arcs({<<3, 1>>})
              [] t = 2 -> Arcs({<<1, 1>>})
              [] t = 3 -> Arcs({<<1, 1>>, <<3, 1>>})]
MCInitial == [p \in MCPlace |-> IF p <= 2 THEN M ELSE 0]
MCHash == [p \in MCPlace |-> p]

(* root = left AND right, left = few OR fire OR dead, right = some OR      *)
(* many, and some = AND(nofire), a junction with one subformula.           *)
MCParent == [f \in Formula \ {root} |->
               CASE f \in {left, right} -> root
                 [] f \in {few, fire, dead} -> left
                 [] f \in {some, many} -> right
                 [] f = nofire -> some]
MCIsAnd == [j \in Junction |-> j \in {root, some}]
MCFactor == [a \in Atomic |->
               [p \in MCPlace |-> IF a = few THEN (IF p = 2 THEN 1 ELSE 0)
                                  ELSE (IF p = 3 THEN -2 ELSE IF p = 1 THEN 1 ELSE 0)]]
MCThreshold == [a \in Atomic |-> IF a = few THEN 0 ELSE -1]
MCObserved == [f \in Fireable |-> IF f = fire THEN 3 ELSE 1]
MCSign == [f \in Fireable \cup Deadlock |-> f # nofire]
=============================================================================
