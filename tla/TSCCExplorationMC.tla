------------------------- MODULE TSCCExplorationMC --------------------------
(***************************************************************************)
(* AGEF FIREABLE(t2) on the net p -> t1 -> q -> t2 -> p with a token on p: *)
(* a marking is the marked place.                                          *)
(***************************************************************************)
EXTENDS TSCCExploration

MCEnabled == [m \in {"p", "q"} |-> IF m = "p" THEN {"t1"} ELSE {"t2"}]

MCSuccessor ==
  [m \in {"p", "q"} |-> [t \in {"t1", "t2"} |-> IF t = "t1" THEN "q" ELSE "p"]]

MCFirelists ==
  [m \in {"p", "q"} |-> IF m = "p" THEN {<<"t1">>} ELSE {<<"t2">>}]
=============================================================================
