----------------------------- MODULE CTLUntilMC -----------------------------
(***************************************************************************)
(* E(phi U psi) and A(phi U psi) with stubborn fire lists in a net that    *)
(* comes to a deadlock: one token goes from p to q and from there to r.    *)
(* The build is the one with assertions.                                   *)
(***************************************************************************)
EXTENDS CTLUntil

MCEnabled == [p |-> {"t"}, q |-> {"u"}, r |-> {}]
MCSuccessor == [m \in {"p", "q", "r"} |->
  [x \in {"t", "u"} |-> CASE m = "p" /\ x = "t" -> "q"
                           [] m = "q" /\ x = "u" -> "r"
                           [] OTHER -> m]]
MCFirelists == [p |-> {<<"t">>}, q |-> {<<"u">>}, r |-> {<<>>}]

(* psi never comes true.                                                   *)
MCFormulas ==
  [op : {"EU", "AU"}, phi : {Marking}, psi : {{}}, visible : {Transition}]
=============================================================================
