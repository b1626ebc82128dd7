------------------------------ MODULE OmegaNet ------------------------------
(***************************************************************************)
(* The token game of the coverability graph (CoverGraph/CoverGraph.cc): a  *)
(* place whose count can be pumped along a cycle gets the count OMEGA,     *)
(* which firing leaves alone, and the enabledness of a net state is kept   *)
(* by increments when an omega is introduced or taken back.                *)
(***************************************************************************)
EXTENDS NetState, SequencesExt

(* "the maximal capacity of a place as omega".                             *)
OMEGA == (TokenWidth - 1) \div 2

CoverFire(ns, t) ==
  [ns EXCEPT
     !.Current = [p \in Place |->
        IF ns.Current[p] < OMEGA
        THEN Add(Sub(ns.Current[p], DeltaPre(t, p)), DeltaPost(t, p))
        ELSE ns.Current[p]],
     !.HashCurrent = Normalised(ns.HashCurrent + DeltaHash[t],
                                SIZEOF_MARKINGTABLE)]

CoverBackfire(ns, t) ==
  [ns EXCEPT
     !.Current = [p \in Place |->
        IF ns.Current[p] < OMEGA
        THEN Sub(Add(ns.Current[p], DeltaPre(t, p)), DeltaPost(t, p))
        ELSE ns.Current[p]],
     !.HashCurrent = Normalised(ns.HashCurrent - DeltaHash[t],
                                SIZEOF_MARKINGTABLE)]

WithTokens(ns, count) ==
  [Current |-> [p \in Place |-> IF p \in DOMAIN count THEN count[p]
                                ELSE ns.Current[p]],
   HashCurrent |-> ns.HashCurrent,
   Enabled |-> ns.Enabled,
   CardEnabled |-> ns.CardEnabled]

(* createOmega for the places of S: their disabled post-transitions are    *)
(* checked.                                                                *)
CreateOmegas(ns, S) ==
  CheckEnabled(WithTokens(ns, [p \in S |-> OMEGA]),
               {t \in UNION {Consumers(p) : p \in S} : ~ns.Enabled[t]})

(* removeOmega for the places of omegas, a function from places to the     *)
(* counts they had: of the enabled transitions those are checked that      *)
(* share a pre-place with t.                                               *)
RemoveOmegas(ns, t, omegas) ==
  IF DOMAIN omegas = {} THEN ns
  ELSE CheckEnabled(WithTokens(ns, omegas),
                    {u \in Conflicting[t] : ns.Enabled[u]})

(* revertOmega puts the counts back and leaves the flags alone.            *)
RevertOmegas(ns, omegas) == WithTokens(ns, omegas)
-----------------------------------------------------------------------------
(* What the last i of the transitions in back, which names them backwards, *)
(* have changed on the places that are no omegas in m.                     *)
Gain(m, back, i) ==
  [p \in Place |->
     IF m[p] = OMEGA THEN 0
     ELSE FoldLeft(LAMBDA sum, t : sum + DeltaPost(t, p) - DeltaPre(t, p),
                   0, SubSeq(back, 1, i))]

Covers(gain) == /\ \E p \in Place : gain[p] > 0
                /\ \A p \in Place : gain[p] >= 0

(* checkOmega walks towards the root until it meets a marking that m       *)
(* covers; the places with more tokens than there become omegas.  The      *)
(* result maps them to the counts they have in m.                          *)
CheckOmega(m, back) ==
  LET hits == {i \in 1 .. Len(back) : Covers(Gain(m, back, i))}
      first == CHOOSE i \in hits : \A j \in hits : i <= j
  IN IF hits = {} THEN <<>>
     ELSE [p \in {q \in Place : Gain(m, back, first)[q] > 0} |-> m[p]]
=============================================================================
