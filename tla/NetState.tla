------------------------------ MODULE NetState ------------------------------
(***************************************************************************)
(* A net state and what Transition does to it: the marking, its hash, the  *)
(* enabledness of every transition and the number of enabled ones, each    *)
(* kept up to date by increments when a transition fires or is undone      *)
(* (Net/NetState.h, Net/Transition.cc), and the tables those increments    *)
(* read, which Net::preprocess computes from the arcs.                     *)
(*                                                                         *)
(* Pre[t][p] and Post[t][p] are the multiplicities of the arcs between t   *)
(* and p, 0 where there is none.  A net state is a record, as it is an     *)
(* object in the code; the modules that search hold it in a variable.      *)
(***************************************************************************)
EXTENDS Integers, FiniteSets, Functions

CONSTANTS
  Place,                 \* the places
  CardTransition,        \* Net::Card[TR]
  Pre, Post,             \* Net::Arc and Net::Mult of the transitions
  Hash,                  \* Place::Hash, a random factor for each place
  SIZEOF_MARKINGTABLE,   \* the range of a marking's hash
  TokenWidth             \* the number of values of capacity_t, 2^32

Transition == 0 .. CardTransition - 1

Tokens == 0 .. TokenWidth - 1

NetAssumption ==
  /\ IsFiniteSet(Place)
  /\ CardTransition \in Nat
  /\ TokenWidth \in Nat \ {0}
  /\ Pre \in [Transition -> [Place -> Tokens]]
  /\ Post \in [Transition -> [Place -> Tokens]]
  /\ Hash \in [Place -> Nat]
  /\ SIZEOF_MARKINGTABLE \in Nat \ {0}

ASSUME Net == NetAssumption
-----------------------------------------------------------------------------
(* Net::preprocess_organizeDeltas: what t takes from and adds to a place   *)
(* on balance; a place it takes from and returns to is in one list only.   *)
DeltaPre(t, p) == IF Pre[t][p] > Post[t][p] THEN Pre[t][p] - Post[t][p] ELSE 0

DeltaPost(t, p) == IF Post[t][p] > Pre[t][p] THEN Post[t][p] - Pre[t][p] ELSE 0

(* C++ rounds a quotient towards zero, so a remainder has the sign of the  *)
(* dividend; fire and backfire bring it back to 0 .. n - 1.                *)
Remainder(a, n) == IF a >= 0 THEN a % n ELSE -((-a) % n)

Normalised(a, n) == LET r == Remainder(a, n) IN IF r < 0 THEN r + n ELSE r

(* Transition::DeltaHash, and Marking::HashInitial, which is the sum of    *)
(* the place hashes weighted with the tokens.  The code takes the          *)
(* remainder after every summand.                                          *)
DeltaHash == [t \in Transition |->
  Remainder(SumFunction([p \in Place |-> Hash[p] * DeltaPost(t, p)])
              - SumFunction([p \in Place |-> Hash[p] * DeltaPre(t, p)]),
            SIZEOF_MARKINGTABLE)]

HashOf(m) ==
  SumFunction([p \in Place |-> Hash[p] * m[p]]) % SIZEOF_MARKINGTABLE

(* Net::preprocess_organizeConflictingTransitions: the transitions with a  *)
(* pre-place among the pre-places, or among the post-places, of t.         *)
Consumers(p) == {t \in Transition : Pre[t][p] > 0}

Conflicting == [t \in Transition |->
  UNION {Consumers(p) : p \in {q \in Place : Pre[t][q] > 0}}]

BackConflicting == [t \in Transition |->
  UNION {Consumers(p) : p \in {q \in Place : Post[t][q] > 0}}]
-----------------------------------------------------------------------------
(* No pre-place of t is insufficiently marked.                             *)
Activated(m, t) == \A p \in Place : m[p] >= Pre[t][p]

(* checkEnabled for each of the transitions of S: the flag of one that     *)
(* changed is flipped and counted.                                         *)
CheckEnabled(ns, S) ==
  LET toDisabled == {t \in S : ns.Enabled[t] /\ ~Activated(ns.Current, t)}
      toEnabled == {t \in S : ~ns.Enabled[t] /\ Activated(ns.Current, t)}
  IN [ns EXCEPT
        !.Enabled = [t \in Transition |-> t \in toEnabled \/
                                          (ns.Enabled[t] /\ t \notin toDisabled)],
        !.CardEnabled = ns.CardEnabled - Cardinality(toDisabled)
                                       + Cardinality(toEnabled)]

(* The initial enabledness check, for the initial marking m: all           *)
(* transitions are assumed enabled, then checked one by one.               *)
InitialNetState(m) ==
  CheckEnabled([Current |-> m,
                HashCurrent |-> HashOf(m),
                Enabled |-> [t \in Transition |-> TRUE],
                CardEnabled |-> CardTransition],
               Transition)

(* Token counts are unsigned: they wrap around at TokenWidth.              *)
Add(a, b) == (a + b) % TokenWidth
Sub(a, b) == (a - b) % TokenWidth

(* Variant: fire leaves the remainder as it comes.                         *)
FireSignedHash(ns, t) ==
  [ns EXCEPT
     !.Current = [p \in Place |-> Add(Sub(ns.Current[p], DeltaPre(t, p)),
                                      DeltaPost(t, p))],
     !.HashCurrent = Remainder(ns.HashCurrent + DeltaHash[t],
                               SIZEOF_MARKINGTABLE)]

Fire(ns, t) ==
  [ns EXCEPT
     !.Current = [p \in Place |-> Add(Sub(ns.Current[p], DeltaPre(t, p)),
                                      DeltaPost(t, p))],
     !.HashCurrent = Normalised(ns.HashCurrent + DeltaHash[t],
                                SIZEOF_MARKINGTABLE)]

Backfire(ns, t) ==
  [ns EXCEPT
     !.Current = [p \in Place |-> Sub(Add(ns.Current[p], DeltaPre(t, p)),
                                      DeltaPost(t, p))],
     !.HashCurrent = Normalised(ns.HashCurrent - DeltaHash[t],
                                SIZEOF_MARKINGTABLE)]

(* Variant: the transitions that profit from t are not checked.            *)
UpdateDisabledOnly(ns, t) ==
  CheckEnabled(ns, {u \in Conflicting[t] : ns.Enabled[u]})

(* After firing t only an enabled transition that shares a pre-place with  *)
(* t can be disabled, and only a disabled one that consumes from a post-   *)
(* place of t can be enabled; after undoing t it is the other way round.   *)
UpdateEnabled(ns, t) ==
  LET first == CheckEnabled(ns, {u \in Conflicting[t] : ns.Enabled[u]})
  IN CheckEnabled(first, {u \in BackConflicting[t] : ~first.Enabled[u]})

(* Variant: after undoing t, the same checks as after firing it.           *)
RevertAsUpdate(ns, t) == UpdateEnabled(ns, t)

RevertEnabled(ns, t) ==
  LET first == CheckEnabled(ns, {u \in BackConflicting[t] : ns.Enabled[u]})
  IN CheckEnabled(first, {u \in Conflicting[t] : ~first.Enabled[u]})
-----------------------------------------------------------------------------
(* Firing t from marking m would put more tokens on a place than           *)
(* capacity_t can count.                                                   *)
Overflows(m, t) ==
  \E p \in Place : m[p] - DeltaPre(t, p) + DeltaPost(t, p) >= TokenWidth

(* The token game of the net, without increments and with unbounded        *)
(* numbers.                                                                *)
MarkingAfter(m, t) == [p \in Place |-> m[p] - Pre[t][p] + Post[t][p]]

(* What the flags and the counter of a net state mean, given its marking.  *)
EnabledSet(m) == {t \in Transition : Activated(m, t)}

Flagged(ns) == {t \in Transition : ns.Enabled[t]}

Counted(ns) == ns.CardEnabled = Cardinality(Flagged(ns))

EnabledExact(ns) == Flagged(ns) = EnabledSet(ns.Current) /\ Counted(ns)

NetStateType ==
  [Current : [Place -> Tokens],
   HashCurrent : 0 .. SIZEOF_MARKINGTABLE - 1,
   Enabled : [Transition -> BOOLEAN],
   CardEnabled : 0 .. CardTransition]
=============================================================================
