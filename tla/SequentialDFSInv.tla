-------------------------- MODULE SequentialDFSInv --------------------------
(***************************************************************************)
(* The inductive invariant of SequentialDFS.  IType holds of any run;      *)
(* IChain and ICover speak of runs in which no token count has wrapped.    *)
(***************************************************************************)
EXTENDS SequentialDFS

Open == pc \in {"loop", "fired", "inserted"}
OnTheWay == pc \in {"fired", "inserted"}

(* Level i of the search: the net state there, its fire list and entry,    *)
(* and the transition taken from it.  The levels up to Len(stack) are on   *)
(* the stack, those up to Len(trail) have been left.                       *)
At(i) == IF i <= Len(trail) THEN trail[i] ELSE ns
ListAt(i) == IF i <= Len(stack) THEN stack[i].fl ELSE firelist
EntryAt(i) == IF i <= Len(stack) THEN stack[i].current ELSE entry
Taken(i) == ListAt(i)[EntryAt(i) + 1]

(* The entries of level i that have been fired and explored.               *)
Explored(i) ==
  EntryAt(i) + (IF i <= Len(trail) THEN 2 ELSE 1) .. Len(ListAt(i))

IType ==
  /\ TypeOK
  /\ Counted(ns)
  /\ Len(trail) = Len(stack) + (IF OnTheWay THEN 1 ELSE 0)
  /\ OnTheWay => entry < Len(firelist)
  /\ pc = "start" => ns = InitialNetState(InitialMarking) /\ stack = <<>> /\ store = {}

(* n leads to k by t: a transition that is enabled, whose effect on the    *)
(* marking and the hash k shows, and which did not overflow.               *)
LeadsTo(n, t, k) ==
  /\ Activated(n.Current, t)
  /\ ~Overflows(n.Current, t)
  /\ k.Current = Fire(n, t).Current
  /\ k.HashCurrent = Fire(n, t).HashCurrent

(* The marking and the hash of the beginning.                              *)
AtBeginning(n) ==
  n.Current = InitialMarking /\ n.HashCurrent = HashOf(InitialMarking)

(* Every net state on the way is exact and leads to the next by the        *)
(* transition taken from it.                                               *)
IChain ==
  /\ \A i \in 1 .. Len(trail) : EnabledExact(trail[i])
  /\ pc # "fired" => EnabledExact(ns)
  /\ pc = "fired" => /\ ns.Enabled = trail[Len(trail)].Enabled
                     /\ ns.CardEnabled = trail[Len(trail)].CardEnabled
  /\ AtBeginning(At(1))
  /\ \A i \in 1 .. Len(trail) : LeadsTo(trail[i], Taken(i), At(i + 1))
  /\ Open => \A i \in 1 .. Len(stack) + 1 : ListAt(i) \in FirelistsOf(At(i))

(* The levels whose marking is in the store but may not be done.           *)
Levels == 1 .. Len(stack) + (IF pc = "inserted" THEN 2 ELSE 1)

Done(m) == \A t \in EnabledSet(m) : MarkingAfter(m, t) \in store

(* Every marking of the store is done or that of a level; the successors   *)
(* explored are in the store; goals end the search.                        *)
ICover ==
  /\ store \cup {ns.Current} \subseteq Markings
  /\ Open =>
       /\ ~value
       /\ \A i \in Levels : At(i).Current \in store
       /\ \A m \in store : Done(m) \/ \E i \in Levels : m = At(i).Current
       /\ \A m \in store : m \in Goal => pc = "inserted" /\ m = ns.Current
       /\ \A i \in 1 .. Len(stack) + 1 : \A j \in Explored(i) :
             MarkingAfter(At(i).Current, ListAt(i)[j]) \in store
  /\ Returned => IF value
                 THEN ns.Current \in Goal
                 ELSE /\ InitialMarking \in store
                      /\ \A m \in store : Done(m) /\ m \notin Goal

IInv == IType /\ (~overflowed => IChain /\ ICover)
=============================================================================
