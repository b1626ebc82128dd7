--------------------------- MODULE SequentialDFS ---------------------------
(***************************************************************************)
(* DFSExploration::depth_first (Exploration/DFSExploration.cc): the search *)
(* of one thread.  It has a single net state, which it moves forward and   *)
(* backward in place, so every answer rests on the increments of module    *)
(* NetState being exact after any sequence of steps and backtracks.        *)
(***************************************************************************)
EXTENDS NetState, Sequences

CONSTANTS
  InitialMarking,    \* Marking::Initial
  LookForDeadlock,   \* the property is DeadlockExploration
  Target,            \* otherwise: the markings that satisfy the property
  Markings           \* markings of the net, all reachable ones among them

SearchAssumption ==
  /\ LookForDeadlock \in BOOLEAN
  /\ Target \subseteq Markings
  /\ Markings \subseteq [Place -> Tokens]
  /\ \A m \in Markings : \A t \in EnabledSet(m) :
        MarkingAfter(m, t) \in [Place -> Tokens] => MarkingAfter(m, t) \in Markings
  /\ InitialMarking \in Markings

ASSUME Parameters == SearchAssumption

VARIABLES
  ns,          \* the net state
  store,       \* the markings in the store
  stack,       \* property.stack: entries [fl, current]
  firelist,    \* currentFirelist
  entry,       \* currentEntry
  value,       \* property.value
  pc,          \* where the loop stands; "returned" at the end
  overflowed,  \* history: a token count has wrapped around
  trail        \* history: the net states the entries of stack left

vars == <<ns, store, stack, firelist, entry, value, pc, overflowed, trail>>
-----------------------------------------------------------------------------
(* Firelist::getFirelist: an array as long as the counter says, with the   *)
(* enabled transitions.  The code lists them by their numbers; nothing     *)
(* depends on the order, so the model leaves it open.                      *)
FirelistsOf(n) ==
  {f \in [1 .. n.CardEnabled -> Flagged(n)] : Range(f) = Flagged(n)}

(* checkProperty and initProperty.  A deadlock is recognised by the        *)
(* counter, too.                                                           *)
CheckProperty(n) ==
  \/ LookForDeadlock /\ n.CardEnabled = 0
  \/ ~LookForDeadlock /\ n.Current \in Target

IsGoal(m) == IF LookForDeadlock THEN EnabledSet(m) = {} ELSE m \in Target

Goal == {m \in Markings : IsGoal(m)}

Fired == firelist[entry + 1]

Init ==
  /\ ns = InitialNetState(InitialMarking)
  /\ store = {}
  /\ stack = <<>>
  /\ firelist = <<>>
  /\ entry = 0
  /\ value = FALSE
  /\ pc = "start"
  /\ overflowed = FALSE
  /\ trail = <<>>

Expand(n) ==
  /\ firelist' \in FirelistsOf(n)
  /\ entry' = Len(firelist')
  /\ pc' = "loop"

(* The initial marking: return if it satisfies the property, else enter it *)
(* into the store and compute its fire list.                               *)
Start ==
  /\ pc = "start"
  /\ value' = CheckProperty(ns)
  /\ IF value'
     THEN /\ pc' = "returned"
          /\ UNCHANGED <<store, firelist, entry>>
     ELSE /\ store' = {ns.Current}
          /\ Expand(ns)
  /\ UNCHANGED <<ns, stack, overflowed, trail>>

(* There is a next transition: fire it.                                    *)
FireNext ==
  /\ pc = "loop"
  /\ entry > 0
  /\ entry' = entry - 1
  /\ ns' = Fire(ns, firelist[entry])
  /\ overflowed' = (overflowed \/ Overflows(ns.Current, firelist[entry]))
  /\ trail' = Append(trail, ns)
  /\ pc' = "fired"
  /\ UNCHANGED <<store, stack, firelist, value>>

(* Variant: the entry of the fire list is not used up.                     *)
KnownAgain ==
  /\ pc = "fired"
  /\ ns.Current \in store
  /\ ns' = Backfire(ns, Fired)
  /\ trail' = SubSeq(trail, 1, Len(trail) - 1)
  /\ entry' = entry + 1
  /\ pc' = "loop"
  /\ UNCHANGED <<store, stack, firelist, value, overflowed>>

(* The marking is known: undo the step.  Enabledness was not touched.      *)
Known ==
  /\ pc = "fired"
  /\ ns.Current \in store
  /\ ns' = Backfire(ns, Fired)
  /\ trail' = SubSeq(trail, 1, Len(trail) - 1)
  /\ pc' = "loop"
  /\ UNCHANGED <<store, stack, firelist, entry, value, overflowed>>

(* The marking is new: it is in the store now, and becomes the current     *)
(* one.                                                                    *)
Insert ==
  /\ pc = "fired"
  /\ ns.Current \notin store
  /\ store' = store \cup {ns.Current}
  /\ ns' = UpdateEnabled(ns, Fired)
  /\ pc' = "inserted"
  /\ UNCHANGED <<stack, firelist, entry, value, overflowed, trail>>

(* Variant: the entry is pushed when the property does not hold only.      *)
PushUnlessGoal ==
  /\ pc = "inserted"
  /\ value' = CheckProperty(ns)
  /\ IF value' THEN /\ pc' = "returned"
                    /\ UNCHANGED <<stack, firelist, entry>>
               ELSE /\ stack' = Append(stack, [fl |-> firelist, current |-> entry])
                    /\ Expand(ns)
  /\ UNCHANGED <<ns, store, overflowed, trail>>

(* The entry of the fired transition is pushed, so that the stack is the   *)
(* whole path; the search returns if the property holds, else it goes on   *)
(* from the new marking.                                                   *)
Push ==
  /\ pc = "inserted"
  /\ value' = CheckProperty(ns)
  /\ stack' = Append(stack, [fl |-> firelist, current |-> entry])
  /\ IF value' THEN /\ pc' = "returned"
                    /\ UNCHANGED <<firelist, entry>>
               ELSE Expand(ns)
  /\ UNCHANGED <<ns, store, overflowed, trail>>

(* The fire list is finished: back to the marking below.                   *)
Backtrack ==
  /\ pc = "loop"
  /\ entry = 0
  /\ stack # <<>>
  /\ LET top == stack[Len(stack)]
         t == top.fl[top.current + 1]
     IN /\ firelist' = top.fl
        /\ entry' = top.current
        /\ ns' = RevertEnabled(Backfire(ns, t), t)
  /\ stack' = SubSeq(stack, 1, Len(stack) - 1)
  /\ trail' = SubSeq(trail, 1, Len(trail) - 1)
  /\ UNCHANGED <<store, value, pc, overflowed>>

(* The fire list of the initial marking is finished: there is no goal.     *)
Exhausted ==
  /\ pc = "loop"
  /\ entry = 0
  /\ stack = <<>>
  /\ pc' = "returned"
  /\ UNCHANGED <<ns, store, stack, firelist, entry, value, overflowed, trail>>

(* The caller goes on with the answer.                                     *)
Returned == pc = "returned"

Return == Returned /\ UNCHANGED vars

Next == Start \/ FireNext \/ Known \/ Insert \/ Push \/ Backtrack \/ Exhausted
        \/ Return

Spec == Init /\ [][Next]_vars
-----------------------------------------------------------------------------
StackEntry == [fl : Seq(Transition), current : Nat]

TypeOK ==
  /\ ns \in NetStateType
  /\ store \subseteq [Place -> Tokens]
  /\ firelist \in Seq(Transition)
  /\ entry \in 0 .. Len(firelist)
  /\ stack \in Seq(StackEntry)
  /\ \A i \in DOMAIN stack : stack[i].current < Len(stack[i].fl)
  /\ value \in BOOLEAN
  /\ pc \in {"start", "loop", "fired", "inserted", "returned"}
  /\ overflowed \in BOOLEAN
  /\ trail \in Seq(NetStateType)

(* The counter counts the flags, even after a token count has wrapped      *)
(* around, so that a fire list fits the array made for it.  Without that,  *)
(* the enabledness kept by increments is that of the marking, however      *)
(* often the search went forward and back (between fire and updateEnabled  *)
(* it is that of the marking before).                                      *)
EnablednessExact ==
  /\ Counted(ns)
  /\ ~overflowed =>
       IF pc = "fired"
       THEN /\ EnabledExact(trail[Len(trail)])
            /\ ns.Enabled = trail[Len(trail)].Enabled
            /\ ns.CardEnabled = trail[Len(trail)].CardEnabled
       ELSE EnabledExact(ns)

(* The hash kept by increments is the hash of the marking, so that equal   *)
(* markings are looked for in the same bucket whatever path led to them.   *)
HashExact == ~overflowed => ns.HashCurrent = HashOf(ns.Current)

(* Undoing a step, at once because the marking is known or later when its  *)
(* fire list is finished, gives back the whole net state the step started  *)
(* from.                                                                   *)
BacktrackRestores ==
  [][~overflowed /\ Len(trail') < Len(trail) => ns' = trail[Len(trail)]]_vars

(* The transitions of the stack, in order, lead from the initial marking   *)
(* to the current one ("the stack contains ALL transitions of witness      *)
(* path", DFSExploration.cc 106-108).                                        *)
StackTransition(i) == stack[i].fl[stack[i].current + 1]

StackIsWitness ==
  LET at(i) == IF i > Len(stack) THEN ns.Current ELSE trail[i].Current
  IN /\ Len(trail) = Len(stack)
     /\ at(1) = InitialMarking
     /\ \A i \in DOMAIN stack :
           /\ Activated(at(i), StackTransition(i))
           /\ at(i + 1) = MarkingAfter(at(i), StackTransition(i))

(* "true, if a marking fulfilling the property was found; false, if all    *)
(* markings have been explored and no such state was found": a positive    *)
(* answer comes with a goal and the path to it, a negative one with a set  *)
(* of markings without a goal that no transition leaves.                   *)
VerdictCorrect ==
  pc = "returned" /\ ~overflowed =>
    /\ value => IsGoal(ns.Current) /\ StackIsWitness
    /\ ~value =>
         /\ InitialMarking \in store
         /\ \A m \in store :
              /\ ~IsGoal(m)
              /\ \A t \in EnabledSet(m) : MarkingAfter(m, t) \in store

(* The search is a ReachabilitySearch of the graph of the net.             *)
NetEnabled == [m \in Markings |-> EnabledSet(m)]

NetSuccessor ==
  [m \in Markings |-> [t \in Transition |->
     [p \in Place |-> Add(Sub(m[p], DeltaPre(t, p)), DeltaPost(t, p))]]]

NetFirelists ==
  [m \in Markings |->
     {f \in [1 .. Cardinality(EnabledSet(m)) -> EnabledSet(m)] :
        Range(f) = EnabledSet(m)}]

Search == INSTANCE ReachabilitySearch WITH
  Marking <- Markings,
  Initial <- InitialMarking,
  Enabled <- NetEnabled,
  Successor <- NetSuccessor,
  Firelists <- NetFirelists,
  visited <- store,
  verdict <- IF pc # "returned" THEN "running"
             ELSE IF value THEN "yes" ELSE "no",
  witness <- IF pc = "returned" /\ value THEN ns.Current ELSE InitialMarking

ImplementsSearch == Search!AbstractSpec
=============================================================================
