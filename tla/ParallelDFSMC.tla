--------------------------- MODULE ParallelDFSMC ----------------------------
(***************************************************************************)
(* ParallelDFS on two state graphs, with and without goals: a behaviour is *)
(* one of the two searches.                                                *)
(***************************************************************************)
EXTENDS ParallelDFSInv, FiniteSets

CONSTANTS
  Kinds,             \* the searches that are run
  GoalSize           \* the first one looks for so many transitions

VARIABLES
  kind,              \* "first" or "goal"
  gStore, gFinished, gSuspended, gSem, gGlobalStack, gPc, gNs, gStack,
  gFirelist, gEntry, gReader, gPosted, gFound, gJoined, gValue, gResult
                     \* of the second search

goalVars ==
  <<gStore, gFinished, gSuspended, gSem, gGlobalStack, gPc, gNs, gStack,
    gFirelist, gEntry, gReader, gPosted, gFound, gJoined, gValue, gResult>>
-----------------------------------------------------------------------------
(* Nets of transitions 1 .. k, each of which fires once, at most cap of    *)
(* them in all, and each after those it needs.  A marking is the set of    *)
(* transitions that have fired, a goal one in which goalSize have fired.   *)
Reached(net) ==
  {m \in SUBSET (1 .. net.k) :
     Cardinality(m) <= net.cap /\ \A t \in m : net.needs[t] \subseteq m}

EnabledIn(net, m) == {t \in 1 .. net.k : t \notin m /\ m \cup {t} \in Reached(net)}

SuccessorIn(net, m) ==
  [t \in 1 .. net.k |-> IF t \in EnabledIn(net, m) THEN m \cup {t} ELSE m]

GoalsOf(net) == {m \in Reached(net) : Cardinality(m) = net.goalSize}

(* Firelist::getFirelist: all enabled transitions in ascending order.      *)
Ascending(S) ==
  CHOOSE f \in [1 .. Cardinality(S) -> S] :
     \A i, j \in 1 .. Cardinality(S) : i < j => f[i] < f[j]

(* In the first net two threads find markings to hand over at the same     *)
(* time, and a marking beyond transition 1 or 2 is reached along one path  *)
(* only.                                                                   *)
FirstNet ==
  [k |-> 6, cap |-> 2, goalSize |-> GoalSize,
   needs |-> [t \in 1 .. 6 |-> IF t <= 2 THEN {}
                              ELSE IF t % 2 = 0 THEN {2} ELSE {1}]]

FirstMarking    == Reached(FirstNet)
FirstEnabled    == [m \in FirstMarking |-> EnabledIn(FirstNet, m)]
FirstSuccessor  == [m \in FirstMarking |-> SuccessorIn(FirstNet, m)]
FirstFirelists  == [m \in FirstMarking |-> {Ascending(FirstEnabled[m])}]
FirstGoal       == GoalsOf(FirstNet)
-----------------------------------------------------------------------------
(* In the second net all but one of the threads soon suspend themselves,   *)
(* and the first marking after the gate is handed over.  A fire list is    *)
(* any non-empty part of the enabled transitions: they are independent, so *)
(* each part is a stubborn set that preserves deadlocks, and which one     *)
(* getFirelist computes may differ from call to call (the scapegoat marks  *)
(* are static, hence shared by all threads).                               *)
GateNet ==
  [k |-> 4, cap |-> 3, goalSize |-> 3,
   needs |-> [t \in 1 .. 4 |-> IF t = 1 THEN {} ELSE {1}]]

GateMarking    == Reached(GateNet)
GateEnabled    == [m \in GateMarking |-> EnabledIn(GateNet, m)]
GateSuccessor  == [m \in GateMarking |-> SuccessorIn(GateNet, m)]
GateFirelists  ==
  [m \in GateMarking |->
     IF GateEnabled[m] = {} THEN {<<>>}
     ELSE {Ascending(S) : S \in SUBSET GateEnabled[m] \ {{}}}]
GateGoal       == GoalsOf(GateNet)

Gate == INSTANCE ParallelDFS WITH
  Marking <- GateMarking, Initial <- {}, Transition <- 1 .. 4,
  Enabled <- GateEnabled, Successor <- GateSuccessor,
  Firelists <- GateFirelists, Goal <- GateGoal,
  store <- gStore, finished <- gFinished, suspended <- gSuspended,
  sem <- gSem, globalStack <- gGlobalStack, pc <- gPc, ns <- gNs,
  stack <- gStack, firelist <- gFirelist, entry <- gEntry,
  reader <- gReader, posted <- gPosted, found <- gFound, joined <- gJoined,
  value <- gValue, result <- gResult
-----------------------------------------------------------------------------
FirstStep(A) == kind = "first" /\ A /\ UNCHANGED <<kind, goalVars>>
GoalStep(A)  == kind = "goal" /\ A /\ UNCHANGED <<kind, vars>>

MCInit == kind \in Kinds /\ Init /\ Gate!Init

MCNext == FirstStep(Next) \/ GoalStep(Gate!Next)

mcVars == <<kind, vars, goalVars>>

MCSpec == MCInit /\ [][MCNext]_mcVars

(* Every runnable thread is scheduled again and again, in both searches.   *)
MCFairSpec ==
  /\ MCSpec
  /\ WF_mcVars(FirstStep(Join)) /\ WF_mcVars(GoalStep(Gate!Join))
  /\ \A t \in Thread : /\ WF_mcVars(FirstStep(Step(t)))
                       /\ WF_mcVars(GoalStep(Gate!Step(t)))
-----------------------------------------------------------------------------
(* With goals that several threads meet at the same time, and fire lists   *)
(* that each of them gets differently, the search is a ReachabilitySearch  *)
(* as well (ParallelExploration.cc 117-145 and 361-380).                   *)
GoalImplementsSearch == Gate!ImplementsSearch

(* Every search ends ("all threads will poll a variable to be able to      *)
(* abort"), with a goal or without: nobody sleeps for ever, and every      *)
(* thread is joined.                                                       *)
SearchReturns == <>(IF kind = "first" THEN Returned ELSE Gate!Returned)
=============================================================================
