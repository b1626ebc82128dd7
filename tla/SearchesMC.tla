----------------------------- MODULE SearchesMC -----------------------------
(***************************************************************************)
(* The searches that build graphs and components, one per behaviour: the   *)
(* coverability graph of CoverGraphMC, and two depth first searches for    *)
(* strongly connected components, the liveness of a predicate and the CTL  *)
(* until operators, on state graphs of their own.                          *)
(***************************************************************************)
EXTENDS CoverGraphMC

CONSTANT Kinds       \* the searches that are run

VARIABLES
  kind,                                                   \* the search
  setup,                                                  \* its parameters
  gns, gdfs, gstack, glist, gentry, gnumber, ganswer, gpc,   \* of both
  highest_lowlink, lasttrue, holds,                       \* of liveness
  formula, cachedResult, tarjanStack, currentLowlink, firedAll, asked

sccVars  == <<gns, gdfs, gstack, glist, gentry, gnumber, ganswer, gpc>>
liveVars == <<highest_lowlink, lasttrue, holds>>
untilVars == <<formula, cachedResult, tarjanStack, currentLowlink, firedAll,
               asked>>

(* Variables of a search that is not run.                                  *)
NoLive == highest_lowlink = 0 /\ lasttrue = 0 /\ holds = FALSE
NoUntil ==
  /\ formula = <<>> /\ cachedResult = <<>> /\ tarjanStack = <<>>
  /\ currentLowlink = 0 /\ firedAll = 0 /\ asked = <<>>
NoComponents ==
  /\ setup = <<>>
  /\ gns = <<>> /\ gdfs = <<>> /\ gstack = <<>> /\ glist = <<>> /\ gentry = 0
  /\ gnumber = 0 /\ ganswer = FALSE /\ gpc = "none"

(* All orders of the transitions of a set.                                 *)
Orders(T) ==
  {f \in [1 .. Cardinality(T) -> T] : \A t \in T : \E i \in DOMAIN f : f[i] = t}
-----------------------------------------------------------------------------
(* A graph, an arc a transition: a cycle 1 2 3 with ways out to the        *)
(* terminal component 4 5, one of them over 6, and to the dead end 7.      *)
Arrows == << <<1, 2>>, <<2, 3>>, <<3, 1>>, <<3, 4>>, <<4, 5>>, <<5, 4>>,
             <<2, 6>>, <<6, 4>>, <<1, 7>> >>
GraphMarking == 1 .. 7
GraphEnabled == [m \in GraphMarking |-> {t \in DOMAIN Arrows : Arrows[t][1] = m}]
GraphSuccessor == [m \in GraphMarking |-> [t \in DOMAIN Arrows |-> Arrows[t][2]]]
GraphFirelists == [m \in GraphMarking |-> Orders(GraphEnabled[m])]

(* Where the search starts, the markings with the predicate, and which of  *)
(* the two searches it is.                                                 *)
Setups == [start : {1, 6}, possible : BOOLEAN,
           places : {S \in SUBSET GraphMarking : Cardinality(S) \in 1 .. 2}]

Live(s) == INSTANCE TSCCExploration WITH
  Marking <- GraphMarking, Initial <- s.start, Transition <- DOMAIN Arrows,
  Enabled <- GraphEnabled, Successor <- GraphSuccessor,
  Firelists <- GraphFirelists, Goal <- s.places, Possible <- s.possible,
  Observed <- 0, Touching <- {},
  ns <- gns, dfs <- gdfs, dfsstack <- gstack, firelist <- glist,
  entry <- gentry, currentDFSNumber <- gnumber, answer <- ganswer, pc <- gpc

LiveInit ==
  /\ kind = "live"
  /\ \E s \in Setups : setup = s /\ Live(s)!Init
  /\ NoUntil

LiveNext ==
  /\ kind = "live"
  /\ \E s \in {setup} : Live(s)!Next
  /\ UNCHANGED <<kind, setup, vars, untilVars>>
-----------------------------------------------------------------------------
(* A net whose places have one token at most, so that a marking is the set *)
(* of its marked places.  One token leaves c for d, from where it can come *)
(* back, or for e.  Another, if it is there, moves between a and b, and    *)
(* from b and e both can go to the dead end f; or it moves between x and y *)
(* for ever, by transitions that share their places with no other, so that *)
(* a cycle of fire lists of one transition leaves the first token out.     *)
Takes == << {"a"}, {"b"}, {"c"}, {"c"}, {"d"}, {"b", "e"}, {"x"}, {"y"} >>
Puts  == << "b", "a", "d", "e", "c", "f", "y", "x" >>
TokenTransition == DOMAIN Takes
TokenMarking == {{p, q} : p \in {"a", "b", "x", "y"}, q \in {"c", "d", "e"}}
                  \cup {{q} : q \in {"c", "d", "e", "f"}}
TokenEnabled ==
  [m \in TokenMarking |-> {t \in TokenTransition : Takes[t] \subseteq m}]
TokenSuccessor ==
  [m \in TokenMarking |-> [t \in TokenTransition |->
     IF t \in TokenEnabled[m] THEN (m \ Takes[t]) \cup {Puts[t]} ELSE m]]
TokenFirelists == [m \in TokenMarking |-> Orders(TokenEnabled[m])]
TokenAlone == {t \in TokenTransition :
  \A u \in TokenTransition \ {t} : Takes[t] \cap Takes[u] = {}}

(* phi: no token on the places without; psi: a token on one of the places  *)
(* with.  The transitions around those places are visible.                 *)
Until(op, without, with) ==
  [op |-> op,
   phi |-> {m \in TokenMarking : m \cap without = {}},
   psi |-> {m \in TokenMarking : m \cap with # {}},
   visible |-> {t \in TokenTransition :
                  (Takes[t] \cup {Puts[t]}) \cap (without \cup with) # {}}]

UntilFormulas(places) ==
  {Until(op, without, with) : op \in {"EU", "AU"},
     without \in {{}} \cup {{p} : p \in places \ {"f"}},
     with \in {{p} : p \in places}}

TokenSetups ==
  [start : {{"a", "c"}}, places : {{"b", "d", "e", "f"}}, stubborn : BOOLEAN]
    \cup [start : {{"c"}, {"x", "c"}}, places : {{"d", "e"}}, stubborn : BOOLEAN]

Ctl(s) == INSTANCE CTLUntil WITH
  Marking <- TokenMarking, Initial <- s.start, Transition <- TokenTransition,
  Enabled <- TokenEnabled, Successor <- TokenSuccessor,
  Firelists <- TokenFirelists, Goal <- {}, Formulas <- UntilFormulas(s.places),
  Stubborn <- s.stubborn, Assertions <- FALSE, Alone <- TokenAlone,
  ns <- gns, dfs <- gdfs, dfsStack <- gstack, firelist <- glist,
  entry <- gentry, currentDFSNumber <- gnumber, answer <- ganswer, pc <- gpc

CtlInit ==
  /\ kind = "ctl"
  /\ \E s \in TokenSetups : setup = s /\ Ctl(s)!Init
  /\ NoLive

CtlNext ==
  /\ kind = "ctl"
  /\ \E s \in {setup} : Ctl(s)!Next
  /\ UNCHANGED <<kind, setup, vars, liveVars>>
-----------------------------------------------------------------------------
CoverInit == kind = "cover" /\ NoComponents /\ NoLive /\ NoUntil

CoverNext ==
  /\ kind = "cover"
  /\ Next
  /\ UNCHANGED <<kind, setup, sccVars, liveVars, untilVars>>

(* The variables of CoverGraph keep one initial value in the other kinds.  *)
MCInit ==
  /\ kind \in Kinds
  /\ Init
  /\ kind # "cover" => prop = CHOOSE f \in Properties : TRUE
  /\ CoverInit \/ LiveInit \/ CtlInit

MCNext == CoverNext \/ LiveNext \/ CtlNext

mcVars == <<kind, setup, vars, sccVars, liveVars, untilVars>>

MCSpec == MCInit /\ [][MCNext]_mcVars

(* Fairness of CoverGraph, and of the two searches of one thread.          *)
MCFairSpec ==
  /\ MCSpec
  /\ WF_vars(Join)
  /\ \A t \in Thread : \/ []<>~(kind = "cover" /\ Ready(t))
                       \/ []<><<Step(t)>>_vars
  /\ WF_mcVars(LiveNext)
  /\ WF_mcVars(CtlNext)
-----------------------------------------------------------------------------
(* The answer about the liveness of a predicate is right for every start   *)
(* and predicate of the run (TSCCExplorationAGEF.cc and EGAGEF.cc 123-166). *)
LivenessVerdictCorrect ==
  kind = "live" => \E s \in {setup} : Live(s)!LivenessVerdictCorrect

(* check answers rightly, keeps right results for the calls that follow,   *)
(* and puts the net state back (EUFormula.cc and AUFormula.cc).            *)
ResultsCorrect == kind = "ctl" => \E s \in {setup} : Ctl(s)!ResultsCorrect

(* Every search ends, and every call of check.                             *)
Busy == CASE kind = "cover" -> verdict = "running"
          [] kind = "live"  -> gpc # "returned"
          [] kind = "ctl"   -> gpc # "idle"

SearchesEnd == Busy ~> ~Busy
=============================================================================
