-------------------------- MODULE TSCCExploration --------------------------
(***************************************************************************)
(* TSCCExplorationAGEF and TSCCExplorationEGAGEF (Exploration/TSCC*.cc):   *)
(* is a predicate live, or possibly live?  A depth first search that       *)
(* numbers the markings, and keeps in each entry of its stack the lowest   *)
(* number it knows to be reachable from there, in order to recognise the   *)
(* roots of terminal strongly connected components.  There is no stack of  *)
(* open components, as in Tarjan's algorithm: an edge into a component     *)
(* that is finished lowers the number as well.  What the search asks of a  *)
(* terminal component is whether the predicate held at a marking numbered  *)
(* after its root.                                                         *)
(***************************************************************************)
EXTENDS MarkingGraph

CONSTANTS
  Possible,   \* EGAGEF: one terminal component is enough
  Observed,   \* the transition t of the predicate FIREABLE(t), ...
  Touching    \* ... and the transitions that can change its value; for a
              \* predicate about the marking, Goal, Touching is empty

VARIABLES
  ns,               \* the net state
  dfs,              \* the store: the number of every marking found
  dfsstack,         \* entries [fl, flIndex, payload, lowlink]
  firelist,         \* currentFirelist
  entry,            \* currentEntry
  currentDFSNumber,
  highest_lowlink,  \* of the terminal components found
  lasttrue,         \* the last number given to a marking with the predicate
  holds,            \* the predicate's own idea of its value
  answer,           \* what depth_first returns
  pc

tsccVars == <<ns, dfs, dfsstack, firelist, entry, currentDFSNumber,
              highest_lowlink, lasttrue, holds, answer, pc>>
-----------------------------------------------------------------------------
(* The value of the predicate in net state n: FireablePredicate reads the  *)
(* flag of its transition, and is looked at again only after a transition  *)
(* that is registered with it has been fired or undone.                    *)
Fireability == Touching # {}

Evaluate(n) == IF Fireability THEN Observed \in n.Enabled ELSE n.Current \in Goal

Check(n, t) == IF Fireability /\ t \notin Touching THEN holds ELSE Evaluate(n)

Last(s) == s[Len(s)]
ButLast(s) == SubSeq(s, 1, Len(s) - 1)
Lower(a, b) == IF a < b THEN a ELSE b

(* The marking m gets the number n.                                        *)
setDFS(m, n) == [k \in DOMAIN dfs \cup {m} |-> IF k = m THEN n ELSE dfs[k]]

(* The lowlink of the topmost entry becomes at most n.                     *)
Lowered(stack, n) == [stack EXCEPT ![Len(stack)].lowlink = Lower(n, @)]
-----------------------------------------------------------------------------
Init ==
  /\ ns = InitialNetState
  /\ dfs = <<>>
  /\ dfsstack = <<>>
  /\ firelist = <<>>
  /\ entry = 0
  /\ currentDFSNumber = 0
  /\ highest_lowlink = 0
  /\ lasttrue = 0
  /\ holds = FALSE
  /\ answer = FALSE
  /\ pc = "start"

Start ==
  /\ pc = "start"
  /\ dfs' = setDFS(ns.Current, 1)
  /\ holds' = Evaluate(ns)
  /\ lasttrue' = IF holds' THEN 1 ELSE 0
  /\ firelist' \in Firelists[ns.Current]
  /\ entry' = Len(firelist')
  /\ currentDFSNumber' = 1
  /\ dfsstack' = <<[fl |-> firelist', flIndex |-> entry',
                    payload |-> ns.Current, lowlink |-> 1]>>
  /\ pc' = "loop"
  /\ UNCHANGED <<ns, highest_lowlink, answer>>

(* Variant: no number is taken over from a known marking.                  *)
FireKnownUnnoticed ==
  /\ pc = "loop"
  /\ entry > 0
  /\ LET next == Fired(ns, firelist[entry])
     IN /\ next.Current \in DOMAIN dfs
        /\ ns' = Backfired(next, firelist[entry])
  /\ entry' = entry - 1
  /\ UNCHANGED <<dfs, dfsstack, firelist, currentDFSNumber, highest_lowlink,
                 lasttrue, holds, answer, pc>>

(* The next transition leads to a known marking, wherever it is: the entry *)
(* on top takes its number over.                                           *)
FireKnown ==
  /\ pc = "loop"
  /\ entry > 0
  /\ LET next == Fired(ns, firelist[entry])
     IN /\ next.Current \in DOMAIN dfs
        /\ ns' = Backfired(next, firelist[entry])
        /\ dfsstack' = Lowered(dfsstack, dfs[next.Current])
  /\ entry' = entry - 1
  /\ UNCHANGED <<dfs, firelist, currentDFSNumber, highest_lowlink, lasttrue,
                 holds, answer, pc>>

(* It leads to a new one.  The predicate is checked before the enabledness *)
(* is updated.                                                             *)
FireNew ==
  /\ pc = "loop"
  /\ entry > 0
  /\ LET t == firelist[entry]
         next == Fired(ns, t)
         n == currentDFSNumber + 1
     IN /\ next.Current \notin DOMAIN dfs
        /\ dfs' = setDFS(next.Current, n)
        /\ currentDFSNumber' = n
        /\ dfsstack' = Append(dfsstack, [fl |-> firelist, flIndex |-> entry - 1,
                                         payload |-> next.Current, lowlink |-> n])
        /\ holds' = Check(next, t)
        /\ lasttrue' = IF holds' THEN n ELSE lasttrue
        /\ ns' = Updated(next)
        /\ firelist' \in Firelists[ns'.Current]
        /\ entry' = Len(firelist')
  /\ UNCHANGED <<highest_lowlink, answer, pc>>

(* The marking on top has no other marking of its component below it, and  *)
(* no terminal component has been found since it was numbered.             *)
TerminalRoot ==
  /\ dfs[Last(dfsstack).payload] = Last(dfsstack).lowlink
  /\ highest_lowlink < Last(dfsstack).lowlink

TrueInside == lasttrue >= Last(dfsstack).lowlink

(* The fire list is finished, and that decides: AGEF ends at a terminal    *)
(* component without the predicate, EGAGEF at one with it.                 *)
Decide ==
  /\ pc = "loop"
  /\ entry = 0
  /\ TerminalRoot
  /\ TrueInside = Possible
  /\ answer' = Possible
  /\ pc' = "returned"
  /\ UNCHANGED <<ns, dfs, dfsstack, firelist, entry, currentDFSNumber,
                 highest_lowlink, lasttrue, holds>>

RootsCounted ==
  highest_lowlink' = IF TerminalRoot THEN Last(dfsstack).lowlink
                                     ELSE highest_lowlink

(* The fire list is finished: back to the marking below, which takes over  *)
(* the number of the entry that is popped.                                 *)
Backtrack ==
  /\ pc = "loop"
  /\ entry = 0
  /\ ~(TerminalRoot /\ TrueInside = Possible)
  /\ Len(dfsstack) > 1
  /\ RootsCounted
  /\ LET top == Last(dfsstack)
         t == top.fl[top.flIndex + 1]
     IN /\ dfsstack' = Lowered(ButLast(dfsstack), top.lowlink)
        /\ firelist' = top.fl
        /\ entry' = top.flIndex
        /\ ns' = Undone(ns, t)
        /\ holds' = Check(ns', t)
  /\ UNCHANGED <<dfs, currentDFSNumber, lasttrue, answer, pc>>

(* The fire list of the initial marking is finished: AGEF has met no       *)
(* terminal component without the predicate, EGAGEF none with it.          *)
Exhausted ==
  /\ pc = "loop"
  /\ entry = 0
  /\ ~(TerminalRoot /\ TrueInside = Possible)
  /\ Len(dfsstack) = 1
  /\ RootsCounted
  /\ answer' = ~Possible
  /\ pc' = "returned"
  /\ UNCHANGED <<ns, dfs, dfsstack, firelist, entry, currentDFSNumber,
                 lasttrue, holds>>

Return == pc = "returned" /\ UNCHANGED tsccVars

Next == Start \/ FireKnown \/ FireNew \/ Decide \/ Backtrack \/ Exhausted
        \/ Return

Spec == Init /\ [][Next]_tsccVars
-----------------------------------------------------------------------------
(* A predicate is live if it is reachable from all reachable markings      *)
(* (doc/lola.texi 1501), and possibly live if that is so from some         *)
(* reachable marking on: the search tells that of the initial marking.     *)
LivenessVerdictCorrect ==
  pc = "returned" =>
    answer = (Initial \in IF Possible THEN SatEF(SatAG(SatEF(Goal)))
                                      ELSE SatAG(SatEF(Goal)))
=============================================================================
