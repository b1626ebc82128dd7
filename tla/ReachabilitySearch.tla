------------------------- MODULE ReachabilitySearch -------------------------
(***************************************************************************)
(* What DFSExploration::depth_first promises its caller, whichever search  *)
(* implements it ("true, if a marking fulfilling the property was found;   *)
(* false, if all markings have been explored and no such state was         *)
(* found"): a set of visited markings that grows along the edges of the    *)
(* graph, and a verdict given once, for a reason.                          *)
(***************************************************************************)
EXTENDS StateGraph

VARIABLES
  visited,   \* the markings entered into the store so far
  verdict,   \* "running", "yes" or "no"
  witness    \* the marking a positive verdict returns

avars == <<visited, verdict, witness>>

AbstractInit ==
  /\ visited = {}
  /\ verdict = "running"
  /\ witness = Initial

(* A marking is entered that is the initial one or the successor of one    *)
(* entered before.                                                         *)
Visit ==
  /\ verdict = "running"
  /\ \E m \in Marking \ visited :
        /\ \/ m = Initial
           \/ \E k \in visited : \E t \in Enabled[k] : m = Fire(k, t)
        /\ visited' = visited \cup {m}
  /\ UNCHANGED <<verdict, witness>>

(* The search answers yes with a goal it has reached.                      *)
AnswerYes ==
  /\ verdict = "running"
  /\ \E m \in Goal :
        /\ m \in visited \cup {Initial}
        /\ witness' = m
  /\ verdict' = "yes"
  /\ UNCHANGED visited

(* The search answers no when it has processed all it visited and met no   *)
(* goal.                                                                   *)
AnswerNo ==
  /\ verdict = "running"
  /\ Complete(visited)
  /\ visited \cap Goal = {}
  /\ verdict' = "no"
  /\ UNCHANGED <<visited, witness>>

AbstractNext == Visit \/ AnswerYes \/ AnswerNo

AbstractSpec == AbstractInit /\ [][AbstractNext]_avars
=============================================================================
