-------------------------- MODULE SequentialDFSMC --------------------------
(***************************************************************************)
(* Searches with SequentialDFS in one net, which differ in the marking     *)
(* they start from and in the property they look for.  The net has three   *)
(* places in a ring: a transition moves two tokens on, one moves a token   *)
(* back, a test arc guards another, so that one transition can disable,    *)
(* enable and leave alone the others, and most markings are reached by     *)
(* many paths.                                                             *)
(***************************************************************************)
EXTENDS SequentialDFS

VARIABLE task        \* the search that is run

MCPlace == 1 .. 3
After(p) == (p % 3) + 1
Arcs(S) == [p \in MCPlace |-> IF \E a \in S : a[1] = p
                              THEN (CHOOSE a \in S : a[1] = p)[2] ELSE 0]

(* Transition p - 1 moves two tokens from p to the next place; 3 moves a   *)
(* token from 1 to 3 when place 2 is marked with two, and takes one of     *)
(* them back to 2 and one to 3; 4 moves one token back from 2 to 1.        *)
MCPre == [t \in 0 .. 4 |->
            CASE t < 3 -> Arcs({<<t + 1, 2>>})
              [] t = 3 -> Arcs({<<1, 1>>, <<2, 2>>})
              [] t = 4 -> Arcs({<<2, 1>>})]
MCPost == [t \in 0 .. 4 |->
             CASE t < 3 -> Arcs({<<After(t + 1), 2>>})
               [] t = 3 -> Arcs({<<2, 1>>, <<3, 2>>})
               [] t = 4 -> Arcs({<<1, 1>>})]
MCHash == [p \in MCPlace |-> 3 * p * p + 2]
MCMarkings == {m \in [MCPlace -> 0 .. 3] : m[1] + m[2] + m[3] <= 4}

(* The search the constants describe starts with two tokens on places 1    *)
(* and 2 each: four on one place wrap around, and the goal is reached on   *)
(* some paths before and on others after that.                             *)
MCInitial == <<2, 2, 0>>
MCTarget  == {<<0, 2, 2>>}
-----------------------------------------------------------------------------
(* Another one goes on from there until all is explored.  The others       *)
(* cannot overflow: for a marking that one of the starts reaches, for one  *)
(* that none does, and for a deadlock, where there is none, where there is *)
(* one, and in one.                                                        *)
Own == [start |-> InitialMarking, deadlock |-> LookForDeadlock, target |-> Target]

Tasks ==
  {Own, [Own EXCEPT !.target = {}]}
    \cup {[start |-> s, deadlock |-> FALSE, target |-> {g}] :
            s \in {<<2, 1, 0>>, <<1, 1, 1>>}, g \in {<<0, 2, 1>>, <<0, 0, 0>>}}
    \cup {[start |-> s, deadlock |-> TRUE, target |-> {}] :
            s \in {<<2, 1, 0>>, <<0, 1, 1>>, <<0, 1, 0>>, <<0, 0, 1>>}}

Task(k) == INSTANCE SequentialDFS WITH
  InitialMarking <- k.start, LookForDeadlock <- k.deadlock, Target <- k.target

MCInit == \E k \in Tasks : task = k /\ Task(k)!Init

MCNext == \E k \in Tasks : task = k /\ Task(k)!Next /\ task' = k

mcVars == <<vars, task>>

MCSpec == MCInit /\ [][MCNext]_mcVars

MCFairSpec == MCSpec /\ WF_mcVars(MCNext)
-----------------------------------------------------------------------------
(* Every search returns the right verdict (SequentialDFS!VerdictCorrect,   *)
(* the contract of DFSExploration.cc 46-57).                               *)
VerdictsCorrect == \A k \in Tasks : task = k => Task(k)!VerdictCorrect

(* Every search ends, the set of markings being finite, also behind a      *)
(* wrap-around of token counts (DFSExploration.cc 85-138).                 *)
Termination == <>Returned
=============================================================================
