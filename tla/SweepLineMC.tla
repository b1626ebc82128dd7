---------------------------- MODULE SweepLineMC -----------------------------
(***************************************************************************)
(* Small state graphs for SweepLine.  Every arc is a transition of its own *)
(* and leads as far as the progress values of its ends are apart.          *)
(***************************************************************************)
EXTENDS SweepLineInv

LOCAL S == INSTANCE SequencesExt

CONSTANT Arcs     \* a sequence of pairs of markings

(* The last two digits of a marking are its progress, plus 50.             *)
MCProgress == [m \in Marking |-> (m % 100) - 50]

MCMarking == {Arcs[i][1] : i \in DOMAIN Arcs} \cup {Arcs[i][2] : i \in DOMAIN Arcs}

MCFirelist ==
  [m \in Marking |-> S!SetToSortSeq({i \in DOMAIN Arcs : Arcs[i][1] = m}, <)]

MCSuccessor(m, t) == Arcs[t][2]
MCProgressMeasure == [t \in DOMAIN Arcs |-> MCProgress[Arcs[t][2]] - MCProgress[Arcs[t][1]]]
MCHash == [m \in Marking |-> (m \div 100) % 2]

(* A long net: the line 50 .. 57 is swept first, and two fronts are under  *)
(* way at the same time.  148 is met behind the beginning, 250 behind the  *)
(* front, and 51 once more; from 148 the second sweep comes to 151, and    *)
(* from there the third to 350.  Two short ones: the sweep that begins at  *)
(* 550 goes on from 551, with 649 left behind the beginning, and the one   *)
(* that begins at 950 ends at 951, with 1049 left there: only the end of   *)
(* the sweep extends the lists.                                            *)
Nets ==
  << <<50, 51>>, <<51, 52>>, <<52, 53>>, <<53, 54>>, <<54, 55>>, <<55, 56>>,
     <<56, 57>>, <<50, 148>>, <<51, 250>>, <<52, 51>>, <<148, 149>>,
     <<149, 150>>, <<150, 151>>, <<151, 251>>, <<251, 151>>, <<151, 350>>,
     <<550, 551>>, <<551, 649>>, <<551, 751>>, <<751, 551>>,
     <<649, 750>>, <<550, 647>>, <<950, 951>>, <<951, 1049>>, <<1049, 1150>> >>

Fronts(n) == [initial |-> 50, fronts |-> n, threads |-> n]
WithHelper(initial) == [initial |-> initial, fronts |-> 1, threads |-> 2]

(* Without helpers, with one front, and both.                              *)
FewSetups == {Fronts(2), Fronts(3), WithHelper(550), WithHelper(950)}
HelpedFronts == {[initial |-> 50, fronts |-> 2, threads |-> 3]}

MCProperties == {{}, {350, 750, 1150}}

(* What can be reached from the markings of M.                             *)
RECURSIVE ReachableFrom(_)
ReachableFrom(M) ==
  LET more == M \cup {Arcs[i][2] : i \in {j \in DOMAIN Arcs : Arcs[j][1] \in M}}
  IN IF more = M THEN M ELSE ReachableFrom(more)

MCReachable == [m \in MCMarking |-> ReachableFrom({m})]
=============================================================================
