------------------------------ MODULE CTLUntil ------------------------------
(***************************************************************************)
(* EUFormula::check and AUFormula::check (Formula/CTL/*.cc): does          *)
(* E(phi U psi) or A(phi U psi) hold in the current net state?  A depth    *)
(* first search for a witness or a counterexample, which stores with every *)
(* marking what it has found out about it.  The formula may be part of     *)
(* another one, whose own search calls check at one marking after the      *)
(* other; the results are kept from call to call.                          *)
(*                                                                         *)
(* The two searches are mirror images: one looks for psi along phi, the    *)
(* other for a marking without phi and psi, a deadlock or a cycle along    *)
(* phi.  A result the search stops at is called decisive here.             *)
(***************************************************************************)
EXTENDS MarkingGraph

CONSTANTS
  Formulas,   \* records [op, phi, psi, visible]: the formulas to check;
              \* phi and psi are given by the markings that satisfy them
  Stubborn,   \* whether FirelistStubbornCTL makes the fire lists
  Assertions, \* whether they are compiled in (configure --enable-debug)
  Alone       \* transitions that share their pre-places with no other

VARIABLES
  ns,                \* the net state
  formula,           \* the formula
  cachedResult,      \* of every marking, in its payload
  dfs,               \* the number in its payload
  dfsStack,          \* entries [fl, flIndex, payload, lowlink]
  tarjanStack,       \* markings left whose component is not finished
  firelist,          \* currentFirelist
  entry,             \* currentFirelistIndex
  currentDFSNumber,
  currentLowlink,
  firedAll,          \* the highest number with a full fire list
  pc,                \* "idle" between the calls, "aborted" by an assertion
  asked,             \* history: the net state of the last call, or NULL
  answer             \* what it returned

ctlVars == <<ns, formula, cachedResult, dfs, dfsStack, tarjanStack, firelist,
             entry, currentDFSNumber, currentLowlink, firedAll, pc, asked,
             answer>>

searchVars == <<dfs, dfsStack, tarjanStack, firelist, entry, currentDFSNumber,
                currentLowlink, firedAll>>

Existential == formula.op = "EU"

(* The result that ends the search for all markings on its path, the one   *)
(* of a component that is finished, and the one of a marking on the path:  *)
(* AUFormula gives it the decisive one at once, so that a cycle is seen as *)
(* a counterexample.                                                       *)
Decisive == IF Existential THEN "KNOWN_TRUE" ELSE "KNOWN_FALSE"
Finished == IF Existential THEN "KNOWN_FALSE" ELSE "KNOWN_TRUE"
OnPath == IF Existential THEN "IN_PROGRESS" ELSE "KNOWN_FALSE"

(* The quick checks: psi, and neither phi nor psi.                         *)
Quick(m) == IF m \in formula.psi THEN "KNOWN_TRUE"
            ELSE IF m \notin formula.phi THEN "KNOWN_FALSE" ELSE "UNKNOWN"

Last(s) == s[Len(s)]
ButLast(s) == SubSeq(s, 1, Len(s) - 1)
Lower(a, b) == IF a < b THEN a ELSE b
-----------------------------------------------------------------------------
(* FirelistStubbornCTL::getFirelist: an invisible transition that shares   *)
(* its pre-places with no other is enough.  In a deadlock an assertion     *)
(* fails; without assertions the list is empty.                            *)
Singletons(n) == (n.Enabled \cap Alone) \ formula.visible

CTLFirelistsOf(n) ==
  IF Stubborn /\ Singletons(n) # {} THEN {<<t>> : t \in Singletons(n)}
                                    ELSE Firelists[n.Current]

GotFirelist(n, label) ==
  pc' = IF Assertions /\ Stubborn /\ n.Enabled = {} THEN "aborted" ELSE label

Init ==
  /\ ns = InitialNetState
  /\ formula \in Formulas
  /\ cachedResult = [m \in Marking |-> "UNKNOWN"]
  /\ dfs = [m \in Marking |-> 0]
  /\ dfsStack = <<>>
  /\ tarjanStack = <<>>
  /\ firelist = <<>>
  /\ entry = 0
  /\ currentDFSNumber = 0
  /\ currentLowlink = 0
  /\ firedAll = 0
  /\ pc = "idle"
  /\ asked = <<>>
  /\ answer = FALSE

Answer(result) ==
  /\ asked' = ns
  /\ answer' = (result = "KNOWN_TRUE")
  /\ UNCHANGED <<ns, formula, searchVars>>

(* The formula around this one goes on to another marking.                 *)
Move ==
  /\ pc = "idle"
  /\ \E t \in ns.Enabled : ns' = Updated(Fired(ns, t))
  /\ asked' = <<>>
  /\ UNCHANGED <<formula, cachedResult, searchVars, pc, answer>>

(* A call that finds the result, or knows it after the quick checks.       *)
CheckCached ==
  /\ pc = "idle"
  /\ cachedResult[ns.Current] # "UNKNOWN"
  /\ Answer(cachedResult[ns.Current])
  /\ UNCHANGED <<cachedResult, pc>>

Result(result) ==
  /\ cachedResult' = [cachedResult EXCEPT ![ns.Current] = result]
  /\ Answer(result)

CheckQuickly ==
  /\ pc = "idle"
  /\ cachedResult[ns.Current] = "UNKNOWN"
  /\ Quick(ns.Current) # "UNKNOWN"
  /\ Result(Quick(ns.Current))
  /\ UNCHANGED pc

(* Without psi A(phi U psi) is false where the fire list is empty.         *)
DeadEnd(n) == ~Existential /\ n.Enabled = {}

CheckDeadlock ==
  /\ pc = "idle"
  /\ cachedResult[ns.Current] = "UNKNOWN"
  /\ Quick(ns.Current) = "UNKNOWN"
  /\ DeadEnd(ns)
  /\ GotFirelist(ns, "idle")
  /\ Result("KNOWN_FALSE")

(* The marking n gets the number k and its fire list.                      *)
Number(n, k) ==
  /\ dfs' = [dfs EXCEPT ![n.Current] = k]
  /\ cachedResult' = [cachedResult EXCEPT ![n.Current] = OnPath]
  /\ currentDFSNumber' = k
  /\ currentLowlink' = k
  /\ firelist' \in CTLFirelistsOf(n)
  /\ entry' = Len(firelist')
  /\ GotFirelist(n, "loop")

Check ==
  /\ pc = "idle"
  /\ cachedResult[ns.Current] = "UNKNOWN"
  /\ Quick(ns.Current) = "UNKNOWN"
  /\ ~DeadEnd(ns)
  /\ Number(ns, 1)
  /\ firedAll' = IF Len(firelist') > 1 THEN 1 ELSE 0
  /\ asked' = ns
  /\ UNCHANGED <<ns, formula, dfsStack, tarjanStack, answer>>
-----------------------------------------------------------------------------
InTarjanStack == {tarjanStack[i] : i \in DOMAIN tarjanStack}

(* The search stops: the markings on the Tarjan stack, the current one and *)
(* those in extra get the decisive result.                                 *)
Stop(extra) ==
  /\ cachedResult' = [m \in Marking |->
       IF m \in extra \cup {ns.Current} \cup InTarjanStack THEN Decisive
       ELSE cachedResult[m]]
  /\ tarjanStack' = <<>>

(* The net state the next transition leads to.                             *)
Ahead == Fired(ns, firelist[entry])

(* The next transition leads to a marking with a decisive result: back,    *)
(* and stop.                                                               *)
MeetDecisive ==
  /\ pc = "loop"
  /\ entry > 0
  /\ cachedResult[Ahead.Current] = Decisive
  /\ Stop({})
  /\ pc' = "unwind"
  /\ entry' = entry - 1
  /\ UNCHANGED <<ns, formula, dfs, dfsStack, firelist, currentDFSNumber,
                 currentLowlink, firedAll, asked, answer>>

(* It leads to one that is no help.                                        *)
MeetFinished ==
  /\ pc = "loop"
  /\ entry > 0
  /\ cachedResult[Ahead.Current] = Finished
  /\ entry' = entry - 1
  /\ UNCHANGED <<ns, formula, cachedResult, dfs, dfsStack, tarjanStack,
                 firelist, currentDFSNumber, currentLowlink, firedAll, pc,
                 asked, answer>>

(* It leads to one on the path or in an unfinished component: its number   *)
(* is taken over.                                                          *)
MeetInProgress ==
  /\ pc = "loop"
  /\ entry > 0
  /\ cachedResult[Ahead.Current] = "IN_PROGRESS"
  /\ currentLowlink' = Lower(currentLowlink, dfs[Ahead.Current])
  /\ entry' = entry - 1
  /\ UNCHANGED <<ns, formula, cachedResult, dfs, dfsStack, tarjanStack,
                 firelist, currentDFSNumber, firedAll, pc, asked, answer>>

(* It leads to a marking that the quick checks decide: stop, or try the    *)
(* next one.                                                               *)
MeetQuick ==
  /\ pc = "loop"
  /\ entry > 0
  /\ cachedResult[Ahead.Current] = "UNKNOWN"
  /\ Quick(Ahead.Current) # "UNKNOWN"
  /\ ns' = Undone(Updated(Ahead), firelist[entry])
  /\ IF Quick(Ahead.Current) = Decisive
     THEN Stop({Ahead.Current}) /\ pc' = "unwind"
     ELSE /\ cachedResult' = [cachedResult EXCEPT ![Ahead.Current] = Finished]
          /\ UNCHANGED <<tarjanStack, pc>>
  /\ entry' = entry - 1
  /\ UNCHANGED <<formula, dfs, dfsStack, firelist, currentDFSNumber,
                 currentLowlink, firedAll, asked, answer>>

Entry == [fl |-> firelist, flIndex |-> entry - 1, payload |-> ns.Current,
          lowlink |-> currentLowlink]

(* It leads to a new marking with phi: go there.                           *)
Descend ==
  /\ pc = "loop"
  /\ entry > 0
  /\ cachedResult[Ahead.Current] = "UNKNOWN"
  /\ Quick(Ahead.Current) = "UNKNOWN"
  /\ ns' = Updated(Ahead)
  /\ ~DeadEnd(Updated(Ahead))
  /\ dfsStack' = Append(dfsStack, Entry)
  /\ Number(ns', currentDFSNumber + 1)
  /\ firedAll' = IF Len(firelist') > 1 THEN currentDFSNumber' ELSE firedAll
  /\ UNCHANGED <<formula, tarjanStack, asked, answer>>

(* A deadlock without psi is a counterexample to A(phi U psi): everything  *)
(* on the stack and the deadlock itself are decided.                       *)
MeetDeadlock ==
  /\ pc = "loop"
  /\ entry > 0
  /\ cachedResult[Ahead.Current] = "UNKNOWN"
  /\ Quick(Ahead.Current) = "UNKNOWN"
  /\ DeadEnd(Updated(Ahead))
  /\ ns' = Updated(Ahead)
  /\ dfsStack' = Append(dfsStack, Entry)
  /\ Stop({Ahead.Current})
  /\ GotFirelist(ns', "unwind")
  /\ UNCHANGED <<formula, dfs, firelist, entry, currentDFSNumber,
                 currentLowlink, firedAll, asked, answer>>
-----------------------------------------------------------------------------
(* The fire list is finished.  The root of a component that may have left  *)
(* transitions out everywhere looks again, at all it has not fired.        *)
Root == dfs[ns.Current] = currentLowlink

(* Variant: nothing is looked for that has been left out.                  *)
IgnoringOverlooked == FALSE

Ignoring == Root /\ dfs[ns.Current] > firedAll /\ Cardinality(ns.Enabled) > 1

Arrangements(T) ==
  {f \in [1 .. Cardinality(T) -> T] : \A t \in T : \E i \in DOMAIN f : f[i] = t}

Extend ==
  /\ pc = "loop"
  /\ entry = 0
  /\ Ignoring
  /\ firedAll' = dfs[ns.Current]
  /\ firelist' \in Arrangements(ns.Enabled \ {firelist[1]})
  /\ entry' = Len(firelist')
  /\ UNCHANGED <<ns, formula, cachedResult, dfs, dfsStack, tarjanStack,
                 currentDFSNumber, currentLowlink, pc, asked, answer>>

(* The component above its root, on the Tarjan stack.                      *)
Component == {m \in InTarjanStack : dfs[m] > dfs[ns.Current]}

(* A root finishes its component; another marking waits on the Tarjan      *)
(* stack.                                                                  *)
Close ==
  IF Root
  THEN /\ cachedResult' = [m \in Marking |->
            IF m \in Component \cup {ns.Current} THEN Finished
            ELSE cachedResult[m]]
       /\ tarjanStack' = SubSeq(tarjanStack, 1,
                                Len(tarjanStack) - Cardinality(Component))
       /\ firedAll' = IF dfs[ns.Current] > firedAll THEN dfs[ns.Current]
                                                    ELSE firedAll
  ELSE /\ tarjanStack' = Append(tarjanStack, ns.Current)
       /\ UNCHANGED <<cachedResult, firedAll>>

(* Back to the marking below.                                              *)
Pop(top) ==
  /\ firelist' = top.fl
  /\ entry' = top.flIndex
  /\ dfsStack' = ButLast(dfsStack)
  /\ ns' = Undone(ns, top.fl[top.flIndex + 1])

Backtrack ==
  /\ pc = "loop"
  /\ entry = 0
  /\ ~Ignoring
  /\ dfsStack # <<>>
  /\ Close
  /\ Pop(Last(dfsStack))
  /\ currentLowlink' = Lower(currentLowlink, Last(dfsStack).lowlink)
  /\ UNCHANGED <<formula, dfs, currentDFSNumber, pc, asked, answer>>

(* Back at the marking of the call: there is no witness, or no             *)
(* counterexample.                                                         *)
Exhausted ==
  /\ pc = "loop"
  /\ entry = 0
  /\ ~Ignoring
  /\ dfsStack = <<>>
  /\ Close
  /\ answer' = ~Existential
  /\ pc' = "idle"
  /\ UNCHANGED <<ns, formula, dfs, dfsStack, firelist, entry, currentDFSNumber,
                 currentLowlink, asked>>

(* After a stop, the markings on the stack are decided one by one, and the *)
(* net state goes back to that of the call.                                *)
Unwind ==
  /\ pc = "unwind"
  /\ dfsStack # <<>>
  /\ cachedResult' = [cachedResult EXCEPT ![Last(dfsStack).payload] = Decisive]
  /\ Pop(Last(dfsStack))
  /\ UNCHANGED <<formula, dfs, tarjanStack, currentDFSNumber, currentLowlink,
                 firedAll, pc, asked, answer>>

Conclude ==
  /\ pc = "unwind"
  /\ dfsStack = <<>>
  /\ answer' = Existential
  /\ pc' = "idle"
  /\ UNCHANGED <<ns, formula, cachedResult, searchVars, asked>>

Step == MeetDecisive \/ MeetFinished \/ MeetInProgress \/ MeetQuick \/ Descend
        \/ MeetDeadlock \/ Extend \/ Backtrack \/ Exhausted \/ Unwind \/ Conclude

Next == Move \/ CheckCached \/ CheckQuickly \/ CheckDeadlock \/ Check \/ Step

Spec == Init /\ [][Next]_ctlVars
-----------------------------------------------------------------------------
(* The markings that satisfy the formula.                                  *)
Sat == IF Existential THEN SatEU(formula.phi, formula.psi)
                      ELSE SatAU(formula.phi, formula.psi)

(* Between two calls every result kept is right, and none is in progress;  *)
(* the last call has returned the right one and has left the net state as  *)
(* it was.                                                                 *)
ResultsCorrect ==
  pc = "idle" =>
    /\ \A m \in Marking :
         \/ cachedResult[m] = "UNKNOWN"
         \/ cachedResult[m] = IF m \in Sat THEN "KNOWN_TRUE" ELSE "KNOWN_FALSE"
    /\ asked # <<>> => /\ ns = asked
                       /\ answer = (ns.Current \in Sat)

(* No fire list is asked for in a deadlock ("In current LoLA, it cannot    *)
(* happen", FirelistStubbornCTL.cc 46-49): the assertion there holds.      *)
NoFirelistInDeadlock == pc # "aborted"
=============================================================================
