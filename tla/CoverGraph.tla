----------------------------- MODULE CoverGraph -----------------------------
(***************************************************************************)
(* CoverGraph::run and runThreads for the search of a marking (EF): a      *)
(* pool of threads builds the coverability graph breadth first.  Each      *)
(* thread owns a list of the nodes it has created and walks the one net    *)
(* state it has from node to node through the tree; a new node that is not *)
(* the first son may be delegated to an idle thread, which starts a list   *)
(* of its own there.  The search ends when all threads are idle or one has *)
(* found a marking, and no thread leaves before all of them have stopped.  *)
(*                                                                         *)
(* A node (CoverPayload) is named by its marking, the key of the store.    *)
(* One action is one access to shared memory, a critical section of        *)
(* runMutex or of an idleMutex, or thread-local work.  A critical section  *)
(* is one step because the mutexes are never taken in two different        *)
(* orders: goIdle alone nests them.                                        *)
(***************************************************************************)
EXTENDS OmegaNet

CONSTANTS
  InitialMarking, \* Marking::Initial
  NumThreads,     \* nr_of_threads
  Properties,     \* the properties one of which is searched for
  Value(_, _),    \* Value(f, ns): checkOmegaProperty
  Unknown(_, _)   \* Unknown(f, ns): isUnknown after it

ASSUME MarkingAssumption == InitialMarking \in [Place -> Tokens]

ASSUME NumThreadsAssumption == NumThreads \in Nat \ {0}

(* The grammar of nets demands one place at least.                         *)
ASSUME PlaceAssumption == Place # {}

Thread == 0 .. NumThreads - 1

NoNode == <<>>    \* a NULL payload: no marking is the empty function

VARIABLES
  prop,         \* prop, the same all the time
  \* shared by the threads
  store,        \* store: the nodes by their markings
  exit,         \* exit
  running,      \* running: threads that have not initialised yet
  terminating,  \* terminating: threads that have not stopped yet
  idleCount,    \* idle_count
  idleSet,      \* idle_set
  idle,         \* *idle[t]
  info,         \* threadInfo[t]: is ns given, ns, payload
  path,         \* path.initialized
  root,         \* threadInfo[t].root, where the list of the thread begins
  globalUnknown,
  \* per thread
  pc,
  ns, currentPayload, unlinked,
  firelist, entry,          \* currentFirelist and the loop index i
  newLevel, ipay,
  helper, signalled, unknown,
  found,                    \* the thread returns its net state, not NULL
  \* the caller's thread
  verdict

searchVars == <<ns, currentPayload, unlinked, firelist, entry, newLevel, ipay>>
poolVars   == <<running, terminating, idleCount, idleSet, idle, info>>
endVars    == <<exit, path, globalUnknown, signalled, unknown, found, verdict>>
vars == <<prop, store, root, poolVars, endVars, pc, searchVars, helper>>

Beginning == InitialNetState(InitialMarking)

Goto(t, label) == pc' = [pc EXCEPT ![t] = label]

NewNode(parent, t, omegas) ==
  [parent |-> parent, next |-> NoNode, transition |-> t, omegas |-> omegas,
   nextLevel |-> FALSE]

(* The node n is stored for k.                                             *)
WithNode(k, n) ==
  [m \in DOMAIN store \cup {k} |-> IF m = k THEN n ELSE store[m]]
-----------------------------------------------------------------------------
(* The nodes from k to the root, and the transitions that led to them.     *)
UpFrom(k) ==
  LET up[n \in DOMAIN store] ==
        IF store[n].parent = NoNode THEN <<n>>
        ELSE <<n>> \o up[store[n].parent]
  IN up[k]

TransitionsUpFrom(k) ==
  LET up == UpFrom(k)
  IN [i \in 1 .. Len(up) - 1 |-> store[up[i]].transition]

(* Variant: the omegas stay.                                               *)
LeaveNodeWithOmegas(s, k) ==
  LET t == store[k].transition
  IN RevertEnabled(CoverBackfire(s, t), t)

(* Leave node k: its omegas go, its transition is undone.                  *)
LeaveNode(s, k) ==
  LET n == store[k]
  IN RevertEnabled(CoverBackfire(RemoveOmegas(s, n.transition, n.omegas),
                                 n.transition), n.transition)

(* Enter the nodes of down in that order, whose omegas are there already.  *)
EnterNode(s, k) ==
  LET t == store[k].transition
  IN UpdateEnabled(CoverFire(s, t), t)

(* From node k to its cousin c: up to the common ancestor, and down after  *)
(* all omegas of the way down have been introduced.  If c is on the next   *)
(* level, its side of the way is one longer.                               *)
WalkTo(s, k, c) ==
  LET upK == UpFrom(k)
      upC == UpFrom(c)
      extra == IF store[c].nextLevel THEN 1 ELSE 0
      steps == {i \in 0 .. Len(upK) - 1 :
                  /\ i + extra < Len(upC)
                  /\ upK[i + 1] = upC[i + extra + 1]}
      n == CHOOSE i \in steps : \A j \in steps : i <= j
      down == SubSeq(upC, 1, n + extra)
      above == FoldLeft(LeaveNode, s, SubSeq(upK, 1, n))
      pomega == UNION {DOMAIN store[down[i]].omegas : i \in DOMAIN down}
  IN FoldLeft(EnterNode, CreateOmegas(above, pomega), Reverse(down))

Ascending(S) == SetToSortSeq(S, <)

(* Firelist::getFirelist: the transitions flagged enabled.                 *)
GetFirelist(s) == Ascending(Flagged(s))
-----------------------------------------------------------------------------
Init ==
  /\ prop \in Properties
  /\ store = <<>>
  /\ exit = FALSE
  /\ running = NumThreads
  /\ terminating = NumThreads
  /\ idleCount = 0
  /\ idleSet = {}
  /\ idle = [t \in Thread |-> TRUE]
  /\ info = [t \in Thread |-> [given |-> t = 0, ns |-> Beginning,
                               payload |-> NoNode]]
  /\ path = FALSE
  /\ root = [t \in Thread |-> NoNode]
  /\ globalUnknown = FALSE
  /\ pc = [t \in Thread |-> "init"]
  /\ ns = [t \in Thread |-> Beginning]
  /\ currentPayload = [t \in Thread |-> NoNode]
  /\ unlinked = [t \in Thread |-> NoNode]
  /\ firelist = [t \in Thread |-> <<>>]
  /\ entry = [t \in Thread |-> 0]
  /\ newLevel = [t \in Thread |-> FALSE]
  /\ ipay = [t \in Thread |-> NoNode]
  /\ helper = [t \in Thread |-> t]
  /\ signalled = [t \in Thread |-> 0]
  /\ unknown = [t \in Thread |-> FALSE]
  /\ found = [t \in Thread |-> FALSE]
  /\ verdict = "running"

(* initThreadMutex, under runMutex: the last thread to come starts thread  *)
(* 0, the others go to sleep.                                              *)
Initialise(t) ==
  /\ pc[t] = "init"
  /\ running' = running - 1
  /\ Goto(t, IF running' = 0 THEN "startFirst" ELSE "initCheck")
  /\ UNCHANGED <<prop, root, store, terminating, idleCount, idleSet, idle, info,
                 endVars, searchVars, helper>>

(* pthread_cond_signal: a sleeping thread checks its condition again.      *)
Signalled(h, label) ==
  [label EXCEPT ![h] = CASE label[h] = "initAsleep" -> "initCheck"
                         [] label[h] = "asleep" -> "check"
                         [] OTHER -> label[h]]

StartFirst(t) ==
  /\ pc[t] = "startFirst"
  /\ idle' = [idle EXCEPT ![0] = FALSE]
  /\ pc' = Signalled(0, [pc EXCEPT ![t] = "initCheck"])
  /\ UNCHANGED <<prop, root, store, running, terminating, idleCount, idleSet, info,
                 endVars, searchVars, helper>>

(* while (idle && !exit) pthread_cond_wait, in initThreadMutex and in      *)
(* goIdle.                                                                 *)
Check(t) ==
  /\ pc[t] \in {"initCheck", "check"}
  /\ \/ /\ idle[t]
        /\ ~exit
        /\ Goto(t, IF pc[t] = "check" THEN "asleep" ELSE "initAsleep")
     \/ /\ ~idle[t] \/ exit
        /\ Goto(t, IF pc[t] = "check" THEN "resume"
                   ELSE IF t = 0 THEN "register" ELSE "begin")
  /\ UNCHANGED <<prop, root, store, poolVars, endVars, searchVars, helper>>

(* Thread 0 makes known that all other threads are idle ...                *)
Register(t) ==
  /\ pc[t] = "register"
  /\ idleSet' = idleSet \cup (Thread \ {0})
  /\ idleCount' = idleCount + (NumThreads - 1)
  /\ Goto(t, "insertRoot")
  /\ UNCHANGED <<prop, root, store, running, terminating, idle, info, endVars,
                 searchVars, helper>>

(* ... and begins at the initial marking.                                  *)
InsertRoot(t) ==
  LET m == info[t].ns.Current
  IN /\ pc[t] = "insertRoot"
     /\ store' = WithNode(m, [NewNode(NoNode, 0, <<>>) EXCEPT !.nextLevel = TRUE])
     /\ ns' = [ns EXCEPT ![t] = info[t].ns]
     /\ currentPayload' = [currentPayload EXCEPT ![t] = m]
     /\ unlinked' = [unlinked EXCEPT ![t] = m]
     /\ root' = [root EXCEPT ![t] = m]
     /\ Goto(t, "head")
     /\ UNCHANGED <<prop, poolVars, endVars, firelist, entry, newLevel, ipay,
                    helper>>

(* The other threads begin at the node they were given, or stop.           *)
Begin(t) ==
  /\ pc[t] = "begin"
  /\ \/ /\ info[t].given
        /\ ns' = [ns EXCEPT ![t] = info[t].ns]
        /\ currentPayload' = [currentPayload EXCEPT ![t] = info[t].payload]
        /\ unlinked' = [unlinked EXCEPT ![t] = info[t].payload]
        /\ root' = [root EXCEPT ![t] = info[t].payload]
        /\ Goto(t, "head")
     \/ /\ ~info[t].given
        /\ Goto(t, "terminate")
        /\ UNCHANGED <<root, ns, currentPayload, unlinked>>
  /\ UNCHANGED <<prop, store, poolVars, endVars, firelist, entry, newLevel,
                 ipay, helper>>
-----------------------------------------------------------------------------
(* The head of the loop, when the search is over, ...                      *)
Leave(t) ==
  /\ pc[t] = "head"
  /\ exit
  /\ Goto(t, "terminate")
  /\ UNCHANGED <<prop, root, store, poolVars, endVars, searchVars, helper>>

(* ... at a marking with the property, ...                                 *)
Find(t) ==
  /\ pc[t] = "head"
  /\ ~exit
  /\ Value(prop, ns[t])
  /\ found' = [found EXCEPT ![t] = TRUE]
  /\ Goto(t, "terminate")
  /\ UNCHANGED <<prop, root, store, poolVars, exit, path, globalUnknown, signalled,
                 unknown, verdict, searchVars, helper>>

(* ... and at any other marking, whose fire list is computed.              *)
Expand(t) ==
  /\ pc[t] = "head"
  /\ ~exit
  /\ ~Value(prop, ns[t])
  /\ unknown' = [unknown EXCEPT ![t] = @ \/ Unknown(prop, ns[t])]
  /\ newLevel' = [newLevel EXCEPT
                    ![t] = @ \/ store[currentPayload[t]].nextLevel]
  /\ firelist' = [firelist EXCEPT ![t] = GetFirelist(ns[t])]
  /\ entry' = [entry EXCEPT ![t] = 1]
  /\ Goto(t, "fire")
  /\ UNCHANGED <<prop, root, store, poolVars, exit, path, globalUnknown, signalled,
                 found, verdict, ns, currentPayload, unlinked, ipay, helper>>

(* Fire the transition of the entry, introduce omegas and search the       *)
(* store.  A known marking is left again; the flags were not touched.      *)
FireKnown(t) ==
  LET tr == firelist[t][entry[t]]
      fired == CoverFire(ns[t], tr)
      omegas == CheckOmega(fired.Current,
                           <<tr>> \o TransitionsUpFrom(currentPayload[t]))
      new == WithTokens(fired, [p \in DOMAIN omegas |-> OMEGA])
  IN /\ pc[t] = "fire"
     /\ entry[t] <= Len(firelist[t])
     /\ new.Current \in DOMAIN store
     /\ ns' = [ns EXCEPT ![t] = CoverBackfire(RevertOmegas(new, omegas), tr)]
     /\ entry' = [entry EXCEPT ![t] = @ + 1]
     /\ UNCHANGED <<prop, root, store, poolVars, endVars, pc, currentPayload,
                    unlinked, firelist, newLevel, ipay, helper>>

(* A new marking becomes a node.                                           *)
FireNew(t) ==
  LET tr == firelist[t][entry[t]]
      fired == CoverFire(ns[t], tr)
      omegas == CheckOmega(fired.Current,
                           <<tr>> \o TransitionsUpFrom(currentPayload[t]))
      new == WithTokens(fired, [p \in DOMAIN omegas |-> OMEGA])
  IN /\ pc[t] = "fire"
     /\ entry[t] <= Len(firelist[t])
     /\ new.Current \notin DOMAIN store
     /\ store' = WithNode(new.Current, NewNode(currentPayload[t], tr, omegas))
     /\ ns' = [ns EXCEPT ![t] = UpdateEnabled(new, tr)]
     /\ ipay' = [ipay EXCEPT ![t] = new.Current]
     /\ Goto(t, IF entry[t] > 1 THEN "readIdle" ELSE "link")
     /\ UNCHANGED <<prop, root, poolVars, endVars, currentPayload, unlinked,
                    firelist, entry, newLevel, helper>>

(* Undo the step to the new node and go on with the next entry.            *)
Revert(t) ==
  /\ ns' = [ns EXCEPT ![t] = LeaveNode(ns[t], ipay[t])]
  /\ entry' = [entry EXCEPT ![t] = @ + 1]
  /\ ipay' = [ipay EXCEPT ![t] = NoNode]

(* The new node goes to the end of the thread's own list.                  *)
Link(t) ==
  /\ pc[t] = "link"
  /\ store' = [store EXCEPT ![ipay[t]].nextLevel = newLevel[t],
                            ![unlinked[t]].next = ipay[t]]
  /\ newLevel' = [newLevel EXCEPT ![t] = FALSE]
  /\ unlinked' = [unlinked EXCEPT ![t] = ipay[t]]
  /\ Revert(t)
  /\ Goto(t, "fire")
  /\ UNCHANGED <<prop, root, poolVars, endVars, currentPayload, firelist, helper>>

(* getHelper: a look at idle_count without the lock, ...                   *)
ReadIdleCount(t) ==
  /\ pc[t] = "readIdle"
  /\ Goto(t, IF idleCount = 0 THEN "link" ELSE "takeHelper")
  /\ UNCHANGED <<prop, root, store, poolVars, endVars, searchVars, helper>>

(* Variant: the helper stays in idle_set.                                  *)
TakeHelperPeek(t) ==
  /\ pc[t] = "takeHelper"
  /\ \/ /\ idleCount = 0
        /\ Goto(t, "link")
        /\ UNCHANGED helper
     \/ /\ idleCount > 0
        /\ helper' = [helper EXCEPT ![t] = Min(idleSet)]
        /\ Goto(t, "giveState")
  /\ UNCHANGED <<prop, root, store, poolVars, endVars, searchVars>>

(* ... a second one under runMutex, where the first of the idle threads is *)
(* taken, ...                                                              *)
TakeHelper(t) ==
  /\ pc[t] = "takeHelper"
  /\ \/ /\ idleCount = 0
        /\ Goto(t, "link")
        /\ UNCHANGED <<idleSet, idleCount, helper>>
     \/ /\ idleCount > 0
        /\ LET h == Min(idleSet)
           IN /\ helper' = [helper EXCEPT ![t] = h]
              /\ idleSet' = idleSet \ {h}
        /\ idleCount' = idleCount - 1
        /\ Goto(t, "giveState")
  /\ UNCHANGED <<prop, root, store, running, terminating, idle, info, endVars,
                 searchVars>>

(* ... the state and then the node are given to it, ...                    *)
GiveState(t) ==
  /\ pc[t] = "giveState"
  /\ info' = [info EXCEPT ![helper[t]].given = TRUE,
                          ![helper[t]].ns = ns[t]]
  /\ Goto(t, "givePayload")
  /\ UNCHANGED <<prop, root, store, running, terminating, idleCount, idleSet, idle,
                 endVars, searchVars, helper>>

GivePayload(t) ==
  /\ pc[t] = "givePayload"
  /\ info' = [info EXCEPT ![helper[t]].payload = ipay[t]]
  /\ store' = [store EXCEPT ![ipay[t]].nextLevel = TRUE]
  /\ Goto(t, "wake")
  /\ UNCHANGED <<prop, root, running, terminating, idleCount, idleSet, idle,
                 endVars, searchVars, helper>>

(* Variant: the giver links the node it has given away.                    *)
WakeAndLink(t) ==
  /\ pc[t] = "wake"
  /\ idle' = [idle EXCEPT ![helper[t]] = FALSE]
  /\ pc' = Signalled(helper[t], [pc EXCEPT ![t] = "link"])
  /\ helper' = [helper EXCEPT ![t] = t]
  /\ UNCHANGED <<prop, root, store, running, terminating, idleCount, idleSet,
                 info, endVars, searchVars>>

(* ... and it is woken, under its idleMutex, unless it holds that itself   *)
(* on its way to sleep.                                                    *)
Wake(t) ==
  /\ pc[t] = "wake"
  /\ idle' = [idle EXCEPT ![helper[t]] = FALSE]
  /\ pc' = Signalled(helper[t], [pc EXCEPT ![t] = "fire"])
  /\ helper' = [helper EXCEPT ![t] = t]
  /\ Revert(t)
  /\ UNCHANGED <<prop, root, store, running, terminating, idleCount, idleSet, info,
                 endVars, currentPayload, unlinked, firelist, newLevel>>

(* The fire list is done: walk to the next node of the own list.           *)
NextNode(t) ==
  LET cousin == store[currentPayload[t]].next
  IN /\ pc[t] = "fire"
     /\ entry[t] > Len(firelist[t])
     /\ cousin # NoNode
     /\ ns' = [ns EXCEPT ![t] = WalkTo(ns[t], currentPayload[t], cousin)]
     /\ currentPayload' = [currentPayload EXCEPT ![t] = cousin]
     /\ firelist' = [firelist EXCEPT ![t] = <<>>]
     /\ Goto(t, "head")
     /\ UNCHANGED <<prop, root, store, poolVars, endVars, unlinked, entry, newLevel,
                    ipay, helper>>

(* The list ends: the net state is deleted, and goIdle is called, which    *)
(* first makes the thread idle ...                                         *)
GoIdle(t) ==
  /\ pc[t] = "fire"
  /\ entry[t] > Len(firelist[t])
  /\ store[currentPayload[t]].next = NoNode
  /\ info' = [info EXCEPT ![t].given = FALSE, ![t].ns = Beginning]
  /\ ns' = [ns EXCEPT ![t] = Beginning]
  /\ firelist' = [firelist EXCEPT ![t] = <<>>]
  /\ idle' = [idle EXCEPT ![t] = TRUE]
  /\ Goto(t, "enlist")
  /\ UNCHANGED <<prop, root, store, running, terminating, idleCount, idleSet,
                 endVars, currentPayload, unlinked, entry, newLevel, ipay,
                 helper>>

(* Variant: one thread that is still at work is not waited for.            *)
EnlistTooEarly(t) ==
  /\ pc[t] = "enlist"
  /\ idleSet' = idleSet \cup {t}
  /\ idleCount' = idleCount + 1
  /\ Goto(t, IF idleCount' + 1 >= terminating THEN "exit" ELSE "check")
  /\ UNCHANGED <<prop, root, store, running, terminating, idle, info, endVars,
                 searchVars, helper>>

(* ... and then, under runMutex, tells the others.                         *)
Enlist(t) ==
  /\ pc[t] = "enlist"
  /\ idleSet' = idleSet \cup {t}
  /\ idleCount' = idleCount + 1
  /\ Goto(t, IF idleCount' = terminating THEN "exit" ELSE "check")
  /\ UNCHANGED <<prop, root, store, running, terminating, idle, info, endVars,
                 searchVars, helper>>

(* The last thread to become idle ends the search.                         *)
SetExit(t) ==
  /\ pc[t] = "exit"
  /\ exit' = TRUE
  /\ Goto(t, "resume")
  /\ UNCHANGED <<prop, root, store, poolVars, path, globalUnknown, signalled,
                 unknown, found, verdict, searchVars, helper>>

(* After goIdle: the node that was given starts a new part of the own      *)
(* list, or there is nothing left to do.                                   *)
Resume(t) ==
  /\ pc[t] = "resume"
  /\ \/ /\ info[t].given
        /\ ns' = [ns EXCEPT ![t] = info[t].ns]
        /\ currentPayload' = [currentPayload EXCEPT ![t] = info[t].payload]
        /\ store' = [store EXCEPT ![unlinked[t]].next = info[t].payload]
        /\ unlinked' = [unlinked EXCEPT ![t] = info[t].payload]
        /\ Goto(t, "head")
     \/ /\ ~info[t].given
        /\ Goto(t, "terminate")
        /\ UNCHANGED <<store, ns, currentPayload, unlinked>>
  /\ UNCHANGED <<prop, root, poolVars, endVars, firelist, entry, newLevel, ipay,
                 helper>>
-----------------------------------------------------------------------------
(* Variant: the sleeping threads are not signalled.                        *)
TerminateQuietly(t) ==
  /\ pc[t] = "terminate"
  /\ exit' = TRUE
  /\ Goto(t, "barrier")
  /\ UNCHANGED <<prop, root, store, poolVars, path, globalUnknown, signalled,
                 unknown, found, verdict, searchVars, helper>>

(* terminateThreadMutex: every thread sets exit, ...                       *)
Terminate(t) ==
  /\ pc[t] = "terminate"
  /\ exit' = TRUE
  /\ Goto(t, IF NumThreads > 1 THEN "signal" ELSE "barrier")
  /\ UNCHANGED <<prop, root, store, poolVars, path, globalUnknown, signalled,
                 unknown, found, verdict, searchVars, helper>>

(* ... signals one thread after the other, ...                             *)
SignalNext(t) ==
  /\ pc[t] = "signal"
  /\ signalled' = [signalled EXCEPT ![t] = @ + 1]
  /\ pc' = Signalled(signalled[t],
                     [pc EXCEPT ![t] = IF signalled[t] + 1 = NumThreads
                                       THEN "barrier" ELSE "signal"])
  /\ UNCHANGED <<prop, root, store, poolVars, exit, path, globalUnknown, unknown,
                 found, verdict, searchVars, helper>>

(* Variant: nobody waits for the others.                                   *)
ArriveAndLeave(t) ==
  /\ pc[t] = "barrier"
  /\ path' = (path \/ found[t])
  /\ found' = [found EXCEPT ![t] = @ /\ ~path]
  /\ terminating' = terminating - 1
  /\ Goto(t, "leave")
  /\ UNCHANGED <<prop, root, store, running, idleCount, idleSet, idle, info,
                 exit, globalUnknown, signalled, unknown, verdict, searchVars,
                 helper>>

(* ... and under runMutex creates the path, if it is the first that has    *)
(* found a marking (the second gives up its own), and waits until all have *)
(* come here.                                                              *)
Arrive(t) ==
  /\ pc[t] = "barrier"
  /\ path' = (path \/ found[t])
  /\ found' = [found EXCEPT ![t] = @ /\ ~path]
  /\ terminating' = terminating - 1
  /\ Goto(t, IF terminating' = 0 THEN "leave" ELSE "barrierWait")
  /\ UNCHANGED <<prop, root, store, running, idleCount, idleSet, idle, info, exit,
                 globalUnknown, signalled, unknown, verdict, searchVars,
                 helper>>

(* The last one has broadcast runCond.                                     *)
PassBarrier(t) ==
  /\ pc[t] = "barrierWait"
  /\ terminating = 0
  /\ Goto(t, "leave")
  /\ UNCHANGED <<prop, root, store, poolVars, endVars, searchVars, helper>>

(* terminateThread: the mutex and the flag idle of the thread go with it.  *)
Return(t) ==
  /\ pc[t] = "leave"
  /\ globalUnknown' = (globalUnknown \/ unknown[t])
  /\ Goto(t, "done")
  /\ UNCHANGED <<prop, root, store, poolVars, exit, path, signalled, unknown, found,
                 verdict, searchVars, helper>>

(* runThreads joins the threads and decides.                               *)
Join ==
  /\ verdict = "running"
  /\ \A t \in Thread : pc[t] = "done"
  /\ verdict' = IF \E t \in Thread : found[t] THEN "yes"
                ELSE IF globalUnknown THEN "unknown" ELSE "no"
  /\ UNCHANGED <<prop, root, store, poolVars, exit, path, globalUnknown, signalled,
                 unknown, found, pc, searchVars, helper>>

Stop == verdict # "running" /\ UNCHANGED vars
-----------------------------------------------------------------------------
Step(t) ==
  \/ Initialise(t) \/ StartFirst(t) \/ Check(t) \/ Register(t)
  \/ InsertRoot(t) \/ Begin(t) \/ Leave(t) \/ Find(t) \/ Expand(t)
  \/ FireKnown(t) \/ FireNew(t) \/ Link(t) \/ ReadIdleCount(t)
  \/ TakeHelper(t) \/ GiveState(t) \/ GivePayload(t) \/ Wake(t)
  \/ NextNode(t) \/ GoIdle(t) \/ Enlist(t) \/ SetExit(t) \/ Resume(t)
  \/ Terminate(t) \/ SignalNext(t) \/ Arrive(t) \/ PassBarrier(t)
  \/ Return(t)

Next == (\E t \in Thread : Step(t)) \/ Join \/ Stop

Spec == Init /\ [][Next]_vars

(* A thread can take a step unless it sleeps, waits at the barrier or has  *)
(* returned.                                                               *)
Ready(t) == /\ pc[t] \notin {"initAsleep", "asleep", "done"}
            /\ pc[t] = "barrierWait" => terminating = 0

(* The scheduler runs every thread that can run, and the mutexes are held  *)
(* for bounded times only.  The formula for a thread is WF_vars(Step(t))   *)
(* with Ready(t) for ENABLED Step(t), which TLC evaluates much faster.     *)
Fairness ==
  /\ WF_vars(Join)
  /\ \A t \in Thread : ([]<>~Ready(t)) \/ ([]<><<Step(t)>>_vars)

FairSpec == Spec /\ Fairness
=============================================================================
