---------------------------- MODULE ParallelDFS -----------------------------
(***************************************************************************)
(* ParallelExploration::depth_first: NumThreads threads search the state   *)
(* graph from the initial marking over one shared store.  A thread whose   *)
(* search tree is exhausted suspends itself; a thread that reaches a new   *)
(* marking and has further transitions to try hands the new marking, with  *)
(* a copy of its stack, to a suspended one.  The last thread to suspend    *)
(* ends the search, and so does a thread that meets a goal.                *)
(*                                                                         *)
(* One action is one access to shared memory with the thread-local work    *)
(* around it.  A critical section of num_suspend_mutex is one step (inside *)
(* it the code writes num_suspended once, so the unlocked read of it in    *)
(* ReadNumSuspended sees what it sees in the code), and so is              *)
(* Store::searchAndInsert, which has to be atomic for this search ("it is  *)
(* imperative to use a thread-safe store").                                *)
(***************************************************************************)
EXTENDS StateGraph

CONSTANT NumThreads

ASSUME NumThreadsAssumption == NumThreads \in Nat \ {0}

Thread == 0 .. (NumThreads - 1)

VARIABLES
  \* shared by the threads
  store,        \* global_store: the markings inserted so far
  finished,     \* finished
  suspended,    \* suspended_threads[0 .. num_suspended - 1]
  sem,          \* the values of restartSemaphore
  globalStack,  \* global_property->stack
  \* per thread
  pc,           \* where the thread stands
  ns,           \* thread_netstate
  stack,        \* thread_stack
  firelist,     \* currentFirelist
  entry,        \* currentEntry: the entries of firelist still to be fired
  reader,       \* reader_thread_number
  posted,       \* semaphores released by the current announcement
  found,        \* propertyResult: the thread returns its net state, not NULL
  \* the caller's thread
  joined,       \* threads joined so far
  value,        \* property.value
  result        \* ns of the caller, the marking returned

sharedVars == <<store, finished, suspended, sem, globalStack>>
localVars  == <<ns, stack, firelist, entry, reader, posted, found>>
callerVars == <<joined, value, result>>
vars       == <<sharedVars, pc, localVars, callerVars>>

(* A SimpleStackEntry.  `at' is a history field, the marking that fl       *)
(* belongs to: no action reads it, the code recovers it by backfiring.     *)
Frame == [at : Marking, fl : Seq(Transition), current : Nat]

Fired(frame) == frame.fl[frame.current + 1]

(* The copy constructor of SimpleStackEntry keeps fl[0 .. current] only.   *)
CopyStack(s) ==
  [i \in DOMAIN s |->
     [s[i] EXCEPT !.fl = SubSeq(s[i].fl, 1, s[i].current + 1)]]

Top(s) == s[Len(s)]
Pop(s) == SubSeq(s, 1, Len(s) - 1)
-----------------------------------------------------------------------------
Init ==
  /\ store = {}
  /\ finished = FALSE
  /\ suspended = <<>>
  /\ sem = [t \in Thread |-> 0]
  /\ globalStack = <<>>
  /\ pc = [t \in Thread |-> "start"]
  /\ ns = [t \in Thread |-> Initial]
  /\ stack = [t \in Thread |-> <<>>]
  /\ firelist = [t \in Thread |-> <<>>]
  /\ entry = [t \in Thread |-> 0]
  /\ reader = [t \in Thread |-> t]
  /\ posted = [t \in Thread |-> 0]
  /\ found = [t \in Thread |-> FALSE]
  /\ joined = 0
  /\ value = FALSE
  /\ result = Initial

Goto(t, label) == pc' = [pc EXCEPT ![t] = label]

(* getFirelist for marking m, after which thread t enters its main loop.   *)
Expand(t, m) ==
  /\ \E f \in Firelists[m] :
        /\ firelist' = [firelist EXCEPT ![t] = f]
        /\ entry' = [entry EXCEPT ![t] = Len(f)]
  /\ Goto(t, "loop")

(* Variant: the popped entry index is decremented once too often.          *)
BacktrackSkippingOne(t) ==
  LET top == Top(stack[t]) IN
  /\ ns' = [ns EXCEPT ![t] = Backfire(ns[t], Fired(top))]
  /\ firelist' = [firelist EXCEPT ![t] = top.fl]
  /\ entry' = [entry EXCEPT ![t] = IF top.current = 0 THEN 0
                                   ELSE top.current - 1]
  /\ stack' = [stack EXCEPT ![t] = Pop(stack[t])]
  /\ Goto(t, "loop")

(* Pop the stack and return to the marking below.                          *)
Backtrack(t) ==
  LET top == Top(stack[t]) IN
  /\ ns' = [ns EXCEPT ![t] = Backfire(ns[t], Fired(top))]
  /\ firelist' = [firelist EXCEPT ![t] = top.fl]
  /\ entry' = [entry EXCEPT ![t] = top.current]
  /\ stack' = [stack EXCEPT ![t] = Pop(stack[t])]
  /\ Goto(t, "loop")
-----------------------------------------------------------------------------
(* initProperty on the initial marking.                                    *)
CheckInitial(t) ==
  /\ pc[t] = "start"
  /\ found' = [found EXCEPT ![t] = ns[t] \in Goal]
  /\ Goto(t, IF ns[t] \in Goal THEN "announce" ELSE "insertInitial")
  /\ UNCHANGED <<sharedVars, ns, stack, firelist, entry, reader, posted,
                 callerVars>>

(* Every thread inserts the initial marking and ignores the answer.        *)
InsertInitial(t) ==
  /\ pc[t] = "insertInitial"
  /\ store' = store \cup {ns[t]}
  /\ Expand(t, ns[t])
  /\ UNCHANGED <<finished, suspended, sem, globalStack, ns, stack, reader,
                 posted, found, callerVars>>

(* The head of the loop: give up if the search is over.                    *)
Abort(t) ==
  /\ pc[t] = "loop"
  /\ finished
  /\ Goto(t, "done")
  /\ UNCHANGED <<sharedVars, localVars, callerVars>>

(* The head of the loop: an entry is left, or the fire list is completed   *)
(* and the thread backtracks or, with an empty stack, suspends.            *)
TakeEntry(t) ==
  /\ pc[t] = "loop"
  /\ ~finished
  /\ entry[t] > 0
  /\ entry' = [entry EXCEPT ![t] = @ - 1]
  /\ Goto(t, "fire")
  /\ UNCHANGED <<sharedVars, ns, stack, firelist, reader, posted, found,
                 callerVars>>

CloseMarking(t) ==
  /\ pc[t] = "loop"
  /\ ~finished
  /\ entry[t] = 0
  /\ \/ /\ stack[t] # <<>>
        /\ Backtrack(t)
     \/ /\ stack[t] = <<>>
        /\ Goto(t, "suspend")
        /\ UNCHANGED <<ns, stack, firelist, entry>>
  /\ UNCHANGED <<sharedVars, reader, posted, found, callerVars>>

(* Fire the entry and enter the successor into the store.  A marking       *)
(* already there is left again by backfire.                                *)
FireKnown(t) ==
  LET tr == firelist[t][entry[t] + 1]
      m  == Fire(ns[t], tr)
  IN /\ pc[t] = "fire"
     /\ m \in store
     /\ ns' = [ns EXCEPT ![t] = Backfire(m, tr)]
     /\ Goto(t, "loop")
     /\ UNCHANGED <<sharedVars, stack, firelist, entry, reader, posted, found,
                    callerVars>>

(* A new marking that is a goal: the transition is not pushed.             *)
FireGoal(t) ==
  LET m == Fire(ns[t], firelist[t][entry[t] + 1])
  IN /\ pc[t] = "fire"
     /\ m \notin store
     /\ m \in Goal
     /\ store' = store \cup {m}
     /\ ns' = [ns EXCEPT ![t] = m]
     /\ found' = [found EXCEPT ![t] = TRUE]
     /\ Goto(t, "announce")
     /\ UNCHANGED <<finished, suspended, sem, globalStack, stack, firelist,
                    entry, reader, posted, callerVars>>

(* A new marking that is no goal: the old fire list is pushed, and with at *)
(* least two entries left the thread looks for somebody to hand m to.      *)
FireNew(t) ==
  LET m == Fire(ns[t], firelist[t][entry[t] + 1])
  IN /\ pc[t] = "fire"
     /\ m \notin store
     /\ m \notin Goal
     /\ store' = store \cup {m}
     /\ ns' = [ns EXCEPT ![t] = m]
     /\ stack' = [stack EXCEPT ![t] =
                    Append(@, [at |-> ns[t], fl |-> firelist[t],
                               current |-> entry[t]])]
     /\ \/ /\ entry[t] >= 2
           /\ Goto(t, "readNumSuspended")
           /\ UNCHANGED <<firelist, entry>>
        \/ /\ entry[t] < 2
           /\ Expand(t, m)
     /\ UNCHANGED <<finished, suspended, sem, globalStack, reader, posted,
                    found, callerVars>>

(* The dirty read of num_suspended.                                        *)
ReadNumSuspended(t) ==
  /\ pc[t] = "readNumSuspended"
  /\ \/ /\ suspended # <<>>
        /\ Goto(t, "pickReader")
        /\ UNCHANGED <<firelist, entry>>
     \/ /\ suspended = <<>>
        /\ Expand(t, ns[t])
  /\ UNCHANGED <<sharedVars, ns, stack, reader, posted, found, callerVars>>

(* Variant: num_suspended is not decremented when a reader is taken.       *)
PickReaderPeek(t) ==
  /\ pc[t] = "pickReader"
  /\ \/ /\ suspended # <<>>
        /\ reader' = [reader EXCEPT ![t] = Top(suspended)]
        /\ Goto(t, "copy")
        /\ UNCHANGED <<firelist, entry>>
     \/ /\ suspended = <<>>
        /\ Expand(t, ns[t])
        /\ UNCHANGED reader
  /\ UNCHANGED <<sharedVars, ns, stack, posted, found, callerVars>>

(* Under num_suspend_mutex: the read is repeated, and the thread that      *)
(* suspended last becomes the reader.                                      *)
PickReader(t) ==
  /\ pc[t] = "pickReader"
  /\ \/ /\ suspended # <<>>
        /\ reader' = [reader EXCEPT ![t] = Top(suspended)]
        /\ suspended' = Pop(suspended)
        /\ Goto(t, "copy")
        /\ UNCHANGED <<firelist, entry>>
     \/ /\ suspended = <<>>
        /\ Expand(t, ns[t])
        /\ UNCHANGED <<reader, suspended>>
  /\ UNCHANGED <<store, finished, sem, globalStack, ns, stack, posted, found,
                 callerVars>>

(* Variant: the reader gets the net state, and keeps its own stack.        *)
CopyNetStateOnly(t) ==
  /\ pc[t] = "copy"
  /\ ns' = [ns EXCEPT ![reader[t]] = ns[t]]
  /\ Goto(t, "postReader")
  /\ UNCHANGED <<sharedVars, stack, firelist, entry, reader, posted, found,
                 callerVars>>

(* Copy stack and net state into the reader's, ...                         *)
CopyToReader(t) ==
  /\ pc[t] = "copy"
  /\ stack' = [stack EXCEPT ![reader[t]] = CopyStack(stack[t])]
  /\ ns' = [ns EXCEPT ![reader[t]] = ns[t]]
  /\ Goto(t, "postReader")
  /\ UNCHANGED <<sharedVars, firelist, entry, reader, posted, found,
                 callerVars>>

(* ... wake it, ...                                                        *)
PostReader(t) ==
  /\ pc[t] = "postReader"
  /\ sem' = [sem EXCEPT ![reader[t]] = @ + 1]
  /\ Goto(t, "resume")
  /\ UNCHANGED <<store, finished, suspended, globalStack, localVars,
                 callerVars>>

(* ... and go on as if the marking had been in the store.                  *)
Resume(t) ==
  /\ pc[t] = "resume"
  /\ \/ /\ finished
        /\ Goto(t, "done")
        /\ UNCHANGED <<ns, stack, firelist, entry>>
     \/ /\ ~finished
        /\ Backtrack(t)
  /\ UNCHANGED <<sharedVars, reader, posted, found, callerVars>>

(* Variant: the last but one thread to suspend ends the search.            *)
SuspendTooEarly(t) ==
  /\ pc[t] = "suspend"
  /\ suspended' = Append(suspended, t)
  /\ Goto(t, IF Len(suspended') >= NumThreads - 1 THEN "announce" ELSE "wait")
  /\ UNCHANGED <<store, finished, sem, globalStack, localVars, callerVars>>

(* Under num_suspend_mutex: the thread enters itself, and counts.          *)
Suspend(t) ==
  /\ pc[t] = "suspend"
  /\ suspended' = Append(suspended, t)
  /\ Goto(t, IF Len(suspended') = NumThreads THEN "announce" ELSE "wait")
  /\ UNCHANGED <<store, finished, sem, globalStack, localVars, callerVars>>

(* Variant: the semaphore is read and not decremented.                     *)
WaitWithoutDecrement(t) ==
  /\ pc[t] = "wait"
  /\ sem[t] > 0
  /\ Goto(t, "woken")
  /\ UNCHANGED <<sharedVars, localVars, callerVars>>

Wait(t) ==
  /\ pc[t] = "wait"
  /\ sem[t] > 0
  /\ sem' = [sem EXCEPT ![t] = @ - 1]
  /\ Goto(t, "woken")
  /\ UNCHANGED <<store, finished, suspended, globalStack, localVars,
                 callerVars>>

(* A woken thread ends with the search or continues from what it was given.*)
Woken(t) ==
  /\ pc[t] = "woken"
  /\ \/ /\ finished
        /\ Goto(t, "done")
        /\ UNCHANGED <<firelist, entry>>
     \/ /\ ~finished
        /\ Expand(t, ns[t])
  /\ UNCHANGED <<sharedVars, ns, stack, reader, posted, found, callerVars>>

(* Variant: a thread that ends the search releases no semaphore.           *)
AnnounceWithoutPosting(t) ==
  /\ pc[t] = "announce"
  /\ finished' = TRUE
  /\ Goto(t, "done")
  /\ UNCHANGED <<store, suspended, sem, globalStack, localVars, callerVars>>

(* The end of the search, positive or negative, is announced to all ...    *)
Announce(t) ==
  /\ pc[t] = "announce"
  /\ finished' = TRUE
  /\ Goto(t, "post")
  /\ UNCHANGED <<store, suspended, sem, globalStack, localVars, callerVars>>

(* ... by a post to the semaphore of every thread.                         *)
PostNext(t) ==
  /\ pc[t] = "post"
  /\ posted[t] < NumThreads
  /\ sem' = [sem EXCEPT ![posted[t]] = @ + 1]
  /\ posted' = [posted EXCEPT ![t] = @ + 1]
  /\ UNCHANGED <<store, finished, suspended, globalStack, pc, ns, stack,
                 firelist, entry, reader, found, callerVars>>

(* ... a negative end returns NULL, a positive one publishes the stack     *)
(* under global_property_mutex and returns the net state.                  *)
Publish(t) ==
  /\ pc[t] = "post"
  /\ posted[t] = NumThreads
  /\ \/ /\ found[t]
        /\ globalStack' = stack[t]
        /\ stack' = [stack EXCEPT ![t] = globalStack]
     \/ /\ ~found[t]
        /\ UNCHANGED <<globalStack, stack>>
  /\ Goto(t, "done")
  /\ UNCHANGED <<store, finished, suspended, sem, ns, firelist, entry, reader,
                 posted, found, callerVars>>

(* Variant: the net state is copied from every thread.                     *)
JoinAlwaysCopies ==
  /\ joined < NumThreads
  /\ pc[joined] = "done"
  /\ joined' = joined + 1
  /\ value' = (value \/ found[joined])
  /\ result' = ns[joined]
  /\ UNCHANGED <<sharedVars, pc, localVars>>

(* depth_first joins the threads in the order of their numbers.            *)
Join ==
  /\ joined < NumThreads
  /\ pc[joined] = "done"
  /\ joined' = joined + 1
  /\ \/ /\ found[joined]
        /\ value' = TRUE
        /\ result' = ns[joined]
     \/ /\ ~found[joined]
        /\ UNCHANGED <<value, result>>
  /\ UNCHANGED <<sharedVars, pc, localVars>>

Returned == joined = NumThreads

Stop == Returned /\ UNCHANGED vars
-----------------------------------------------------------------------------
Step(t) ==
  \/ CheckInitial(t) \/ InsertInitial(t) \/ Abort(t)     \/ TakeEntry(t)
  \/ CloseMarking(t) \/ FireKnown(t)     \/ FireGoal(t)  \/ FireNew(t)
  \/ ReadNumSuspended(t) \/ PickReader(t) \/ CopyToReader(t)
  \/ PostReader(t)   \/ Resume(t)        \/ Suspend(t)   \/ Wait(t)
  \/ Woken(t)        \/ Announce(t)      \/ PostNext(t)  \/ Publish(t)

Next == (\E t \in Thread : Step(t)) \/ Join \/ Stop

Spec == Init /\ [][Next]_vars
-----------------------------------------------------------------------------
(* The type invariant: every variable holds what its C++ type and the      *)
(* bounds of its array allow; suspended_threads never overflows.           *)
Label == {"start", "insertInitial", "loop", "fire", "readNumSuspended",
          "pickReader", "copy", "postReader", "resume", "suspend", "wait",
          "woken", "announce", "post", "done"}

TypeOK ==
  /\ store \subseteq Marking
  /\ finished \in BOOLEAN
  /\ suspended \in Seq(Thread)
  /\ Len(suspended) <= NumThreads
  /\ sem \in [Thread -> Nat]
  /\ globalStack \in Seq(Frame)
  /\ pc \in [Thread -> Label]
  /\ ns \in [Thread -> Marking]
  /\ stack \in [Thread -> Seq(Frame)]
  /\ firelist \in [Thread -> Seq(Transition)]
  /\ entry \in [Thread -> Nat]
  /\ reader \in [Thread -> Thread]
  /\ posted \in [Thread -> 0 .. NumThreads]
  /\ found \in [Thread -> BOOLEAN]
  /\ joined \in 0 .. NumThreads
  /\ value \in BOOLEAN
  /\ result \in Marking

(* A stack replays to m: its first frame belongs to the initial marking,   *)
(* and each frame's transition leads to the marking of the next one, the   *)
(* last one's to m.                                                        *)
Replays(s, m) ==
  /\ s = <<>> => m = Initial
  /\ s # <<>> => /\ s[1].at = Initial
                 /\ Fire(Top(s).at, Fired(Top(s))) = m
  /\ \A i \in 1 .. (Len(s) - 1) : Fire(s[i].at, Fired(s[i])) = s[i + 1].at

(* While a thread works, its stack is a path from the initial marking to   *)
(* its net state, no matter whether it built the stack itself or was given *)
(* it by another thread (ParallelExploration.cc 165-171).                  *)
Working == {"loop", "fire", "readNumSuspended", "pickReader", "copy",
            "postReader", "resume"}

StackIsPath ==
  \A t \in Thread : pc[t] \in Working => Replays(stack[t], ns[t])

(* A hand-over touches a thread that is idle: from the moment a reader is  *)
(* taken from suspended_threads until it is woken, it waits (or has left   *)
(* because the search is over), nobody else is about to hand it anything,  *)
(* and it is not entered as suspended ("the destination thread is blocked  *)
(* at this point", ParallelExploration.cc 165).                            *)
HandingOver(t) == pc[t] \in {"copy", "postReader"}

HandOverToIdle ==
  \A t \in Thread : HandingOver(t) =>
     LET r == reader[t] IN
     /\ \/ pc[r] = "wait"
        \/ finished /\ pc[r] \in {"woken", "done"} /\ ~found[r]
     /\ \A i \in DOMAIN suspended : suspended[i] # r
     /\ \A u \in Thread \ {t} : HandingOver(u) => reader[u] # r

(* No thread is woken without reason, and no wake-up is lost: before the   *)
(* end of the search a thread's semaphore is 1 exactly when it has been    *)
(* taken from suspended_threads, given its data, and not yet woken.        *)
WakeUpExact ==
  ~finished =>
    \A t \in Thread :
      /\ sem[t] <= 1
      /\ sem[t] = 1 <=>
            /\ pc[t] = "wait"
            /\ \A i \in DOMAIN suspended : suspended[i] # t
            /\ \A u \in Thread : ~(HandingOver(u) /\ reader[u] = t)

(* The last thread to suspend really is the last: when a thread is about   *)
(* to announce that there is no goal, every other one waits, and the whole *)
(* (reduced) state space has been processed.                               *)
AllAsleepIsEnd ==
  \A t \in Thread : pc[t] = "announce" /\ ~found[t] =>
     /\ \A u \in Thread \ {t} : pc[u] = "wait" /\ sem[u] = 0
     /\ Complete(store)

(* The markings reachable in the full graph: the least set that has the    *)
(* initial marking and is closed under every enabled transition.           *)
FullyClosed(S) ==
  \A m \in S : \A t \in Enabled[m] : Fire(m, t) \in S

Reachable ==
  {m \in Marking : \A S \in SUBSET Marking :
                      Initial \in S /\ FullyClosed(S) => m \in S}

(* What is required of the fire lists for a property ("the firelist must   *)
(* be applicable to the given property"): if a goal is reachable, then no  *)
(* complete reduced state space avoids all goals.                          *)
FirelistsApplicable ==
  \A S \in SUBSET Marking :
     Complete(S) /\ S \cap Goal = {} => Reachable \cap Goal = {}

(* The header's "false, if all markings have been explored and no such     *)
(* state was found" and "true, if a marking fulfilling the property was    *)
(* found": with applicable fire lists the verdict says whether a goal is   *)
(* reachable, and a positive one comes with a reachable goal.              *)
VerdictCorrect ==
  Returned =>
    /\ value => result \in Goal \cap Reachable
    /\ ~value => /\ Complete(store) /\ store \cap Goal = {}
                 /\ FirelistsApplicable => Reachable \cap Goal = {}

(* What the caller reads after the search is the witness path              *)
(* (SimpleProperty.h 86-109): the transitions of the stack, in order, lead *)
(* from the initial marking to the marking returned.                       *)
WitnessPathComplete == Returned /\ value => Replays(globalStack, result)

(* The search is a ReachabilitySearch: its store is what is visited, and   *)
(* its verdict is given when the last thread has been joined.              *)
Search == INSTANCE ReachabilitySearch WITH
  visited <- store,
  verdict <- IF Returned THEN (IF value THEN "yes" ELSE "no") ELSE "running",
  witness <- IF Returned THEN result ELSE Initial

ImplementsSearch == Search!AbstractSpec
=============================================================================
