----------------------------- MODULE SweepLine ------------------------------
(***************************************************************************)
(* The sweep-line search (SweepLine/Sweep.inc, SweepRingStore.inc).  Every *)
(* transition changes the progress measure of a marking by a fixed amount. *)
(* A front sweeps over the progress values: it keeps a ring of buckets     *)
(* around the current value, forgets the markings behind it, and keeps for *)
(* good only those that were reached backwards (persistent ones).  Several *)
(* fronts follow each other and share the lists of persistent markings, so *)
(* each begins with what the ones before it have left; the foremost one is *)
(* the frontrunner, the others may advance as far as their predecessor     *)
(* allows.  Helper threads join the front they find at work.               *)
(*                                                                         *)
(* A bucket is a vector store: each of its operations is one step, but a   *)
(* lookup over several of them, or the removal of a marking from one and   *)
(* its insertion into another, is not.  Waiting for a condition is a guard *)
(* where the code signals every change of the condition under the mutex.   *)
(***************************************************************************)
EXTENDS Integers, FiniteSets, Sequences, FiniteSetsExt

CONSTANTS
  Setups,           \* nets, by their initial markings, and the numbers of
                    \* fronts and threads one may ask for
  Marking,
  Firelist,         \* Firelist[m]: the transitions getFirelist returns
  Successor(_, _),
  ProgressMeasure,  \* ProgressMeasure[t]: the progress of a transition
  Properties,       \* the properties, sets of markings, one of which is searched
  Hash,             \* Hash[m]: the bucket of a HashingWrapperStore
  Delay             \* transient_offset: how far behind markings are kept

Transition == DOMAIN ProgressMeasure
Buckets == {Hash[m] : m \in Marking}

FrontOffset == Max({ProgressMeasure[t] : t \in Transition} \cup {0})
BackOffset  == -Min({ProgressMeasure[t] : t \in Transition} \cup {0})
Size        == FrontOffset + BackOffset + 1

(* Every thread is at a front or helps one; markings are kept no longer    *)
(* than there are buckets for.                                             *)
ASSUME SweepAssumption ==
  /\ \A s \in Setups : s.initial \in Marking /\ s.fronts \in Nat \ {0}
                       /\ s.threads \in Nat /\ s.threads >= s.fronts
  /\ IsFiniteSet(Transition) /\ ProgressMeasure \in [Transition -> Int]
  /\ \A m \in Marking : Firelist[m] \in Seq(Transition)
  /\ \A m \in Marking, t \in Transition : Successor(m, t) \in Marking
  /\ Delay \in 0 .. BackOffset

VARIABLES
  setup, prop,          \* what is asked for, the same all the time
  exit, running, terminating,
  first,                \* where start_new_persistent and start_old_persistent
                        \* are: the lists are indexed by progress
  newP, oldP,           \* the lists of new and of old persistent markings
  \* per front
  store, active,        \* the ring of transient buckets, and where we are
  link,                 \* the entry of the lists each of its slots points to
  samevalue,            \* the transient markings of the current progress
  fresh,                \* new_persistent_empty
  frontrunner, sem,     \* sem[f]: the semaphore f is to post
  back, countdown,      \* back_progress, sem_countdown
  helpers,              \* helpers[f]: the helpers active at front f
  \* per thread
  pc, idle, call,
  frontptr,             \* the front whose buckets the thread works on
  glance,               \* what the thread has read of a flag
  todo,                 \* the threads still to be told
  ns, entry,            \* the marking it works on; the index into its list
  tried,                \* the buckets popVector has found empty
  found,                \* the thread returns a marking with the property
  \* the process
  verdict

listVars  == <<first, newP, oldP>>
ringVars  == <<store, active, link, samevalue, fresh>>
frontVars == <<frontrunner, sem, back, countdown>>
idleVars  == <<helpers, idle, call, frontptr, glance, todo>>
workVars  == <<ns, entry, tried, found>>
endVars   == <<exit, running, terminating, verdict>>
vars == <<setup, prop, listVars, ringVars, frontVars, idleVars, workVars, endVars, pc>>

Initial    == setup.initial
NumFronts  == setup.fronts       \* nr_of_fronts: the threads 0 .. NumFronts - 1
NumThreads == setup.threads      \* nr_of_threads: the others are helpers
Helped     == NumThreads > NumFronts     \* threads_per_front > 1

Thread == 0 .. NumThreads - 1
Front  == 0 .. NumFronts - 1
Helper == Thread \ Front

FrontOf(h)   == h % NumFronts
NextFront(f) == (f + 1) % NumFronts
Pred(f)      == (f + NumFronts - 1) % NumFronts
HelpersOf(f) == {h \in Helper : FrontOf(h) = f}

Goto(t, label) == pc' = [pc EXCEPT ![t] = label]

EmptyRing == [i \in 0 .. Size - 1 |-> {}]

(* The lists begin with Size + 1 buckets; the initial marking is at 0.     *)
Init ==
  /\ setup \in Setups
  /\ prop \in Properties
  /\ exit = FALSE
  /\ running = NumThreads /\ terminating = NumThreads
  /\ first = -BackOffset
  /\ newP = [i \in first .. first + Size |-> {}]
  /\ oldP = [i \in first .. first + Size |-> {}]
  /\ store = [f \in Front |-> IF f = 0 THEN [EmptyRing EXCEPT ![BackOffset] = {Initial}]
                              ELSE EmptyRing]
  /\ active = [f \in Front |-> BackOffset]
  /\ link = [f \in Front |-> IF f = 0 THEN [i \in 0 .. Size - 1 |-> first + i]
                             ELSE <<>>]
  /\ samevalue = [f \in Front |-> {}]
  /\ fresh = [f \in Front |-> TRUE]
  /\ frontrunner = [f \in Front |-> f = 0]
  /\ sem = [f \in Front |-> 0]
  /\ back = [f \in Front |-> BackOffset]
  /\ countdown = [f \in Front |-> Size - 1]
  /\ helpers = [f \in Front |-> 0]
  /\ pc = [t \in Thread |-> "init"]
  /\ idle = [t \in Thread |-> TRUE]
  /\ call = [t \in Thread |-> FALSE]
  /\ frontptr = [t \in Thread |-> FrontOf(t)]
  /\ glance = [t \in Thread |-> FALSE]
  /\ todo = [t \in Thread |-> {}]
  /\ ns = [t \in Thread |-> Initial]
  /\ entry = [t \in Thread |-> 0]
  /\ tried = [t \in Thread |-> {}]
  /\ found = [t \in Thread |-> FALSE]
  /\ verdict = "running"
-----------------------------------------------------------------------------
(* A thread that sleeps on its own condition checks it when it is          *)
(* signalled.  A thread in "nap" holds its mutex: it cannot be signalled.  *)
Signalled(h, label) ==
  [label EXCEPT ![h] = CASE label[h] = "initAsleep" -> "initCheck"
                         [] label[h] = "asleep" -> "awake"
                         [] OTHER -> label[h]]

(* If thread h is idle: its flag is cleared, under its mutex, and it is    *)
(* signalled.                                                              *)
Wake(h, label) ==
  /\ idle[h] => label[h] # "nap"
  /\ idle' = [idle EXCEPT ![h] = FALSE]
  /\ pc' = IF idle[h] THEN Signalled(h, label) ELSE label

(* initThreadMutex: the last thread to come wakes thread 0 ...             *)
Initialise(t) ==
  /\ pc[t] = "init"
  /\ running' = running - 1
  /\ Goto(t, IF running' = 0 THEN "startFirst" ELSE "initCheck")
  /\ UNCHANGED <<listVars, ringVars, frontVars, idleVars, workVars, exit,
                 terminating, verdict>>

StartFirst(t) ==
  /\ pc[t] = "startFirst"
  /\ Wake(0, [pc EXCEPT ![t] = "initCheck"])
  /\ UNCHANGED <<listVars, ringVars, frontVars, helpers, call, frontptr, glance,
                 todo, workVars, endVars>>

InitCheck(t) ==
  /\ pc[t] = "initCheck"
  /\ todo' = IF t = 0 THEN [todo EXCEPT ![0] = Front \ {0}] ELSE todo
  /\ Goto(t, IF idle[t] /\ ~exit THEN "initAsleep"
             ELSE IF t = 0 THEN "startFronts"
             ELSE IF t \in Front THEN "begin" ELSE "outer")
  /\ UNCHANGED <<listVars, ringVars, frontVars, helpers, idle, call, frontptr,
                 glance, workVars, endVars>>

(* ... and thread 0 the other fronts, one after the other.                 *)
StartFronts(t) ==
  /\ pc[t] = "startFronts"
  /\ \/ /\ todo[t] # {}
        /\ Wake(Min(todo[t]), pc)
        /\ todo' = [todo EXCEPT ![t] = @ \ {Min(todo[t])}]
     \/ /\ todo[t] = {}
        /\ Goto(t, "begin")
        /\ UNCHANGED <<idle, todo>>
  /\ UNCHANGED <<listVars, ringVars, frontVars, helpers, call, frontptr, glance,
                 workVars, endVars>>

(* The front declares itself idle.                                         *)
Begin(f) ==
  /\ pc[f] = "begin"
  /\ idle' = [idle EXCEPT ![f] = TRUE]
  /\ Goto(f, "again")
  /\ UNCHANGED <<listVars, ringVars, frontVars, helpers, call, frontptr, glance,
                 todo, workVars, endVars>>

(* while (!exit) of frontSweep.                                            *)
Again(f) ==
  /\ pc[f] = "again"
  /\ Goto(f, IF exit THEN "end" ELSE IF NumFronts > 1 THEN "mayBegin" ELSE "link")
  /\ UNCHANGED <<listVars, ringVars, frontVars, idleVars, workVars, endVars>>
-----------------------------------------------------------------------------
(* initFront waits, unless the front is the frontrunner, until its         *)
(* predecessor is far enough away, and runFront before each advance until  *)
(* it has advanced, too.                                                   *)
MayGoOn(f, from, to) ==
  /\ pc[f] = from
  /\ \/ frontrunner[f] /\ UNCHANGED sem
     \/ /\ ~frontrunner[f] /\ sem[Pred(f)] > 0
        /\ sem' = [sem EXCEPT ![Pred(f)] = @ - 1]
  /\ Goto(f, to)
  /\ UNCHANGED <<listVars, ringVars, frontrunner, back, countdown, idleVars,
                 workVars, endVars>>

MayBegin(f)   == MayGoOn(f, "mayBegin", "link")
MayAdvance(f) == MayGoOn(f, "mayAdvance", "advance")

(* The rest of initFront: link the persistent buckets from their starting  *)
(* points, and advance n times before the next front may begin.            *)
LinkFor(f, n) ==
  /\ pc[f] = "link"
  /\ IF exit
     THEN Goto(f, "end") /\ UNCHANGED <<active, link, fresh, back, countdown>>
     ELSE /\ back' = [back EXCEPT ![f] = BackOffset]
          /\ countdown' = [countdown EXCEPT ![f] = n]
          /\ link' = [link EXCEPT ![f] = [i \in 0 .. Size - 1 |-> first + i]]
          /\ active' = [active EXCEPT ![f] = BackOffset]
          /\ fresh' = [fresh EXCEPT ![f] = TRUE]
          /\ Goto(f, "run")
  /\ UNCHANGED <<listVars, store, samevalue, frontrunner, sem, idleVars,
                 workVars, endVars>>

(* Variant: the next front follows too closely.                            *)
LinkClose(f) == LinkFor(f, Size - 2)

Link(f) == LinkFor(f, Size - 1)

(* while (!exit) of runFront.                                              *)
Run(f) ==
  /\ pc[f] = "run"
  /\ Goto(f, IF exit THEN "deinit" ELSE IF Helped THEN "busy" ELSE "loop")
  /\ UNCHANGED <<listVars, ringVars, frontVars, idleVars, workVars, endVars>>

(* The front has work to do ...                                            *)
Busy(f) ==
  /\ pc[f] = "busy"
  /\ idle' = [idle EXCEPT ![f] = FALSE]
  /\ todo' = [todo EXCEPT ![f] = HelpersOf(f)]
  /\ Goto(f, "draw")
  /\ UNCHANGED <<listVars, ringVars, frontVars, helpers, call, frontptr, glance,
                 workVars, endVars>>

(* ... and calls its own helpers back (checkCall) ...                      *)
Draw(f) ==
  /\ pc[f] = "draw"
  /\ \/ /\ todo[f] # {}
        /\ call' = [call EXCEPT ![Min(todo[f])] = TRUE]
        /\ Goto(f, "drawWake")
        /\ UNCHANGED todo
     \/ /\ todo[f] = {}
        /\ call' = [call EXCEPT ![f] = FALSE]
        /\ todo' = [todo EXCEPT ![f] = Helper]
        /\ Goto(f, "tell")
  /\ UNCHANGED <<listVars, ringVars, frontVars, helpers, idle, frontptr, glance,
                 workVars, endVars>>

DrawWake(f) ==
  /\ pc[f] = "drawWake"
  /\ Wake(Min(todo[f]), [pc EXCEPT ![f] = "draw"])
  /\ todo' = [todo EXCEPT ![f] = @ \ {Min(todo[f])}]
  /\ UNCHANGED <<listVars, ringVars, frontVars, helpers, call, frontptr, glance,
                 workVars, endVars>>

(* ... and wakes all helpers.                                              *)
Tell(f) ==
  /\ pc[f] = "tell"
  /\ \/ /\ todo[f] # {}
        /\ Wake(Min(todo[f]), pc)
        /\ todo' = [todo EXCEPT ![f] = @ \ {Min(todo[f])}]
     \/ /\ todo[f] = {}
        /\ Goto(f, "loop")
        /\ UNCHANGED <<idle, todo>>
  /\ UNCHANGED <<listVars, ringVars, frontVars, helpers, call, frontptr, glance,
                 workVars, endVars>>
-----------------------------------------------------------------------------
(* checkStates, of a front or of a helper at the front frontptr[t], begins *)
(* at "loop" and ends at Checked(t), or at "solved".                       *)
Checked(t) == IF t \in Helper THEN "release" ELSE IF Helped THEN "drain" ELSE "quit"

Loop(t) ==
  /\ pc[t] = "loop"
  /\ tried' = [tried EXCEPT ![t] = {}]
  /\ Goto(t, IF exit THEN Checked(t) ELSE "pop")
  /\ UNCHANGED <<listVars, ringVars, frontVars, idleVars, ns, entry, found, endVars>>

(* popVector goes through the buckets of a HashingWrapperStore, one after  *)
(* the other from where it was last time (any of them, here).  It finds a  *)
(* marking in one of those it has not tried ...                            *)
Hits(t, slot) == {m \in slot : Hash[m] \notin tried[t]}

(* ... or leaves another one behind as empty; after the last it goes to    *)
(* label.                                                                  *)
TryNext(t, slot, label) ==
  \E b \in Buckets \ tried[t] :
     /\ \A m \in slot : Hash[m] # b
     /\ tried' = [tried EXCEPT ![t] = IF @ \cup {b} = Buckets THEN {}
                                      ELSE @ \cup {b}]
     /\ Goto(t, IF tried[t] \cup {b} = Buckets THEN label ELSE pc[t])

(* popState moves a transient marking of the current progress to samevalue *)
Pop(t) ==
  LET f == frontptr[t]
      slot == store[f][active[f]]
  IN /\ pc[t] = "pop"
     /\ \/ \E m \in Hits(t, slot) :
              /\ ns' = [ns EXCEPT ![t] = m]
              /\ store' = [store EXCEPT ![f][active[f]] = @ \ {m}]
              /\ Goto(t, "keep")
              /\ UNCHANGED tried
        \/ TryNext(t, slot, "popNew") /\ UNCHANGED <<ns, store>>
     /\ UNCHANGED <<listVars, active, link, samevalue, fresh, frontVars,
                    idleVars, entry, found, endVars>>

(* or a new persistent one to the old ones.  The pointers of a front that  *)
(* has not begun are NULL.                                                 *)
PopNew(t) ==
  LET f == frontptr[t]
      at == link[f][active[f]]
  IN /\ pc[t] = "popNew"
     /\ link[f] # <<>>
     /\ \/ \E m \in Hits(t, newP[at]) :
              /\ ns' = [ns EXCEPT ![t] = m]
              /\ newP' = [newP EXCEPT ![at] = @ \ {m}]
              /\ Goto(t, "keepOld")
              /\ UNCHANGED tried
        \/ TryNext(t, newP[at], Checked(t)) /\ UNCHANGED <<ns, newP>>
     /\ UNCHANGED <<first, oldP, ringVars, frontVars, idleVars, entry, found,
                    endVars>>

(* The marking is kept, and if it has not the property, the transitions of *)
(* its fire list are tried from the last one to the first.                 *)
Expand(t) ==
  /\ entry' = [entry EXCEPT ![t] = Len(Firelist[ns[t]])]
  /\ Goto(t, IF ns[t] \in prop THEN "solved"
             ELSE IF Firelist[ns[t]] = <<>> THEN "loop" ELSE "lookOld")

Keep(t) ==
  /\ pc[t] = "keep"
  /\ samevalue' = [samevalue EXCEPT ![frontptr[t]] = @ \cup {ns[t]}]
  /\ Expand(t)
  /\ UNCHANGED <<listVars, store, active, link, fresh, frontVars, idleVars, ns,
                 tried, found, endVars>>

KeepOld(t) ==
  LET f == frontptr[t]
  IN /\ pc[t] = "keepOld"
     /\ oldP' = [oldP EXCEPT ![link[f][active[f]]] = @ \cup {ns[t]}]
     /\ Expand(t)
     /\ UNCHANGED <<first, newP, ringVars, frontVars, idleVars, ns, tried, found,
                    endVars>>
-----------------------------------------------------------------------------
(* searchAndInsert of the successor by the transition at the entry: the    *)
(* buckets of its progress are looked up one after the other.              *)
Offset(t) == ProgressMeasure[Firelist[ns[t]][entry[t]]]
Reached(t) == Successor(ns[t], Firelist[ns[t]][entry[t]])
Slot(t) == (active[frontptr[t]] + Size + Offset(t)) % Size
Listed(t) == link[frontptr[t]][Slot(t)]

(* Back in checkStates, the next transition is fired.                      *)
NextEntry(t) ==
  /\ entry' = [entry EXCEPT ![t] = @ - 1]
  /\ Goto(t, IF entry[t] = 1 THEN "loop" ELSE "lookOld")

(* A lookup in a bucket.                                                   *)
Look(t, label, bucket, miss) ==
  /\ pc[t] = label
  /\ \/ Reached(t) \in bucket /\ NextEntry(t)
     \/ Reached(t) \notin bucket /\ Goto(t, miss) /\ UNCHANGED entry
  /\ UNCHANGED <<listVars, ringVars, frontVars, idleVars, ns, tried, found,
                 endVars>>

LookOld(t) == Look(t, "lookOld", oldP[Listed(t)],
                   IF Offset(t) < 0 THEN "lookStore" ELSE "lookNew")
LookNew(t) == Look(t, "lookNew", newP[Listed(t)],
                   IF Offset(t) = 0 THEN "lookSame" ELSE "insert")
LookSame(t) == Look(t, "lookSame", samevalue[frontptr[t]], "insert")
LookStore(t) == Look(t, "lookStore", store[frontptr[t]][Slot(t)], "insertNew")

(* A marking ahead or at the same progress becomes transient, ...          *)
Insert(t) ==
  /\ pc[t] = "insert"
  /\ store' = [store EXCEPT ![frontptr[t]][Slot(t)] = @ \cup {Reached(t)}]
  /\ NextEntry(t)
  /\ UNCHANGED <<listVars, active, link, samevalue, fresh, frontVars, idleVars,
                 ns, tried, found, endVars>>

(* ... one behind new persistent: the next front will visit it.            *)
InsertNew(t) ==
  /\ pc[t] = "insertNew"
  /\ newP' = [newP EXCEPT ![Listed(t)] = @ \cup {Reached(t)}]
  /\ fresh' = [fresh EXCEPT ![frontptr[t]] = @ /\ Reached(t) \in newP[Listed(t)]]
  /\ NextEntry(t)
  /\ UNCHANGED <<first, oldP, store, active, link, samevalue, frontVars, idleVars,
                 ns, tried, found, endVars>>

(* A marking with the property ends the search.                            *)
Solved(t) ==
  /\ pc[t] = "solved"
  /\ found' = [found EXCEPT ![t] = TRUE]
  /\ exit' = TRUE
  /\ Goto(t, Checked(t))
  /\ UNCHANGED <<listVars, ringVars, frontVars, idleVars, ns, entry, tried,
                 running, terminating, verdict>>
-----------------------------------------------------------------------------
(* The front sends its helpers away and waits until they have gone.        *)
Drain(f) ==
  /\ pc[f] = "drain"
  /\ idle' = [idle EXCEPT ![f] = TRUE]
  /\ Goto(f, "drained")
  /\ UNCHANGED <<listVars, ringVars, frontVars, helpers, call, frontptr, glance,
                 todo, workVars, endVars>>

(* Variant: it does not wait.                                              *)
DrainedAtOnce(f) ==
  /\ pc[f] = "drained"
  /\ Goto(f, "quit")
  /\ UNCHANGED <<listVars, ringVars, frontVars, idleVars, workVars, endVars>>

Drained(f) ==
  /\ pc[f] = "drained"
  /\ helpers[f] = 0
  /\ Goto(f, "quit")
  /\ UNCHANGED <<listVars, ringVars, frontVars, idleVars, workVars, endVars>>

Quit(f) ==
  /\ pc[f] = "quit"
  /\ Goto(f, IF found[f] \/ exit THEN "deinit" ELSE "extend")
  /\ UNCHANGED <<listVars, ringVars, frontVars, idleVars, workVars, endVars>>

(* The list with empty buckets at these places if it has none there.       *)
Extended(list, places) ==
  [i \in places \cup DOMAIN list |-> IF i \in DOMAIN list THEN list[i] ELSE {}]

(* extendLeft: n empty buckets go before the lists.                        *)
ExtendLeft(n) ==
  /\ first' = first - n
  /\ newP' = Extended(newP, first' .. first - 1)
  /\ oldP' = Extended(oldP, first' .. first - 1)

(* Variant: the lists are never extended here.                             *)
ExtendNever(f) ==
  /\ pc[f] = "extend"
  /\ back' = [back EXCEPT ![f] = IF @ > 0 THEN @ - 1 ELSE 0]
  /\ Goto(f, IF NumFronts > 1 THEN "mayAdvance" ELSE "advance")
  /\ UNCHANGED <<listVars, ringVars, frontrunner, sem, countdown, idleVars,
                 workVars, endVars>>

(* The next front has to begin earlier if a marking was made persistent    *)
(* behind the place where this one has begun.                              *)
Extend(f) ==
  /\ pc[f] = "extend"
  /\ IF /\ back[f] > 0
        /\ newP[link[f][(active[f] + FrontOffset + 1) % Size]] # {}
     THEN /\ ExtendLeft(back[f])
          /\ back' = [back EXCEPT ![f] = 0]
     ELSE /\ back' = [back EXCEPT ![f] = IF @ > 0 THEN @ - 1 ELSE 0]
          /\ UNCHANGED listVars
  /\ Goto(f, IF NumFronts > 1 THEN "mayAdvance" ELSE "advance")
  /\ UNCHANGED <<ringVars, frontrunner, sem, countdown, idleVars, workVars,
                 endVars>>

(* The slot after n others.                                                *)
After(slot, n) == (slot + n) % Size

(* advanceProgress, when no marking is ahead and the lists end.            *)
AtEnd(f) ==
  LET frontSlot == After(active[f], FrontOffset)
  IN /\ \A i \in 1 .. FrontOffset : store[f][After(active[f], i)] = {}
     /\ link[f][frontSlot] + 1 \notin DOMAIN oldP

Finish(f) ==
  LET behind == {i \in 0 .. back[f] - 1 :
                   newP[link[f][After(active[f], FrontOffset + i + 2)]] # {}}
  IN /\ pc[f] = "advance"
     /\ AtEnd(f)
     /\ IF behind = {} THEN UNCHANGED listVars
        ELSE ExtendLeft(back[f] - Min(behind))
     /\ back' = [back EXCEPT ![f] = 0]
     /\ Goto(f, "deinit")
     /\ UNCHANGED <<ringVars, frontrunner, sem, countdown, idleVars, workVars,
                    endVars>>

(* Otherwise the markings at the back are forgotten, those of samevalue    *)
(* stay in their slot of the ring, and the slot behind the foremost one    *)
(* gets the next persistent buckets, which are created if need be.         *)
AdvanceKeeping(f, kept) ==
  LET backSlot == After(active[f], Size - Delay)
      newFront == After(active[f], FrontOffset + 1)
      next == link[f][After(active[f], FrontOffset)] + 1
  IN /\ pc[f] = "advance"
     /\ ~AtEnd(f)
     /\ store' = IF Delay > 0
                 THEN [store EXCEPT ![f][backSlot] = kept,
                                    ![f][active[f]] = samevalue[f]]
                 ELSE store
     /\ samevalue' = [samevalue EXCEPT ![f] = {}]
     /\ link' = [link EXCEPT ![f][newFront] = next]
     /\ newP' = Extended(newP, {next})
     /\ oldP' = Extended(oldP, {next})
     /\ active' = [active EXCEPT ![f] = After(@, 1)]
     /\ countdown' = [countdown EXCEPT ![f] = IF @ > 0 THEN @ - 1 ELSE 0]
     /\ Goto(f, IF countdown[f] = 0 /\ NumFronts > 1 THEN "post" ELSE "run")
     /\ UNCHANGED <<first, fresh, frontrunner, sem, back, idleVars, workVars,
                    endVars>>

(* Variant: nothing is forgotten.                                          *)
AdvanceForever(f) ==
  AdvanceKeeping(f, store[f][After(active[f], Size - Delay)])

Advance(f) == AdvanceKeeping(f, {})

(* The next front may advance.                                             *)
Post(f) ==
  /\ pc[f] = "post"
  /\ sem' = [sem EXCEPT ![f] = @ + 1]
  /\ Goto(f, "run")
  /\ UNCHANGED <<listVars, ringVars, frontrunner, back, countdown, idleVars,
                 workVars, endVars>>

(* deinitFront: the search ends when the front has left nothing behind.    *)
Deinit(f) ==
  /\ pc[f] = "deinit"
  /\ store' = [store EXCEPT ![f] = EmptyRing]
  /\ samevalue' = [samevalue EXCEPT ![f] = {}]
  /\ exit' = (exit \/ fresh[f])
  /\ IF NumFronts > 1
     THEN /\ frontrunner' = [frontrunner EXCEPT ![f] = FALSE]
          /\ Goto(f, "handOver")
     ELSE UNCHANGED frontrunner /\ Goto(f, "again")
  /\ UNCHANGED <<listVars, active, link, fresh, sem, back, countdown, idleVars,
                 workVars, running, terminating, verdict>>

(* The next front becomes the foremost one.                                *)
HandOver(f) ==
  /\ pc[f] = "handOver"
  /\ frontrunner' = [frontrunner EXCEPT ![NextFront(f)] = TRUE]
  /\ sem' = [sem EXCEPT ![f] = 0]
  /\ Goto(f, "again")
  /\ UNCHANGED <<listVars, ringVars, back, countdown, idleVars, workVars, endVars>>
-----------------------------------------------------------------------------
(* Variant: the next front is not told.                                    *)
EndSilently(f) ==
  /\ pc[f] = "end"
  /\ todo' = [todo EXCEPT ![f] = HelpersOf(f)]
  /\ Goto(f, "dismiss")
  /\ UNCHANGED <<listVars, ringVars, frontVars, helpers, idle, call, frontptr,
                 glance, workVars, endVars>>

(* The end of a front: the next one may go on, to its end, ...             *)
End(f) ==
  /\ pc[f] = "end"
  /\ sem' = IF NumFronts > 1 THEN [sem EXCEPT ![f] = 1] ELSE sem
  /\ todo' = [todo EXCEPT ![f] = HelpersOf(f)]
  /\ Goto(f, "dismiss")
  /\ UNCHANGED <<listVars, ringVars, frontrunner, back, countdown, helpers, idle,
                 call, frontptr, glance, workVars, endVars>>

(* ... and its helpers are signalled.                                      *)
Dismiss(f) ==
  /\ pc[f] = "dismiss"
  /\ \/ /\ todo[f] # {}
        /\ pc[Min(todo[f])] # "nap"
        /\ pc' = Signalled(Min(todo[f]), pc)
        /\ todo' = [todo EXCEPT ![f] = @ \ {Min(todo[f])}]
     \/ /\ todo[f] = {}
        /\ Goto(f, "terminate")
        /\ UNCHANGED todo
  /\ UNCHANGED <<listVars, ringVars, frontVars, helpers, idle, call, frontptr,
                 glance, workVars, endVars>>

(* terminateThreadMutex: nobody leaves before all have come here.          *)
Terminate(t) ==
  /\ pc[t] = "terminate"
  /\ terminating' = terminating - 1
  /\ Goto(t, "barrier")
  /\ UNCHANGED <<listVars, ringVars, frontVars, idleVars, workVars, exit, running,
                 verdict>>

Return(t) ==
  /\ pc[t] = "barrier"
  /\ terminating = 0
  /\ Goto(t, "done")
  /\ UNCHANGED <<listVars, ringVars, frontVars, idleVars, workVars, endVars>>
-----------------------------------------------------------------------------
(* The two loops of threadSweep.                                           *)
Outer(h) ==
  /\ pc[h] = "outer"
  /\ Goto(h, IF exit THEN "terminate" ELSE "inner")
  /\ UNCHANGED <<listVars, ringVars, frontVars, idleVars, workVars, endVars>>

(* A helper looks at the flag of a front without a lock, ...               *)
Inner(h) ==
  /\ pc[h] = "inner"
  /\ Goto(h, IF exit THEN "back" ELSE "glance")
  /\ UNCHANGED <<listVars, ringVars, frontVars, idleVars, workVars, endVars>>

(* ... goes to the next front if that one is idle, and sleeps when it has  *)
(* been at all of them, ...                                                *)
MoveOn(h) ==
  /\ frontptr' = [frontptr EXCEPT ![h] = NextFront(@)]
  /\ Goto(h, IF NextFront(frontptr[h]) = FrontOf(h) THEN "read" ELSE "inner")

Glance(h) ==
  /\ pc[h] = "glance"
  /\ IF idle[frontptr[h]] THEN MoveOn(h)
     ELSE Goto(h, "join") /\ UNCHANGED frontptr
  /\ UNCHANGED <<listVars, ringVars, frontVars, helpers, idle, call, glance, todo,
                 workVars, endVars>>

(* ... or joins it, after a second look under its lock.                    *)
JoinFront(h) ==
  /\ pc[h] = "join"
  /\ IF idle[frontptr[h]] THEN MoveOn(h) /\ UNCHANGED helpers
     ELSE /\ helpers' = [helpers EXCEPT ![frontptr[h]] = @ + 1]
          /\ Goto(h, "work")
          /\ UNCHANGED frontptr
  /\ UNCHANGED <<listVars, ringVars, frontVars, idle, call, glance, todo, workVars,
                 endVars>>

Work(h) ==
  /\ pc[h] = "work"
  /\ Goto(h, IF exit THEN "release" ELSE "loop")
  /\ UNCHANGED <<listVars, ringVars, frontVars, idleVars, workVars, endVars>>

Release(h) ==
  /\ pc[h] = "release"
  /\ helpers' = [helpers EXCEPT ![frontptr[h]] = @ - 1]
  /\ Goto(h, "back")
  /\ UNCHANGED <<listVars, ringVars, frontVars, idle, call, frontptr, glance, todo,
                 workVars, endVars>>

(* A helper that has been called returns to its own front.                 *)
Back(h) ==
  /\ pc[h] = "back"
  /\ frontptr' = [frontptr EXCEPT ![h] = IF call[h] THEN FrontOf(h) ELSE @]
  /\ call' = [call EXCEPT ![h] = FALSE]
  /\ Goto(h, "outer")
  /\ UNCHANGED <<listVars, ringVars, frontVars, helpers, idle, glance, todo,
                 workVars, endVars>>

(* Before it sleeps it takes over the flag of its front, with its own      *)
(* mutex locked.                                                           *)
Read(h) ==
  /\ pc[h] = "read"
  /\ glance' = [glance EXCEPT ![h] = idle[frontptr[h]]]
  /\ Goto(h, "nap")
  /\ UNCHANGED <<listVars, ringVars, frontVars, helpers, idle, call, frontptr, todo,
                 workVars, endVars>>

SleepOrGoOn(h, flag) ==
  IF flag /\ ~exit THEN Goto(h, "asleep") /\ UNCHANGED call
  ELSE Goto(h, "inner") /\ call' = [call EXCEPT ![h] = FALSE]

Nap(h) ==
  /\ pc[h] = "nap"
  /\ idle' = [idle EXCEPT ![h] = glance[h]]
  /\ SleepOrGoOn(h, glance[h])
  /\ UNCHANGED <<listVars, ringVars, frontVars, helpers, frontptr, glance, todo,
                 workVars, endVars>>

Awake(h) ==
  /\ pc[h] = "awake"
  /\ SleepOrGoOn(h, idle[h])
  /\ UNCHANGED <<listVars, ringVars, frontVars, helpers, idle, frontptr, glance,
                 todo, workVars, endVars>>
-----------------------------------------------------------------------------
(* runThreads joins the threads.                                           *)
Join ==
  /\ verdict = "running"
  /\ \A t \in Thread : pc[t] = "done"
  /\ verdict' = IF \E t \in Thread : found[t] THEN "yes" ELSE "no"
  /\ UNCHANGED <<setup, prop, listVars, ringVars, frontVars, idleVars, workVars, exit,
                 running, terminating, pc>>

Stop == verdict # "running" /\ UNCHANGED vars

CheckStates(t) ==
  \/ Loop(t) \/ Pop(t) \/ PopNew(t) \/ Keep(t) \/ KeepOld(t)
  \/ LookOld(t) \/ LookNew(t) \/ LookSame(t) \/ LookStore(t)
  \/ Insert(t) \/ InsertNew(t) \/ Solved(t)

FrontStep(f) ==
  \/ StartFirst(f) \/ StartFronts(f) \/ Begin(f) \/ Again(f) \/ MayBegin(f)
  \/ Link(f) \/ Run(f) \/ Busy(f) \/ Draw(f) \/ DrawWake(f) \/ Tell(f)
  \/ Drain(f) \/ Drained(f) \/ Quit(f) \/ Extend(f) \/ MayAdvance(f)
  \/ Finish(f) \/ Advance(f) \/ Post(f) \/ Deinit(f) \/ HandOver(f)
  \/ End(f) \/ Dismiss(f)

HelperStep(h) ==
  \/ StartFirst(h) \/ Outer(h) \/ Inner(h) \/ Glance(h) \/ JoinFront(h) \/ Work(h)
  \/ Release(h) \/ Back(h) \/ Read(h) \/ Nap(h) \/ Awake(h)

Step(t) ==
  /\ verdict = "running"
  /\ UNCHANGED <<setup, prop>>
  /\ \/ Initialise(t) \/ InitCheck(t) \/ CheckStates(t) \/ Terminate(t) \/ Return(t)
     \/ t \in Front /\ FrontStep(t)
     \/ t \in Helper /\ HelperStep(t)

Next == (\E t \in Thread : Step(t)) \/ Join \/ Stop

Spec == Init /\ [][Next]_vars

(* The scheduler runs every thread that can run.                           *)
MaxThreads == Max({s.threads : s \in Setups})

Fairness ==
  /\ WF_vars(Join)
  /\ \A t \in 0 .. MaxThreads - 1 : WF_vars(t \in Thread /\ Step(t))

FairSpec == Spec /\ Fairness
=============================================================================
