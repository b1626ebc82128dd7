---------------------------- MODULE SweepLineInv ----------------------------
(***************************************************************************)
(* What makes the sweep-line search correct.                               *)
(***************************************************************************)
EXTENDS SweepLine

CONSTANTS
  Progress,    \* Progress[m]: the progress value of a marking
  Reachable    \* Reachable[m]: the markings that can be reached from a marking

(* It begins with 0, and a transition adds its own measure to it.          *)
ASSUME ProgressAssumption ==
  /\ Progress \in [Marking -> Int]
  /\ \A s \in Setups : Progress[s.initial] = 0
  /\ \A m \in Marking : \A i \in DOMAIN Firelist[m] :
        Progress[Successor(m, Firelist[m][i])] = Progress[m] + ProgressMeasure[Firelist[m][i]]

(* What can be reached is the least set with the initial marking that has  *)
(* the successors of its elements.                                         *)
Closed(S) == \A m \in S : \A i \in DOMAIN Firelist[m] : Successor(m, Firelist[m][i]) \in S

ASSUME ReachableAssumption ==
  \A s \in Setups : LET R == Reachable[s.initial]
                    IN /\ R \subseteq Marking /\ s.initial \in R /\ Closed(R)
                       /\ \A S \in SUBSET R : s.initial \in S /\ Closed(S) => S = R

(* A front is under way from the moment it has linked its buckets until it *)
(* has finished.                                                           *)
Checking == {"loop", "pop", "popNew", "keep", "keepOld", "lookOld", "lookNew",
             "lookSame", "lookStore", "insert", "insertNew", "solved"}
Sweeping == Checking \cup {"run", "busy", "draw", "drawWake", "tell", "drain",
             "drained", "quit", "extend", "mayAdvance", "advance", "post"}

Window(f) == {link[f][i] : i \in DOMAIN link[f]}

(* The fronts share the lists of persistent markings without any lock: no  *)
(* bucket is within reach of two fronts at the same time, and the one that *)
(* is behind has not yet come to what the other leaves for it.             *)
WindowsApart ==
  ~exit => \A f, g \in Front :
     f # g /\ pc[f] \in Sweeping /\ pc[g] \in Sweeping =>
        Window(f) \cap Window(g) = {}

(* The slots of the ring keep pace with the lists: every marking is in a   *)
(* bucket of its own progress value, and whoever works at a front works    *)
(* with a marking of the value the front has reached.                      *)
InPlace ==
  /\ \A i \in DOMAIN newP : \A m \in newP[i] \cup oldP[i] : Progress[m] = i
  /\ \A f \in Front : pc[f] \in Sweeping =>
        /\ \A d \in -BackOffset .. FrontOffset :
              LET slot == (active[f] + Size + d) % Size
              IN /\ link[f][slot] = link[f][active[f]] + d
                 /\ \A m \in store[f][slot] : Progress[m] = link[f][slot]
        /\ \A m \in samevalue[f] : Progress[m] = link[f][active[f]]
  /\ \A t \in Thread : pc[t] \in Checking \ {"loop", "pop", "popNew"} =>
        Progress[ns[t]] = link[frontptr[t]][active[frontptr[t]]]

(* A front neither moves on nor clears its buckets while a helper works    *)
(* with them.  With several fronts there is one exception: a helper may    *)
(* have joined a front that had not begun, and still be there when the     *)
(* front is told to stop.                                                  *)
HelpersAt(f) ==
  {h \in Helper : frontptr[h] = f /\ pc[h] \in Checking \cup {"work", "release"}}

HelpersGone ==
  \A f \in Front :
     /\ helpers[f] = Cardinality(HelpersAt(f))
     /\ pc[f] \in {"quit", "extend", "mayAdvance", "advance", "post"} => helpers[f] = 0
     /\ pc[f] \in {"deinit", "handOver"} => helpers[f] = 0 \/ (exit /\ f # 0)

(* A helper joins a front to look for work in its buckets, and finds the   *)
(* lists of persistent markings linked to them.                            *)
FrontsLinked == \A t \in Thread : pc[t] = "popNew" => link[frontptr[t]] # <<>>

-----------------------------------------------------------------------------
(* What the invariants rest on.                                            *)
Waiting == {"init", "startFirst", "initCheck", "initAsleep"}
Between == {"again", "mayBegin", "link"}
Ended   == {"end", "dismiss", "terminate", "barrier", "done"}
Past    == Checking \ {"loop", "pop", "popNew"}
Firing  == Past \ {"keep", "keepOld", "solved"}
Live    == Sweeping \cup {"deinit", "handOver"}

FrontLabel == Waiting \cup Between \cup Live \cup Ended \cup {"startFronts", "begin"}
HelperLabel == Waiting \cup Checking
  \cup {"outer", "inner", "glance", "join", "work", "release", "back", "read",
        "nap", "asleep", "awake", "terminate", "barrier", "done"}

(* Type invariant.                                                         *)
ControlType ==
  /\ setup \in Setups
  /\ exit \in BOOLEAN /\ running \in Int /\ terminating \in Int
  /\ helpers \in [Front -> Int]
  /\ pc \in [Thread -> FrontLabel \cup HelperLabel]
  /\ \A f \in Front : pc[f] \in FrontLabel /\ frontptr[f] = f
  /\ \A h \in Helper : pc[h] \in HelperLabel
  /\ idle \in [Thread -> BOOLEAN] /\ call \in [Thread -> BOOLEAN]
  /\ glance \in [Thread -> BOOLEAN] /\ found \in [Thread -> BOOLEAN]
  /\ frontptr \in [Thread -> Front]
  /\ todo \in [Thread -> SUBSET Thread]
  /\ \A f \in Front : pc[f] \in {"draw", "drawWake", "tell", "dismiss"} =>
                         todo[f] \subseteq Helper
  /\ \A f \in Front : pc[f] = "drawWake" => todo[f] # {}
  /\ \A f \in Front : pc[f] = "startFronts" => f = 0 /\ todo[0] \subseteq Front \ {0}

DataType ==
  /\ first \in Int
  /\ DOMAIN oldP \subseteq Int /\ DOMAIN newP = DOMAIN oldP
  /\ newP \in [DOMAIN newP -> SUBSET Marking]
  /\ oldP \in [DOMAIN oldP -> SUBSET Marking]
  /\ store \in [Front -> [0 .. Size - 1 -> SUBSET Marking]]
  /\ active \in [Front -> 0 .. Size - 1]
  /\ link \in [Front -> [0 .. Size - 1 -> Int] \cup {<<>>}]
  /\ samevalue \in [Front -> SUBSET Marking]
  /\ fresh \in [Front -> BOOLEAN] /\ frontrunner \in [Front -> BOOLEAN]
  /\ sem \in [Front -> Nat]
  /\ back \in [Front -> 0 .. BackOffset] /\ countdown \in [Front -> 0 .. Size - 1]
  /\ ns \in [Thread -> Marking] /\ entry \in [Thread -> Nat]
  /\ tried \in [Thread -> SUBSET Buckets]

TypeOK ==
  /\ ControlType
  /\ DataType
  /\ \A t \in Thread : pc[t] \in Firing => entry[t] \in 1 .. Len(Firelist[ns[t]])

(* Only an end of the search ends a thread.                                *)
EndsKnown ==
  \A t \in Thread : found[t] \/ pc[t] \in Ended => exit

(* The threads gather before the first front is started.                   *)
Gathering ==
  /\ running = Cardinality({t \in Thread : pc[t] = "init"})
  /\ \A t \in Thread : pc[t] = "init" =>
        \A u \in Thread : pc[u] \in Waiting \ {"startFirst"}
  /\ \A t \in Thread : pc[t] = "startFirst" =>
        \A u \in Thread \ {t} : pc[u] \in {"initCheck", "initAsleep"}
  /\ \A t \in Thread : pc[t] \in {"init", "startFirst"} => \A u \in Thread : idle[u]
  /\ pc[0] \in Waiting => \A f \in Front \ {0} : pc[f] \in Waiting /\ idle[f]
  /\ pc[0] = "startFronts" => \A f \in todo[0] : pc[f] \in Waiting /\ idle[f]

(* Until the first front has linked its buckets nothing has happened.      *)
Opening ==
  \/ pc[0] \in Waiting \cup {"startFronts", "begin"}
  \/ pc[0] \in Between /\ store[0] # EmptyRing

OpeningKnown ==
  Opening =>
    /\ ~exit /\ first = -BackOffset
    /\ store[0] = [EmptyRing EXCEPT ![BackOffset] = {Initial}]
    /\ samevalue[0] = {}
    /\ \A f \in Front : helpers[f] = 0 /\ sem[f] = 0 /\ (frontrunner[f] <=> f = 0)
    /\ \A f \in Front \ {0} :
          pc[f] \in Waiting \cup {"begin", "again", "mayBegin"}
    /\ \A h \in Helper : pc[h] \in Waiting /\ idle[h]

(* A front that hands over has emptied its ring.                           *)
Emptied == pc[0] = "handOver" => store[0] = EmptyRing

(* No helper joins a front in these places: its flag says that it is idle. *)
Quiet == Between \cup {"run", "busy", "drained", "quit", "extend", "mayAdvance",
                       "advance", "post", "deinit", "handOver"}

HelpersKnown ==
  /\ HelpersGone
  /\ \A f \in Front : pc[f] \in Quiet => idle[f] \/ Helper = {}
  /\ \A f \in Front : pc[f] \in Between =>
        helpers[f] = 0 \/ (f # 0 /\ (exit \/ link[f] = <<>>))
  /\ pc[0] \in {"run", "busy"} => helpers[0] = 0
  /\ \A f \in Front \ {0} : pc[f] \in Waiting \cup {"begin"} => link[f] = <<>>

(* The progress value a front has reached, and the slot d values ahead.    *)
Pos(f) == link[f][active[f]]
SlotAt(f, d) == (active[f] + Size + d) % Size
Offsets == -BackOffset .. FrontOffset

(* The ring of a front that has begun, and those that have not.            *)
RingKnown(f) ==
  /\ \A d \in Offsets : link[f][SlotAt(f, d)] = Pos(f) + d
  /\ Pos(f) - BackOffset >= first
  /\ first .. Pos(f) + FrontOffset \subseteq DOMAIN oldP

RingsKnown ==
  /\ first .. first + Size \subseteq DOMAIN oldP
  /\ \A f \in Front : link[f] # <<>> => RingKnown(f)
  /\ \A f \in Front : pc[f] \in Live => link[f] # <<>>

(* The markings in the buckets.                                            *)
ContentsKnown(f) ==
  /\ \A d \in Offsets : \A m \in store[f][SlotAt(f, d)] : Progress[m] = Pos(f) + d
  /\ \A d \in Offsets : d < -Delay => store[f][SlotAt(f, d)] = {}
  /\ \A m \in samevalue[f] : Progress[m] = Pos(f)

ListsPlaced == \A i \in DOMAIN newP : \A m \in newP[i] \cup oldP[i] : Progress[m] = i

RingPlaced(f) == IF link[f] # <<>> THEN ContentsKnown(f)
                 ELSE store[f] = EmptyRing /\ samevalue[f] = {}

(* What a front that is not under way has in its buckets.                  *)
Vacated(f) == \/ f # 0 /\ exit
              \/ f = 0 /\ Opening
              \/ store[f] = EmptyRing /\ samevalue[f] = {}

WorkPlaced(t) ==
  /\ pc[t] \in Past =>
       link[frontptr[t]] # <<>> /\ Progress[ns[t]] = Pos(frontptr[t])
  /\ pc[t] \in {"lookNew", "lookSame", "insert"} => Offset(t) >= 0

MarkingsKnown ==
  /\ ListsPlaced
  /\ \A f \in Front : RingPlaced(f)
  /\ \A f \in Front : pc[f] \in Between \cup {"handOver"} => Vacated(f)
  /\ \A t \in Thread : WorkPlaced(t)

(* A thread that will still come across a marking of the bucket.           *)
Attends(t, m) ==
  \/ pc[t] \in Past \cup {"loop"}
  \/ pc[t] = "pop" /\ Hash[m] \notin tried[t]

(* No marking of the current progress is left behind: as long as there is  *)
(* one, somebody at the front is going to find it, and a front moves on    *)
(* when there is none.                                                     *)
BucketAttended ==
  /\ ~exit => \A f \in Front : pc[f] \in Checking \cup {"drain", "drained", "quit"} =>
                \A m \in store[f][active[f]] :
                   \E t \in Thread : frontptr[t] = f /\ Attends(t, m)
  /\ \A f \in Front : pc[f] \in {"extend", "mayAdvance", "advance"} =>
                         store[f][active[f]] = {}

(* How far a front may come with what it has been granted, and how often a *)
(* front has posted, or is about to.                                       *)
Claim(g) == IF pc[g] = "link" THEN first + BackOffset
            ELSE IF pc[g] = "advance" THEN Pos(g) + 1 ELSE Pos(g)
Posted(f) == IF pc[f] = "post" THEN sem[f] + 1 ELSE sem[f]

(* While the front g after f is under way it keeps at the distance of a    *)
(* ring, and what f posts is what is left between them.  Until g begins, f *)
(* has to come that far from where g is going to begin.                    *)
Spaced(f, g, runner) ==
  IF g # runner /\ pc[g] \in Live \cup {"link"}
  THEN pc[f] \in Live /\ Pos(f) >= Claim(g) + Size + Posted(f)
  ELSE pc[f] \in Live =>
         Pos(f) >= first + BackOffset + Size - 1 - countdown[f] + Posted(f)

(* The fronts follow the foremost one, runner, one after the other.        *)
ChainOf(runner) ==
  /\ \A f \in Front : frontrunner[f] <=> f = runner /\ pc[f] # "handOver"
  /\ \A f \in Front \ {runner} : pc[f] \notin {"deinit", "handOver"}
  /\ \A f \in Front : pc[f] \notin Live => sem[f] = 0
  /\ \A f \in Front : pc[f] \in Live /\ countdown[f] > 0 => Posted(f) = 0
  /\ \A f, g \in Front : g = NextFront(f) => Spaced(f, g, runner)

ChainKnown == exit \/ NumFronts = 1 \/ \E runner \in Front : ChainOf(runner)

-----------------------------------------------------------------------------
(* What makes the answer right: what is still to be visited, ...           *)
Pending ==
  LET ahead  == {store[f][SlotAt(f, d)] : f \in Front, d \in 0 .. FrontOffset}
      behind == {newP[i] : i \in DOMAIN newP}
      taken  == {ns[t] : t \in {u \in Thread : pc[u] \in Past}}
  IN UNION (ahead \cup behind \cup {taken})

(* ... together with a set V of markings that have been expanded and of    *)
(* which most are forgotten, ...                                           *)
Kept(V) == V \cup Pending

(* ... has the initial marking, the successors of V, those that a thread   *)
(* has already been at (by the entries after n, if it is at n), and what   *)
(* the buckets still hold.                                                 *)
Targets(m, n) == {Successor(m, Firelist[m][i]) : i \in {j \in DOMAIN Firelist[m] : j > n}}

Explored(V) ==
  /\ V \cap prop = {}
  /\ Initial \in Kept(V)
  /\ \A m \in V : Targets(m, 0) \subseteq Kept(V)
  /\ \A t \in Thread : pc[t] \in Firing =>
        ns[t] \notin prop /\ Targets(ns[t], entry[t]) \subseteq Kept(V)
  /\ \A i \in DOMAIN oldP : oldP[i] \subseteq Kept(V)
  /\ \A f \in Front : /\ samevalue[f] \subseteq Kept(V)
                      /\ \A s \in 0 .. Size - 1 : store[f][s] \subseteq Kept(V)

NothingLost == ~exit => \E V \in SUBSET Marking : Explored(V)

(* The lists have no gap, and nobody leaves a marking so near to their end *)
(* that a front would stop before it: those left behind lie behind.        *)
ListsWhole ==
  /\ \A i \in DOMAIN newP : first .. i \subseteq DOMAIN newP /\ first <= i
  /\ \A i \in DOMAIN newP : newP[i] # {} => i + FrontOffset + 1 \in DOMAIN newP
  /\ \A t \in Thread : pc[t] \in {"lookStore", "insertNew"} => Offset(t) < 0

(* Two fronts that are under way are a ring apart.                         *)
Apart ==
  ~exit => \A f, g \in Front :
     f # g /\ pc[f] \in Live /\ pc[g] \in Live =>
        Pos(f) >= Pos(g) + Size \/ Pos(g) >= Pos(f) + Size

(* A front that has looked at all buckets of a progress has found all new  *)
(* persistent markings in them, and when it finishes nothing is ahead.     *)
Looked == {"drain", "drained", "quit", "extend", "mayAdvance", "advance", "deinit"}

NewAttended ==
  ~exit =>
    /\ \A t \in Thread : pc[t] = "popNew" =>
          IF link[frontptr[t]] = <<>> THEN tried[t] = {}
          ELSE \A m \in newP[Pos(frontptr[t])] : Hash[m] \notin tried[t]
    /\ \A f \in Front : pc[f] \in Looked => newP[Pos(f)] = {}
    /\ \A f \in Front : pc[f] = "deinit" =>
          /\ Pos(f) + FrontOffset + 1 \notin DOMAIN newP
          /\ \A d \in 0 .. FrontOffset : store[f][SlotAt(f, d)] = {}

(* While back_progress counts down, a marking may be left behind the       *)
(* beginning; after that the beginning is where it has to be.              *)
Late(f) == IF pc[f] \in {"mayAdvance", "advance"} THEN 1 ELSE 0

BeginningKnown ==
  ~exit =>
    /\ \A f \in Front : pc[f] \in Sweeping =>
          /\ Pos(f) + back[f] + Late(f) >= first + 2 * BackOffset
          /\ back[f] > 0 => Pos(f) + back[f] + Late(f) = first + 2 * BackOffset
    /\ \A f \in Front : pc[f] \in {"deinit", "handOver"} => back[f] = 0
    /\ \A i \in DOMAIN newP : newP[i] # {} /\ i < first + BackOffset =>
          \E f \in Front : /\ pc[f] \in Sweeping /\ back[f] > 0
                          /\ i >= Pos(f) + Late(f) - BackOffset

(* Behind a front that has left nothing behind there is nothing to visit.  *)
Barren(g) ==
  /\ \A d \in 0 .. FrontOffset : store[g][SlotAt(g, d)] = {}
  /\ \A t \in Thread : pc[t] \in Past => frontptr[t] # g

FreshKnown ==
  ~exit => \A f \in Front : pc[f] \in Live /\ fresh[f] =>
    /\ \A i \in DOMAIN newP : i < Pos(f) => newP[i] = {}
    /\ \A g \in Front \ {f} : pc[g] \in Live /\ Pos(g) < Pos(f) => Barren(g)

(* Every marking anywhere can be reached.                                  *)
AllReachable ==
  LET R == Reachable[Initial]
  IN /\ \A i \in DOMAIN newP : newP[i] \cup oldP[i] \subseteq R
     /\ \A f \in Front : /\ samevalue[f] \subseteq R
                         /\ \A s \in 0 .. Size - 1 : store[f][s] \subseteq R
     /\ \A t \in Thread : ns[t] \in R /\ (pc[t] = "solved" => ns[t] \in prop)
     /\ \A t \in Thread : found[t] => R \cap prop # {}

(* What an end of the search means, and the answer.                        *)
EndKnown ==
  /\ exit => (\E t \in Thread : found[t]) \/ Reachable[Initial] \cap prop = {}
  /\ verdict \in {"running", "yes", "no"}

VerdictCorrect ==
  /\ verdict = "yes" => Reachable[Initial] \cap prop # {}
  /\ verdict = "no" => Reachable[Initial] \cap prop = {}

(* Every search ends.                                                      *)
Termination == <>(verdict # "running")
=============================================================================
