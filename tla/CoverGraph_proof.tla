-------------------------- MODULE CoverGraph_proof --------------------------
(***************************************************************************)
(* The helpers of the coverability search, the barrier at its end and the  *)
(* lists of nodes, for any net, any property and any number of threads.    *)
(* PoolInv is about the pool of threads only, so most actions are moves of *)
(* one thread from one label to another as far as it is concerned.         *)
(* ListInv, which rests on it, follows the nodes from hand to hand until   *)
(* they are on a list.                                                     *)
(***************************************************************************)
EXTENDS CoverGraphInv, FiniteSetTheorems, WellFoundedInduction, TLAPS

poolVariables == <<idle, helper, idleSet, idleCount, running, terminating, exit>>

LEMMA ThreadFinite ==
  /\ IsFiniteSet(Thread)
  /\ Cardinality(Thread) = NumThreads
  /\ 0 \in Thread
<1>1. NumThreads \in Nat /\ NumThreads > 0
  BY NumThreadsAssumption
<1>2. IsFiniteSet(Thread) /\ Cardinality(Thread) = NumThreads
  BY <1>1, FS_Interval DEF Thread
<1> QED
  BY <1>1, <1>2 DEF Thread

(* Sets of threads are finite.                                             *)
LEMMA SubsetFinite ==
  ASSUME NEW S \in SUBSET Thread
  PROVE  /\ IsFiniteSet(S)
         /\ Cardinality(S) \in Nat
         /\ Cardinality(S) = 0 <=> S = {}
         /\ Cardinality(S) = NumThreads => S = Thread
<1>1. IsFiniteSet(S)
  BY ThreadFinite, FS_Subset
<1>2. Cardinality(S) \in Nat
  BY <1>1, FS_CardinalityType
<1>3. Cardinality(S) = 0 <=> S = {}
  BY <1>1, FS_EmptySet
<1>4. Cardinality(S) = NumThreads => S = Thread
  BY ThreadFinite, FS_Subset
<1> QED
  BY <1>1, <1>2, <1>3, <1>4

(* The initial state.                                                      *)
LEMMA InitPoolInv == Init => PoolInv
<1> SUFFICES ASSUME Init PROVE PoolInv
  OBVIOUS
<1>1. PoolType
  BY NumThreadsAssumption DEF Init, PoolType, Stage, Thread
<1>2. Coming = Thread /\ Present = Thread
  BY DEF Init, Coming, Present, Arrived
<1>3. Startup
  BY <1>2, ThreadFinite DEF Init, Startup, Starting
<1>4. Pool
  BY FS_EmptySet
     DEF Init, Pool, HelperTakenOnce, InSet, AtWork, OnTheWay, Giving, Searching
<1>5. Barrier
  BY <1>2, ThreadFinite DEF Init, Barrier, Arrived
<1> QED
  BY <1>1, <1>3, <1>4, <1>5 DEF PoolInv

StartOver == pc[0] \notin Starting \cup {"register"}

(* A thread that has left the start is past it with all the others: thread *)
(* 0 has registered them, ...                                              *)
LEMMA PastStart ==
  ASSUME PoolInv, NEW t \in Thread, pc[t] \notin Starting \cup {"register"}
  PROVE  StartOver
  BY ThreadFinite DEF PoolInv, Startup, StartOver

(* ... none has still to initialise or to start another, ...               *)
LEMMA StartIsOver ==
  ASSUME PoolInv, StartOver
  PROVE  running = 0 /\ \A u \in Thread : pc[u] \notin {"init", "startFirst"}
<1>1. running = 0
  BY DEF PoolInv, Startup, PoolType, Starting, StartOver
<1>2. Coming = {}
  BY <1>1, SubsetFinite DEF PoolInv, Startup, Coming
<1> QED
  BY <1>1, <1>2 DEF PoolInv, Startup, Coming, StartOver

(* ... and no step leads back there.                                       *)
LEMMA StartStaysOver ==
  ASSUME PoolInv, StartOver, UNCHANGED running,
         \A u \in Thread :
            /\ pc'[u] \in {"init", "startFirst", "register", "insertRoot"} =>
                  pc'[u] = pc[u]
            /\ pc'[u] \in {"initCheck", "initAsleep"} =>
                  pc[u] \in {"initCheck", "initAsleep"}
  PROVE  Startup'
<1>1. running = 0 /\ \A u \in Thread : pc[u] \notin {"init", "startFirst"}
  BY StartIsOver
<1>2. /\ pc'[0] \notin Starting \cup {"register"}
      /\ \A u \in Thread : pc'[u] \notin {"init", "startFirst"}
  BY <1>1, ThreadFinite DEF Starting, StartOver
<1>3. \A u \in Thread : pc'[u] \in {"register", "insertRoot"} => u = 0
  BY DEF PoolInv, Startup
<1>4. running' = Cardinality(Coming')
  <2>1. Coming = {} /\ Coming' = {}
    BY <1>1, <1>2 DEF Coming
  <2> QED
    BY <2>1 DEF PoolInv, Startup
<1>5. ~(running' > 0)
  BY <1>1
<1> QED
  BY <1>2, <1>3, <1>4, <1>5 DEF Startup
-----------------------------------------------------------------------------
(* Thread t goes from one label of the search to another, and nothing of   *)
(* the pool changes.                                                       *)
LEMMA SearchMove ==
  ASSUME PoolInv, NEW t \in Thread, NEW l,
         pc[t] \in {"insertRoot", "begin", "head", "fire", "link", "readIdle",
                    "takeHelper", "resume"},
         l \in {"head", "terminate", "fire", "link", "readIdle", "takeHelper"},
         l \in {"head", "terminate"} \/ ~idle[t],
         pc' = [pc EXCEPT ![t] = l],
         UNCHANGED poolVariables
  PROVE  PoolInv'
<1> USE DEF poolVariables
<1>1. PoolType'
  BY DEF PoolInv, PoolType, Stage
<1>2. Startup'
  BY PastStart, StartStaysOver DEF PoolInv, PoolType, Starting
<1>3. \A u \in Thread : /\ pc'[u] \in Giving <=> pc[u] \in Giving
                        /\ pc[u] \in Sleeping => pc'[u] = pc[u]
                        /\ u # t => pc'[u] = pc[u]
  BY DEF PoolInv, PoolType, Giving, Sleeping
<1>4. HelperTakenOnce'
  BY <1>3 DEF PoolInv, PoolType, Pool, HelperTakenOnce
<1>5. InSet'
  BY <1>3 DEF PoolInv, PoolType, Pool, InSet, AtWork, Searching
<1>6. AtWork'
  BY <1>3 DEF PoolInv, PoolType, Pool, AtWork, Searching, Giving
<1>7. OnTheWay'
  BY <1>3 DEF PoolInv, PoolType, Pool, OnTheWay
<1>8. Barrier'
  <2>1. Present' = Present
    BY DEF PoolInv, PoolType, Present, Arrived
  <2> QED
    BY <2>1 DEF PoolInv, PoolType, Barrier, Arrived
<1> QED
  BY <1>1, <1>2, <1>4, <1>5, <1>6, <1>7, <1>8 DEF PoolInv, Pool

(* A giver goes from one assignment to the next.                           *)
LEMMA GiverMove ==
  ASSUME PoolInv, NEW t \in Thread, NEW l \in Giving,
         pc[t] \in Giving,
         pc' = [pc EXCEPT ![t] = l],
         UNCHANGED poolVariables
  PROVE  PoolInv'
<1> USE DEF poolVariables
<1>1. PoolType'
  BY DEF PoolInv, PoolType, Stage, Giving
<1>2. Startup'
  BY PastStart, StartStaysOver DEF PoolInv, PoolType, Starting, Giving
<1>3. \A u \in Thread : /\ pc'[u] \in Giving <=> pc[u] \in Giving
                        /\ pc[u] \notin Giving => pc'[u] = pc[u]
                        /\ u # t => pc'[u] = pc[u]
  BY DEF PoolInv, PoolType, Giving
<1>4. HelperTakenOnce'
  BY <1>3 DEF PoolInv, PoolType, Pool, HelperTakenOnce, Giving, Sleeping
<1>5. InSet'
  BY <1>3 DEF PoolInv, PoolType, Pool, InSet, AtWork, Searching
<1>6. AtWork'
  BY <1>3 DEF PoolInv, PoolType, Pool, AtWork, Searching, Giving
<1>7. OnTheWay'
  BY <1>3 DEF PoolInv, PoolType, Pool, OnTheWay, Giving
<1>8. Barrier'
  <2>1. Present' = Present
    BY DEF PoolInv, PoolType, Present, Arrived, Giving
  <2> QED
    BY <2>1 DEF PoolInv, PoolType, Barrier, Arrived, Giving
<1> QED
  BY <1>1, <1>2, <1>4, <1>5, <1>6, <1>7, <1>8 DEF PoolInv, Pool
-----------------------------------------------------------------------------
(* What a signal does to the labels.                                       *)
LEMMA SignalledLabels ==
  ASSUME NEW label \in [Thread -> Stage], NEW h
  PROVE  /\ Signalled(h, label) \in [Thread -> Stage]
         /\ \A u \in Thread :
               \/ Signalled(h, label)[u] = label[u]
               \/ label[u] = "initAsleep" /\ Signalled(h, label)[u] = "initCheck"
               \/ label[u] = "asleep" /\ Signalled(h, label)[u] = "check"
<1> DEFINE new == CASE label[h] = "initAsleep" -> "initCheck"
                    [] label[h] = "asleep" -> "check"
                    [] OTHER -> label[h]
<1>1. Signalled(h, label) = [label EXCEPT ![h] = new]
  BY DEF Signalled
<1>2. \/ new = label[h]
      \/ label[h] = "initAsleep" /\ new = "initCheck"
      \/ label[h] = "asleep" /\ new = "check"
  <2>1. CASE label[h] = "initAsleep"
    <3>1. label[h] # "asleep"
      BY <2>1
    <3> QED
      BY <2>1, <3>1, Zenon
  <2>2. CASE label[h] = "asleep"
    <3>1. label[h] # "initAsleep"
      BY <2>2
    <3> QED
      BY <2>2, <3>1, Zenon
  <2>3. CASE label[h] # "initAsleep" /\ label[h] # "asleep"
    BY <2>3, Zenon
  <2> QED
    BY <2>1, <2>2, <2>3
<1> HIDE DEF new
<1>3. h \in Thread => new \in Stage
  BY <1>2 DEF Stage
<1> QED
  BY <1>1, <1>2, <1>3

LEMMA InitialiseStep ==
  ASSUME PoolInv, NEW t \in Thread, Initialise(t)
  PROVE  PoolInv'
<1>0. /\ pc[t] = "init"
      /\ running' = running - 1
      /\ pc' = [pc EXCEPT ![t] = IF running' = 0 THEN "startFirst" ELSE "initCheck"]
      /\ UNCHANGED <<idle, helper, idleSet, idleCount, terminating, exit>>
  BY DEF Initialise, Goto, endVars
<1>1. t \in Coming /\ IsFiniteSet(Coming) /\ running = Cardinality(Coming)
  BY <1>0, SubsetFinite DEF PoolInv, Startup, Coming
<1>2. running > 0 /\ running - 1 \in Nat
  BY <1>1, SubsetFinite DEF PoolInv, PoolType, Coming
<1>3. /\ pc[0] \in {"init", "initCheck", "initAsleep"} /\ idle[0]
      /\ ~exit /\ idleSet = {}
      /\ \A u \in Thread : pc[u] \in {"init", "initCheck", "initAsleep"}
  BY <1>2 DEF PoolInv, Startup, Starting
<1>4. \/ running' = 0 /\ pc' = [pc EXCEPT ![t] = "startFirst"]
      \/ running' > 0 /\ pc' = [pc EXCEPT ![t] = "initCheck"]
  <2>1. running' \in Nat
    BY <1>0, <1>2
  <2>2. running' = 0 \/ running' > 0
    BY <2>1
  <2> QED
    BY <1>0, <2>2
<1>5. PoolType'
  BY <1>0, <1>2, <1>4 DEF PoolInv, PoolType, Stage
<1>6. Startup'
  <2>1. Coming' = Coming \ {t}
    BY <1>4 DEF PoolInv, PoolType, Coming
  <2>2. running' = Cardinality(Coming')
    BY <1>0, <1>1, <2>1, FS_RemoveElement
  <2>3. \A u \in Thread : pc'[u] \in Starting /\ (u # t => pc'[u] = pc[u])
    BY <1>3, <1>4 DEF PoolInv, PoolType, Starting
  <2>4. running' > 0 => /\ pc'[0] \in {"init", "initCheck", "initAsleep"}
                        /\ \A u \in Thread : pc'[u] # "startFirst"
    BY <1>3, <1>4, ThreadFinite DEF PoolInv, PoolType
  <2>5. \A u \in Thread : pc'[u] = "startFirst" => u = t
    BY <1>3, <2>3
  <2>6. \A u \in Thread \ {0} : idle[u]
    BY <1>3 DEF PoolInv, Startup, Starting
  <2> QED
    BY <1>0, <1>3, <2>2, <2>3, <2>4, <2>5, <2>6, ThreadFinite DEF Startup, Starting
<1>7. Pool'
  <2>1. \A u \in Thread : pc'[u] \in Starting
    BY <1>3, <1>4 DEF PoolInv, PoolType, Starting
  <2> QED
    BY <1>0, <1>3, <2>1 DEF PoolInv, Pool, HelperTakenOnce, InSet, AtWork, OnTheWay,
                      Starting, Giving, Searching
<1>8. Barrier'
  <2>1. Present' = Present
    BY <1>0, <1>4 DEF PoolInv, PoolType, Present, Arrived
  <2> QED
    BY <1>0, <1>4, <2>1 DEF PoolInv, PoolType, Barrier, Arrived
<1> QED
  BY <1>5, <1>6, <1>7, <1>8 DEF PoolInv

LEMMA StartFirstStep ==
  ASSUME PoolInv, NEW t \in Thread, StartFirst(t)
  PROVE  PoolInv'
<1>0. /\ pc[t] = "startFirst"
      /\ idle' = [idle EXCEPT ![0] = FALSE]
      /\ pc' = Signalled(0, [pc EXCEPT ![t] = "initCheck"])
      /\ UNCHANGED <<running, terminating, idleCount, idleSet, exit, helper>>
  BY DEF StartFirst, endVars
<1>1. /\ pc[0] \in Starting /\ idle[0] /\ ~exit /\ idleSet = {}
      /\ ~(running > 0)
      /\ \A u \in Thread : /\ pc[u] \in Starting
                           /\ pc[u] = "startFirst" => u = t
                           /\ u # 0 => idle[u]
  BY <1>0 DEF PoolInv, Startup
<1> DEFINE label == [pc EXCEPT ![t] = "initCheck"]
<1>2. label \in [Thread -> Stage] /\ pc' = Signalled(0, label)
  BY <1>0 DEF PoolInv, PoolType, Stage
<1>3. \A u \in Thread : label[u] = IF u = t THEN "initCheck" ELSE pc[u]
  BY DEF PoolInv, PoolType
<1> HIDE DEF label
<1>9. /\ pc' \in [Thread -> Stage]
      /\ \A u \in Thread :
            \/ pc'[u] = label[u]
            \/ label[u] = "initAsleep" /\ pc'[u] = "initCheck"
            \/ label[u] = "asleep" /\ pc'[u] = "check"
  BY <1>2, SignalledLabels, Zenon
<1>4. PoolType'
  BY <1>0, <1>9 DEF PoolInv, PoolType
<1>5. \A u \in Thread : pc'[u] \in {"init", "initCheck", "initAsleep"}
                        /\ (pc'[u] = "init" <=> pc[u] = "init")
  BY <1>0, <1>1, <1>3, <1>9 DEF Starting
<1>6. Startup'
  <2>1. running' = Cardinality(Coming')
    <3>1. Coming' = Coming
      BY <1>5 DEF Coming
    <3> QED
      BY <1>0, <3>1 DEF PoolInv, Startup
  <2>2. \A u \in Thread \ {0} : idle'[u]
    BY <1>0, <1>1 DEF PoolInv, PoolType
  <2>3. ~(running' > 0) /\ ~exit' /\ idleSet' = {}
    BY <1>0, <1>1
  <2> QED
    BY <1>5, <2>1, <2>2, <2>3 DEF Startup, Starting
<1>7. Pool'
  BY <1>0, <1>1, <1>5 DEF PoolInv, Pool, HelperTakenOnce, InSet, AtWork,
                          OnTheWay, Giving, Searching
<1>8. Barrier'
  <2>1. \A u \in Thread : pc[u] \notin Arrived /\ pc'[u] \notin Arrived
    BY <1>1, <1>5 DEF Arrived, Starting
  <2>2. Present' = Present
    BY <2>1 DEF Present
  <2> QED
    BY <1>0, <1>5, <2>2 DEF PoolInv, Barrier, Arrived
<1> QED
  BY <1>4, <1>6, <1>7, <1>8 DEF PoolInv

LEMMA CheckStep ==
  ASSUME PoolInv, NEW t \in Thread, Check(t)
  PROVE  PoolInv'
<1>0. /\ pc' = [pc EXCEPT ![t] = pc'[t]]
      /\ \/ pc[t] = "check" /\ pc'[t] = "asleep"
         \/ pc[t] = "initCheck" /\ pc'[t] = "initAsleep"
         \/ pc[t] = "check" /\ pc'[t] = "resume" /\ (~idle[t] \/ exit)
         \/ pc[t] = "initCheck" /\ pc'[t] = "register" /\ t = 0 /\ (~idle[t] \/ exit)
         \/ pc[t] = "initCheck" /\ pc'[t] = "begin" /\ t # 0 /\ (~idle[t] \/ exit)
      /\ UNCHANGED poolVariables
  BY DEF PoolInv, PoolType, Check, Goto, poolVars, endVars, poolVariables
<1>1. UNCHANGED <<idle, helper, idleSet, idleCount, running, terminating, exit>>
  BY <1>0 DEF poolVariables
<1>2. \A u \in Thread : u # t => pc'[u] = pc[u]
  BY <1>0 DEF PoolInv, PoolType
<1>3. PoolType'
  BY <1>0, <1>1 DEF PoolInv, PoolType, Stage
<1>4. Startup'
  <2>1. CASE StartOver
    BY <1>0, <1>1, <1>2, <2>1, StartStaysOver, ThreadFinite DEF StartOver, Starting
  <2>2. CASE ~StartOver
    <3>1. /\ ~exit /\ idleSet = {}
          /\ \A u \in Thread \ {0} : pc[u] \in Starting /\ idle[u]
      BY <2>2 DEF PoolInv, Startup, StartOver
    <3>2. \/ pc[t] = "initCheck" /\ pc'[t] = "initAsleep"
          \/ t = 0 /\ pc[0] = "initCheck" /\ pc'[0] = "register" /\ ~idle[0]
      BY <1>0, <2>2, <3>1, ThreadFinite DEF StartOver, Starting
    <3>3. Coming' = Coming
      BY <1>2, <3>2 DEF Coming
    <3>4. /\ pc'[0] \in Starting \cup {"register"}
          /\ pc'[0] = "register" => pc[0] = "register" \/ ~idle[0]
          /\ pc'[0] \in {"init", "startFirst"} => pc'[0] = pc[0]
          /\ \A u \in Thread : pc'[u] = "startFirst" => pc[u] = "startFirst"
          /\ \A u \in Thread \ {0} : pc'[u] \in Starting
      BY <1>2, <2>2, <3>1, <3>2, ThreadFinite DEF StartOver, Starting
    <3>5. running > 0 => /\ pc'[0] \in {"init", "initCheck", "initAsleep"}
                         /\ idle[0]
                         /\ \A u \in Thread : pc'[u] # "startFirst"
      BY <3>4 DEF PoolInv, Startup, Starting
    <3>6. \A u \in Thread : pc'[u] = "startFirst" =>
            /\ pc'[0] \in Starting
            /\ idle[0]
            /\ \A w \in Thread : pc'[w] = "startFirst" => w = u
      BY <3>4 DEF PoolInv, Startup, Starting
    <3>7. \A u \in Thread : pc'[u] \in {"register", "insertRoot"} => u = 0
      BY <3>4 DEF Starting
    <3> QED
      BY <1>1, <3>1, <3>3, <3>4, <3>5, <3>6, <3>7 DEF PoolInv, Startup
  <2> QED
    BY <2>1, <2>2
<1>5. \A u \in Thread : /\ pc'[u] \in Giving <=> pc[u] \in Giving
                        /\ pc[u] \in Sleeping /\ idle[u] => pc'[u] \in Sleeping \/ exit
                        /\ pc[u] \notin Sleeping => pc'[u] = pc[u]
  BY <1>0, <1>2 DEF Giving, Sleeping
<1>6. HelperTakenOnce'
  BY <1>1, <1>5 DEF PoolInv, PoolType, Pool, HelperTakenOnce
<1>7. InSet'
  BY <1>1, <1>5 DEF PoolInv, PoolType, Pool, InSet, Sleeping
<1>8. AtWork'
  BY <1>0, <1>1, <1>2 DEF PoolInv, Pool, AtWork, Searching, Giving
<1>9. OnTheWay'
  BY <1>0, <1>1, <1>2, <1>5 DEF PoolInv, Pool, OnTheWay
<1>10. Barrier'
  <2>1. \A u \in Thread : pc'[u] = pc[u] \/ u = t
    BY <1>2
  <2>2. Present' = Present
    BY <1>0, <2>1 DEF Present, Arrived
  <2> QED
    BY <1>0, <1>1, <2>1, <2>2 DEF PoolInv, Barrier, Arrived
<1> QED
  BY <1>3, <1>4, <1>6, <1>7, <1>8, <1>9, <1>10 DEF PoolInv, Pool

LEMMA RegisterStep ==
  ASSUME PoolInv, NEW t \in Thread, Register(t)
  PROVE  PoolInv'
<1>0. /\ t = 0 /\ pc[0] = "register"
      /\ pc' = [pc EXCEPT ![0] = "insertRoot"]
      /\ idleSet' = idleSet \cup (Thread \ {0})
      /\ idleCount' = idleCount + (NumThreads - 1)
      /\ UNCHANGED <<idle, helper, running, terminating, exit>>
  BY DEF PoolInv, Startup, Register, Goto, endVars
<1>1. /\ ~exit /\ idleSet = {}
      /\ \A u \in Thread \ {0} : idle[u] /\ pc[u] \in {"initCheck", "initAsleep"}
  <2>1. ~exit /\ idleSet = {} /\ \A u \in Thread \ {0} : pc[u] \in Starting /\ idle[u]
    BY <1>0 DEF PoolInv, Startup
  <2>2. \A u \in Thread : pc[u] # "startFirst"
    BY <1>0 DEF PoolInv, Startup, Starting
  <2>3. running = 0
    BY <1>0 DEF PoolInv, PoolType, Startup
  <2>4. Coming = {}
    BY <2>3, SubsetFinite DEF PoolInv, Startup, Coming
  <2> QED
    BY <2>1, <2>2, <2>4 DEF Coming, Starting
<1>2. /\ pc'[0] = "insertRoot"
      /\ \A u \in Thread \ {0} : pc'[u] = pc[u]
  BY <1>0, ThreadFinite DEF PoolInv, PoolType
<1>3. Cardinality(Thread \ {0}) = NumThreads - 1
  BY ThreadFinite, FS_RemoveElement
<1>4. idleCount = 0
  BY <1>1, FS_EmptySet DEF PoolInv, Pool, HelperTakenOnce
<1>5. idleSet' = Thread \ {0} /\ idleCount' = Cardinality(idleSet')
  BY <1>0, <1>1, <1>3, <1>4, NumThreadsAssumption
<1>6. PoolType'
  BY <1>0, <1>4, NumThreadsAssumption, ThreadFinite DEF PoolInv, PoolType, Stage
<1>7. Startup'
  <2>1. Coming' = Coming
    BY <1>0, <1>2 DEF Coming
  <2>2. ~(running > 0)
    BY <1>0 DEF PoolInv, Startup
  <2> QED
    BY <1>0, <1>1, <1>2, <2>1, <2>2 DEF PoolInv, Startup, Starting
<1>8. Pool'
  <2>1. \A u \in Thread : pc'[u] \notin Giving \cup {"enlist", "exit"}
    BY <1>1, <1>2 DEF Giving
  <2>2. HelperTakenOnce'
    BY <1>5, <2>1 DEF HelperTakenOnce
  <2>3. InSet'
    BY <1>0, <1>1, <1>2, <1>5 DEF InSet, Sleeping
  <2>4. ~idle[0] \/ exit
    BY <1>0, ThreadFinite DEF PoolInv, Pool, AtWork
  <2>5. AtWork'
    BY <1>0, <1>1, <1>2, <2>4 DEF AtWork, Searching, Giving
  <2>6. OnTheWay'
    BY <2>1 DEF OnTheWay
  <2> QED
    BY <2>2, <2>3, <2>5, <2>6 DEF Pool
<1>9. Barrier'
  <2>1. Present' = Present
    BY <1>0, <1>2 DEF Present, Arrived
  <2> QED
    BY <1>0, <1>2, <2>1 DEF PoolInv, Barrier, Arrived
<1> QED
  BY <1>6, <1>7, <1>8, <1>9 DEF PoolInv
-----------------------------------------------------------------------------
(* The first of a set of threads is one of them.                           *)
LEMMA FirstOfThreads ==
  ASSUME NEW S \in SUBSET Thread, S # {}
  PROVE  Min(S) \in S
<1>1. S \subseteq Nat
  BY NumThreadsAssumption DEF Thread
<1>2. PICK x \in S : \A y \in S : ~(<<y, x>> \in OpToRel(<, Nat))
  BY <1>1, WFMin, NatLessThanWellFounded, Zenon
<1>3. \A y \in S : ~(y < x)
  BY <1>1, <1>2 DEF OpToRel
<1>4. \A y \in S : x <= y
  BY <1>1, <1>3
<1> QED
  BY <1>4 DEF Min

LEMMA TakeHelperStep ==
  ASSUME PoolInv, NEW t \in Thread, TakeHelper(t), idleCount > 0
  PROVE  PoolInv'
<1> DEFINE h == Min(idleSet)
<1>0. /\ pc[t] = "takeHelper"
      /\ pc' = [pc EXCEPT ![t] = "giveState"]
      /\ helper' = [helper EXCEPT ![t] = h]
      /\ idleSet' = idleSet \ {h}
      /\ idleCount' = idleCount - 1
      /\ UNCHANGED <<idle, running, terminating, exit>>
  BY DEF PoolInv, PoolType, TakeHelper, Goto, endVars
<1>1. h \in idleSet /\ IsFiniteSet(idleSet) /\ idleCount = Cardinality(idleSet)
  <2>1. idleCount = Cardinality(idleSet) /\ idleSet \in SUBSET Thread
    BY DEF PoolInv, PoolType, Pool, HelperTakenOnce
  <2>2. idleSet # {}
    BY <2>1, FS_EmptySet
  <2> QED
    BY <2>1, <2>2, FirstOfThreads, SubsetFinite
<1> HIDE DEF h
<1>2. /\ h \in Thread /\ h # t /\ idle[h] /\ ~idle[t]
      /\ pc[h] \in Sleeping \/ exit
  <2>1. ~idle[t]
    BY <1>0 DEF PoolInv, Pool, AtWork, Searching
  <2>2. h \in Thread /\ idle[h] /\ (pc[h] \in Sleeping \cup {"exit"} \/ exit)
    BY <1>1 DEF PoolInv, PoolType, Pool, InSet
  <2>3. pc[h] = "exit" => exit
    BY <2>1, <2>2 DEF PoolInv, Pool, OnTheWay, InSet
  <2> QED
    BY <2>1, <2>2, <2>3
<1>3. /\ pc'[t] = "giveState"
      /\ \A u \in Thread : u # t => pc'[u] = pc[u] /\ helper'[u] = helper[u]
      /\ helper'[t] = h
  BY <1>0 DEF PoolInv, PoolType
<1>4. PoolType'
  <2>1. idleCount' \in Nat
    BY <1>0 DEF PoolInv, PoolType
  <2> QED
    BY <1>0, <1>2, <2>1 DEF PoolInv, PoolType, Stage
<1>5. Startup'
  BY <1>0, <1>3, PastStart, StartStaysOver DEF Starting
<1>6. HelperTakenOnce'
  <2>1. idleCount' = Cardinality(idleSet')
    BY <1>0, <1>1, FS_RemoveElement
  <2>2. \A u \in Thread : u # t /\ pc[u] \in Giving =>
          /\ helper[u] # h
          /\ helper[u] # t
    BY <1>1, <1>2 DEF PoolInv, Pool, HelperTakenOnce
  <2>3. ASSUME NEW u \in Thread, pc'[u] \in Giving, u # t
        PROVE  /\ helper'[u] \notin idleSet'
               /\ pc'[helper'[u]] \in Sleeping \/ exit'
               /\ idle'[helper'[u]]
               /\ \A w \in Thread \ {u} : pc'[w] \in Giving => helper'[w] # helper'[u]
    <3>1. pc[u] \in Giving /\ helper'[u] = helper[u] /\ helper[u] \in Thread
      BY <1>3, <2>3 DEF PoolInv, PoolType
    <3>2. /\ helper[u] \notin idleSet
          /\ pc[helper[u]] \in Sleeping \/ exit
          /\ idle[helper[u]]
          /\ \A w \in Thread \ {u} : pc[w] \in Giving => helper[w] # helper[u]
      BY <3>1 DEF PoolInv, Pool, HelperTakenOnce
    <3> QED
      BY <1>0, <1>3, <2>2, <2>3, <3>1, <3>2
  <2>4. /\ helper'[t] \notin idleSet'
        /\ pc'[helper'[t]] \in Sleeping \/ exit'
        /\ idle'[helper'[t]]
        /\ \A w \in Thread \ {t} : pc'[w] \in Giving => helper'[w] # helper'[t]
    BY <1>0, <1>2, <1>3, <2>2
  <2> QED
    BY <2>1, <2>3, <2>4 DEF HelperTakenOnce
<1>7. InSet'
  BY <1>0, <1>2, <1>3 DEF PoolInv, PoolType, Pool, InSet
<1>8. AtWork'
  BY <1>0, <1>2, <1>3 DEF PoolInv, Pool, AtWork
<1>9. OnTheWay'
  <2>1. \A u \in Thread : pc'[u] \in {"enlist", "exit"} => u # t /\ pc[u] = pc'[u]
    BY <1>3
  <2>2. \A u \in Thread : pc[u] = "enlist" => u # h
    BY <1>1 DEF PoolInv, Pool, OnTheWay
  <2>3. \A u \in Thread : pc[u] = "exit" => exit
    BY <1>2 DEF PoolInv, Pool, OnTheWay, InSet
  <2> QED
    BY <1>0, <1>3, <2>1, <2>2, <2>3 DEF PoolInv, Pool, OnTheWay, Giving
<1>10. Barrier'
  <2>1. Present' = Present
    BY <1>0, <1>3 DEF Present, Arrived
  <2> QED
    BY <1>0, <1>3, <2>1 DEF PoolInv, Barrier, Arrived
<1> QED
  BY <1>4, <1>5, <1>6, <1>7, <1>8, <1>9, <1>10 DEF PoolInv, Pool

LEMMA WakeStep ==
  ASSUME PoolInv, NEW t \in Thread, Wake(t)
  PROVE  PoolInv'
<1> DEFINE h == helper[t]
           label == [pc EXCEPT ![t] = "fire"]
<1>0. /\ pc[t] = "wake"
      /\ idle' = [idle EXCEPT ![h] = FALSE]
      /\ pc' = Signalled(h, label)
      /\ helper' = [helper EXCEPT ![t] = t]
      /\ UNCHANGED <<idleSet, idleCount, running, terminating, exit>>
  BY DEF Wake, endVars
<1>1. /\ h \in Thread /\ h \notin idleSet /\ idle[h]
      /\ pc[h] \in Sleeping \/ exit
      /\ \A u \in Thread \ {t} : pc[u] \in Giving => helper[u] # h
      /\ ~idle[t]
  BY <1>0 DEF PoolInv, PoolType, Pool, HelperTakenOnce, AtWork, Searching, Giving
<1>2. label \in [Thread -> Stage] /\ pc' = Signalled(h, label)
  BY <1>0 DEF PoolInv, PoolType, Stage
<1>3. \A u \in Thread : label[u] = IF u = t THEN "fire" ELSE pc[u]
  BY DEF PoolInv, PoolType
<1> HIDE DEF label, h
<1>4. /\ pc' \in [Thread -> Stage]
      /\ \A u \in Thread :
            \/ pc'[u] = label[u]
            \/ label[u] = "initAsleep" /\ pc'[u] = "initCheck"
            \/ label[u] = "asleep" /\ pc'[u] = "check"
  BY <1>2, SignalledLabels, Zenon
<1>5. /\ pc'[t] = "fire"
      /\ \A u \in Thread : u # t => \/ pc'[u] = pc[u]
                                    \/ pc[u] = "initAsleep" /\ pc'[u] = "initCheck"
                                    \/ pc[u] = "asleep" /\ pc'[u] = "check"
  BY <1>3, <1>4
<1>6. /\ \A u \in Thread : idle'[u] <=> idle[u] /\ u # h
      /\ \A u \in Thread : u # t => helper'[u] = helper[u]
  BY <1>0, <1>1 DEF PoolInv, PoolType
<1>7. PoolType'
  BY <1>0, <1>1, <1>4 DEF PoolInv, PoolType
<1>8. Startup'
  BY <1>0, <1>5, PastStart, StartStaysOver DEF Starting
<1>9. \A u \in Thread : /\ pc'[u] \in Giving <=> pc[u] \in Giving /\ u # t
                        /\ pc[u] \in Sleeping => pc'[u] \in Sleeping
                        /\ pc[u] = "exit" => pc'[u] = "exit"
  BY <1>0, <1>5 DEF Giving, Sleeping
<1>10. HelperTakenOnce'
  <2>1. ASSUME NEW u \in Thread, pc'[u] \in Giving
        PROVE  /\ helper'[u] \notin idleSet'
               /\ pc'[helper'[u]] \in Sleeping \/ exit'
               /\ idle'[helper'[u]]
               /\ \A w \in Thread \ {u} : pc'[w] \in Giving => helper'[w] # helper'[u]
    <3>1. /\ pc[u] \in Giving /\ u # t /\ helper'[u] = helper[u]
          /\ helper[u] \in Thread /\ helper[u] # h
      BY <1>1, <1>6, <1>9, <2>1 DEF PoolInv, PoolType
    <3>2. /\ helper[u] \notin idleSet
          /\ pc[helper[u]] \in Sleeping \/ exit
          /\ idle[helper[u]]
          /\ \A w \in Thread \ {u} : pc[w] \in Giving => helper[w] # helper[u]
      BY <3>1 DEF PoolInv, Pool, HelperTakenOnce
    <3> QED
      BY <1>0, <1>6, <1>9, <3>1, <3>2
  <2> QED
    BY <1>0, <2>1 DEF PoolInv, Pool, HelperTakenOnce
<1>11. InSet'
  BY <1>0, <1>1, <1>6, <1>9 DEF PoolInv, PoolType, Pool, InSet
<1>12. AtWork'
  BY <1>0, <1>1, <1>5, <1>6 DEF PoolInv, Pool, AtWork, Searching, Giving
<1>13. OnTheWay'
  <2>1. \A u \in Thread : pc'[u] \in {"enlist", "exit"} => u # t /\ pc[u] = pc'[u]
    BY <1>5
  <2>2. \A u \in Thread : pc[u] = "enlist" => u # h
    BY <1>0 DEF PoolInv, Pool, OnTheWay, Giving, h
  <2> QED
    BY <1>0, <1>6, <1>9, <2>1, <2>2 DEF PoolInv, Pool, OnTheWay
<1>14. Barrier'
  <2>1. \A u \in Thread :
           pc'[u] \in Arrived \cup {"signal", "barrier"} => pc'[u] = pc[u]
    BY <1>5 DEF Arrived
  <2>2. \A u \in Thread : pc[u] \in Arrived => pc'[u] = pc[u]
    BY <1>0, <1>5 DEF Arrived
  <2>3. Present' = Present
    BY <2>1, <2>2 DEF Present
  <2> QED
    BY <1>0, <2>1, <2>3 DEF PoolInv, Barrier, Arrived
<1> QED
  BY <1>7, <1>8, <1>10, <1>11, <1>12, <1>13, <1>14 DEF PoolInv, Pool

LEMMA GoIdleStep ==
  ASSUME PoolInv, NEW t \in Thread, GoIdle(t)
  PROVE  PoolInv'
<1>0. /\ pc[t] = "fire"
      /\ pc' = [pc EXCEPT ![t] = "enlist"]
      /\ idle' = [idle EXCEPT ![t] = TRUE]
      /\ UNCHANGED <<helper, idleSet, idleCount, running, terminating, exit>>
  BY DEF GoIdle, Goto, endVars
<1>1. /\ ~idle[t] /\ t \notin idleSet
      /\ \A u \in Thread : pc[u] \in Giving => helper[u] # t
  BY <1>0 DEF PoolInv, Pool, HelperTakenOnce, InSet, AtWork, Searching
<1>2. /\ pc'[t] = "enlist" /\ idle'[t]
      /\ \A u \in Thread : u # t => pc'[u] = pc[u] /\ idle'[u] = idle[u]
  BY <1>0 DEF PoolInv, PoolType
<1>3. PoolType'
  BY <1>0 DEF PoolInv, PoolType, Stage
<1>4. Startup'
  BY <1>0, <1>2, PastStart, StartStaysOver DEF Starting
<1>5. \A u \in Thread : pc'[u] \in Giving <=> pc[u] \in Giving
  BY <1>0, <1>2 DEF Giving
<1>6. HelperTakenOnce'
  BY <1>0, <1>1, <1>2, <1>5 DEF PoolInv, PoolType, Pool, HelperTakenOnce
<1>7. InSet'
  BY <1>0, <1>1, <1>2 DEF PoolInv, PoolType, Pool, InSet
<1>8. AtWork'
  BY <1>0, <1>2 DEF PoolInv, Pool, AtWork, Searching, Giving
<1>9. OnTheWay'
  BY <1>0, <1>1, <1>2, <1>5 DEF PoolInv, Pool, OnTheWay
<1>10. Barrier'
  <2>1. Present' = Present
    BY <1>0, <1>2 DEF Present, Arrived
  <2> QED
    BY <1>0, <1>2, <2>1 DEF PoolInv, Barrier, Arrived
<1> QED
  BY <1>3, <1>4, <1>6, <1>7, <1>8, <1>9, <1>10 DEF PoolInv, Pool

LEMMA EnlistStep ==
  ASSUME PoolInv, NEW t \in Thread, Enlist(t)
  PROVE  PoolInv'
<1>0. /\ pc[t] = "enlist"
      /\ pc' = [pc EXCEPT ![t] = IF idleCount' = terminating THEN "exit" ELSE "check"]
      /\ idleSet' = idleSet \cup {t}
      /\ idleCount' = idleCount + 1
      /\ UNCHANGED <<idle, helper, running, terminating, exit>>
  BY DEF Enlist, Goto, endVars
<1>1. /\ idle[t] /\ t \notin idleSet
      /\ \A u \in Thread : pc[u] \in Giving => helper[u] # t
  BY <1>0 DEF PoolInv, Pool, OnTheWay
<1>2. idleCount' = Cardinality(idleSet') /\ idleSet' \in SUBSET Thread
  <2>1. IsFiniteSet(idleSet) /\ idleCount = Cardinality(idleSet)
    BY SubsetFinite DEF PoolInv, PoolType, Pool, HelperTakenOnce
  <2> QED
    BY <1>0, <1>1, <2>1, FS_AddElement DEF PoolInv, PoolType
<1>3. /\ pc'[t] \in {"exit", "check"}
      /\ pc'[t] = "exit" => idleCount' = terminating
      /\ \A u \in Thread : u # t => pc'[u] = pc[u]
  BY <1>0 DEF PoolInv, PoolType
<1>4. PoolType'
  <2>1. pc' \in [Thread -> Stage]
    BY <1>0 DEF PoolInv, PoolType, Stage
  <2> QED
    BY <1>0, <1>2, <2>1 DEF PoolInv, PoolType
<1>5. Startup'
  BY <1>0, <1>3, PastStart, StartStaysOver DEF Starting
<1>6. \A u \in Thread : pc'[u] \in Giving <=> pc[u] \in Giving
  BY <1>0, <1>3 DEF Giving
<1>7. HelperTakenOnce'
  <2>1. \A u \in Thread : pc[u] \in Sleeping => pc'[u] = pc[u]
    BY <1>0, <1>3 DEF Sleeping
  <2> QED
    BY <1>0, <1>1, <1>2, <1>6, <2>1 DEF PoolInv, PoolType, Pool, HelperTakenOnce
<1>8. InSet'
  BY <1>0, <1>1, <1>3 DEF PoolInv, PoolType, Pool, InSet, Sleeping
<1>9. AtWork'
  BY <1>0, <1>3 DEF PoolInv, Pool, AtWork, Searching, Giving
<1>10. OnTheWay'
  <2>1. ASSUME pc'[t] = "exit", ~exit PROVE idleSet' = Thread
    <3>1. Present = Thread
      BY <2>1 DEF PoolInv, Barrier, Present
    <3>2. Cardinality(idleSet') = NumThreads
      BY <1>2, <1>3, <2>1, <3>1, ThreadFinite DEF PoolInv, Barrier
    <3> QED
      BY <1>2, <3>2, SubsetFinite
  <2>2. \A u \in Thread : pc[u] = "exit" => exit
    BY <1>1 DEF PoolInv, Pool, OnTheWay
  <2>3. \A u \in Thread : pc'[u] = "enlist" => u # t /\ pc[u] = "enlist"
    BY <1>3
  <2> QED
    BY <1>0, <1>3, <1>6, <2>1, <2>2, <2>3 DEF PoolInv, Pool, OnTheWay
<1>11. Barrier'
  <2>1. Present' = Present
    BY <1>0, <1>3 DEF Present, Arrived
  <2> QED
    BY <1>0, <1>3, <2>1 DEF PoolInv, Barrier, Arrived
<1> QED
  BY <1>4, <1>5, <1>7, <1>8, <1>9, <1>10, <1>11 DEF PoolInv, Pool
-----------------------------------------------------------------------------
(* Thread t ends the search: from then on nobody has to be idle.           *)
LEMMA ExitMove ==
  ASSUME PoolInv, NEW t \in Thread,
         \/ pc[t] = "exit" /\ pc' = [pc EXCEPT ![t] = "resume"]
         \/ pc[t] = "terminate" /\ pc' = [pc EXCEPT ![t] = "signal"]
         \/ pc[t] = "terminate" /\ pc' = [pc EXCEPT ![t] = "barrier"],
         exit',
         UNCHANGED <<idle, helper, idleSet, idleCount, running, terminating>>
  PROVE  PoolInv'
<1>1. /\ pc'[t] \in {"resume", "signal", "barrier"}
      /\ \A u \in Thread : u # t => pc'[u] = pc[u]
  BY DEF PoolInv, PoolType
<1>2. PoolType'
  BY DEF PoolInv, PoolType, Stage
<1>3. Startup'
  BY <1>1, PastStart, StartStaysOver DEF Starting
<1>4. \A u \in Thread : pc'[u] \in Giving <=> pc[u] \in Giving
  BY <1>1 DEF Giving
<1>5. HelperTakenOnce'
  BY <1>4 DEF PoolInv, Pool, HelperTakenOnce
<1>6. InSet'
  BY DEF PoolInv, Pool, InSet
<1>7. AtWork'
  BY <1>1 DEF PoolInv, Pool, AtWork, Searching, Giving
<1>8. OnTheWay'
  BY <1>1, <1>4 DEF PoolInv, Pool, OnTheWay
<1>9. Barrier'
  <2>1. Present' = Present
    BY <1>1 DEF Present, Arrived
  <2> QED
    BY <1>1, <2>1 DEF PoolInv, Barrier, Arrived
<1> QED
  BY <1>2, <1>3, <1>5, <1>6, <1>7, <1>8, <1>9 DEF PoolInv, Pool

(* A thread on its way out signals the next one.                           *)
LEMMA SignalNextStep ==
  ASSUME PoolInv, NEW t \in Thread, SignalNext(t)
  PROVE  PoolInv'
<1> DEFINE h == signalled[t]
           label == [pc EXCEPT ![t] = IF h + 1 = NumThreads THEN "barrier"
                                                            ELSE "signal"]
<1>1. pc[t] = "signal" /\ exit
  BY DEF SignalNext, PoolInv, Barrier
<1>2. label \in [Thread -> Stage] /\ pc' = Signalled(h, label)
  BY DEF SignalNext, PoolInv, PoolType, Stage
<1>3. UNCHANGED <<idle, helper, idleSet, idleCount, running, terminating, exit>>
  BY DEF SignalNext, poolVars
<1>4. /\ label[t] \in {"signal", "barrier"}
      /\ \A u \in Thread : u # t => label[u] = pc[u]
  BY DEF PoolInv, PoolType
<1> HIDE DEF h, label
<1>5. /\ pc' \in [Thread -> Stage]
      /\ \A u \in Thread :
            \/ pc'[u] = label[u]
            \/ label[u] = "initAsleep" /\ pc'[u] = "initCheck"
            \/ label[u] = "asleep" /\ pc'[u] = "check"
  BY <1>2, SignalledLabels, Zenon
<1>6. /\ pc'[t] \in {"signal", "barrier"}
      /\ \A u \in Thread : u # t => \/ pc'[u] = pc[u]
                                    \/ pc[u] = "initAsleep" /\ pc'[u] = "initCheck"
                                    \/ pc[u] = "asleep" /\ pc'[u] = "check"
  BY <1>4, <1>5
<1>7. PoolType'
  BY <1>3, <1>5 DEF PoolInv, PoolType
<1>8. Startup'
  BY <1>1, <1>3, <1>6, PastStart, StartStaysOver DEF Starting
<1>9. \A u \in Thread : pc'[u] \in Giving <=> pc[u] \in Giving
  BY <1>1, <1>6 DEF Giving
<1>10. HelperTakenOnce'
  BY <1>1, <1>3, <1>9 DEF PoolInv, Pool, HelperTakenOnce
<1>11. InSet'
  BY <1>1, <1>3 DEF PoolInv, Pool, InSet
<1>12. AtWork'
  BY <1>1, <1>3, <1>6 DEF PoolInv, Pool, AtWork, Searching, Giving
<1>13. OnTheWay'
  BY <1>1, <1>3, <1>6, <1>9 DEF PoolInv, Pool, OnTheWay
<1>14. Barrier'
  <2>1. /\ \A u \in Thread : pc'[u] \in Arrived => pc'[u] = pc[u]
        /\ \A u \in Thread : pc[u] \in Arrived => pc'[u] = pc[u]
    BY <1>1, <1>6 DEF Arrived
  <2>2. Present' = Present
    BY <2>1 DEF Present
  <2> QED
    BY <1>1, <1>3, <2>1, <2>2 DEF PoolInv, Barrier, Arrived
<1> QED
  BY <1>7, <1>8, <1>10, <1>11, <1>12, <1>13, <1>14 DEF PoolInv, Pool

(* A thread comes to the barrier, passes it or returns.                    *)
LEMMA BarrierMove ==
  ASSUME PoolInv, NEW t \in Thread,
         \/ pc[t] = "barrier" /\ terminating' = terminating - 1
              /\ pc' = [pc EXCEPT ![t] = IF terminating' = 0 THEN "leave"
                                                             ELSE "barrierWait"]
         \/ pc[t] = "barrierWait" /\ terminating = 0 /\ terminating' = terminating
              /\ pc' = [pc EXCEPT ![t] = "leave"]
         \/ pc[t] = "leave" /\ terminating' = terminating
              /\ pc' = [pc EXCEPT ![t] = "done"],
         UNCHANGED <<idle, helper, idleSet, idleCount, running, exit>>
  PROVE  PoolInv'
<1>1. /\ exit
      /\ pc'[t] \in Arrived
      /\ \A u \in Thread : u # t => pc'[u] = pc[u]
  BY DEF PoolInv, PoolType, Barrier, Arrived
<1>2. Present' = Present \ {t} /\ (pc[t] = "barrier" <=> t \in Present)
  BY <1>1 DEF Present, Arrived
<1>3. terminating' = Cardinality(Present')
  <2>1. IsFiniteSet(Present) /\ terminating = Cardinality(Present)
    BY SubsetFinite DEF PoolInv, Barrier, Present
  <2>2. CASE pc[t] = "barrier"
    BY <1>2, <2>1, <2>2, FS_RemoveElement
  <2>3. CASE pc[t] # "barrier"
    BY <1>2, <2>1, <2>3
  <2> QED
    BY <2>2, <2>3
<1>4. PoolType'
  <2>1. terminating' \in Nat
    BY <1>3, SubsetFinite DEF Present
  <2>2. pc' \in [Thread -> Stage]
    BY DEF PoolInv, PoolType, Stage
  <2> QED
    BY <2>1, <2>2 DEF PoolInv, PoolType
<1>5. Startup'
  BY <1>1, PastStart, StartStaysOver DEF Starting, Arrived
<1>6. \A u \in Thread : pc'[u] \in Giving <=> pc[u] \in Giving
  BY <1>1 DEF Giving, Arrived
<1>7. HelperTakenOnce'
  BY <1>1, <1>6 DEF PoolInv, Pool, HelperTakenOnce
<1>8. InSet'
  BY <1>1 DEF PoolInv, Pool, InSet
<1>9. AtWork'
  BY <1>1 DEF PoolInv, Pool, AtWork, Searching, Giving, Arrived
<1>10. OnTheWay'
  BY <1>1, <1>6 DEF PoolInv, Pool, OnTheWay, Arrived
<1>11. Barrier'
  <2>1. pc'[t] \in {"leave", "done"} => terminating' = 0
    BY DEF PoolInv, PoolType, Barrier
  <2>2. ASSUME NEW u \in Thread, u # t, pc[u] \in {"leave", "done"}
        PROVE  terminating' = 0
    <3>1. terminating = 0
      BY <2>2 DEF PoolInv, Barrier
    <3>2. Present = {}
      BY <3>1, SubsetFinite DEF PoolInv, Barrier, Present
    <3> QED
      BY <1>2, <3>1, <3>2
  <2> QED
    BY <1>1, <1>3, <2>1, <2>2 DEF PoolInv, Barrier
<1> QED
  BY <1>4, <1>5, <1>7, <1>8, <1>9, <1>10, <1>11 DEF PoolInv, Pool
-----------------------------------------------------------------------------
(* A thread goes to the head of the loop or gives up the search.           *)
LEMMA HeadMove ==
  ASSUME PoolInv, NEW t \in Thread, pc[t] \in {"begin", "head", "resume"},
         \/ pc' = [pc EXCEPT ![t] = "head"]
         \/ pc' = [pc EXCEPT ![t] = "terminate"],
         UNCHANGED poolVariables
  PROVE  PoolInv'
  BY SearchMove

(* Every step keeps the invariant.                                         *)
LEMMA NextPoolInv == PoolInv /\ [Next]_vars => PoolInv'
<1> SUFFICES ASSUME PoolInv, [Next]_vars PROVE PoolInv'
  OBVIOUS
<1>1. ASSUME UNCHANGED <<poolVariables, pc>> PROVE PoolInv'
  BY <1>1 DEF poolVariables, PoolInv, PoolType, Startup, Pool, HelperTakenOnce,
              InSet, AtWork, OnTheWay, Barrier, Coming, Present
<1>2. ASSUME NEW t \in Thread, InsertRoot(t) PROVE PoolInv'
  BY <1>2, SearchMove DEF InsertRoot, Goto, poolVars, endVars, poolVariables
<1>3. ASSUME NEW t \in Thread, Begin(t) PROVE PoolInv'
  BY <1>3, SearchMove DEF Begin, Goto, poolVars, endVars, poolVariables
<1>4. ASSUME NEW t \in Thread, Leave(t) PROVE PoolInv'
  <2>1. /\ pc[t] = "head" /\ pc' = [pc EXCEPT ![t] = "terminate"]
        /\ UNCHANGED poolVariables
    BY <1>4 DEF Leave, Goto, poolVars, endVars, poolVariables
  <2> QED
    BY <2>1, HeadMove
<1>5. ASSUME NEW t \in Thread, Find(t) PROVE PoolInv'
  <2>1. /\ pc[t] = "head" /\ pc' = [pc EXCEPT ![t] = "terminate"]
        /\ UNCHANGED poolVariables
    BY <1>5 DEF Find, Goto, poolVars, poolVariables
  <2> QED
    BY <2>1, HeadMove
<1>6. ASSUME NEW t \in Thread, Expand(t) PROVE PoolInv'
  <2>1. ~idle[t]
    BY <1>6 DEF Expand, PoolInv, Pool, AtWork
  <2>2. /\ pc[t] = "head" /\ pc' = [pc EXCEPT ![t] = "fire"]
        /\ UNCHANGED poolVariables
    BY <1>6 DEF Expand, Goto, poolVars, poolVariables
  <2> QED
    BY <2>1, <2>2, SearchMove
<1>7. ASSUME NEW t \in Thread, FireKnown(t) PROVE PoolInv'
  BY <1>1, <1>7 DEF FireKnown, poolVars, endVars, poolVariables
<1>8. ASSUME NEW t \in Thread, pc[t] \in Searching PROVE ~idle[t]
  BY <1>8 DEF PoolInv, Pool, AtWork
<1>9. ASSUME NEW t \in Thread, FireNew(t) PROVE PoolInv'
  <2>1. /\ pc[t] = "fire"
        /\ \/ pc' = [pc EXCEPT ![t] = "readIdle"]
           \/ pc' = [pc EXCEPT ![t] = "link"]
        /\ UNCHANGED poolVariables
    BY <1>9 DEF FireNew, Goto, poolVars, endVars, poolVariables
  <2> QED
    BY <1>8, <2>1, SearchMove DEF Searching
<1>10. ASSUME NEW t \in Thread, Link(t) PROVE PoolInv'
  <2>1. /\ pc[t] = "link" /\ pc' = [pc EXCEPT ![t] = "fire"]
        /\ UNCHANGED poolVariables
    BY <1>10 DEF Link, Goto, poolVars, endVars, poolVariables
  <2> QED
    BY <1>8, <2>1, SearchMove DEF Searching
<1>11. ASSUME NEW t \in Thread, ReadIdleCount(t) PROVE PoolInv'
  <2>1. /\ pc[t] = "readIdle"
        /\ \/ pc' = [pc EXCEPT ![t] = "link"]
           \/ pc' = [pc EXCEPT ![t] = "takeHelper"]
        /\ UNCHANGED poolVariables
    BY <1>11 DEF ReadIdleCount, Goto, poolVars, endVars, poolVariables
  <2> QED
    BY <1>8, <2>1, SearchMove DEF Searching
<1>12. ASSUME NEW t \in Thread, TakeHelper(t) PROVE PoolInv'
  <2>1. CASE idleCount > 0
    BY <1>12, <2>1, TakeHelperStep
  <2>2. CASE ~(idleCount > 0)
    <3>1. /\ pc[t] = "takeHelper" /\ pc' = [pc EXCEPT ![t] = "link"]
          /\ UNCHANGED poolVariables
      BY <1>12, <2>2 DEF TakeHelper, Goto, endVars, poolVariables
    <3> QED
      BY <1>8, <3>1, SearchMove DEF Searching
  <2> QED
    BY <2>1, <2>2
<1>13. ASSUME NEW t \in Thread, GiveState(t) \/ GivePayload(t) PROVE PoolInv'
  <2>1. /\ pc[t] \in Giving
        /\ \/ pc' = [pc EXCEPT ![t] = "givePayload"]
           \/ pc' = [pc EXCEPT ![t] = "wake"]
        /\ UNCHANGED poolVariables
    BY <1>13 DEF GiveState, GivePayload, Goto, endVars, poolVariables, Giving
  <2> QED
    BY <2>1, GiverMove DEF Giving
<1>14. ASSUME NEW t \in Thread, NextNode(t) PROVE PoolInv'
  <2>1. /\ pc[t] = "fire" /\ pc' = [pc EXCEPT ![t] = "head"]
        /\ UNCHANGED poolVariables
    BY <1>14 DEF NextNode, Goto, poolVars, endVars, poolVariables
  <2> QED
    BY <2>1, SearchMove
<1>15. ASSUME NEW t \in Thread, Resume(t) PROVE PoolInv'
  BY <1>15, SearchMove DEF Resume, Goto, poolVars, endVars, poolVariables
<1>16. ASSUME NEW t \in Thread, SetExit(t) \/ Terminate(t) PROVE PoolInv'
  <2>1. /\ \/ pc[t] = "exit" /\ pc' = [pc EXCEPT ![t] = "resume"]
           \/ pc[t] = "terminate" /\ pc' = [pc EXCEPT ![t] = "signal"]
           \/ pc[t] = "terminate" /\ pc' = [pc EXCEPT ![t] = "barrier"]
        /\ exit'
        /\ UNCHANGED <<idle, helper, idleSet, idleCount, running, terminating>>
    BY <1>16 DEF SetExit, Terminate, Goto, poolVars
  <2> QED
    BY <2>1, ExitMove
<1>17. ASSUME NEW t \in Thread, Arrive(t) \/ PassBarrier(t) \/ Return(t)
       PROVE  PoolInv'
  <2>1. CASE Arrive(t)
    BY <2>1, BarrierMove DEF Arrive, Goto
  <2>2. CASE PassBarrier(t)
    BY <2>2, BarrierMove DEF PassBarrier, Goto, poolVars, endVars
  <2>3. CASE Return(t)
    BY <2>3, BarrierMove DEF Return, Goto, poolVars
  <2> QED
    BY <1>17, <2>1, <2>2, <2>3
<1>18. CASE Join
  BY <1>1, <1>18 DEF Join, poolVars, poolVariables
<1>19. CASE Stop \/ UNCHANGED vars
  BY <1>1, <1>19 DEF Stop, vars, poolVars, endVars, poolVariables
<1> QED
  BY <1>2, <1>3, <1>4, <1>5, <1>6, <1>7, <1>9, <1>10, <1>11, <1>12, <1>13, <1>14,
     <1>15, <1>16, <1>17, <1>18, <1>19, InitialiseStep, StartFirstStep, CheckStep,
     RegisterStep, WakeStep, GoIdleStep, EnlistStep, SignalNextStep
     DEF Next, Step

(* The invariant of the pool of threads holds in every state, for any      *)
(* number of threads.                                                      *)
THEOREM Invariance == Spec => []PoolInv
<1>1. Init => PoolInv
  BY InitPoolInv
<1>2. PoolInv /\ [Next]_vars => PoolInv'
  BY NextPoolInv
<1> QED
  BY <1>1, <1>2, PTL DEF Spec

(* A helper is taken by one giver only, and sleeps until it is woken or    *)
(* the search is over (getHelper and goIdle, CoverGraph.cc 613-684).       *)
THEOREM HelpersAreTakenOnce == Spec => []HelperTakenOnce
<1>1. PoolInv => HelperTakenOnce
  BY DEF PoolInv, Pool
<1> QED
  BY <1>1, Invariance, PTL

(* Nobody leaves terminateThreadMutex, where the mutexes and conditions    *)
(* are given up, before all threads are there (CoverGraph.cc 1056-1118).   *)
THEOREM ThreadsLeaveTogether == Spec => []LeaveTogether
<1>1. PoolInv => LeaveTogether
  <2> SUFFICES ASSUME PoolInv, NEW t \in Thread, pc[t] \in {"leave", "done"}
               PROVE  \A u \in Thread : pc[u] \in Arrived
    BY DEF LeaveTogether, Arrived
  <2>1. terminating = 0
    BY DEF PoolInv, Barrier
  <2>2. Present = {}
    BY <2>1, SubsetFinite DEF PoolInv, Barrier, Present
  <2> QED
    BY <2>2 DEF Present
<1> QED
  BY <1>1, Invariance, PTL
-----------------------------------------------------------------------------
(* The lists.  A list is the least set with its root that is closed under  *)
(* next, so an induction along it is an argument about one closed set.     *)
NextKnown == \A k \in DOMAIN store : store[k].next \in DOMAIN store \cup {NoNode}

Rooted(t) == root[t] # NoNode => root[t] \in DOMAIN store

LEMMA ListClosed ==
  ASSUME NextKnown, NEW t \in Thread, Rooted(t)
  PROVE  /\ OnList(t) \subseteq DOMAIN store
         /\ root[t] = NoNode => OnList(t) = {}
         /\ root[t] # NoNode => root[t] \in OnList(t)
         /\ Closed(OnList(t))
<1>1. /\ OnList(t) \subseteq DOMAIN store
      /\ root[t] = NoNode => OnList(t) = {}
      /\ root[t] # NoNode => root[t] \in OnList(t)
  BY DEF OnList, Rooted
<1>2. ASSUME NEW k \in OnList(t), store[k].next # NoNode
      PROVE  store[k].next \in OnList(t)
  <2>1. root[t] # NoNode /\ k \in DOMAIN store
    BY <1>1, <1>2
  <2>2. store[k].next \in DOMAIN store
    BY <1>2, <2>1 DEF NextKnown
  <2>3. ASSUME NEW S \in SUBSET DOMAIN store, root[t] \in S, Closed(S)
        PROVE  store[k].next \in S
    <3>1. k \in S
      BY <1>2, <2>3 DEF OnList
    <3> QED BY <1>2, <2>3, <3>1 DEF Closed
  <2> QED BY <2>1, <2>2, <2>3 DEF OnList
<1> QED BY <1>1, <1>2 DEF Closed

(* A list whose nodes keep their successors stays what it is.              *)
LEMMA ListKept ==
  ASSUME NextKnown, NEW t \in Thread, Rooted(t),
         root'[t] = root[t], DOMAIN store \subseteq DOMAIN store',
         \A k \in OnList(t) : store'[k].next = store[k].next
  PROVE  OnList(t)' = OnList(t)
<1>1. CASE root[t] = NoNode
  BY <1>1 DEF OnList
<1>2. CASE root[t] # NoNode
  <2>1. OnList(t) \subseteq DOMAIN store /\ root[t] \in OnList(t) /\ Closed(OnList(t))
    BY <1>2, ListClosed
  <2>2. OnList(t)' \subseteq OnList(t)
    <3>1. OnList(t) \subseteq DOMAIN store'
      BY <2>1
    <3>2. \A k \in OnList(t) : store'[k].next # NoNode => store'[k].next \in OnList(t)
      BY <2>1 DEF Closed
    <3> DEFINE L == OnList(t)
    <3>3. L \subseteq DOMAIN store' /\ root'[t] \in L
          /\ \A k \in L : store'[k].next # NoNode => store'[k].next \in L
      BY <2>1, <3>1, <3>2
    <3> HIDE DEF L
    <3>4. OnList(t)' \subseteq L
      BY <3>3 DEF OnList, Closed
    <3> QED BY <3>4 DEF L
  <2>3. ASSUME NEW S \in SUBSET DOMAIN store', root'[t] \in S,
               \A k \in S : store'[k].next # NoNode => store'[k].next \in S
        PROVE  OnList(t) \subseteq S
    <3>1. Closed(S \cap OnList(t))
      BY <2>1, <2>3 DEF Closed
    <3>2. S \cap OnList(t) \in SUBSET DOMAIN store /\ root[t] \in S \cap OnList(t)
      BY <2>1, <2>3
    <3>3. OnList(t) \subseteq S \cap OnList(t)
      <4> DEFINE M == S \cap OnList(t)
      <4>1. M \in SUBSET DOMAIN store /\ root[t] \in M /\ Closed(M)
        BY <3>1, <3>2
      <4> HIDE DEF M
      <4>2. OnList(t) \subseteq M
        BY <4>1 DEF OnList
      <4> QED BY <4>2 DEF M
    <3> QED BY <3>3
  <2>4. OnList(t) \subseteq OnList(t)'
    <3> SUFFICES ASSUME NEW k \in OnList(t) PROVE k \in OnList(t)'
      OBVIOUS
    <3>1. k \in DOMAIN store'
      BY <2>1
    <3>2. \A S \in SUBSET DOMAIN store' :
             (/\ root'[t] \in S
              /\ \A n \in S : store'[n].next # NoNode => store'[n].next \in S) => k \in S
      BY <2>3
    <3> QED BY <1>2, <3>1, <3>2 DEF OnList, Closed
  <2> QED BY <2>2, <2>4
<1> QED BY <1>1, <1>2

(* A node without a successor becomes the last one of a list.              *)
LEMMA ListExtended ==
  ASSUME NextKnown, NEW t \in Thread, Rooted(t), root[t] # NoNode, NoNode \notin DOMAIN store,
         NEW last \in OnList(t), store[last].next = NoNode,
         NEW k \in DOMAIN store, k # last, store[k].next = NoNode,
         root'[t] = root[t], DOMAIN store' = DOMAIN store, store'[last].next = k,
         \A n \in DOMAIN store \ {last} : store'[n].next = store[n].next
  PROVE  OnList(t)' = OnList(t) \cup {k}
<1>1. OnList(t) \subseteq DOMAIN store /\ root[t] \in OnList(t) /\ Closed(OnList(t))
  BY ListClosed
<1>2. OnList(t)' \subseteq OnList(t) \cup {k}
  <2> DEFINE L == OnList(t) \cup {k}
  <2>1. \A n \in L : store'[n].next # NoNode => store'[n].next \in L
    BY <1>1 DEF Closed
  <2>2. L \in SUBSET DOMAIN store' /\ root'[t] \in L
    BY <1>1
  <2> HIDE DEF L
  <2>3. OnList(t)' \subseteq L
    BY <2>1, <2>2 DEF OnList, Closed
  <2> QED BY <2>3 DEF L
<1>3. ASSUME NEW S \in SUBSET DOMAIN store', root'[t] \in S,
             \A n \in S : store'[n].next # NoNode => store'[n].next \in S
      PROVE  OnList(t) \cup {k} \subseteq S
  <2>1. \A n \in S : store[n].next # NoNode => store[n].next \in S
    BY <1>3
  <2>2. OnList(t) \subseteq S
    BY <1>3, <2>1 DEF OnList, Closed
  <2>3. k \in S
    <3>1. last \in S /\ store'[last].next = k /\ k # NoNode
      BY <2>2
    <3> QED BY <1>3, <3>1
  <2> QED BY <2>2, <2>3
<1>4. OnList(t) \cup {k} \subseteq OnList(t)'
  <2> SUFFICES ASSUME NEW n \in OnList(t) \cup {k} PROVE n \in OnList(t)'
    OBVIOUS
  <2>1. n \in DOMAIN store'
    BY <1>1
  <2>2. \A S \in SUBSET DOMAIN store' :
           (/\ root'[t] \in S
            /\ \A m \in S : store'[m].next # NoNode => store'[m].next \in S) => n \in S
    BY <1>3
  <2> QED BY <2>1, <2>2 DEF OnList, Closed
<1> QED BY <1>2, <1>4

(* A list of one node.                                                     *)
LEMMA ListBegun ==
  ASSUME NEW t \in Thread, NEW k \in DOMAIN store', k # NoNode, root'[t] = k,
         store'[k].next = NoNode
  PROVE  OnList(t)' = {k}
<1>1. \A n \in {k} : store'[n].next # NoNode => store'[n].next \in {k}
  OBVIOUS
<1> QED BY <1>1 DEF OnList, Closed
-----------------------------------------------------------------------------
LEMMA ListFacts ==
  ASSUME ListInv, ~exit
  PROVE  /\ NextKnown /\ NoNode \notin DOMAIN store
         /\ DOMAIN root = Thread /\ DOMAIN unlinked = Thread
         /\ \A t \in Thread : Rooted(t)
         /\ \A t \in Thread : OnList(t) \subseteq DOMAIN store
         /\ \A t \in Thread : Held(t) \subseteq DOMAIN store
<1>1. /\ NextKnown /\ NoNode \notin DOMAIN store
      /\ DOMAIN root = Thread /\ DOMAIN unlinked = Thread
      /\ \A t \in Thread : Rooted(t)
  BY DEF ListInv, ListType, Linked, NextKnown, Rooted
<1>2. \A t \in Thread : OnList(t) \subseteq DOMAIN store
  BY DEF OnList
<1>3. \A t \in Thread : Held(t) \subseteq DOMAIN store
  BY DEF ListInv, NodesOnOneList
<1> QED BY <1>1, <1>2, <1>3

(* Nothing is linked; the nodes on their way to a list may go from hand to *)
(* hand.                                                                   *)
LEMMA ListsKept ==
  ASSUME ListInv, ~exit, DOMAIN store' = DOMAIN store,
         \A k \in DOMAIN store : store'[k].next = store[k].next,
         root' = root, unlinked' = unlinked,
         \A u \in Thread : \A k \in Held(u)' : \E w \in Thread : k \in Held(w),
         \A u \in Thread : \A k \in Held(u) : \E w \in Thread : k \in Held(w)',
         \A u, w \in Thread : u # w => Held(u)' \cap Held(w)' = {}
  PROVE  Linked' /\ NodesOnOneList'
<1>0. /\ NextKnown /\ \A t \in Thread : Rooted(t) /\ OnList(t) \subseteq DOMAIN store
      /\ \A t \in Thread : Held(t) \subseteq DOMAIN store
  BY ListFacts
<1>1. ASSUME NEW t \in Thread PROVE OnList(t)' = OnList(t)
  <2>1. \A k \in OnList(t) : store'[k].next = store[k].next
    BY <1>0
  <2> QED BY <1>0, <2>1, ListKept
<1>2. Linked'
  <2>1. \A k \in DOMAIN store' : store'[k].next \in DOMAIN store' \cup {NoNode}
    BY <1>0 DEF NextKnown
  <2>2. ASSUME NEW t \in Thread, root'[t] # NoNode
        PROVE  /\ root'[t] \in DOMAIN store' /\ unlinked'[t] \in OnList(t)'
               /\ store'[unlinked'[t]].next = NoNode
    <3>1. /\ root[t] \in DOMAIN store /\ unlinked[t] \in OnList(t)
          /\ store[unlinked[t]].next = NoNode
      BY <2>2 DEF ListInv, Linked
    <3>2. unlinked[t] \in DOMAIN store
      BY <1>0, <3>1
    <3> QED BY <1>1, <3>1, <3>2
  <2>3. ASSUME NEW t \in Thread, NEW k \in Held(t)' PROVE store'[k].next = NoNode
    <3>1. PICK w \in Thread : k \in Held(w)
      BY <2>3
    <3>2. store[k].next = NoNode /\ k \in DOMAIN store
      BY <1>0, <3>1 DEF ListInv, Linked
    <3> QED BY <3>2
  <2> QED BY <2>1, <2>2, <2>3 DEF Linked
<1>3. NodesOnOneList'
  <2>1. /\ \A t, u \in Thread : OnList(t) \cap Held(u) = {}
        /\ \A t, u \in Thread : t # u => OnList(t) \cap OnList(u) = {}
        /\ \A k \in DOMAIN store : \E t \in Thread : k \in OnList(t) \/ k \in Held(t)
    BY DEF ListInv, NodesOnOneList
  <2>2. \A t, u \in Thread : OnList(t)' \cap Held(u)' = {}
    BY <1>1, <2>1
  <2>3. \A t, u \in Thread : t # u => OnList(t)' \cap OnList(u)' = {}
    BY <1>1, <2>1
  <2>4. \A k \in DOMAIN store' : \E t \in Thread : k \in OnList(t)' \/ k \in Held(t)'
    BY <1>1, <2>1
  <2>5. \A t \in Thread : OnList(t)' \subseteq DOMAIN store' /\ Held(t)' \subseteq DOMAIN store'
    BY <1>0, <1>1
  <2>6. DOMAIN store' = UNION {OnList(t)' \cup Held(t)' : t \in Thread}
    BY <2>4, <2>5
  <2> QED BY <2>2, <2>3, <2>6 DEF NodesOnOneList
<1> QED BY <1>2, <1>3

(* A thread has created a node.                                            *)
LEMMA NodeCreated ==
  ASSUME ListInv, ~exit, NEW t \in Thread, NEW k, k \notin DOMAIN store,
         DOMAIN store' = DOMAIN store \cup {k}, store'[k].next = NoNode,
         \A n \in DOMAIN store : store'[n].next = store[n].next,
         root' = root, unlinked' = unlinked,
         Held(t) = {}, Held(t)' = {k},
         \A u \in Thread \ {t} : Held(u)' = Held(u)
  PROVE  Linked' /\ NodesOnOneList'
<1>0. /\ NextKnown /\ \A u \in Thread : Rooted(u) /\ OnList(u) \subseteq DOMAIN store
      /\ \A u \in Thread : Held(u) \subseteq DOMAIN store
  BY ListFacts
<1>1. ASSUME NEW u \in Thread PROVE OnList(u)' = OnList(u)
  <2>1. \A n \in OnList(u) : store'[n].next = store[n].next
    BY <1>0
  <2> QED BY <1>0, <2>1, ListKept
<1>2. Linked'
  <2>1. \A n \in DOMAIN store' : store'[n].next \in DOMAIN store' \cup {NoNode}
    BY <1>0 DEF NextKnown
  <2>2. ASSUME NEW u \in Thread, root'[u] # NoNode
        PROVE  /\ root'[u] \in DOMAIN store' /\ unlinked'[u] \in OnList(u)'
               /\ store'[unlinked'[u]].next = NoNode
    <3>1. /\ root[u] \in DOMAIN store /\ unlinked[u] \in OnList(u)
          /\ store[unlinked[u]].next = NoNode
      BY <2>2 DEF ListInv, Linked
    <3>2. unlinked[u] \in DOMAIN store
      BY <1>0, <3>1
    <3> QED BY <1>1, <3>1, <3>2
  <2>3. ASSUME NEW u \in Thread, NEW n \in Held(u)' PROVE store'[n].next = NoNode
    <3>1. CASE u = t
      BY <2>3, <3>1
    <3>2. CASE u # t
      <4>1. n \in Held(u) /\ n \in DOMAIN store
        BY <1>0, <2>3, <3>2
      <4>2. store[n].next = NoNode
        BY <4>1 DEF ListInv, Linked
      <4> QED BY <4>1, <4>2
    <3> QED BY <3>1, <3>2
  <2> QED BY <2>1, <2>2, <2>3 DEF Linked
<1>3. NodesOnOneList'
  <2>1. /\ \A u, w \in Thread : OnList(u) \cap Held(w) = {}
        /\ \A u, w \in Thread : u # w => OnList(u) \cap OnList(w) = {}
        /\ \A u, w \in Thread : u # w => Held(u) \cap Held(w) = {}
        /\ \A n \in DOMAIN store : \E u \in Thread : n \in OnList(u) \/ n \in Held(u)
    BY DEF ListInv, NodesOnOneList
  <2>2. \A u, w \in Thread : OnList(u)' \cap Held(w)' = {}
    BY <1>0, <1>1, <2>1
  <2>3. \A u, w \in Thread : u # w => OnList(u)' \cap OnList(w)' = {}
    BY <1>1, <2>1
  <2>4. \A u, w \in Thread : u # w => Held(u)' \cap Held(w)' = {}
    BY <1>0, <2>1
  <2>5. \A n \in DOMAIN store' : \E u \in Thread : n \in OnList(u)' \/ n \in Held(u)'
    BY <1>1, <2>1
  <2>6. \A u \in Thread : OnList(u)' \subseteq DOMAIN store' /\ Held(u)' \subseteq DOMAIN store'
    BY <1>0, <1>1
  <2>7. DOMAIN store' = UNION {OnList(u)' \cup Held(u)' : u \in Thread}
    BY <2>5, <2>6
  <2> QED BY <2>2, <2>3, <2>4, <2>7 DEF NodesOnOneList
<1> QED BY <1>2, <1>3

(* A thread links the node it holds.                                       *)
LEMMA NodeLinked ==
  ASSUME ListInv, ~exit, NEW t \in Thread, NEW k, root[t] # NoNode,
         DOMAIN store' = DOMAIN store, store'[unlinked[t]].next = k,
         \A n \in DOMAIN store \ {unlinked[t]} : store'[n].next = store[n].next,
         root' = root, unlinked' = [unlinked EXCEPT ![t] = k],
         Held(t) = {k}, Held(t)' = {},
         \A u \in Thread \ {t} : Held(u)' = Held(u)
  PROVE  Linked' /\ NodesOnOneList'
<1>0. /\ NextKnown /\ \A u \in Thread : Rooted(u) /\ OnList(u) \subseteq DOMAIN store
      /\ \A u \in Thread : Held(u) \subseteq DOMAIN store
      /\ NoNode \notin DOMAIN store /\ DOMAIN unlinked = Thread
  BY ListFacts
<1>l. /\ \A u, w \in Thread : OnList(u) \cap Held(w) = {}
      /\ \A u, w \in Thread : u # w => OnList(u) \cap OnList(w) = {}
      /\ \A u, w \in Thread : u # w => Held(u) \cap Held(w) = {}
      /\ \A n \in DOMAIN store : \E u \in Thread : n \in OnList(u) \/ n \in Held(u)
  BY DEF ListInv, NodesOnOneList
<1>k. /\ k \in DOMAIN store /\ store[k].next = NoNode /\ unlinked[t] \in OnList(t)
      /\ store[unlinked[t]].next = NoNode /\ k # unlinked[t]
      /\ \A u \in Thread \ {t} : unlinked[t] \notin OnList(u)
  <2>1. k \in Held(t)
    OBVIOUS
  <2> QED BY <1>0, <1>l, <2>1 DEF ListInv, Linked
<1>1. OnList(t)' = OnList(t) \cup {k}
  <2> DEFINE last == unlinked[t]
  <2>1. /\ last \in OnList(t) /\ store[last].next = NoNode /\ k # last
        /\ store'[last].next = k
        /\ \A n \in DOMAIN store \ {last} : store'[n].next = store[n].next
    BY <1>k
  <2> HIDE DEF last
  <2> QED BY <1>0, <1>k, <2>1, ListExtended
<1>2. ASSUME NEW u \in Thread \ {t} PROVE OnList(u)' = OnList(u)
  <2>1. \A n \in OnList(u) : store'[n].next = store[n].next
    BY <1>0, <1>k
  <2> QED BY <1>0, <2>1, ListKept
<1>3. Linked'
  <2>1. \A n \in DOMAIN store' : store'[n].next \in DOMAIN store' \cup {NoNode}
    BY <1>0, <1>k DEF NextKnown
  <2>2. ASSUME NEW u \in Thread, root'[u] # NoNode
        PROVE  /\ root'[u] \in DOMAIN store' /\ unlinked'[u] \in OnList(u)'
               /\ store'[unlinked'[u]].next = NoNode
    <3>1. /\ root[u] \in DOMAIN store /\ unlinked[u] \in OnList(u)
          /\ store[unlinked[u]].next = NoNode
      BY <2>2 DEF ListInv, Linked
    <3>2. CASE u = t
      <4>1. unlinked'[u] = k
        BY <1>0, <3>2
      <4>2. store'[k].next = NoNode
        BY <1>k
      <4> QED BY <1>1, <3>1, <3>2, <4>1, <4>2
    <3>3. CASE u # t
      <4>1. unlinked'[u] = unlinked[u] /\ unlinked[u] \in DOMAIN store
        BY <1>0, <3>1, <3>3
      <4>2. unlinked[u] # unlinked[t]
        BY <1>k, <3>1, <3>3
      <4>3. store'[unlinked[u]].next = NoNode
        BY <3>1, <4>1, <4>2
      <4> QED BY <1>2, <3>1, <3>3, <4>1, <4>3
    <3> QED BY <3>2, <3>3
  <2>3. ASSUME NEW u \in Thread, NEW n \in Held(u)' PROVE store'[n].next = NoNode
    <3>1. u # t /\ n \in Held(u)
      BY <2>3
    <3>2. n \in DOMAIN store /\ store[n].next = NoNode /\ n # unlinked[t]
      BY <1>0, <1>l, <1>k, <3>1 DEF ListInv, Linked
    <3> QED BY <3>2
  <2> QED BY <2>1, <2>2, <2>3 DEF Linked
<1>4. NodesOnOneList'
  <2>2. \A u, w \in Thread : OnList(u)' \cap Held(w)' = {}
    BY <1>1, <1>2, <1>l
  <2>3. \A u, w \in Thread : u # w => OnList(u)' \cap OnList(w)' = {}
    BY <1>1, <1>2, <1>l
  <2>4. \A u, w \in Thread : u # w => Held(u)' \cap Held(w)' = {}
    BY <1>l
  <2>5. \A n \in DOMAIN store' : \E u \in Thread : n \in OnList(u)' \/ n \in Held(u)'
    BY <1>1, <1>2, <1>l
  <2>6. \A u \in Thread : OnList(u)' \subseteq DOMAIN store' /\ Held(u)' \subseteq DOMAIN store'
    BY <1>0, <1>1, <1>2, <1>k
  <2>7. DOMAIN store' = UNION {OnList(u)' \cup Held(u)' : u \in Thread}
    BY <2>5, <2>6
  <2> QED BY <2>2, <2>3, <2>4, <2>7 DEF NodesOnOneList
<1> QED BY <1>3, <1>4

(* A thread begins its list, with the first node of all or with one it has *)
(* been given.                                                             *)
LEMMA ListStarted ==
  ASSUME ListInv, ~exit, NEW t \in Thread, NEW k, k # NoNode, root[t] = NoNode,
         DOMAIN store' = DOMAIN store \cup {k}, store'[k].next = NoNode,
         \A n \in DOMAIN store : store'[n].next = store[n].next,
         root' = [root EXCEPT ![t] = k], unlinked' = [unlinked EXCEPT ![t] = k],
         Held(t) = {k} \cap DOMAIN store, Held(t)' = {},
         \A u \in Thread \ {t} : Held(u)' = Held(u)
  PROVE  Linked' /\ NodesOnOneList'
<1>0. /\ NextKnown /\ \A u \in Thread : Rooted(u) /\ OnList(u) \subseteq DOMAIN store
      /\ \A u \in Thread : Held(u) \subseteq DOMAIN store
      /\ DOMAIN unlinked = Thread /\ DOMAIN root = Thread
  BY ListFacts
<1>l. /\ \A u, w \in Thread : OnList(u) \cap Held(w) = {}
      /\ \A u, w \in Thread : u # w => OnList(u) \cap OnList(w) = {}
      /\ \A u, w \in Thread : u # w => Held(u) \cap Held(w) = {}
      /\ \A n \in DOMAIN store : \E u \in Thread : n \in OnList(u) \/ n \in Held(u)
  BY DEF ListInv, NodesOnOneList
<1>k. /\ root'[t] = k /\ unlinked'[t] = k
      /\ \A u \in Thread \ {t} : root'[u] = root[u] /\ unlinked'[u] = unlinked[u]
  BY <1>0
<1>1. OnList(t)' = {k} /\ OnList(t) = {}
  <2>1. k \in DOMAIN store'
    OBVIOUS
  <2>2. OnList(t)' = {k}
    BY <1>k, <2>1, ListBegun
  <2> QED BY <2>2 DEF OnList
<1>2. ASSUME NEW u \in Thread \ {t} PROVE OnList(u)' = OnList(u)
  <2>1. \A n \in OnList(u) : store'[n].next = store[n].next
    BY <1>0
  <2> QED BY <1>0, <1>k, <2>1, ListKept
<1>o. \A u \in Thread \ {t} : k \notin OnList(u) /\ k \notin Held(u)
  BY <1>0, <1>l
<1>3. Linked'
  <2>1. \A n \in DOMAIN store' : store'[n].next \in DOMAIN store' \cup {NoNode}
    BY <1>0 DEF NextKnown
  <2>2. ASSUME NEW u \in Thread, root'[u] # NoNode
        PROVE  /\ root'[u] \in DOMAIN store' /\ unlinked'[u] \in OnList(u)'
               /\ store'[unlinked'[u]].next = NoNode
    <3>1. CASE u = t
      BY <1>1, <1>k, <3>1
    <3>2. CASE u # t
      <4>1. /\ root[u] \in DOMAIN store /\ unlinked[u] \in OnList(u)
            /\ store[unlinked[u]].next = NoNode
        BY <1>k, <2>2, <3>2 DEF ListInv, Linked
      <4>2. unlinked[u] \in DOMAIN store
        BY <1>0, <4>1
      <4> QED BY <1>2, <1>k, <3>2, <4>1, <4>2
    <3> QED BY <3>1, <3>2
  <2>3. ASSUME NEW u \in Thread, NEW n \in Held(u)' PROVE store'[n].next = NoNode
    <3>1. u # t /\ n \in Held(u)
      BY <2>3
    <3>2. n \in DOMAIN store /\ store[n].next = NoNode
      BY <1>0, <3>1 DEF ListInv, Linked
    <3> QED BY <3>2
  <2> QED BY <2>1, <2>2, <2>3 DEF Linked
<1>4. NodesOnOneList'
  <2>2. \A u, w \in Thread : OnList(u)' \cap Held(w)' = {}
    BY <1>1, <1>2, <1>o, <1>l
  <2>3. \A u, w \in Thread : u # w => OnList(u)' \cap OnList(w)' = {}
    BY <1>1, <1>2, <1>o, <1>l
  <2>4. \A u, w \in Thread : u # w => Held(u)' \cap Held(w)' = {}
    BY <1>l
  <2>5. \A n \in DOMAIN store' : \E u \in Thread : n \in OnList(u)' \/ n \in Held(u)'
    BY <1>1, <1>2, <1>l
  <2>6. \A u \in Thread : OnList(u)' \subseteq DOMAIN store' /\ Held(u)' \subseteq DOMAIN store'
    BY <1>0, <1>1, <1>2
  <2>7. DOMAIN store' = UNION {OnList(u)' \cup Held(u)' : u \in Thread}
    BY <2>5, <2>6
  <2> QED BY <2>2, <2>3, <2>4, <2>7 DEF NodesOnOneList
<1> QED BY <1>3, <1>4
-----------------------------------------------------------------------------
listVars == <<store, root, unlinked, ipay, info>>

LEMMA InitialLists == Init => ListInv
<1> SUFFICES ASSUME Init PROVE ListInv
  OBVIOUS
<1>1. DOMAIN store = {}
  BY DEF Init
<1>2. ListType
  BY <1>1 DEF Init, ListType
<1>3. BeforeRoot
  <2>1. info[0].ns = Beginning
    BY ThreadFinite DEF Init
  <2>2. Beginning.Current = InitialMarking
    BY DEF Beginning, InitialNetState, CheckEnabled
  <2>3. \A t \in Thread : pc[t] \in Starting /\ idle[t]
    BY DEF Init, Starting
  <2> QED BY <1>1, <2>1, <2>2, <2>3 DEF Init, BeforeRoot
<1>4. \A t \in Thread : OnList(t) = {} /\ Held(t) = {} /\ root[t] = NoNode /\ pc[t] = "init"
  <2>1. \A t \in Thread : root[t] = NoNode /\ pc[t] = "init"
    BY DEF Init
  <2> QED BY <1>1, <2>1 DEF OnList, Held, Given, WithNewNode, Giving
<1>5. Linked /\ NodesOnOneList
  <2>1. NodesOnOneList
    BY <1>1, <1>4 DEF NodesOnOneList
  <2> QED BY <1>1, <1>4, <2>1 DEF Linked
<1>6. Delivery
  BY <1>4 DEF Delivery, Delivered, Starting, Searching, Giving, Given
<1> QED BY <1>2, <1>3, <1>5, <1>6 DEF ListInv

(* What a step owes when it touches no list.                               *)
LEMMA NoListTouched ==
  ASSUME ListInv, UNCHANGED listVars, BeforeRoot',
         exit' \/ (~exit /\ Delivery' /\ \A u \in Thread : Held(u)' = Held(u))
  PROVE  ListInv'
<1>1. ListType'
  BY DEF ListInv, ListType, listVars
<1>2. Linked' /\ NodesOnOneList'
  <2>1. CASE exit'
    BY <2>1 DEF Linked, NodesOnOneList
  <2>2. CASE ~exit'
    <3>1. \A u, w \in Thread : u # w => Held(u) \cap Held(w) = {}
      BY <2>2 DEF ListInv, NodesOnOneList
    <3>2. /\ ~exit /\ \A u \in Thread : Held(u)' = Held(u)
          /\ store' = store /\ root' = root /\ unlinked' = unlinked
      BY <2>2 DEF listVars
    <3>3. /\ \A u \in Thread : \A k \in Held(u)' : \E w \in Thread : k \in Held(w)
          /\ \A u \in Thread : \A k \in Held(u) : \E w \in Thread : k \in Held(w)'
          /\ \A u, w \in Thread : u # w => Held(u)' \cap Held(w)' = {}
      BY <3>1, <3>2
    <3> QED BY <3>2, <3>3, ListsKept
  <2> QED BY <2>1, <2>2
<1>3. Delivery'
  BY DEF Delivery
<1> QED BY <1>1, <1>2, <1>3 DEF ListInv

(* Thread 0 is past the start when any thread is.                          *)
LEMMA Begun ==
  ASSUME BeforeRoot, NEW t \in Thread,
         pc[t] \notin Starting \cup {"register", "insertRoot"}
  PROVE  ~Unbegun
  BY DEF BeforeRoot, Unbegun

LEMMA StaysBegun ==
  ASSUME ~Unbegun, NEW t \in Thread,
         pc'[t] \notin Starting \cup {"register", "insertRoot"} \/ t # 0,
         \A u \in Thread \ {t} : pc'[u] = pc[u]
            \/ (pc[u] \in Starting /\ pc'[u] \in Starting)
            \/ pc'[u] \notin Starting \cup {"register", "insertRoot"}
  PROVE  BeforeRoot'
<1>1. 0 \in Thread
  BY ThreadFinite
<1> QED BY <1>1 DEF BeforeRoot, Unbegun

(* A thread goes from one label of the search to another.                  *)
LEMMA SearchLabel ==
  ASSUME PoolInv, ListInv, NEW t \in Thread, NEW l, UNCHANGED <<listVars, idle, exit>>,
         pc[t] \in {"head", "fire", "readIdle", "takeHelper", "enlist"},
         l \in {"head", "fire", "link", "takeHelper", "giveState", "terminate", "check",
                "exit"},
         pc[t] \in WithNewNode <=> l \in WithNewNode,
         l = "check" => pc[t] = "enlist",
         pc' = [pc EXCEPT ![t] = l],
         \A u \in Thread \ {t} : helper'[u] = helper[u]
  PROVE  ListInv'
<1>1. /\ pc'[t] = l /\ \A u \in Thread \ {t} : pc'[u] = pc[u]
      /\ UNCHANGED <<store, root, unlinked, ipay, info>>
  BY DEF PoolInv, PoolType, listVars
<1>2. BeforeRoot'
  <2>1. ~Unbegun
    BY Begun DEF ListInv, Starting
  <2> QED BY <1>1, <2>1, StaysBegun DEF Starting
<1>3. l = "check" => idle[t]
  BY DEF PoolInv, Pool, OnTheWay
<1>4. ASSUME NEW u \in Thread PROVE Held(u)' = Held(u) /\ Given(u)' = Given(u)
  <2>1. CASE u = t
    BY <1>1, <1>3, <2>1 DEF Held, Given, WithNewNode, Giving
  <2>2. CASE u # t
    BY <1>1, <2>2 DEF Held, Given
  <2> QED BY <2>1, <2>2
<1>5. Delivery'
  <2> SUFFICES ASSUME ~exit', NEW u \in Thread PROVE Delivered(u)'
    BY DEF Delivery
  <2>1. CASE u = t
    BY <1>1, <1>4, <2>1 DEF ListInv, Delivery, Delivered, Starting, Searching, Giving
  <2>2. CASE u # t
    BY <1>1, <1>4, <2>2 DEF ListInv, Delivery, Delivered
  <2> QED BY <2>1, <2>2
<1> QED
  <2>1. exit' \/ ~exit
    OBVIOUS
  <2> QED BY <1>2, <1>4, <1>5, <2>1, NoListTouched

(* When the search is over the lists do not matter.                        *)
LEMMA ListsOver ==
  ASSUME ListInv, UNCHANGED listVars, exit', BeforeRoot'
  PROVE  ListInv'
<1>1. Delivery'
  BY DEF Delivery
<1> QED BY NoListTouched
-----------------------------------------------------------------------------
(* The labels of the start: no thread holds a node but one that is told to *)
(* begin with the node it has been given.                                  *)
LEMMA StartLabel ==
  ASSUME PoolInv, ListInv, NEW t \in Thread, UNCHANGED <<listVars, exit>>,
         pc[t] \in Starting \cup {"register", "check", "asleep"},
         pc'[t] \in Starting \cup {"register", "insertRoot", "begin", "check", "asleep", "resume"},
         pc[t] \in Starting \cup {"register"} <=>
           pc'[t] \in Starting \cup {"register", "insertRoot", "begin"},
         \A u \in Thread \ {t} : \/ pc'[u] = pc[u]
                                 \/ u = 0 /\ pc[u] \in Starting /\ pc'[u] \in Starting,
         \A u \in Thread \ {0} : (idle'[u] <=> idle[u]) /\ helper'[u] = helper[u],
         helper'[0] = helper[0],
         pc[0] \in Starting \cup {"register"} \/ (idle'[0] <=> idle[0]),
         Held(t) = Held(t)', Given(t)' => Given(t),
         BeforeRoot'
  PROVE  ListInv'
<1>1. UNCHANGED <<store, root, unlinked, ipay, info>>
  BY DEF listVars
<1>0. 0 \in Thread
  BY ThreadFinite
<1>2. ASSUME NEW u \in Thread \ {t} PROVE Held(u)' = Held(u) /\ (Given(u)' <=> Given(u))
  <2>1. CASE pc'[u] = pc[u] /\ (idle'[u] <=> idle[u])
    BY <1>1, <2>1 DEF Held, Given
  <2>2. CASE ~(pc'[u] = pc[u] /\ (idle'[u] <=> idle[u]))
    <3>1. u = 0 /\ pc[u] \in Starting \cup {"register"} /\ pc'[u] \in Starting \cup {"register"}
      BY <2>2
    <3>2. ~Given(u) /\ ~Given(u)'
      BY <3>1 DEF Given, Starting
    <3> QED BY <3>1, <3>2 DEF Held, WithNewNode, Giving, Starting
  <2> QED BY <2>1, <2>2
<1>3. Delivery'
  <2> SUFFICES ASSUME ~exit', NEW u \in Thread PROVE Delivered(u)'
    BY DEF Delivery
  <2>0. ~exit
    OBVIOUS
  <2>1. CASE u = t
    BY <1>1, <2>0, <2>1 DEF ListInv, Delivery, Delivered, Starting, Searching, Giving
  <2>2. CASE u # t /\ pc'[u] = pc[u]
    <3>1. helper'[u] = helper[u] /\ (Given(u)' <=> Given(u))
      BY <1>2, <2>2
    <3> QED BY <1>1, <2>0, <2>2, <3>1 DEF ListInv, Delivery, Delivered
  <2>3. CASE u # t /\ pc'[u] # pc[u]
    <3>1. pc[u] \in Starting /\ pc'[u] \in Starting /\ (Given(u)' <=> Given(u))
      BY <1>2, <2>3
    <3> QED BY <1>1, <2>0, <3>1 DEF ListInv, Delivery, Delivered, Starting, Searching, Giving
  <2> QED BY <2>1, <2>2, <2>3
<1>4. \A u \in Thread : Held(u)' = Held(u)
  BY <1>2
<1> QED
  <2>1. exit' \/ ~exit
    OBVIOUS
  <2> QED BY <1>3, <1>4, <2>1, NoListTouched

LEMMA ListsInitialise ==
  ASSUME PoolInv, ListInv, NEW t \in Thread, Initialise(t)
  PROVE  ListInv'
<1>1. /\ pc[t] = "init" /\ UNCHANGED <<listVars, idle, exit, helper>>
      /\ pc'[t] \in {"startFirst", "initCheck"}
      /\ \A u \in Thread \ {t} : pc'[u] = pc[u]
  BY DEF Initialise, Goto, PoolInv, PoolType, listVars, endVars, searchVars
<1>2. Unbegun /\ idle[t]
  <2>1. t \in Coming
    BY <1>1 DEF Coming
  <2>2. running # 0
    BY <2>1, SubsetFinite DEF PoolInv, Startup, Coming
  <2>3. running > 0
    BY <2>2 DEF PoolInv, PoolType
  <2>4. pc[0] \in Starting /\ idle[0]
    BY <2>3 DEF PoolInv, Startup, Starting
  <2> QED BY <2>4 DEF PoolInv, Startup, Unbegun
<1>3. BeforeRoot'
  BY <1>1, <1>2 DEF ListInv, BeforeRoot, Starting, listVars
<1>4. Held(t) = Held(t)' /\ ~Given(t)'
  BY <1>1, <1>2 DEF Held, Given, WithNewNode, Giving
<1>5. /\ pc[t] \in Starting \cup {"register"}
      /\ pc'[t] \in Starting \cup {"register", "insertRoot", "begin"}
  BY <1>1 DEF Starting
<1>6. \A u \in Thread : (idle'[u] <=> idle[u]) /\ helper'[u] = helper[u]
  BY <1>1
<1> QED BY <1>1, <1>3, <1>4, <1>5, <1>6, ThreadFinite, StartLabel

LEMMA ListsStartFirst ==
  ASSUME PoolInv, ListInv, NEW t \in Thread, StartFirst(t)
  PROVE  ListInv'
<1> DEFINE label == [pc EXCEPT ![t] = "initCheck"]
<1>0. 0 \in Thread /\ pc[t] = "startFirst" /\ idle' = [idle EXCEPT ![0] = FALSE]
      /\ pc' = Signalled(0, label) /\ UNCHANGED <<listVars, exit, helper>>
  BY ThreadFinite DEF StartFirst, listVars, endVars, searchVars
<1>1. label \in [Thread -> Stage] /\ label[t] = "initCheck"
      /\ \A u \in Thread \ {t} : label[u] = pc[u]
  BY DEF PoolInv, PoolType, Stage
<1>2. \A u \in Thread : u # 0 => pc'[u] = label[u]
  <2> HIDE DEF label
  <2> QED BY <1>0, <1>1 DEF Signalled
<1> HIDE DEF label
<1>3. \A u \in Thread :
         \/ pc'[u] = label[u]
         \/ label[u] = "initAsleep" /\ pc'[u] = "initCheck"
         \/ label[u] = "asleep" /\ pc'[u] = "check"
  <2>1. label \in [Thread -> Stage] /\ pc' = Signalled(0, label)
    BY <1>0, <1>1
  <2> QED BY <2>1, SignalledLabels, Zenon
<1>4. pc[0] \in Starting /\ Unbegun
  BY <1>0 DEF PoolInv, Startup, Unbegun
<1>5. pc'[t] = "initCheck" /\ pc'[0] \in Starting
  BY <1>0, <1>1, <1>3, <1>4 DEF Starting
<1>6. \A u \in Thread \ {t} : \/ pc'[u] = pc[u]
                              \/ u = 0 /\ pc[u] \in Starting /\ pc'[u] \in Starting
  BY <1>1, <1>2, <1>4, <1>5
<1>7. \A u \in Thread \ {0} : (idle'[u] <=> idle[u]) /\ idle[u]
  BY <1>0, <1>4 DEF PoolInv, PoolType, ListInv, BeforeRoot
<1>8. BeforeRoot'
  <2>1. \A u \in Thread \ {0} : pc'[u] \in Starting /\ idle'[u]
    BY <1>0, <1>4, <1>5, <1>6, <1>7 DEF ListInv, BeforeRoot, Starting
  <2>2. ~exit' /\ DOMAIN store' = {} /\ info'[0].ns.Current = InitialMarking
    BY <1>0, <1>4 DEF ListInv, BeforeRoot, listVars
  <2> QED BY <2>1, <2>2 DEF BeforeRoot
<1>9. Held(t) = Held(t)' /\ ~Given(t)'
  <2>1. ~Given(t) /\ ~Given(t)'
    BY <1>0, <1>5, <1>7 DEF Given
  <2> QED BY <1>0, <1>5, <2>1 DEF Held, WithNewNode, Giving
<1>10. /\ pc[t] \in Starting \cup {"register"}
       /\ pc'[t] \in Starting \cup {"register", "insertRoot", "begin"}
  BY <1>0, <1>5 DEF Starting
<1> QED BY <1>0, <1>4, <1>6, <1>7, <1>8, <1>9, <1>10, StartLabel

LEMMA ListsCheck ==
  ASSUME PoolInv, ListInv, NEW t \in Thread, Check(t)
  PROVE  ListInv'
<1>1. /\ pc[t] \in {"initCheck", "check"} /\ UNCHANGED <<listVars, idle, exit, helper>>
      /\ \/ /\ idle[t] /\ ~exit
            /\ pc'[t] = IF pc[t] = "check" THEN "asleep" ELSE "initAsleep"
         \/ /\ ~idle[t] \/ exit
            /\ pc'[t] = IF pc[t] = "check" THEN "resume"
                        ELSE IF t = 0 THEN "register" ELSE "begin"
      /\ \A u \in Thread \ {t} : pc'[u] = pc[u]
  BY DEF Check, Goto, PoolInv, PoolType, listVars, poolVars, endVars, searchVars
<1>2. BeforeRoot'
  <2>1. CASE Unbegun
    <3>1. ~exit /\ (t # 0 => idle[t] /\ pc[t] \in Starting)
      BY <2>1 DEF ListInv, BeforeRoot
    <3>2. t # 0 => pc'[t] = "initAsleep"
      BY <1>1, <3>1 DEF Starting
    <3> QED BY <1>1, <2>1, <3>2 DEF ListInv, BeforeRoot, listVars, Starting
  <2>2. CASE ~Unbegun
    <3>1. t = 0 => pc'[t] = "asleep" \/ pc'[t] = "resume"
      BY <1>1, <2>2 DEF Unbegun, Starting
    <3> QED BY <1>1, <2>2, <3>1, StaysBegun DEF Starting
  <2> QED BY <2>1, <2>2
<1>3. CASE exit
  BY <1>1, <1>2, <1>3, ListsOver
<1>4. CASE ~exit
  <2>1. Given(t)' <=> Given(t)
    BY <1>1, <1>4 DEF Given
  <2>2. Held(t) = Held(t)'
    BY <1>1, <2>1 DEF Held, WithNewNode, Giving, listVars
  <2>3. /\ pc[t] \in Starting \cup {"register", "check", "asleep"}
        /\ pc'[t] \in Starting \cup {"register", "insertRoot", "begin", "check", "asleep", "resume"}
        /\ (pc[t] \in Starting \cup {"register"} <=>
              pc'[t] \in Starting \cup {"register", "insertRoot", "begin"})
    BY <1>1 DEF Starting
  <2>4. \A u \in Thread : (idle'[u] <=> idle[u]) /\ helper'[u] = helper[u]
    BY <1>1
  <2> QED BY <1>1, <1>2, <2>1, <2>2, <2>3, <2>4, ThreadFinite, StartLabel
<1> QED BY <1>3, <1>4

LEMMA ListsRegister ==
  ASSUME PoolInv, ListInv, NEW t \in Thread, Register(t)
  PROVE  ListInv'
<1>1. /\ pc[t] = "register" /\ pc'[t] = "insertRoot" /\ t = 0
      /\ UNCHANGED <<listVars, idle, exit, helper>>
      /\ \A u \in Thread \ {t} : pc'[u] = pc[u]
  BY DEF Register, Goto, PoolInv, PoolType, Startup, listVars, endVars, searchVars
<1>2. BeforeRoot'
  BY <1>1 DEF ListInv, BeforeRoot, Unbegun, listVars
<1>3. Held(t) = Held(t)' /\ ~Given(t)'
  BY <1>1 DEF Held, Given, WithNewNode, Giving
<1>4. /\ pc[t] \in Starting \cup {"register"}
      /\ pc'[t] \in Starting \cup {"register", "insertRoot", "begin"}
  BY <1>1
<1>5. \A u \in Thread : (idle'[u] <=> idle[u]) /\ helper'[u] = helper[u]
  BY <1>1
<1> QED BY <1>1, <1>2, <1>3, <1>4, <1>5, ThreadFinite, StartLabel

(* The way out: the flag exit is set, or has been.                         *)
LEMMA ListsExit ==
  ASSUME PoolInv, ListInv, NEW t \in Thread,
         SetExit(t) \/ Terminate(t) \/ SignalNext(t) \/ Arrive(t) \/ PassBarrier(t) \/ Return(t)
  PROVE  ListInv'
<1>1. pc[t] \in {"exit", "terminate", "signal"} \cup {"barrier", "barrierWait", "leave"}
  BY DEF SetExit, Terminate, SignalNext, Arrive, PassBarrier, Return
<1>2. exit' /\ UNCHANGED listVars
  <2>1. pc[t] \in Arrived \cup {"signal", "barrier"} => exit
    BY DEF PoolInv, Barrier
  <2> QED
    BY <2>1 DEF SetExit, Terminate, SignalNext, Arrive, PassBarrier, Return, listVars,
                poolVars, endVars, searchVars, Arrived
<1>3. ~Unbegun
  BY <1>1, Begun DEF ListInv, Starting
<1>4. BeforeRoot'
  <2>1. CASE SignalNext(t)
    <3> DEFINE label == [pc EXCEPT ![t] = IF signalled[t] + 1 = NumThreads
                                          THEN "barrier" ELSE "signal"]
    <3>1. label \in [Thread -> Stage] /\ label[t] \in {"signal", "barrier"}
          /\ \A u \in Thread \ {t} : label[u] = pc[u]
      BY DEF PoolInv, PoolType, Stage
    <3>2. pc' = Signalled(signalled[t], label)
      BY <2>1 DEF SignalNext
    <3> HIDE DEF label
    <3>3. \A u \in Thread :
             \/ pc'[u] = label[u]
             \/ label[u] = "initAsleep" /\ pc'[u] = "initCheck"
             \/ label[u] = "asleep" /\ pc'[u] = "check"
      <4>1. label \in [Thread -> Stage]
        BY <3>1
      <4> QED BY <3>2, <4>1, SignalledLabels, Zenon
    <3>4. pc'[t] \in {"signal", "barrier"}
      BY <3>1, <3>3
    <3>5. \A u \in Thread \ {t} : pc'[u] = pc[u]
             \/ (pc[u] \in Starting /\ pc'[u] \in Starting)
             \/ pc'[u] \notin Starting \cup {"register", "insertRoot"}
      BY <3>1, <3>3 DEF Starting
    <3> QED BY <1>3, <3>4, <3>5, StaysBegun DEF Starting
  <2>2. CASE ~SignalNext(t)
    <3>1. /\ pc'[t] \in {"resume", "signal", "barrier", "barrierWait", "leave", "done"}
          /\ \A u \in Thread \ {t} : pc'[u] = pc[u]
      BY <2>2 DEF SetExit, Terminate, Arrive, PassBarrier, Return, Goto, PoolInv, PoolType
    <3> QED BY <1>3, <3>1, StaysBegun DEF Starting
  <2> QED BY <2>1, <2>2
<1> QED BY <1>2, <1>4, ListsOver
-----------------------------------------------------------------------------
LEMMA NoNodeIsNoMarking == ASSUME NEW S, NEW m \in [Place -> S] PROVE m # NoNode
  BY PlaceAssumption DEF NoNode

(* When the search is over only the types of the lists matter.             *)
LEMMA OnlyTypes ==
  ASSUME ListType', BeforeRoot', exit'
  PROVE  ListInv'
  BY DEF ListInv, Linked, Delivery, NodesOnOneList

LEMMA ListsInsertRoot ==
  ASSUME PoolInv, ListInv, NEW t \in Thread, InsertRoot(t)
  PROVE  ListInv'
<1> DEFINE m == info[t].ns.Current
           n == [NewNode(NoNode, 0, <<>>) EXCEPT !.nextLevel = TRUE]
<1>0. n.next = NoNode /\ DOMAIN n = NodeField
  BY DEF NewNode, NodeField
<1>1. /\ pc[t] = "insertRoot" /\ pc'[t] = "head" /\ \A u \in Thread \ {t} : pc'[u] = pc[u]
      /\ store' = WithNode(m, n)
      /\ root' = [root EXCEPT ![t] = m] /\ unlinked' = [unlinked EXCEPT ![t] = m]
      /\ UNCHANGED <<ipay, info, idle, exit, helper>>
  BY DEF InsertRoot, Goto, PoolInv, PoolType, poolVars, endVars
<1>2. t = 0 /\ Unbegun
  BY <1>1 DEF PoolInv, Startup, Unbegun
<1>3. /\ ~exit /\ DOMAIN store = {} /\ m = InitialMarking
      /\ \A u \in Thread \ {t} : pc[u] \in Starting /\ idle[u]
  BY <1>2 DEF ListInv, BeforeRoot
<1>4. m # NoNode
  BY <1>3, MarkingAssumption, NoNodeIsNoMarking
<1> HIDE DEF m, n
<1>5. DOMAIN store' = {m} /\ store'[m] = n
  BY <1>1, <1>3 DEF WithNode
<1>6. ListType'
  BY <1>0, <1>1, <1>4, <1>5 DEF ListInv, ListType
<1>7. \A u \in Thread : Held(u) = {} /\ Held(u)' = {} /\ ~Given(u)'
  <2>1. \A u \in Thread : Held(u) = {}
    BY <1>3, ListFacts
  <2>2. \A u \in Thread \ {t} : ~Given(u)' /\ pc'[u] \in Starting
    BY <1>1, <1>3 DEF Given
  <2>3. ~Given(t)' /\ pc'[t] = "head"
    BY <1>1 DEF Given
  <2>4. \A u \in Thread : Held(u)' = {}
    BY <2>2, <2>3 DEF Held, WithNewNode, Giving, Starting
  <2> QED BY <2>1, <2>2, <2>3, <2>4
<1>8. root[t] = NoNode
  BY <1>1, <1>3 DEF ListInv, Delivery, Delivered
<1>9. Linked' /\ NodesOnOneList'
  <2>1. DOMAIN store' = DOMAIN store \cup {m} /\ store'[m].next = NoNode
    BY <1>0, <1>3, <1>5
  <2> QED BY <1>1, <1>3, <1>4, <1>7, <1>8, <2>1, ListStarted
<1>10. Delivery'
  <2> SUFFICES ASSUME ~exit', NEW u \in Thread PROVE Delivered(u)'
    BY DEF Delivery
  <2>1. CASE u = t
    <3>1. root'[u] = m
      BY <1>1, <2>1 DEF ListInv, ListType
    <3> QED BY <1>1, <1>4, <1>7, <2>1, <3>1 DEF Delivered, Starting
  <2>2. CASE u # t
    <3>1. pc'[u] \in Starting /\ root'[u] = root[u] /\ root[u] = NoNode
      BY <1>1, <1>3, <2>2 DEF ListInv, ListType, Delivery, Delivered
    <3> QED BY <1>7, <3>1 DEF Delivered, Starting, Searching, Giving
  <2> QED BY <2>1, <2>2
<1>11. BeforeRoot'
  BY <1>1, <1>2 DEF BeforeRoot, Unbegun, Starting
<1> QED BY <1>6, <1>9, <1>10, <1>11 DEF ListInv

(* A thread that goes on with the node it has been given.                  *)
LEMMA GivenNode ==
  ASSUME PoolInv, ListInv, ~exit, NEW t \in Thread, pc[t] \in {"begin", "resume"}
  PROVE  /\ info[t].given /\ Held(t) = {info[t].payload}
         /\ info[t].payload \in DOMAIN store /\ info[t].payload # NoNode
         /\ store[info[t].payload].next = NoNode
<1>1. Given(t)
  BY DEF PoolInv, Pool, AtWork, Given
<1>2. info[t].given
  BY <1>1 DEF ListInv, Delivery, Delivered
<1>3. Held(t) = {info[t].payload}
  BY <1>1 DEF Held, WithNewNode, Giving
<1>4. info[t].payload \in Held(t)
  BY <1>3
<1>5. info[t].payload \in DOMAIN store /\ NoNode \notin DOMAIN store
  BY <1>4, ListFacts
<1>6. store[info[t].payload].next = NoNode
  BY <1>4 DEF ListInv, Linked
<1> QED BY <1>2, <1>3, <1>5, <1>6

(* One thread has moved on in the search, and what the others have been    *)
(* given has not changed.                                                  *)
LEMMA OthersDelivered ==
  ASSUME ListInv, ~exit, NEW t \in Thread,
         \A u \in Thread \ {t} :
            /\ pc'[u] = pc[u] /\ root'[u] = root[u] /\ ipay'[u] = ipay[u]
            /\ helper'[u] = helper[u] /\ (Given(u)' <=> Given(u))
            /\ Given(u) => info'[u].given = info[u].given
            /\ pc[u] \in {"givePayload", "wake"} =>
                 /\ info'[helper[u]].given = info[helper[u]].given
                 /\ info'[helper[u]].payload = info[helper[u]].payload,
         Delivered(t)'
  PROVE  Delivery'
<1> SUFFICES ASSUME ~exit', NEW u \in Thread \ {t} PROVE Delivered(u)'
  BY DEF Delivery
<1>1. Delivered(u)
  BY DEF ListInv, Delivery
<1> QED BY <1>1 DEF Delivered

LEMMA ListsBegin ==
  ASSUME PoolInv, ListInv, NEW t \in Thread, Begin(t)
  PROVE  ListInv'
<1> DEFINE k == info[t].payload
<1>1. /\ pc[t] = "begin" /\ pc'[t] \in {"head", "terminate"}
      /\ \A u \in Thread \ {t} : pc'[u] = pc[u]
      /\ UNCHANGED <<store, ipay, info, idle, exit, helper>>
      /\ DOMAIN root' = DOMAIN root /\ DOMAIN unlinked' = DOMAIN unlinked
      /\ info[t].given => /\ root' = [root EXCEPT ![t] = k]
                          /\ unlinked' = [unlinked EXCEPT ![t] = k]
                          /\ pc'[t] = "head"
  BY DEF Begin, Goto, PoolInv, PoolType, poolVars, endVars
<1>2. ListType'
  BY <1>1 DEF ListInv, ListType
<1>3. BeforeRoot'
  <2>1. ~Unbegun
    BY <1>1, Begun DEF ListInv, Starting
  <2> QED BY <1>1, <2>1, StaysBegun DEF Starting
<1>4. CASE exit
  BY <1>1, <1>2, <1>3, <1>4, OnlyTypes
<1>5. CASE ~exit
  <2>1. /\ info[t].given /\ Held(t) = {k} /\ k \in DOMAIN store /\ k # NoNode
        /\ store[k].next = NoNode
    BY <1>1, <1>5, GivenNode
  <2>2. root[t] = NoNode
    BY <1>1, <1>5 DEF ListInv, Delivery, Delivered
  <2> HIDE DEF k
  <2>3. Held(t)' = {} /\ ~Given(t)'
    BY <1>1, <2>1 DEF Held, Given, WithNewNode, Giving
  <2>4. \A u \in Thread \ {t} : Held(u)' = Held(u) /\ (Given(u)' <=> Given(u))
    BY <1>1 DEF Held, Given
  <2>5. Linked' /\ NodesOnOneList'
    <3>1. DOMAIN store' = DOMAIN store \cup {k} /\ Held(t) = {k} \cap DOMAIN store
      BY <1>1, <2>1
    <3> QED BY <1>1, <1>5, <2>1, <2>2, <2>3, <2>4, <3>1, ListStarted
  <2>6. Delivered(t)'
    <3>1. root'[t] = k
      BY <1>1, <2>1 DEF ListInv, ListType
    <3> QED BY <1>1, <2>1, <2>3, <3>1 DEF Delivered, Starting
  <2>7. Delivery'
    <3>1. \A u \in Thread \ {t} : root'[u] = root[u]
      BY <1>1, <2>1 DEF ListInv, ListType
    <3> QED BY <1>1, <1>5, <2>4, <2>6, <3>1, OthersDelivered
  <2> QED BY <1>2, <1>3, <2>5, <2>7 DEF ListInv
<1> QED BY <1>4, <1>5

LEMMA ListsResume ==
  ASSUME PoolInv, ListInv, NEW t \in Thread, Resume(t)
  PROVE  ListInv'
<1> DEFINE k == info[t].payload
<1>1. /\ pc[t] = "resume" /\ pc'[t] \in {"head", "terminate"}
      /\ \A u \in Thread \ {t} : pc'[u] = pc[u]
      /\ UNCHANGED <<root, ipay, info, idle, exit, helper>>
      /\ DOMAIN store' = DOMAIN store /\ DOMAIN unlinked' = DOMAIN unlinked
      /\ store' = store \/ store' = [store EXCEPT ![unlinked[t]].next = k]
      /\ info[t].given => /\ store' = [store EXCEPT ![unlinked[t]].next = k]
                          /\ unlinked' = [unlinked EXCEPT ![t] = k]
                          /\ pc'[t] = "head"
  BY DEF Resume, Goto, PoolInv, PoolType, poolVars, endVars
<1>2. ListType'
  <2>1. \A n \in DOMAIN store' : DOMAIN store'[n] = NodeField
    BY <1>1 DEF ListInv, ListType
  <2> QED BY <1>1, <2>1 DEF ListInv, ListType
<1>3. BeforeRoot'
  <2>1. ~Unbegun
    BY <1>1, Begun DEF ListInv, Starting
  <2> QED BY <1>1, <2>1, StaysBegun DEF Starting
<1>4. CASE exit
  BY <1>1, <1>2, <1>3, <1>4, OnlyTypes
<1>5. CASE ~exit
  <2>1. /\ info[t].given /\ Held(t) = {k} /\ k \in DOMAIN store /\ k # NoNode
        /\ store[k].next = NoNode
    BY <1>1, <1>5, GivenNode
  <2>2. root[t] # NoNode
    BY <1>1, <1>5 DEF ListInv, Delivery, Delivered
  <2> HIDE DEF k
  <2>3. Held(t)' = {} /\ ~Given(t)'
    BY <1>1, <2>1 DEF Held, Given, WithNewNode, Giving
  <2>4. \A u \in Thread \ {t} : Held(u)' = Held(u) /\ (Given(u)' <=> Given(u))
    BY <1>1 DEF Held, Given
  <2>5. Linked' /\ NodesOnOneList'
    <3>1. unlinked[t] \in DOMAIN store
      BY <1>5, <2>2, ListFacts DEF ListInv, Linked
    <3>2. "next" \in DOMAIN store[unlinked[t]]
      BY <3>1 DEF ListInv, ListType, NodeField
    <3>3. /\ store'[unlinked[t]].next = k
          /\ \A n \in DOMAIN store \ {unlinked[t]} : store'[n].next = store[n].next
      BY <1>1, <2>1, <3>1, <3>2
    <3> QED BY <1>1, <1>5, <2>1, <2>2, <2>3, <2>4, <3>3, NodeLinked
  <2>6. Delivered(t)'
    BY <1>1, <2>1, <2>2, <2>3 DEF Delivered, Starting
  <2>7. Delivery'
    BY <1>1, <1>5, <2>4, <2>6, OthersDelivered
  <2> QED BY <1>2, <1>3, <2>5, <2>7 DEF ListInv
<1> QED BY <1>4, <1>5

LEMMA ListsLink ==
  ASSUME PoolInv, ListInv, NEW t \in Thread, Link(t)
  PROVE  ListInv'
<1> DEFINE k == ipay[t]
           last == unlinked[t]
<1>1. /\ pc[t] = "link" /\ pc'[t] = "fire" /\ \A u \in Thread \ {t} : pc'[u] = pc[u]
      /\ UNCHANGED <<root, info, idle, exit, helper>>
      /\ store' = [store EXCEPT ![k].nextLevel = newLevel[t], ![last].next = k]
      /\ unlinked' = [unlinked EXCEPT ![t] = k]
      /\ DOMAIN ipay' = DOMAIN ipay /\ \A u \in Thread \ {t} : ipay'[u] = ipay[u]
  BY DEF Link, Revert, Goto, PoolInv, PoolType, ListInv, ListType, poolVars, endVars
<1>2. ListType'
  <2>1. DOMAIN store' = DOMAIN store
    BY <1>1
  <2>2. \A n \in DOMAIN store' : DOMAIN store'[n] = NodeField
    <3> HIDE DEF k, last
    <3> QED BY <1>1 DEF ListInv, ListType
  <2> QED BY <1>1, <2>1, <2>2 DEF ListInv, ListType
<1>3. BeforeRoot'
  <2>1. ~Unbegun
    BY <1>1, Begun DEF ListInv, Starting
  <2> QED BY <1>1, <2>1, StaysBegun DEF Starting
<1>4. CASE exit
  BY <1>1, <1>2, <1>3, <1>4, OnlyTypes
<1>5. CASE ~exit
  <2>1. Held(t) = {k}
    BY <1>1 DEF Held, WithNewNode
  <2>2. root[t] # NoNode
    BY <1>1, <1>5 DEF ListInv, Delivery, Delivered, Searching
  <2>3. Held(t)' = {} /\ ~Given(t)'
    BY <1>1 DEF Held, Given, WithNewNode, Giving
  <2>4. \A u \in Thread \ {t} : Held(u)' = Held(u) /\ (Given(u)' <=> Given(u))
    BY <1>1 DEF Held, Given
  <2>5. k \in Held(t) /\ k \in DOMAIN store /\ last \in OnList(t) /\ last \in DOMAIN store
    BY <1>5, <2>1, <2>2, ListFacts DEF ListInv, Linked
  <2>6. k # last
    BY <1>5, <2>5 DEF ListInv, NodesOnOneList
  <2> HIDE DEF k, last
  <2>7. /\ DOMAIN store' = DOMAIN store /\ store'[last].next = k
        /\ \A n \in DOMAIN store \ {last} : store'[n].next = store[n].next
    BY <1>1, <2>5, <2>6 DEF ListInv, ListType, NodeField
  <2>8. Linked' /\ NodesOnOneList'
    BY <1>1, <1>5, <2>1, <2>2, <2>3, <2>4, <2>7, NodeLinked DEF last
  <2>9. Delivered(t)'
    BY <1>1, <2>2, <2>3 DEF Delivered, Starting
  <2>10. Delivery'
    BY <1>1, <1>5, <2>4, <2>9, OthersDelivered
  <2> QED BY <1>2, <1>3, <2>8, <2>10 DEF ListInv
<1> QED BY <1>4, <1>5

LEMMA ListsFireNew ==
  ASSUME PoolInv, ListInv, NEW t \in Thread, FireNew(t)
  PROVE  ListInv'
<1>1. PICK k, tr, omegas :
         /\ k \notin DOMAIN store /\ DOMAIN k = Place
         /\ store' = WithNode(k, NewNode(currentPayload[t], tr, omegas))
         /\ ipay' = [ipay EXCEPT ![t] = k]
  BY DEF FireNew, WithTokens
<1>2. /\ pc[t] = "fire" /\ pc'[t] \in {"readIdle", "link"}
      /\ \A u \in Thread \ {t} : pc'[u] = pc[u]
      /\ UNCHANGED <<root, unlinked, info, idle, exit, helper>>
  BY DEF FireNew, Goto, PoolInv, PoolType, poolVars, endVars
<1>3. k # NoNode
  BY <1>1, PlaceAssumption DEF NoNode
<1>4. /\ DOMAIN store' = DOMAIN store \cup {k} /\ store'[k].next = NoNode
      /\ DOMAIN store'[k] = NodeField
      /\ \A n \in DOMAIN store : store'[n] = store[n]
  BY <1>1 DEF WithNode, NewNode, NodeField
<1>5. ListType'
  BY <1>1, <1>2, <1>3, <1>4 DEF ListInv, ListType
<1>6. BeforeRoot'
  <2>1. ~Unbegun
    BY <1>2, Begun DEF ListInv, Starting
  <2> QED BY <1>2, <2>1, StaysBegun DEF Starting
<1>7. CASE exit
  BY <1>2, <1>5, <1>6, <1>7, OnlyTypes
<1>8. CASE ~exit
  <2>1. ipay'[t] = k /\ \A u \in Thread \ {t} : ipay'[u] = ipay[u]
    BY <1>1 DEF ListInv, ListType
  <2>2. Held(t) = {} /\ Held(t)' = {k} /\ ~Given(t)'
    BY <1>2, <2>1 DEF Held, Given, WithNewNode, Giving
  <2>3. \A u \in Thread \ {t} : Held(u)' = Held(u) /\ (Given(u)' <=> Given(u))
    BY <1>2, <2>1 DEF Held, Given
  <2>4. Linked' /\ NodesOnOneList'
    BY <1>1, <1>2, <1>4, <1>8, <2>2, <2>3, NodeCreated
  <2>5. Delivered(t)'
    BY <1>2, <1>8, <2>2 DEF ListInv, Delivery, Delivered, Starting, Searching
  <2>6. Delivery'
    BY <1>2, <1>8, <2>1, <2>3, <2>5, OthersDelivered
  <2> QED BY <1>5, <1>6, <2>4, <2>6 DEF ListInv
<1> QED BY <1>7, <1>8
-----------------------------------------------------------------------------
(* The thread that is given a node sleeps, and no other gives it one.      *)
LEMMA Receiver ==
  ASSUME PoolInv, ~exit, NEW t \in Thread, pc[t] \in Giving
  PROVE  /\ helper[t] \in Thread \ {t} /\ idle[helper[t]] /\ pc[helper[t]] \in Sleeping
         /\ \A u \in Thread \ {t} : pc[u] \in Giving => helper[u] # helper[t]
         /\ \A u \in Thread : Given(u) => u # helper[t]
<1>1. /\ helper[t] \in Thread /\ idle[helper[t]] /\ pc[helper[t]] \in Sleeping
      /\ \A u \in Thread \ {t} : pc[u] \in Giving => helper[u] # helper[t]
  BY DEF PoolInv, PoolType, Pool, HelperTakenOnce
<1>2. pc[helper[t]] # pc[t]
  BY <1>1 DEF Sleeping, Giving
<1> QED BY <1>1, <1>2 DEF Given

LEMMA ListsGiveState ==
  ASSUME PoolInv, ListInv, NEW t \in Thread, GiveState(t)
  PROVE  ListInv'
<1> DEFINE h == helper[t]
<1>1. /\ pc[t] = "giveState" /\ pc'[t] = "givePayload"
      /\ \A u \in Thread \ {t} : pc'[u] = pc[u]
      /\ UNCHANGED <<store, root, unlinked, ipay, idle, exit, helper>>
      /\ info' = [info EXCEPT ![h].given = TRUE, ![h].ns = ns[t]]
  BY DEF GiveState, Goto, PoolInv, PoolType, endVars, searchVars
<1>0. h \in Thread
  BY DEF PoolInv, PoolType
<1>h. pc[t] \in Giving
  BY <1>1 DEF Giving
<1>i. /\ \A u \in Thread \ {h} : info'[u] = info[u]
      /\ info'[h].given = TRUE /\ info'[h].payload = info[h].payload
      /\ DOMAIN info' = Thread /\ \A u \in Thread : DOMAIN info'[u] = {"given", "ns", "payload"}
  <2> HIDE DEF h
  <2> QED BY <1>0, <1>1 DEF ListInv, ListType
<1>2. ListType'
  BY <1>1, <1>i DEF ListInv, ListType
<1>3. BeforeRoot'
  <2>1. ~Unbegun
    BY <1>1, Begun DEF ListInv, Starting
  <2> QED BY <1>1, <2>1, StaysBegun DEF Starting
<1>4. CASE exit
  BY <1>1, <1>2, <1>3, <1>4, OnlyTypes
<1>5. CASE ~exit
  <2>1. /\ \A u \in Thread \ {t} : pc[u] \in Giving => helper[u] # h
        /\ \A u \in Thread : Given(u) => u # h
    BY <1>5, <1>h, Receiver
  <2> HIDE DEF h
  <2>2. ~Given(t)' /\ ~Given(t) /\ pc[t] \in WithNewNode /\ pc'[t] \in WithNewNode
    BY <1>1 DEF Given, WithNewNode, Giving
  <2>3. \A u \in Thread : Given(u)' <=> Given(u)
    BY <1>1, <2>2 DEF Given
  <2>4. \A u \in Thread : Held(u)' = Held(u)
    BY <1>1, <1>i, <2>1, <2>2, <2>3 DEF Held
  <2>5. Linked' /\ NodesOnOneList'
    <3>1. \A u, w \in Thread : u # w => Held(u) \cap Held(w) = {}
      BY <1>5 DEF ListInv, NodesOnOneList
    <3>2. /\ \A u \in Thread : \A k \in Held(u)' : \E w \in Thread : k \in Held(w)
          /\ \A u \in Thread : \A k \in Held(u) : \E w \in Thread : k \in Held(w)'
          /\ \A u, w \in Thread : u # w => Held(u)' \cap Held(w)' = {}
      BY <2>4, <3>1
    <3> QED BY <1>1, <1>5, <3>2, ListsKept
  <2>6. Delivered(t)'
    BY <1>1, <1>5, <1>i, <2>2 DEF h, ListInv, Delivery, Delivered, Starting, Searching, Giving
  <2>7. \A u \in Thread \ {t} : pc[u] \in {"givePayload", "wake"} =>
           helper[u] \in Thread \ {h}
    BY <2>1 DEF Giving, PoolInv, PoolType
  <2>8. \A u \in Thread \ {t} :
           /\ Given(u) => info'[u].given = info[u].given
           /\ pc[u] \in {"givePayload", "wake"} =>
                /\ info'[helper[u]].given = info[helper[u]].given
                /\ info'[helper[u]].payload = info[helper[u]].payload
    BY <1>i, <2>1, <2>7
  <2>9. Delivery'
    BY <1>1, <1>5, <2>3, <2>6, <2>8, OthersDelivered
  <2> QED BY <1>2, <1>3, <2>5, <2>9 DEF ListInv
<1> QED BY <1>4, <1>5

LEMMA ListsGivePayload ==
  ASSUME PoolInv, ListInv, NEW t \in Thread, GivePayload(t)
  PROVE  ListInv'
<1> DEFINE h == helper[t]
           k == ipay[t]
<1>1. /\ pc[t] = "givePayload" /\ pc'[t] = "wake"
      /\ \A u \in Thread \ {t} : pc'[u] = pc[u]
      /\ UNCHANGED <<root, unlinked, ipay, idle, exit, helper>>
      /\ info' = [info EXCEPT ![h].payload = k]
      /\ store' = [store EXCEPT ![k].nextLevel = TRUE]
  BY DEF GivePayload, Goto, PoolInv, PoolType, endVars, searchVars
<1>0. h \in Thread
  BY DEF PoolInv, PoolType
<1>h. pc[t] \in Giving
  BY <1>1 DEF Giving
<1>i. /\ \A u \in Thread \ {h} : info'[u] = info[u]
      /\ info'[h].given = info[h].given /\ info'[h].payload = k
      /\ DOMAIN info' = Thread /\ \A u \in Thread : DOMAIN info'[u] = {"given", "ns", "payload"}
  <2> HIDE DEF h, k
  <2> QED BY <1>0, <1>1 DEF ListInv, ListType
<1>s. /\ DOMAIN store' = DOMAIN store
      /\ \A n \in DOMAIN store : DOMAIN store'[n] = NodeField /\ store'[n].next = store[n].next
  <2> HIDE DEF h, k
  <2> QED BY <1>1 DEF ListInv, ListType, NodeField
<1>2. ListType'
  BY <1>1, <1>i, <1>s DEF ListInv, ListType
<1>3. BeforeRoot'
  <2>1. ~Unbegun
    BY <1>1, Begun DEF ListInv, Starting
  <2> QED BY <1>1, <2>1, StaysBegun DEF Starting
<1>4. CASE exit
  BY <1>1, <1>2, <1>3, <1>4, OnlyTypes
<1>5. CASE ~exit
  <2>1. /\ \A u \in Thread \ {t} : pc[u] \in Giving => helper[u] # h
        /\ \A u \in Thread : Given(u) => u # h
    BY <1>5, <1>h, Receiver
  <2> HIDE DEF h
  <2>2. ~Given(t)' /\ ~Given(t) /\ pc[t] \in WithNewNode /\ pc'[t] \in WithNewNode
    BY <1>1 DEF Given, WithNewNode, Giving
  <2>3. \A u \in Thread : Given(u)' <=> Given(u)
    BY <1>1, <2>2 DEF Given
  <2>4. \A u \in Thread : Held(u)' = Held(u)
    BY <1>1, <1>i, <2>1, <2>2, <2>3 DEF Held
  <2>5. Linked' /\ NodesOnOneList'
    <3>1. \A u, w \in Thread : u # w => Held(u) \cap Held(w) = {}
      BY <1>5 DEF ListInv, NodesOnOneList
    <3>2. /\ \A u \in Thread : \A n \in Held(u)' : \E w \in Thread : n \in Held(w)
          /\ \A u \in Thread : \A n \in Held(u) : \E w \in Thread : n \in Held(w)'
          /\ \A u, w \in Thread : u # w => Held(u)' \cap Held(w)' = {}
      BY <2>4, <3>1
    <3> QED BY <1>1, <1>5, <1>s, <3>2, ListsKept
  <2>6. Delivered(t)'
    BY <1>1, <1>5, <1>i, <2>2
       DEF h, ListInv, Delivery, Delivered, Starting, Searching, Giving
  <2>7. \A u \in Thread \ {t} : pc[u] \in {"givePayload", "wake"} =>
           helper[u] \in Thread \ {h}
    BY <2>1 DEF Giving, PoolInv, PoolType
  <2>8. \A u \in Thread \ {t} :
           /\ Given(u) => info'[u].given = info[u].given
           /\ pc[u] \in {"givePayload", "wake"} =>
                /\ info'[helper[u]].given = info[helper[u]].given
                /\ info'[helper[u]].payload = info[helper[u]].payload
    BY <1>i, <2>1, <2>7
  <2>9. Delivery'
    BY <1>1, <1>5, <2>3, <2>6, <2>8, OthersDelivered
  <2> QED BY <1>2, <1>3, <2>5, <2>9 DEF ListInv
<1> QED BY <1>4, <1>5

LEMMA ListsWake ==
  ASSUME PoolInv, ListInv, NEW t \in Thread, Wake(t)
  PROVE  ListInv'
<1>0. PICK h \in Thread : h = helper[t]
  BY DEF PoolInv, PoolType
<1> DEFINE label == [pc EXCEPT ![t] = "fire"]
<1>1. /\ pc[t] = "wake" /\ pc' = Signalled(h, label)
      /\ idle' = [idle EXCEPT ![h] = FALSE] /\ helper' = [helper EXCEPT ![t] = t]
      /\ ipay' = [ipay EXCEPT ![t] = NoNode]
      /\ UNCHANGED <<store, root, unlinked, info, exit>>
  BY <1>0 DEF Wake, Revert, endVars
<1>l. /\ label \in [Thread -> Stage] /\ label[t] = "fire"
      /\ \A u \in Thread \ {t} : label[u] = pc[u]
  BY DEF PoolInv, PoolType, Stage
<1>h. pc[t] \in Giving
  BY <1>1 DEF Giving
<1> HIDE DEF label
<1>p. \A u \in Thread :
         \/ pc'[u] = label[u]
         \/ label[u] = "initAsleep" /\ pc'[u] = "initCheck"
         \/ label[u] = "asleep" /\ pc'[u] = "check"
  <2>1. label \in [Thread -> Stage] /\ pc' = Signalled(h, label)
    BY <1>1, <1>l
  <2> QED BY <2>1, SignalledLabels, Zenon
<1>q. pc'[t] = "fire"
  BY <1>l, <1>p
<1>2. ListType'
  BY <1>1 DEF ListInv, ListType
<1>b. ~Unbegun
  BY <1>1, Begun DEF ListInv, Starting
<1>3. BeforeRoot'
  <2>1. \A u \in Thread \ {t} : pc'[u] = pc[u]
           \/ (pc[u] \in Starting /\ pc'[u] \in Starting)
           \/ pc'[u] \notin Starting \cup {"register", "insertRoot"}
    BY <1>l, <1>p DEF Starting
  <2> QED BY <1>b, <1>q, <2>1, StaysBegun DEF Starting
<1>4. CASE exit
  BY <1>1, <1>2, <1>3, <1>4, OnlyTypes
<1>5. CASE ~exit
  <2>1. /\ h # t /\ idle[h] /\ pc[h] \in Sleeping
        /\ \A u \in Thread : Given(u) => u # h
    BY <1>0, <1>5, <1>h, Receiver
  <2>2. /\ Held(t) = {ipay[t]} /\ Held(h) = {} /\ ~Given(t)
        /\ info[h].given /\ info[h].payload = ipay[t]
    <3>1. info[h].given /\ info[h].payload = ipay[t]
      BY <1>0, <1>1, <1>5 DEF ListInv, Delivery, Delivered
    <3>2. Held(t) = {ipay[t]} /\ ~Given(t)
      BY <1>1 DEF Held, Given, WithNewNode, Giving
    <3>3. Held(h) = {}
      BY <1>0, <2>1 DEF Held, WithNewNode, Giving, Sleeping
    <3> QED BY <3>1, <3>2, <3>3
  <2>3. \A u \in Thread \ {t, h} : pc'[u] = pc[u] /\ (idle'[u] <=> idle[u])
    <3>1. \A u \in Thread \ {h} : pc'[u] = label[u]
      BY <1>1, <1>l DEF Signalled
    <3> QED BY <1>1, <1>l, <3>1 DEF PoolInv, PoolType
  <2>4. /\ \A u \in Thread \ {t} : ipay'[u] = ipay[u] /\ helper'[u] = helper[u]
        /\ ~idle'[h]
    BY <1>0, <1>1 DEF ListInv, ListType, PoolInv, PoolType
  <2>5. /\ pc'[h] \in {"initCheck", "initAsleep", "check", "asleep"}
        /\ pc'[h] \in {"initCheck", "initAsleep"} <=> pc[h] \in {"initCheck", "initAsleep"}
    BY <1>0, <1>l, <1>p, <2>1 DEF Sleeping
  <2>6. h = 0 => pc'[h] \in {"check", "asleep"}
    BY <1>b, <2>5 DEF Unbegun, Starting
  <2>7. Given(h)' /\ Held(h)' = {ipay[t]}
    <3>1. Given(h)'
      BY <2>4, <2>5, <2>6 DEF Given
    <3> QED BY <1>1, <2>2, <2>5, <3>1 DEF Held, WithNewNode, Giving
  <2>8. Held(t)' = {} /\ ~Given(t)'
    BY <1>q DEF Held, Given, WithNewNode, Giving
  <2>9. \A u \in Thread \ {t, h} : Held(u)' = Held(u) /\ (Given(u)' <=> Given(u))
    BY <1>1, <2>3, <2>4 DEF Held, Given
  <2>10. Linked' /\ NodesOnOneList'
    <3>1. \A u, w \in Thread : u # w => Held(u) \cap Held(w) = {}
      BY <1>5 DEF ListInv, NodesOnOneList
    <3>2. \A u \in Thread : \A n \in Held(u)' : \E w \in Thread : n \in Held(w)
      BY <2>2, <2>7, <2>8, <2>9
    <3>3. \A u \in Thread : \A n \in Held(u) : \E w \in Thread : n \in Held(w)'
      BY <1>0, <2>2, <2>7, <2>8, <2>9
    <3>4. \A u, w \in Thread : u # w => Held(u)' \cap Held(w)' = {}
      BY <1>0, <2>1, <2>2, <2>7, <2>8, <2>9, <3>1
    <3> QED BY <1>1, <1>5, <3>2, <3>3, <3>4, ListsKept
  <2>11. Delivery'
    <3> SUFFICES ASSUME ~exit', NEW u \in Thread PROVE Delivered(u)'
      BY DEF Delivery
    <3>0. Delivered(u) /\ root'[u] = root[u]
      BY <1>1, <1>5 DEF ListInv, Delivery
    <3>1. CASE u = t
      <4>1. root[t] # NoNode
        BY <1>1, <3>0, <3>1 DEF Delivered, Searching, Giving
      <4> QED BY <1>q, <2>8, <3>0, <3>1, <4>1 DEF Delivered, Starting
    <3>2. CASE u = h
      BY <1>1, <2>1, <2>2, <2>5, <3>0, <3>2
         DEF Delivered, Starting, Searching, Giving, Sleeping
    <3>3. CASE u \notin {t, h}
      <4>1. /\ pc'[u] = pc[u] /\ helper'[u] = helper[u] /\ ipay'[u] = ipay[u]
            /\ (Given(u)' <=> Given(u)) /\ info' = info
        BY <1>1, <2>3, <2>4, <2>9, <3>3
      <4> QED BY <3>0, <4>1 DEF Delivered
    <3> QED BY <3>1, <3>2, <3>3
  <2> QED BY <1>2, <1>3, <2>10, <2>11 DEF ListInv
<1> QED BY <1>4, <1>5

LEMMA ListsGoIdle ==
  ASSUME PoolInv, ListInv, NEW t \in Thread, GoIdle(t)
  PROVE  ListInv'
<1>1. /\ pc[t] = "fire" /\ pc'[t] = "enlist"
      /\ \A u \in Thread \ {t} : pc'[u] = pc[u]
      /\ UNCHANGED <<store, root, unlinked, ipay, exit, helper>>
      /\ info' = [info EXCEPT ![t].given = FALSE, ![t].ns = Beginning]
      /\ \A u \in Thread \ {t} : (idle'[u] <=> idle[u])
  BY DEF GoIdle, Goto, PoolInv, PoolType, endVars
<1>i. /\ \A u \in Thread \ {t} : info'[u] = info[u]
      /\ DOMAIN info' = Thread /\ \A u \in Thread : DOMAIN info'[u] = {"given", "ns", "payload"}
  BY <1>1 DEF ListInv, ListType
<1>2. ListType'
  BY <1>1, <1>i DEF ListInv, ListType
<1>3. BeforeRoot'
  <2>1. ~Unbegun
    BY <1>1, Begun DEF ListInv, Starting
  <2> QED BY <1>1, <2>1, StaysBegun DEF Starting
<1>4. CASE exit
  BY <1>1, <1>2, <1>3, <1>4, OnlyTypes
<1>5. CASE ~exit
  <2>1. ~idle[t]
    BY <1>1 DEF PoolInv, Pool, AtWork, Searching
  <2>2. \A u \in Thread : pc[u] \in {"givePayload", "wake"} => helper[u] \in Thread \ {t}
    BY <1>5, <2>1, Receiver DEF Giving
  <2>3. Held(t) = {} /\ Held(t)' = {} /\ ~Given(t)'
    BY <1>1 DEF Held, Given, WithNewNode, Giving
  <2>4. \A u \in Thread \ {t} : Held(u)' = Held(u) /\ (Given(u)' <=> Given(u))
    BY <1>1, <1>i DEF Held, Given
  <2>5. Linked' /\ NodesOnOneList'
    <3>1. \A u, w \in Thread : u # w => Held(u) \cap Held(w) = {}
      BY <1>5 DEF ListInv, NodesOnOneList
    <3>2. /\ \A u \in Thread : \A n \in Held(u)' : \E w \in Thread : n \in Held(w)
          /\ \A u \in Thread : \A n \in Held(u) : \E w \in Thread : n \in Held(w)'
          /\ \A u, w \in Thread : u # w => Held(u)' \cap Held(w)' = {}
      BY <2>3, <2>4, <3>1
    <3> QED BY <1>1, <1>5, <3>2, ListsKept
  <2>6. Delivered(t)'
    BY <1>1, <1>5, <2>3 DEF ListInv, Delivery, Delivered, Starting, Searching
  <2>7. \A u \in Thread \ {t} :
           /\ info'[u].given = info[u].given
           /\ pc[u] \in {"givePayload", "wake"} =>
                /\ info'[helper[u]].given = info[helper[u]].given
                /\ info'[helper[u]].payload = info[helper[u]].payload
    BY <1>i, <2>2
  <2>8. Delivery'
    BY <1>1, <1>5, <2>4, <2>6, <2>7, OthersDelivered
  <2> QED BY <1>2, <1>3, <2>5, <2>8 DEF ListInv
<1> QED BY <1>4, <1>5
-----------------------------------------------------------------------------
LEMMA NextLists == PoolInv /\ ListInv /\ [Next]_vars => ListInv'
<1> SUFFICES ASSUME PoolInv, ListInv, [Next]_vars PROVE ListInv'
  OBVIOUS
<1>1. ASSUME NEW t \in Thread,
             \/ Leave(t) \/ Find(t) \/ Expand(t) \/ FireKnown(t) \/ ReadIdleCount(t)
             \/ TakeHelper(t) \/ NextNode(t) \/ Enlist(t)
      PROVE  ListInv'
  <2> DEFINE l == pc'[t]
  <2>1. /\ UNCHANGED <<listVars, idle, exit>>
        /\ \A u \in Thread \ {t} : helper'[u] = helper[u]
    BY <1>1 DEF Leave, Find, Expand, FireKnown, ReadIdleCount, TakeHelper, NextNode,
                Enlist, listVars, poolVars, endVars, searchVars, PoolInv, PoolType
  <2>2. /\ pc[t] \in {"head", "fire", "readIdle", "takeHelper", "enlist"}
        /\ l \in {"head", "fire", "link", "takeHelper", "giveState", "terminate", "check",
                  "exit"}
        /\ pc[t] \in {"readIdle", "takeHelper"} <=> l \in {"link", "takeHelper", "giveState"}
        /\ l = "check" => pc[t] = "enlist"
        /\ pc' = [pc EXCEPT ![t] = l]
    BY <1>1 DEF Leave, Find, Expand, FireKnown, ReadIdleCount, TakeHelper, NextNode,
                Enlist, Goto, PoolInv, PoolType
  <2> HIDE DEF l
  <2>3. pc[t] \in WithNewNode <=> l \in WithNewNode
    BY <2>2 DEF WithNewNode, Giving
  <2> QED BY <2>1, <2>2, <2>3, SearchLabel
<1>2. CASE Join \/ Stop \/ UNCHANGED vars
  <2>1. UNCHANGED <<listVars, pc, idle, exit, helper>>
    BY <1>2 DEF Join, Stop, vars, listVars, poolVars, endVars, searchVars
  <2>2. /\ BeforeRoot'
        /\ \A u \in Thread : Held(u)' = Held(u)
    BY <2>1 DEF ListInv, BeforeRoot, Unbegun, Held, Given, listVars
  <2>3. Delivery'
    BY <2>1 DEF ListInv, Delivery, Delivered, Given, listVars
  <2> QED BY <2>1, <2>2, <2>3, NoListTouched
<1> QED
  BY <1>1, <1>2, ListsInitialise, ListsStartFirst, ListsCheck, ListsRegister,
     ListsInsertRoot, ListsBegin, ListsFireNew, ListsLink, ListsGiveState,
     ListsGivePayload, ListsWake, ListsGoIdle, ListsResume, ListsExit
     DEF Next, Step

(* The invariant of the lists of nodes holds in every state, for any       *)
(* number of threads (coverThread and getHelper, CoverGraph.cc 288-650).   *)
THEOREM ListsInvariance == Spec => []ListInv
<1>1. Init => ListInv
  BY InitialLists
<1>2. PoolInv /\ ListInv /\ [Next]_vars => ListInv'
  BY NextLists
<1> QED
  BY <1>1, <1>2, Invariance, PTL DEF Spec

(* While the search goes on, every node of the graph is on the list of     *)
(* exactly one thread or on its way to one: delegation loses no node and   *)
(* hands none out twice (CoverGraph.cc 383-436, 461-475 and 613-648).      *)
THEOREM EveryNodeOnOneList == Spec => []NodesOnOneList
<1>1. ListInv => NodesOnOneList
  BY DEF ListInv
<1> QED
  BY <1>1, ListsInvariance, PTL
=============================================================================
