---------------------------- MODULE Stores_proof ----------------------------
(***************************************************************************)
(* Proofs about the stores that a search calls, for any number of threads  *)
(* and vectors: the STL store is a VectorStore, the front end counts each  *)
(* marking once, and the Bloom filter is a VectorStore of bits.            *)
(*                                                                         *)
(* The lock of the STL store is part of its type invariant, which is       *)
(* inductive as it stands: the readers and the writer are told by where    *)
(* the threads are.  Of module NetState_proof only the laws of sums are    *)
(* used, for the counters of the threads.                                  *)
(***************************************************************************)
EXTENDS Stores, NetState_proof

Reading == {"count", "rdunlock"}
Writing == {"insert", "wrunlock", "pop", "popwrunlock"}

(* The initial state.                                                      *)
LEMMA InitTypeOK == Init => TypeOK
  BY DEF Init, TypeOK, Label

(* Every step keeps the type invariant, and with it the lock.              *)
LEMMA NextTypeOK == TypeOK /\ [Next]_vars => TypeOK'
<1> SUFFICES ASSUME TypeOK, [Next]_vars PROVE TypeOK'
  OBVIOUS
<1>1. CASE UNCHANGED vars
  BY <1>1 DEF TypeOK, vars, storeVars, threadVars
<1>2. ASSUME NEW t \in Thread, NEW v \in Vector, NEW b \in BOOLEAN, SearchAndInsert(t, v, b)
      PROVE  TypeOK'
  BY <1>2 DEF SearchAndInsert, TypeOK, Goto, Label, storeVars
<1>3. ASSUME NEW t \in Thread, PopVector(t) PROVE TypeOK'
  BY <1>3 DEF PopVector, TypeOK, Goto, Label, storeVars
<1>4. ASSUME NEW t \in Thread, ReadLock(t) PROVE TypeOK'
  BY <1>4 DEF ReadLock, TypeOK, Goto, Label
<1>5. ASSUME NEW t \in Thread, Count(t) PROVE TypeOK'
  BY <1>5 DEF Count, TypeOK, Goto, Label, storeVars
<1>6. ASSUME NEW t \in Thread, ReadUnlock(t) PROVE TypeOK'
  BY <1>6 DEF ReadUnlock, TypeOK, Goto, Label
<1>7. ASSUME NEW t \in Thread, WriteLock(t) PROVE TypeOK'
  BY <1>7 DEF WriteLock, TypeOK, Goto, Label
<1>8. ASSUME NEW t \in Thread, Insert(t) PROVE TypeOK'
  BY <1>8 DEF Insert, TypeOK, Goto, Label
<1>9. ASSUME NEW t \in Thread, WriteUnlock(t) PROVE TypeOK'
  BY <1>9 DEF WriteUnlock, TypeOK, Goto, Label
<1>10. ASSUME NEW t \in Thread, PopWriteLock(t) PROVE TypeOK'
  BY <1>10 DEF PopWriteLock, TypeOK, Goto, Label
<1>11. ASSUME NEW t \in Thread, Pop(t) PROVE TypeOK'
  BY <1>11 DEF Pop, TypeOK, Goto, Label
<1>12. ASSUME NEW t \in Thread, PopWriteUnlock(t) PROVE TypeOK'
  BY <1>12 DEF PopWriteUnlock, TypeOK, Goto, Label
<1>13. ASSUME NEW t \in Thread, Return(t) PROVE TypeOK'
  BY <1>13 DEF Return, TypeOK, Goto, Label, storeVars
<1> QED
  BY <1>1, <1>2, <1>3, <1>4, <1>5, <1>6, <1>7, <1>8, <1>9, <1>10, <1>11, <1>12, <1>13
     DEF Next, Call, Step

(* Every variable keeps its type; the lock is never held for writing by    *)
(* two threads, nor for writing and reading.                               *)
THEOREM TypeCorrect == Spec => []TypeOK
<1>1. Init => TypeOK
  BY InitTypeOK
<1>2. TypeOK /\ [Next]_vars => TypeOK'
  BY NextTypeOK
<1> QED
  BY <1>1, <1>2, PTL DEF Spec
-----------------------------------------------------------------------------
(* Refinement.  The abstract operation of a thread is read off its own     *)
(* variables, so a step of one thread leaves those of the others alone.    *)
Unchanged(u) ==
  /\ pc'[u] = pc[u]
  /\ ci'[u] = ci[u]
  /\ noinsert'[u] = noinsert[u]
  /\ ret'[u] = ret[u]

Operations == [u \in Thread |-> Operation(u)]

(* A thread whose variables stay has the same abstract operation.          *)
LEMMA OthersStay ==
  ASSUME NEW u \in Thread, Unchanged(u)
  PROVE  Operation(u)' = Operation(u)
BY DEF Unchanged, Operation

(* So a step of thread t changes the abstract operations at t at most.     *)
LEMMA OneOperation ==
  ASSUME NEW t \in Thread, \A u \in Thread \ {t} : Unchanged(u)
  PROVE  Operations' = [Operations EXCEPT ![t] = Operation(t)']
<1>1. \A u \in Thread \ {t} : Operation(u)' = Operation(u)
  BY OthersStay
<1> DEFINE F(u) == Operation(u)
           G(u) == Operation(u)'
<1>2. [u \in Thread |-> G(u)] = [[u \in Thread |-> F(u)] EXCEPT ![t] = G(t)]
  <2>1. \A u \in Thread \ {t} : G(u) = F(u)
    BY <1>1
  <2> HIDE DEF F, G
  <2> QED
    BY <2>1
<1> QED
  BY <1>2 DEF Operations

(* A step that leaves the store and the operation of its thread alone is a *)
(* stuttering step.                                                        *)
LEMMA Stutters ==
  ASSUME NEW t \in Thread, \A u \in Thread \ {t} : Unchanged(u),
         Operation(t)' = Operation(t), store' = store
  PROVE  UNCHANGED <<store, Operations>>
<1>1. \A u \in Thread : Operation(u)' = Operation(u)
  BY OthersStay
<1> QED
  BY <1>1 DEF Operations

(* The steps that a VectorStore sees, on its variables.                    *)
LEMMA InitRefines == Init => Contract!AbstractInit
  BY DEF Init, Operation, Contract!AbstractInit, Contract!Idle

(* The call of a search.                                                   *)
LEMMA SearchRefines ==
  ASSUME TypeOK, NEW t \in Thread, NEW v \in Vector, NEW b \in BOOLEAN,
         SearchAndInsert(t, v, b)
  PROVE  Contract!CallSearch(t)
<1>1. Operation(t) = [kind |-> "idle"]
  BY DEF SearchAndInsert, Operation
<1>2. Operation(t)' = [kind |-> "search", vector |-> v, noinsert |-> b]
  BY DEF SearchAndInsert, Operation, Goto, TypeOK
<1>3. \A u \in Thread \ {t} : Unchanged(u)
  BY DEF SearchAndInsert, Unchanged, Goto, TypeOK
<1>4. Operations' = [Operations EXCEPT ![t] = Operation(t)']
  BY <1>3, OneOperation
<1>5. Operations[t] = Operation(t)
  BY DEF Operations
<1>6. store' = store
  BY DEF SearchAndInsert, storeVars
<1> QED
  BY <1>1, <1>2, <1>4, <1>5, <1>6 DEF Operations, Contract!CallSearch, Contract!Idle

(* The call of a pop.                                                      *)
LEMMA PopCallRefines ==
  ASSUME TypeOK, NEW t \in Thread, PopVector(t)
  PROVE  Contract!CallPop(t)
<1>1. Operation(t) = [kind |-> "idle"]
  BY DEF PopVector, Operation
<1>2. Operation(t)' = [kind |-> "pop"]
  BY DEF PopVector, Operation, Goto, TypeOK
<1>3. \A u \in Thread \ {t} : Unchanged(u)
  BY DEF PopVector, Unchanged, Goto, TypeOK
<1>4. Operations' = [Operations EXCEPT ![t] = Operation(t)']
  BY <1>3, OneOperation
<1>5. Operations[t] = Operation(t)
  BY DEF Operations
<1>6. store' = store
  BY DEF PopVector, storeVars
<1> QED
  BY <1>1, <1>2, <1>4, <1>5, <1>6 DEF Operations, Contract!CallPop, Contract!Idle

(* A decision, on the variables of a VectorStore.                          *)
LEMMA Decides ==
  ASSUME NEW t \in Thread, NEW v \in Vector, NEW b \in BOOLEAN,
         Operations[t] = [kind |-> "search", vector |-> v, noinsert |-> b],
         Operations' = [Operations EXCEPT ![t] =
            [kind |-> "searched", vector |-> v, found |-> v \in store]],
         store' = IF b THEN store ELSE store \cup {v}
  PROVE  Contract!DecideSearch(t)
<1> DEFINE cells == [w \in Vector |-> {w}]
<1>1. cells[v] = {v}
  OBVIOUS
<1>2. (cells[v] \subseteq store) = (v \in store)
  BY <1>1
<1>3. /\ Operations[t].kind = "search"
      /\ Operations[t].vector = v
      /\ Operations[t].noinsert = b
  OBVIOUS
<1>4. store' = IF Operations[t].noinsert THEN store ELSE store \cup cells[v]
  BY <1>1, <1>3
<1>5. Operations' = [Operations EXCEPT ![t] =
         [kind |-> "searched", vector |-> v, found |-> cells[v] \subseteq store]]
  BY <1>2
<1> HIDE DEF cells
<1>6. /\ Operations[t].kind = "search"
      /\ Operations' = [Operations EXCEPT ![t] =
            [kind |-> "searched", vector |-> Operations[t].vector,
             found |-> cells[Operations[t].vector] \subseteq store]]
      /\ store' = IF Operations[t].noinsert THEN store
                  ELSE store \cup cells[Operations[t].vector]
  BY <1>3, <1>4, <1>5
<1> QED
  BY <1>6, Zenon DEF Operations, cells, Contract!DecideSearch

(* The first look, if it is the last one.                                  *)
LEMMA CountRefines ==
  ASSUME TypeOK, NEW t \in Thread, Count(t),
         ci[t] \in store \/ noinsert[t]
  PROVE  Contract!DecideSearch(t)
<1>1. Operation(t) = [kind |-> "search", vector |-> ci[t], noinsert |-> noinsert[t]]
  BY DEF Count, Operation
<1>2. Operation(t)' = 
             [kind |-> "searched", vector |-> ci[t], found |-> ci[t] \in store]
  BY DEF Count, Operation, Goto, TypeOK
<1>3. \A u \in Thread \ {t} : Unchanged(u)
  BY DEF Count, Unchanged, Goto, TypeOK
<1>4. Operations' = [Operations EXCEPT ![t] = Operation(t)']
  BY <1>3, OneOperation
<1>5. Operations[t] = Operation(t)
  BY DEF Operations
<1>6. store' = IF noinsert[t] THEN store ELSE store \cup {ci[t]}
  BY DEF Count, storeVars
<1>7. ci[t] \in Vector
  BY DEF TypeOK
<1> QED
  <2>1. noinsert[t] \in BOOLEAN
    BY DEF TypeOK
  <2> QED
    BY <1>1, <1>2, <1>4, <1>5, <1>6, <1>7, <2>1, Decides

(* The second look.                                                        *)
LEMMA InsertRefines ==
  ASSUME TypeOK, NEW t \in Thread, Insert(t), ~noinsert[t]
  PROVE  Contract!DecideSearch(t)
<1>1. Operation(t) = [kind |-> "search", vector |-> ci[t], noinsert |-> noinsert[t]]
  BY DEF Insert, Operation
<1>2. Operation(t)' = 
             [kind |-> "searched", vector |-> ci[t], found |-> ci[t] \in store]
  BY DEF Insert, Operation, Goto, TypeOK
<1>3. \A u \in Thread \ {t} : Unchanged(u)
  BY DEF Insert, Unchanged, Goto, TypeOK
<1>4. Operations' = [Operations EXCEPT ![t] = Operation(t)']
  BY <1>3, OneOperation
<1>5. Operations[t] = Operation(t)
  BY DEF Operations
<1>6. store' = IF noinsert[t] THEN store ELSE store \cup {ci[t]}
  BY DEF Insert
<1>7. ci[t] \in Vector
  BY DEF TypeOK
<1> QED
  <2>1. noinsert[t] \in BOOLEAN
    BY DEF TypeOK
  <2> QED
    BY <1>1, <1>2, <1>4, <1>5, <1>6, <1>7, <2>1, Decides

(* A pop takes its vector, or tells that there is none.                    *)
LEMMA PopRefines ==
  ASSUME TypeOK, NEW t \in Thread, Pop(t)
  PROVE  Contract!DecidePop(t)
<1>1. Operation(t) = [kind |-> "pop"]
  BY DEF Pop, Operation
<1>2. \A u \in Thread \ {t} : Unchanged(u)
  BY DEF Pop, Unchanged, Goto, TypeOK
<1>3. Operations' = [Operations EXCEPT ![t] = Operation(t)']
  BY <1>2, OneOperation
<1>4. Operations[t].kind = "pop"
  BY <1>1 DEF Operations
<1>5. CASE store = {}
  <2>1. Operation(t)' = [kind |-> "empty"] /\ store' = store
    BY <1>5 DEF Pop, Operation, Goto, TypeOK
  <2> QED
    BY <1>3, <1>4, <1>5, <2>1 DEF Operations, Contract!DecidePop
<1>6. CASE store # {}
  <2>1. PICK v \in store : ci' = [ci EXCEPT ![t] = v] /\ store' = store \ {v}
    BY <1>6 DEF Pop
  <2>2. v \in Vector
    BY DEF TypeOK
  <2>3. Operation(t)' = [kind |-> "popped", vector |-> v]
    BY <1>6, <2>1 DEF Pop, Operation, Goto, TypeOK
  <2> DEFINE cells == [w \in Vector |-> {w}]
  <2>4. cells[v] = {v}
    BY <2>2
  <2>5. cells[v] \subseteq store /\ store' = store \ cells[v]
    BY <2>1, <2>4
  <2>6. Operations' = [Operations EXCEPT ![t] = [kind |-> "popped", vector |-> v]]
    BY <1>3, <2>3
  <2> QED
    BY <1>4, <2>2, <2>5, <2>6, Zenon DEF Operations, Contract!DecidePop
<1> QED
  BY <1>5, <1>6

(* The return of an operation.                                             *)
LEMMA ReturnRefines ==
  ASSUME TypeOK, NEW t \in Thread, Return(t)
  PROVE  Contract!Return(t)
<1>1. Operation(t).kind \in {"searched", "popped", "empty"}
  BY DEF Return, Operation
<1>2. Operation(t)' = [kind |-> "idle"]
  BY DEF Return, Operation, Goto, TypeOK
<1>3. \A u \in Thread \ {t} : Unchanged(u)
  BY DEF Return, Unchanged, Goto, TypeOK
<1>4. Operations' = [Operations EXCEPT ![t] = Operation(t)']
  BY <1>3, OneOperation
<1>5. Operations[t] = Operation(t)
  BY DEF Operations
<1>6. store' = store
  BY DEF Return, storeVars
<1> QED
  BY <1>1, <1>2, <1>4, <1>5, <1>6 DEF Operations, Contract!Return, Contract!Idle

(* The steps that a VectorStore does not see.                              *)
Hidden(t) ==
  \/ ReadLock(t)    \/ ReadUnlock(t) \/ WriteLock(t) \/ WriteUnlock(t)
  \/ PopWriteLock(t) \/ PopWriteUnlock(t)
  \/ Count(t) /\ ~(ci[t] \in store \/ noinsert[t])

(* They change neither the store nor an operation.                         *)
LEMMA HiddenStutters ==
  ASSUME TypeOK, NEW t \in Thread, Hidden(t)
  PROVE  UNCHANGED <<store, Operations>>
<1>1. store' = store
  BY DEF Hidden, ReadLock, ReadUnlock, WriteLock, WriteUnlock, PopWriteLock,
         PopWriteUnlock, Count, storeVars
<1>2. \A u \in Thread \ {t} : Unchanged(u)
  BY DEF Hidden, ReadLock, ReadUnlock, WriteLock, WriteUnlock, PopWriteLock,
         PopWriteUnlock, Count, Unchanged, Goto, TypeOK
<1>3. CASE ReadLock(t)
  BY <1>1, <1>2, <1>3, Stutters DEF ReadLock, Operation, Goto, TypeOK
<1>4. CASE ReadUnlock(t)
  BY <1>1, <1>2, <1>4, Stutters DEF ReadUnlock, Operation, Goto, TypeOK
<1>5. CASE WriteLock(t)
  BY <1>1, <1>2, <1>5, Stutters DEF WriteLock, Operation, Goto, TypeOK
<1>6. CASE WriteUnlock(t)
  BY <1>1, <1>2, <1>6, Stutters DEF WriteUnlock, Operation, Goto, TypeOK
<1>7. CASE PopWriteLock(t)
  BY <1>1, <1>2, <1>7, Stutters DEF PopWriteLock, Operation, Goto, TypeOK
<1>8. CASE PopWriteUnlock(t)
  BY <1>1, <1>2, <1>8, Stutters DEF PopWriteUnlock, Operation, Goto, TypeOK
<1>9. CASE Count(t) /\ ~(ci[t] \in store \/ noinsert[t])
  BY <1>1, <1>2, <1>9, Stutters DEF Count, Operation, Goto, TypeOK
<1> QED
  BY <1>3, <1>4, <1>5, <1>6, <1>7, <1>8, <1>9 DEF Hidden

(* A search that must not insert never comes to the second look.           *)
InsertAsked == \A t \in Thread : pc[t] \in {"wrlock", "insert"} => ~noinsert[t]

(* Every step keeps it that way.                                           *)
LEMMA NextInsertAsked ==
  TypeOK /\ InsertAsked /\ [Next]_vars => InsertAsked'
<1> SUFFICES ASSUME TypeOK, InsertAsked, [Next]_vars,
                    NEW t \in Thread, pc'[t] \in {"wrlock", "insert"}
             PROVE  ~noinsert'[t]
  BY DEF InsertAsked
<1>1. CASE UNCHANGED vars
  BY <1>1 DEF InsertAsked, vars, threadVars
<1>2. CASE Next
  <2>1. PICK u \in Thread : Call(u) \/ Step(u) \/ Return(u)
    BY <1>2 DEF Next
  <2>2. CASE u # t
    <3>1. pc'[t] = pc[t] /\ noinsert'[t] = noinsert[t]
      BY <2>1, <2>2 DEF Call, Step, Return, SearchAndInsert, PopVector, ReadLock,
         Count, ReadUnlock, WriteLock, Insert, WriteUnlock, PopWriteLock, Pop,
         PopWriteUnlock, Goto, TypeOK
    <3> QED
      BY <3>1 DEF InsertAsked
  <2>3. CASE u = t
    BY <2>1, <2>3 DEF Call, Step, Return, SearchAndInsert, PopVector, ReadLock,
       Count, ReadUnlock, WriteLock, Insert, WriteUnlock, PopWriteLock, Pop,
       PopWriteUnlock, Goto, TypeOK, InsertAsked
  <2> QED
    BY <2>2, <2>3
<1> QED
  BY <1>1, <1>2

(* Every step is one of a VectorStore, or none.                            *)
LEMMA NextRefines ==
  TypeOK /\ InsertAsked /\ [Next]_vars
    => \/ Contract!AbstractNext
       \/ UNCHANGED <<store, Operations>>
<1> SUFFICES ASSUME TypeOK, InsertAsked, [Next]_vars
             PROVE  \/ Contract!AbstractNext
                    \/ UNCHANGED <<store, Operations>>
  OBVIOUS
<1>1. CASE UNCHANGED vars
  BY <1>1 DEF vars, storeVars, threadVars, Operations, Operation
<1>2. CASE Next
  <2>1. PICK t \in Thread : Call(t) \/ Step(t) \/ Return(t)
    BY <1>2 DEF Next
  <2>2. CASE Call(t)
    BY <2>2, SearchRefines, PopCallRefines DEF Call, Contract!AbstractNext
  <2>3. CASE Hidden(t)
    BY <2>3, HiddenStutters
  <2>4. CASE Count(t) /\ ~Hidden(t)
    BY <2>4, CountRefines DEF Hidden, Contract!AbstractNext
  <2>5. CASE Insert(t)
    <3>1. ~noinsert[t]
      BY <2>5 DEF Insert, InsertAsked
    <3> QED
      BY <2>5, <3>1, InsertRefines DEF Contract!AbstractNext
  <2>6. CASE Pop(t)
    BY <2>6, PopRefines DEF Contract!AbstractNext
  <2>7. CASE Return(t)
    BY <2>7, ReturnRefines DEF Contract!AbstractNext
  <2> QED
    BY <2>1, <2>2, <2>3, <2>4, <2>5, <2>6, <2>7 DEF Step, Hidden
<1> QED
  BY <1>1, <1>2

(* The STL store is a VectorStore (VSTLStore.inc 75-117): however the two  *)
(* looks of a search interleave with other insertions and pops, every      *)
(* operation takes effect at one moment between its call and its return.   *)
THEOREM Refinement == Spec => ImplementsVectorStore
<1>1. Init => TypeOK /\ InsertAsked
  BY InitTypeOK DEF Init, InsertAsked
<1>2. TypeOK /\ InsertAsked /\ [Next]_vars => (TypeOK /\ InsertAsked)'
  BY NextTypeOK, NextInsertAsked
<1>3. TypeOK /\ InsertAsked /\ [Next]_vars => [Contract!AbstractNext]_(Contract!avars)
  BY NextRefines DEF Contract!avars, Operations
<1>4. Init => Contract!AbstractInit
  BY InitRefines
<1> QED
  BY <1>1, <1>2, <1>3, <1>4, PTL DEF Spec, ImplementsVectorStore, Contract!AbstractSpec
-----------------------------------------------------------------------------
(* PluginStore.  A new marking is in the store from the second look of its *)
(* thread on, and in the thread's counter from its return on.  In between  *)
(* the thread stands for it.                                               *)
Answers(t) == pc[t] \in {"wrunlock", "return"} /\ ~ret[t]

Found == [t \in Thread |-> markings[t] + (IF Answers(t) THEN 1 ELSE 0)]

PluginInv ==
  /\ TypeOK
  /\ markings \in [Thread -> Nat]
  /\ \A t \in Thread : ~noinsert[t] /\ pc[t] \notin {"popwrlock", "pop", "popwrunlock", "popreturn"}
  /\ IsFiniteSet(store)
  /\ Cardinality(store) = SumFunction(Found)

LEMMA FoundType ==
  ASSUME markings \in [Thread -> Nat]
  PROVE  Found \in [Thread -> Int] /\ Found' = [t \in Thread |-> Found'[t]]
  BY DEF Found

(* A step of thread t that leaves the others alone moves the sum by what   *)
(* it changes at t.                                                        *)
LEMMA FoundMoves ==
  ASSUME markings \in [Thread -> Nat], NEW t \in Thread, NEW d \in Int,
         \A u \in Thread \ {t} : /\ markings'[u] = markings[u]
                                 /\ Answers(u)' = Answers(u),
         Found'[t] = Found[t] + d
  PROVE  SumFunction(Found)' = SumFunction(Found) + d /\ SumFunction(Found) \in Int
<1>1. Found \in [Thread -> Int] /\ IsFiniteSet(Thread)
  BY FoundType, CallsAssumption
<1>2. \A u \in Thread \ {t} : Found'[u] = Found[u]
  BY DEF Found
<1>3. Found' = [Found EXCEPT ![t] = Found[t] + d]
  <2>1. Found' = [u \in Thread |-> Found'[u]]
    BY DEF Found
  <2> HIDE DEF Found
  <2>2. \A u \in Thread : Found'[u] = [Found EXCEPT ![t] = Found[t] + d][u]
    BY <1>1, <1>2
  <2> QED BY <1>1, <2>1, <2>2
<1>4. Found[t] \in Int /\ Found[t] + d \in Int
  BY <1>1
<1>5. SumFunction([Found EXCEPT ![t] = Found[t] + d])
        = SumFunction(Found) - Found[t] + (Found[t] + d)
  BY <1>1, <1>4, SumExcept
<1>6. SumFunction(Found) \in Int
  BY <1>1, SumType
<1> QED BY <1>3, <1>4, <1>5, <1>6

(* In the beginning nothing is stored and nothing counted.                 *)
LEMMA InitPlugin == PluginInit => PluginInv
<1> SUFFICES ASSUME PluginInit PROVE PluginInv
  OBVIOUS
<1>1. TypeOK /\ markings \in [Thread -> Nat] /\ store = {}
  BY InitTypeOK DEF PluginInit, Init
<1>2. \A t \in Thread : ~noinsert[t] /\ pc[t] = "idle"
  BY DEF PluginInit, Init
<1>3. Found = [t \in Thread |-> 0]
  BY <1>2 DEF Found, Answers, PluginInit
<1>4. SumFunction(Found) = 0
  BY <1>3, SumOfZeros, CallsAssumption
<1>5. IsFiniteSet(store) /\ Cardinality(store) = 0
  BY <1>1, FS_EmptySet
<1> QED BY <1>1, <1>2, <1>4, <1>5 DEF PluginInv

(* The second look: a marking that was not there is stored, and the thread *)
(* stands for it.                                                          *)
LEMMA InsertPlugin ==
  ASSUME PluginInv, NEW t \in Thread, Insert(t), UNCHANGED markings
  PROVE  IsFiniteSet(store') /\ Cardinality(store') = SumFunction(Found)'
<1> DEFINE v == ci[t]
           d == IF v \in store THEN 0 ELSE 1
<1>1. /\ store' = store \cup {v} /\ pc[t] = "insert" /\ pc' = [pc EXCEPT ![t] = "wrunlock"]
      /\ ret' = [ret EXCEPT ![t] = v \in store]
  BY DEF Insert, Goto
<1>2. /\ IsFiniteSet(store) /\ Cardinality(store) = SumFunction(Found)
      /\ markings \in [Thread -> Nat]
      /\ pc \in [Thread -> Label] /\ ret \in [Thread -> BOOLEAN]
  BY DEF PluginInv, TypeOK
<1>3. IsFiniteSet(store') /\ Cardinality(store') = Cardinality(store) + d
  <2>1. CASE v \in store
    <3>1. store' = store
      BY <1>1, <2>1
    <3>2. Cardinality(store) \in Nat
      BY <1>2, FS_CardinalityType
    <3> QED BY <1>2, <2>1, <3>1, <3>2
  <2>2. CASE v \notin store
    BY <1>1, <1>2, <2>2, FS_AddElement
  <2> QED BY <2>1, <2>2
<1>4. \A u \in Thread \ {t} : markings'[u] = markings[u] /\ Answers(u)' = Answers(u)
  BY <1>1, <1>2 DEF Answers
<1>5. (Answers(t)' <=> v \notin store) /\ ~Answers(t)
  BY <1>1, <1>2 DEF Answers
<1>6. Found'[t] = Found[t] + d
  <2>1. markings[t] \in Nat /\ markings'[t] = markings[t]
    BY <1>2
  <2>2. /\ Found[t] = markings[t]
        /\ Found'[t] = markings'[t] + (IF v \notin store THEN 1 ELSE 0)
    <3>1. /\ Found[t] = markings[t] + (IF Answers(t) THEN 1 ELSE 0)
          /\ Found'[t] = markings'[t] + (IF Answers(t)' THEN 1 ELSE 0)
      BY DEF Found
    <3> QED BY <1>5, <2>1, <3>1
  <2> QED BY <2>1, <2>2
<1>7. d \in Int
  OBVIOUS
<1> HIDE DEF d, v
<1> QED BY <1>2, <1>3, <1>4, <1>6, <1>7, FoundMoves

(* The return: what the thread stood for is in its counter.                *)
LEMMA ReturnPlugin ==
  ASSUME PluginInv, NEW t \in Thread, PluginReturn(t)
  PROVE  /\ IsFiniteSet(store') /\ Cardinality(store') = SumFunction(Found)'
         /\ markings' \in [Thread -> Nat]
<1>1. /\ store' = store /\ pc[t] = "return" /\ pc' = [pc EXCEPT ![t] = "idle"]
      /\ ret' = [ret EXCEPT ![t] = FALSE]
      /\ markings' = IF ret[t] THEN markings ELSE [markings EXCEPT ![t] = @ + 1]
  BY DEF PluginReturn, Return, Goto, storeVars, PluginInv
<1>2. /\ IsFiniteSet(store) /\ Cardinality(store) = SumFunction(Found)
      /\ markings \in [Thread -> Nat]
      /\ pc \in [Thread -> Label] /\ ret \in [Thread -> BOOLEAN]
  BY DEF PluginInv, TypeOK
<1>3. \A u \in Thread \ {t} : markings'[u] = markings[u] /\ Answers(u)' = Answers(u)
  BY <1>1, <1>2 DEF Answers
<1>4. ~Answers(t)' /\ Answers(t) = ~ret[t]
  BY <1>1, <1>2 DEF Answers
<1>5. markings[t] \in Nat /\ markings'[t] = markings[t] + (IF ret[t] THEN 0 ELSE 1)
  BY <1>1, <1>2
<1>6. Found'[t] = Found[t] + 0
  BY <1>2, <1>4, <1>5 DEF Found
<1>7. SumFunction(Found)' = SumFunction(Found) + 0 /\ SumFunction(Found) \in Int
  BY <1>2, <1>3, <1>6, FoundMoves
<1>8. markings' \in [Thread -> Nat]
  BY <1>1, <1>2
<1> QED BY <1>1, <1>2, <1>7, <1>8

(* Every other step leaves the store and what threads stand for.           *)
LEMMA QuietPlugin ==
  ASSUME PluginInv, NEW t \in Thread, UNCHANGED <<store, markings>>,
         \A u \in Thread \ {t} : Answers(u)' = Answers(u),
         Answers(t)' = Answers(t)
  PROVE  IsFiniteSet(store') /\ Cardinality(store') = SumFunction(Found)'
<1>1. Found' = Found
  BY DEF Found
<1> QED BY <1>1 DEF PluginInv

(* Every step of the front end keeps the invariant.                        *)
LEMMA StepPlugin == PluginInv /\ [PluginNext]_allVars => PluginInv'
<1> SUFFICES ASSUME PluginInv, [PluginNext]_allVars PROVE PluginInv'
  OBVIOUS
<1> DEFINE Popping == {"popwrlock", "pop", "popwrunlock", "popreturn"}
           Right == IsFiniteSet(store') /\ Cardinality(store') = SumFunction(Found)'
<1>1. CASE UNCHANGED allVars
  BY <1>1 DEF allVars, vars, storeVars, threadVars, PluginInv, TypeOK, Found, Answers
<1>2. CASE PluginNext
  <2>1. PICK t \in Thread : \/ \E v \in Vector : PluginSearchAndInsert(t, v)
                           \/ PluginStep(t)
                           \/ PluginReturn(t)
    BY <1>2 DEF PluginNext
  <2>2. /\ TypeOK /\ markings \in [Thread -> Nat]
        /\ pc \in [Thread -> Label] /\ ret \in [Thread -> BOOLEAN]
        /\ noinsert \in [Thread -> BOOLEAN]
        /\ \A u \in Thread : ~noinsert[u] /\ pc[u] \notin Popping
    BY DEF PluginInv, TypeOK
  <2>3. TypeOK'
    <3>1. Next
      BY <2>1 DEF PluginSearchAndInsert, PluginStep, PluginReturn, Next, Call
    <3> QED BY <2>2, <3>1, NextTypeOK
  <2>4. CASE \E v \in Vector : PluginSearchAndInsert(t, v)
    <3>1. /\ UNCHANGED <<store, markings, ret>> /\ pc[t] = "idle"
          /\ pc' = [pc EXCEPT ![t] = "rdlock"]
          /\ noinsert' = [noinsert EXCEPT ![t] = FALSE]
      BY <2>4 DEF PluginSearchAndInsert, SearchAndInsert, Goto, storeVars
    <3>2. \A u \in Thread : ~noinsert'[u] /\ pc'[u] \notin Popping
      BY <2>2, <3>1
    <3>3. Answers(t)' = Answers(t) /\ \A u \in Thread \ {t} : Answers(u)' = Answers(u)
      BY <2>2, <3>1 DEF Answers
    <3>4. Right
      BY <3>1, <3>3, QuietPlugin
    <3> QED BY <2>2, <2>3, <3>1, <3>2, <3>4 DEF PluginInv
  <2>5. CASE PluginReturn(t)
    <3>1. /\ pc' = [pc EXCEPT ![t] = "idle"]
          /\ noinsert' = [noinsert EXCEPT ![t] = FALSE]
      BY <2>5 DEF PluginReturn, Return, Goto
    <3>2. \A u \in Thread : ~noinsert'[u] /\ pc'[u] \notin Popping
      BY <2>2, <3>1
    <3> QED BY <2>3, <2>5, <3>2, ReturnPlugin DEF PluginInv
  <2>6. CASE PluginStep(t) /\ Insert(t)
    <3>1. /\ pc' = [pc EXCEPT ![t] = "wrunlock"] /\ UNCHANGED <<noinsert, markings>>
      BY <2>6 DEF PluginStep, Insert, Goto
    <3>2. \A u \in Thread : ~noinsert'[u] /\ pc'[u] \notin Popping
      BY <2>2, <3>1
    <3>3. Right
      BY <2>6, <3>1, InsertPlugin
    <3> QED BY <2>2, <2>3, <3>1, <3>2, <3>3 DEF PluginInv
  <2>7. CASE PluginStep(t) /\ ~Insert(t)
    <3>1. /\ UNCHANGED <<markings, noinsert, store>>
          /\ \/ /\ pc[t] \in {"rdlock", "count", "wrlock"}
                /\ pc'[t] \in {"count", "rdunlock", "insert"}
             \/ /\ pc[t] = "rdunlock"
                /\ pc'[t] = IF ret[t] THEN "return" ELSE "wrlock"
                /\ ret' = ret
             \/ /\ pc[t] = "wrunlock" /\ pc'[t] = "return"
                /\ ret' = ret
          /\ \A u \in Thread \ {t} : pc'[u] = pc[u] /\ ret'[u] = ret[u]
      <4>1. UNCHANGED markings
        BY <2>7 DEF PluginStep
      <4>2. \/ ReadLock(t) \/ Count(t) \/ ReadUnlock(t) \/ WriteLock(t) \/ WriteUnlock(t)
        BY <2>2, <2>7 DEF PluginStep, Step, PopWriteLock, Pop, PopWriteUnlock
      <4> QED BY <2>2, <4>1, <4>2
              DEF ReadLock, Count, ReadUnlock, WriteLock, WriteUnlock, Goto, storeVars
    <3>2. \A u \in Thread : ~noinsert'[u] /\ pc'[u] \notin Popping
      BY <2>2, <3>1
    <3>3. Answers(t)' = Answers(t) /\ \A u \in Thread \ {t} : Answers(u)' = Answers(u)
      BY <2>2, <3>1 DEF Answers
    <3>4. Right
      BY <3>1, <3>3, QuietPlugin
    <3> QED BY <2>2, <2>3, <3>1, <3>2, <3>4 DEF PluginInv
  <2> QED BY <2>1, <2>4, <2>5, <2>6, <2>7
<1> QED BY <1>1, <1>2

(* When nobody stands for a new marking the counters hold them all.        *)
LEMMA PluginCounts == PluginInv => NumberOfMarkingsExact
<1> SUFFICES ASSUME PluginInv, Quiet PROVE SumFunction(markings) = Cardinality(store)
  BY DEF NumberOfMarkingsExact, get_number_of_markings
<1>1. \A t \in Thread : ~Answers(t)
  BY DEF Quiet, Answers
<1>2. Found = markings
  BY <1>1 DEF Found, PluginInv
<1> QED BY <1>2 DEF PluginInv
-----------------------------------------------------------------------------
(* The Bloom filter.  What a thread knows of its vector only grows true:   *)
(* bits are set and never reset.                                           *)
BitAt(t, i) == HashValues[in[t]][i]

AllSet(t) == \A i \in 1 .. hash_functions : BitAt(t, i) \in filter

Knows(t) ==
  /\ in[t] = NULL <=> at[t] = "idle"
  /\ at[t] \in {"lock", "retest", "set", "unlock"} => ~noins[t]
  /\ answer[t] => at[t] = "return"
  /\ at[t] \in {"test", "lock", "retest", "set"} =>
       \A i \in 1 .. h[t] - 1 : BitAt(t, i) \in filter
  /\ at[t] = "unlock" => AllSet(t)
  /\ at[t] = "return" /\ (answer[t] \/ ~noins[t]) => AllSet(t)

BloomInv == Bloom!TypeOK /\ \A t \in Thread : Knows(t)

Stays(u) ==
  /\ at'[u] = at[u]
  /\ in'[u] = in[u]
  /\ noins'[u] = noins[u]
  /\ h'[u] = h[u]
  /\ answer'[u] = answer[u]

LEMMA OthersKnow ==
  ASSUME NEW u \in Thread, Stays(u), Knows(u), filter \subseteq filter'
  PROVE  Knows(u)'
  BY DEF Stays, Knows, AllSet, BitAt

(* The types a step needs.                                                 *)
LEMMA BloomTypes ==
  ASSUME Bloom!TypeOK
  PROVE  /\ hash_functions \in Nat \ {0}
         /\ filter \subseteq Bit
         /\ at \in [Thread -> Bloom!Label]
         /\ in \in [Thread -> BloomVector \cup {NULL}]
         /\ noins \in [Thread -> BOOLEAN]
         /\ h \in [Thread -> 1 .. hash_functions]
         /\ answer \in [Thread -> BOOLEAN]
         /\ \A t \in Thread : in[t] # NULL => \A i \in 1 .. hash_functions : BitAt(t, i) \in Bit
  BY BloomParameters DEF Bloom!TypeOK, Bloom!BloomAssumption, BitAt

(* The loop over the bits stays within its bounds.                         *)
LEMMA NextBitTypes ==
  ASSUME Bloom!TypeOK, NEW t \in Thread, Bloom!NextBit(t)
  PROVE  /\ h' \in [Thread -> 1 .. hash_functions] /\ answer' \in [Thread -> BOOLEAN]
         /\ at' = [at EXCEPT ![t] = "test"] \/ at' = [at EXCEPT ![t] = "return"]
<1>1. /\ hash_functions \in Nat \ {0} /\ h \in [Thread -> 1 .. hash_functions]
      /\ answer \in [Thread -> BOOLEAN]
  BY BloomTypes
<1>2. CASE /\ h[t] < hash_functions /\ h' = [h EXCEPT ![t] = h[t] + 1]
           /\ at' = [at EXCEPT ![t] = "test"] /\ answer' = answer
  <2>1. h[t] + 1 \in 1 .. hash_functions
    BY <1>1, <1>2
  <2> QED BY <1>1, <1>2, <2>1
<1>3. CASE /\ h' = h /\ at' = [at EXCEPT ![t] = "return"]
           /\ answer' = [answer EXCEPT ![t] = TRUE]
  BY <1>1, <1>3
<1> QED BY <1>2, <1>3 DEF Bloom!NextBit, Bloom!Goto

LEMMA BloomTypeSteps ==
  ASSUME BloomInv, Bloom!Next
  PROVE  Bloom!TypeOK'
<1>1. PICK t \in Thread : \/ \E v \in BloomVector, b \in BOOLEAN : Bloom!SearchAndInsert(t, v, b)
                          \/ Bloom!Step(t)
                          \/ Bloom!Return(t)
  BY DEF Bloom!Next
<1>2. Bloom!TypeOK
  BY DEF BloomInv
<1>3. ASSUME NEW v \in BloomVector, NEW b \in BOOLEAN, Bloom!SearchAndInsert(t, v, b)
      PROVE  Bloom!TypeOK'
  BY <1>2, <1>3, BloomTypes DEF Bloom!SearchAndInsert, Bloom!TypeOK, Bloom!Goto, Bloom!Label
<1>4. CASE Bloom!TestSet(t)
  <2>1. /\ h' \in [Thread -> 1 .. hash_functions] /\ answer' \in [Thread -> BOOLEAN]
        /\ at' = [at EXCEPT ![t] = "test"] \/ at' = [at EXCEPT ![t] = "return"]
    BY <1>2, <1>4, NextBitTypes DEF Bloom!TestSet
  <2>2. at' \in [Thread -> Bloom!Label]
    BY <1>2, <2>1 DEF Bloom!TypeOK, Bloom!Label
  <2>3. /\ mutex' = {u \in Thread : at'[u] \in {"retest", "set", "unlock"}}
        /\ \A u \in mutex' : mutex' = {u}
    BY <1>2, <1>4, <2>1 DEF Bloom!TestSet, Bloom!TypeOK
  <2> QED BY <1>2, <1>4, <2>1, <2>2, <2>3 DEF Bloom!TestSet, Bloom!TypeOK
<1>5. CASE Bloom!TestUnset(t)
  BY <1>2, <1>5, BloomTypes DEF Bloom!TestUnset, Bloom!TypeOK, Bloom!Goto, Bloom!Label
<1>6. CASE Bloom!Lock(t)
  BY <1>2, <1>6, BloomTypes DEF Bloom!Lock, Bloom!TypeOK, Bloom!Goto, Bloom!Label
<1>7. CASE Bloom!RetestSet(t)
  <2>1. /\ h' \in [Thread -> 1 .. hash_functions] /\ answer' \in [Thread -> BOOLEAN]
        /\ at' = [at EXCEPT ![t] = "test"] \/ at' = [at EXCEPT ![t] = "return"]
    BY <1>2, <1>7, NextBitTypes DEF Bloom!RetestSet
  <2>2. at' \in [Thread -> Bloom!Label]
    BY <1>2, <2>1 DEF Bloom!TypeOK, Bloom!Label
  <2>3. /\ mutex' = {u \in Thread : at'[u] \in {"retest", "set", "unlock"}}
        /\ \A u \in mutex' : mutex' = {u}
    BY <1>2, <1>7, <2>1 DEF Bloom!RetestSet, Bloom!TypeOK
  <2> QED BY <1>2, <1>7, <2>1, <2>2, <2>3 DEF Bloom!RetestSet, Bloom!TypeOK
<1>8. CASE Bloom!RetestUnset(t)
  BY <1>2, <1>8, BloomTypes DEF Bloom!RetestUnset, Bloom!TypeOK, Bloom!Goto, Bloom!Label
<1>9. CASE Bloom!SetBit(t)
  <2>1. Bloom!BitOf(t) \in Bit
    BY <1>9, BloomTypes DEF Bloom!SetBit, Bloom!BitOf, BloomInv, Knows, BitAt
  <2> QED BY <1>2, <1>9, <2>1, BloomTypes DEF Bloom!SetBit, Bloom!TypeOK, Bloom!Goto, Bloom!Label
<1>10. CASE Bloom!Unlock(t)
  BY <1>2, <1>10, BloomTypes DEF Bloom!Unlock, Bloom!TypeOK, Bloom!Goto, Bloom!Label
<1>11. CASE Bloom!Return(t)
  BY <1>2, <1>11, BloomTypes DEF Bloom!Return, Bloom!TypeOK, Bloom!Goto, Bloom!Label
<1> QED BY <1>1, <1>3, <1>4, <1>5, <1>6, <1>7, <1>8, <1>9, <1>10, <1>11 DEF Bloom!Step

(* A bit that is found set is known from then on.                          *)
LEMMA NextBitKnows ==
  ASSUME BloomInv, NEW t \in Thread, Bloom!NextBit(t), at[t] \in {"test", "retest"},
         BitAt(t, h[t]) \in filter, UNCHANGED <<filter, in, noins>>
  PROVE  Knows(t)' /\ \A u \in Thread \ {t} : Stays(u)
<1>1. /\ hash_functions \in Nat \ {0} /\ h \in [Thread -> 1 .. hash_functions]
      /\ at \in [Thread -> Bloom!Label] /\ answer \in [Thread -> BOOLEAN]
      /\ Knows(t)
  BY BloomTypes DEF BloomInv
<1>2. CASE /\ h[t] < hash_functions /\ h' = [h EXCEPT ![t] = @ + 1]
           /\ at' = [at EXCEPT ![t] = "test"] /\ answer' = answer
  <2>1. h'[t] = h[t] + 1 /\ at'[t] = "test" /\ h[t] \in Nat /\ answer'[t] = answer[t]
    BY <1>1, <1>2
  <2>2. \A i \in 1 .. h[t] : BitAt(t, i) \in filter
    <3> SUFFICES ASSUME NEW i \in 1 .. h[t], i # h[t] PROVE BitAt(t, i) \in filter
      OBVIOUS
    <3>1. i \in 1 .. h[t] - 1
      BY <2>1
    <3> QED BY <1>1, <3>1 DEF Knows
  <2>3. \A i \in 1 .. h'[t] - 1 : BitAt(t, i)' \in filter'
    <3>1. h'[t] - 1 = h[t]
      BY <2>1
    <3> QED BY <2>2, <3>1 DEF BitAt
  <2> QED BY <1>1, <1>2, <2>1, <2>3 DEF Knows, Stays
<1>3. CASE /\ h[t] = hash_functions /\ answer' = [answer EXCEPT ![t] = TRUE]
           /\ at' = [at EXCEPT ![t] = "return"] /\ h' = h
  <2>1. AllSet(t)
    <3> SUFFICES ASSUME NEW i \in 1 .. hash_functions, i # h[t] PROVE BitAt(t, i) \in filter
      BY <1>3 DEF AllSet
    <3>1. i \in 1 .. h[t] - 1
      BY <1>1, <1>3
    <3> QED BY <1>1, <3>1 DEF Knows
  <2> QED BY <1>1, <1>3, <2>1 DEF Knows, Stays, AllSet, BitAt
<1> QED BY <1>2, <1>3 DEF Bloom!NextBit, Bloom!Goto

(* Every step keeps the invariant.                                         *)
LEMMA BloomStep == BloomInv /\ [Bloom!Next]_(Bloom!vars) => BloomInv'
<1> SUFFICES ASSUME BloomInv, [Bloom!Next]_(Bloom!vars) PROVE BloomInv'
  OBVIOUS
<1>1. CASE UNCHANGED Bloom!vars
  BY <1>1 DEF Bloom!vars, BloomInv, Bloom!TypeOK, Knows, AllSet, BitAt
<1>2. CASE Bloom!Next
  <2>1. PICK t \in Thread :
           \/ \E v \in BloomVector, b \in BOOLEAN : Bloom!SearchAndInsert(t, v, b)
           \/ Bloom!Step(t)
           \/ Bloom!Return(t)
    BY <1>2 DEF Bloom!Next
  <2>2. /\ hash_functions \in Nat \ {0} /\ h \in [Thread -> 1 .. hash_functions]
        /\ at \in [Thread -> Bloom!Label] /\ answer \in [Thread -> BOOLEAN]
        /\ in \in [Thread -> BloomVector \cup {NULL}] /\ noins \in [Thread -> BOOLEAN]
        /\ Knows(t)
    BY BloomTypes DEF BloomInv
  <2> DEFINE Right == Knows(t)' /\ filter \subseteq filter' /\ \A u \in Thread \ {t} : Stays(u)
  <2>3. ASSUME NEW v \in BloomVector, NEW b \in BOOLEAN, Bloom!SearchAndInsert(t, v, b)
        PROVE  Right
    <3>1. /\ at' = [at EXCEPT ![t] = "test"] /\ in' = [in EXCEPT ![t] = v]
          /\ noins' = [noins EXCEPT ![t] = b] /\ h' = [h EXCEPT ![t] = 1]
          /\ answer' = answer /\ filter' = filter /\ at[t] = "idle" /\ v # NULL
      BY <2>3, BloomParameters DEF Bloom!SearchAndInsert, Bloom!Goto, Bloom!BloomAssumption
    <3>2. \A i \in 1 .. h'[t] - 1 : FALSE
      BY <2>2, <3>1
    <3> QED BY <2>2, <3>1, <3>2 DEF Knows, Stays
  <2>4. ASSUME Bloom!TestSet(t) PROVE Right
    <3>1. /\ Bloom!NextBit(t) /\ at[t] = "test" /\ BitAt(t, h[t]) \in filter
          /\ UNCHANGED <<filter, in, noins>>
      BY <2>4 DEF Bloom!TestSet, Bloom!BitOf, BitAt
    <3> QED BY <3>1, NextBitKnows
  <2>5. ASSUME Bloom!TestUnset(t) PROVE Right
    <3>1. /\ UNCHANGED <<filter, in, noins, h, answer>> /\ at[t] = "test"
          /\ at' = [at EXCEPT ![t] = IF noins[t] THEN "return" ELSE "lock"]
      BY <2>2, <2>5 DEF Bloom!TestUnset, Bloom!Goto
    <3> QED BY <2>2, <3>1 DEF Knows, Stays, BitAt
  <2>6. ASSUME Bloom!Lock(t) PROVE Right
    <3>1. /\ UNCHANGED <<filter, in, noins, h, answer>> /\ at[t] = "lock"
          /\ at' = [at EXCEPT ![t] = "retest"]
      BY <2>6 DEF Bloom!Lock, Bloom!Goto
    <3> QED BY <2>2, <3>1 DEF Knows, Stays, BitAt
  <2>7. ASSUME Bloom!RetestSet(t) PROVE Right
    <3>1. /\ Bloom!NextBit(t) /\ at[t] = "retest" /\ BitAt(t, h[t]) \in filter
          /\ UNCHANGED <<filter, in, noins>>
      BY <2>7 DEF Bloom!RetestSet, Bloom!BitOf, BitAt
    <3> QED BY <3>1, NextBitKnows
  <2>8. ASSUME Bloom!RetestUnset(t) PROVE Right
    <3>1. /\ UNCHANGED <<filter, in, noins, h, answer>> /\ at[t] = "retest"
          /\ at' = [at EXCEPT ![t] = "set"]
      BY <2>8 DEF Bloom!RetestUnset, Bloom!Goto
    <3> QED BY <2>2, <3>1 DEF Knows, Stays, BitAt
  <2>9. ASSUME Bloom!SetBit(t) PROVE Right
    <3>1. /\ filter' = filter \cup {BitAt(t, h[t])} /\ UNCHANGED <<in, noins, answer>>
          /\ at[t] = "set"
          /\ \/ /\ h[t] < hash_functions /\ h' = [h EXCEPT ![t] = @ + 1] /\ at' = at
             \/ /\ h[t] = hash_functions /\ h' = h /\ at' = [at EXCEPT ![t] = "unlock"]
      BY <2>9 DEF Bloom!SetBit, Bloom!BitOf, Bloom!Goto, BitAt
    <3>2. \A i \in 1 .. h[t] : BitAt(t, i) \in filter'
      <4> SUFFICES ASSUME NEW i \in 1 .. h[t], i # h[t] PROVE BitAt(t, i) \in filter
        BY <3>1
      <4>1. i \in 1 .. h[t] - 1
        BY <2>2
      <4> QED BY <2>2, <3>1, <4>1 DEF Knows
    <3>3. CASE /\ h[t] < hash_functions /\ h' = [h EXCEPT ![t] = @ + 1] /\ at' = at
      <4>1. h'[t] - 1 = h[t]
        BY <2>2, <3>3
      <4>2. \A i \in 1 .. h'[t] - 1 : BitAt(t, i)' \in filter'
        BY <3>1, <3>2, <4>1 DEF BitAt
      <4> QED BY <2>2, <3>1, <3>3, <4>2 DEF Knows, Stays
    <3>4. CASE /\ h[t] = hash_functions /\ h' = h /\ at' = [at EXCEPT ![t] = "unlock"]
      <4>1. AllSet(t)'
        BY <3>1, <3>2, <3>4 DEF AllSet, BitAt
      <4> QED BY <2>2, <3>1, <3>4, <4>1 DEF Knows, Stays
    <3> QED BY <3>1, <3>3, <3>4
  <2>10. ASSUME Bloom!Unlock(t) PROVE Right
    <3>1. /\ UNCHANGED <<filter, in, noins, h, answer>> /\ at[t] = "unlock"
          /\ at' = [at EXCEPT ![t] = "return"]
      BY <2>10 DEF Bloom!Unlock, Bloom!Goto
    <3> QED BY <2>2, <3>1 DEF Knows, Stays, AllSet, BitAt
  <2>11. ASSUME Bloom!Return(t) PROVE Right
    <3>1. /\ at' = [at EXCEPT ![t] = "idle"] /\ in' = [in EXCEPT ![t] = NULL]
          /\ noins' = [noins EXCEPT ![t] = FALSE] /\ h' = [h EXCEPT ![t] = 1]
          /\ answer' = [answer EXCEPT ![t] = FALSE] /\ filter' = filter
      BY <2>11 DEF Bloom!Return, Bloom!Goto
    <3> QED BY <2>2, <3>1 DEF Knows, Stays
  <2> HIDE DEF Right
  <2>12. Right
    BY <2>1, <2>3, <2>4, <2>5, <2>6, <2>7, <2>8, <2>9, <2>10, <2>11 DEF Bloom!Step
  <2>13. \A u \in Thread : Knows(u)'
    BY <2>12, OthersKnow DEF Right, BloomInv
  <2> QED BY <1>2, <2>13, BloomTypeSteps DEF BloomInv
<1> QED BY <1>1, <1>2

(* Nothing is known in the beginning.                                      *)
LEMMA BloomBegins == Bloom!Init => BloomInv
<1> SUFFICES ASSUME Bloom!Init PROVE BloomInv
  OBVIOUS
<1>1. Bloom!TypeOK
  BY BloomParameters DEF Bloom!Init, Bloom!TypeOK, Bloom!Label, Bloom!BloomAssumption
<1> QED BY <1>1 DEF Bloom!Init, BloomInv, Knows

(* All the bits of a vector are set.                                       *)
LEMMA AllSetMeans ==
  ASSUME BloomInv, NEW t \in Thread, in[t] \in BloomVector
  PROVE  AllSet(t) <=> Bloom!BitsOf(in[t]) \subseteq filter
<1>1. DOMAIN HashValues[in[t]] = 1 .. hash_functions
  BY BloomParameters DEF Bloom!BloomAssumption
<1> QED BY <1>1 DEF AllSet, BitAt, Bloom!BitsOf, Bloom!Range

(* An answer stands on bits that are set.                                  *)
LEMMA BloomAnswers == BloomInv => Bloom!AnswerBacked
<1> SUFFICES ASSUME BloomInv, NEW t \in Thread,
                    at[t] = "return", answer[t] \/ ~noins[t]
             PROVE  Bloom!BitsOf(in[t]) \subseteq filter
  BY DEF Bloom!AnswerBacked
<1>1. in[t] \in BloomVector /\ AllSet(t)
  BY BloomTypes DEF BloomInv, Knows
<1> QED BY <1>1, AllSetMeans
-----------------------------------------------------------------------------
(* The Bloom filter as a VectorStore.  The cells of a vector are its bits; *)
(* those that a thread under the mutex has still to set are in the store   *)
(* from the moment it found the first of them unset.                       *)
BloomCells == [v \in BloomVector |-> Bloom!BitsOf(v)]

BloomContent == filter \cup Bloom!Pending

BloomOperations == [u \in Thread |-> Bloom!Operation(u)]

BloomSame == BloomContent' = BloomContent /\ BloomOperations' = BloomOperations

(* A step of thread t changes the operations at t at most.                 *)
LEMMA OneBloomOperation ==
  ASSUME NEW t \in Thread, \A u \in Thread \ {t} : Stays(u)
  PROVE  BloomOperations' = [BloomOperations EXCEPT ![t] = Bloom!Operation(t)']
<1> DEFINE F(u) == Bloom!Operation(u)
           G(u) == Bloom!Operation(u)'
<1>1. \A u \in Thread \ {t} : G(u) = F(u)
  BY DEF Stays, Bloom!Operation
<1>2. [u \in Thread |-> G(u)] = [[u \in Thread |-> F(u)] EXCEPT ![t] = G(t)]
  <2> HIDE DEF F, G
  <2> QED BY <1>1
<1> QED BY <1>2 DEF BloomOperations

(* Where a thread neither begins nor ends to set bits, nothing is pending  *)
(* that was not.                                                           *)
LEMMA PendingStays ==
  ASSUME NEW t \in Thread, \A u \in Thread \ {t} : Stays(u),
         at[t] # "set", at'[t] # "set"
  PROVE  Bloom!Pending' = Bloom!Pending
<1>1. {u \in Thread : at'[u] = "set"} = {u \in Thread : at[u] = "set"}
  BY DEF Stays
<1>2. \A u \in {u \in Thread : at[u] = "set"} : in'[u] = in[u]
  BY DEF Stays
<1> QED BY <1>1, <1>2 DEF Bloom!Pending

LEMMA PendingAlone ==
  ASSUME Bloom!TypeOK, NEW t \in Thread, at[t] \in {"retest", "set", "unlock"}
  PROVE  Bloom!Pending = IF at[t] = "set" THEN Bloom!BitsOf(in[t]) ELSE {}
<1>1. \A u \in Thread : at[u] \in {"retest", "set", "unlock"} => u = t
  BY DEF Bloom!TypeOK
<1>2. {u \in Thread : at[u] = "set"} = IF at[t] = "set" THEN {t} ELSE {}
  BY <1>1
<1> QED BY <1>2 DEF Bloom!Pending

(* A step that leaves the filter and the operation of its thread alone is  *)
(* a stuttering step.                                                      *)
LEMMA BloomStutters ==
  ASSUME NEW t \in Thread, \A u \in Thread \ {t} : Stays(u),
         at[t] # "set", at'[t] # "set", filter' = filter,
         Bloom!Operation(t)' = Bloom!Operation(t)
  PROVE  BloomSame
<1>1. \A u \in Thread : Bloom!Operation(u)' = Bloom!Operation(u)
  BY DEF Stays, Bloom!Operation
<1>2. Bloom!Pending' = Bloom!Pending
  BY PendingStays
<1> QED BY <1>1, <1>2 DEF BloomSame, BloomContent, BloomOperations

LEMMA BloomInitRefines == Bloom!Init => Bloom!Contract!AbstractInit
  BY DEF Bloom!Init, Bloom!Contract!AbstractInit, Bloom!Contract!Idle,
     Bloom!Operation, Bloom!Pending, Bloom!BitsOf

(* The call.                                                               *)
LEMMA BloomCallRefines ==
  ASSUME BloomInv, NEW t \in Thread, NEW v \in BloomVector, NEW b \in BOOLEAN,
         Bloom!SearchAndInsert(t, v, b)
  PROVE  Bloom!Contract!AbstractNext \/ BloomSame
<1>1. /\ at' = [at EXCEPT ![t] = "test"] /\ in' = [in EXCEPT ![t] = v]
      /\ noins' = [noins EXCEPT ![t] = b] /\ h' = [h EXCEPT ![t] = 1]
      /\ answer' = answer /\ filter' = filter /\ at[t] = "idle"
  BY DEF Bloom!SearchAndInsert, Bloom!Goto
<1>2. /\ at'[t] = "test" /\ in'[t] = v /\ noins'[t] = b
      /\ \A u \in Thread \ {t} : Stays(u)
  BY <1>1, BloomTypes DEF BloomInv, Stays
<1>3. Bloom!Operation(t) = Bloom!Contract!Idle
  BY <1>1 DEF Bloom!Operation, Bloom!Contract!Idle
<1>4. CASE b
  <2>1. Bloom!Operation(t)' = Bloom!Contract!Idle
    BY <1>2, <1>4 DEF Bloom!Operation, Bloom!Contract!Idle
  <2> QED BY <1>1, <1>2, <1>3, <2>1, BloomStutters
<1>5. CASE ~b
  <2>1. Bloom!Operation(t)' = [kind |-> "search", vector |-> v, noinsert |-> b]
    BY <1>2, <1>5 DEF Bloom!Operation
  <2>2. BloomOperations' = [BloomOperations EXCEPT ![t] = Bloom!Operation(t)']
    BY <1>2, OneBloomOperation
  <2>3. BloomContent' = BloomContent
    BY <1>1, <1>2, PendingStays DEF BloomContent
  <2>4. Bloom!Contract!CallSearch(t)
    BY <1>3, <2>1, <2>2, <2>3
       DEF Bloom!Contract!CallSearch, BloomOperations, BloomContent
  <2> QED BY <2>4 DEF Bloom!Contract!AbstractNext
<1> QED BY <1>4, <1>5

(* The decision: found or new.                                             *)
LEMMA BloomDecides ==
  ASSUME BloomInv, NEW t \in Thread, \A u \in Thread \ {t} : Stays(u),
         at[t] \in {"test", "lock", "retest"}, ~noins[t],
         at'[t] \in {"set", "return"}, ~noins'[t], in'[t] = in[t],
         answer'[t] <=> Bloom!BitsOf(in[t]) \subseteq BloomContent,
         answer'[t] \in BOOLEAN,
         BloomContent' = BloomContent \cup Bloom!BitsOf(in[t])
  PROVE  Bloom!Contract!AbstractNext
<1> DEFINE v == in[t]
<1>1. v \in BloomVector
  BY BloomTypes DEF BloomInv, Knows
<1>2. noins[t] = FALSE
  BY BloomTypes DEF BloomInv
<1>3. Bloom!Operation(t) = [kind |-> "search", vector |-> v, noinsert |-> FALSE]
  BY <1>2 DEF Bloom!Operation
<1>4. Bloom!Operation(t)' = [kind |-> "searched", vector |-> v, found |-> answer'[t]]
  BY DEF Bloom!Operation
<1>5. BloomOperations' = [BloomOperations EXCEPT ![t] = Bloom!Operation(t)']
  BY OneBloomOperation
<1>6. BloomCells[v] = Bloom!BitsOf(v) /\ BloomOperations[t] = Bloom!Operation(t)
  BY <1>1 DEF BloomCells, BloomOperations
<1> HIDE DEF v
<1>7. answer'[t] = (BloomCells[v] \subseteq BloomContent)
  BY <1>6 DEF v
<1>8. BloomContent' = BloomContent \cup BloomCells[v]
  BY <1>6 DEF v
<1>9. /\ BloomOperations[t].kind = "search" /\ BloomOperations[t].vector = v
      /\ BloomOperations[t].noinsert = FALSE
  BY <1>3, <1>6
<1>10. BloomOperations' = [BloomOperations EXCEPT ![t] =
          [kind |-> "searched", vector |-> v,
           found |-> BloomCells[v] \subseteq BloomContent]]
  BY <1>4, <1>5, <1>7
<1>11. Bloom!Contract!DecideSearch(t)
  BY <1>8, <1>9, <1>10
     DEF Bloom!Contract!DecideSearch, BloomOperations, BloomContent, BloomCells
<1> QED BY <1>11 DEF Bloom!Contract!AbstractNext

(* A bit that is set: the next one, or the vector is known.                *)
LEMMA BloomSetRefines ==
  ASSUME BloomInv, BloomInv', NEW t \in Thread,
         Bloom!TestSet(t) \/ Bloom!RetestSet(t)
  PROVE  Bloom!Contract!AbstractNext \/ BloomSame
<1>1. /\ at[t] \in {"test", "retest"} /\ Bloom!NextBit(t) /\ UNCHANGED <<filter, in, noins>>
      /\ BitAt(t, h[t]) \in filter
  BY DEF Bloom!TestSet, Bloom!RetestSet, Bloom!BitOf, BitAt
<1>2. \A u \in Thread \ {t} : Stays(u)
  BY <1>1, NextBitKnows
<1>3. \/ at'[t] = "test" /\ answer' = answer
      \/ at'[t] = "return" /\ answer'[t] = TRUE
  BY <1>1, BloomTypes DEF Bloom!NextBit, Bloom!Goto, BloomInv
<1>4. CASE at'[t] = "test" /\ answer' = answer
  <2>1. Bloom!Operation(t)' = Bloom!Operation(t)
    BY <1>1, <1>4 DEF Bloom!Operation
  <2> QED BY <1>1, <1>2, <1>4, <2>1, BloomStutters
<1>5. CASE at'[t] = "return" /\ answer'[t] = TRUE
  <2>1. Bloom!Pending' = Bloom!Pending
    BY <1>1, <1>2, <1>5, PendingStays
  <2>2. CASE noins[t]
    <3>1. Bloom!Operation(t)' = Bloom!Operation(t)
      BY <1>1, <2>2 DEF Bloom!Operation
    <3> QED BY <1>1, <1>2, <1>5, <3>1, BloomStutters
  <2>3. CASE ~noins[t]
    <3>1. Knows(t) /\ Knows(t)'
      BY DEF BloomInv
    <3>2. AllSet(t)
      BY <1>1, <1>5, <3>1 DEF Knows, AllSet, BitAt
    <3>3. in[t] \in BloomVector
      BY <1>1, BloomTypes DEF BloomInv, Knows
    <3>4. Bloom!BitsOf(in[t]) \subseteq filter
      BY <3>2, <3>3, AllSetMeans
    <3>5. BloomContent' = BloomContent \cup Bloom!BitsOf(in[t])
      BY <1>1, <2>1, <3>4 DEF BloomContent
    <3>6. answer'[t] <=> Bloom!BitsOf(in[t]) \subseteq BloomContent
      BY <1>5, <3>4 DEF BloomContent
    <3>7. ~noins'[t] /\ in'[t] = in[t] /\ answer'[t] \in BOOLEAN
      BY <1>1, <1>5, <2>3
    <3>8. at[t] \in {"test", "lock", "retest"} /\ at'[t] \in {"set", "return"}
      BY <1>1, <1>5
    <3> QED BY <1>2, <2>3, <3>5, <3>6, <3>7, <3>8, BloomDecides
  <2> QED BY <2>2, <2>3
<1> QED BY <1>3, <1>4, <1>5

(* A bit that is unset under the mutex: the vector is new.                 *)
LEMMA BloomUnsetRefines ==
  ASSUME BloomInv, BloomInv', NEW t \in Thread, Bloom!RetestUnset(t)
  PROVE  Bloom!Contract!AbstractNext
<1>1. /\ at[t] = "retest" /\ at' = [at EXCEPT ![t] = "set"] /\ BitAt(t, h[t]) \notin filter
      /\ UNCHANGED <<filter, in, noins, h, answer>>
  BY DEF Bloom!RetestUnset, Bloom!Goto, Bloom!BitOf, BitAt
<1>2. /\ Bloom!TypeOK /\ Bloom!TypeOK' /\ Knows(t)
      /\ at \in [Thread -> Bloom!Label] /\ h[t] \in 1 .. hash_functions
      /\ answer \in [Thread -> BOOLEAN]
  BY BloomTypes DEF BloomInv
<1>3. at'[t] = "set" /\ \A u \in Thread \ {t} : Stays(u)
  BY <1>1, <1>2 DEF Stays
<1>4. in[t] \in BloomVector
  BY <1>1, <1>2, BloomTypes DEF Knows
<1>5. Bloom!Pending = {}
  BY <1>1, <1>2, PendingAlone
<1>6. Bloom!Pending' = Bloom!BitsOf(in[t])
  <2>1. \A u \in Thread : at'[u] = "set" => u = t
    BY <1>2, <1>3 DEF Bloom!TypeOK
  <2>2. {u \in Thread : at'[u] = "set"} = {t}
    BY <1>3, <2>1
  <2> QED BY <1>1, <2>2 DEF Bloom!Pending
<1>7. ~(Bloom!BitsOf(in[t]) \subseteq BloomContent)
  <2>1. ~AllSet(t)
    BY <1>1, <1>2 DEF AllSet
  <2> QED BY <1>4, <1>5, <2>1, AllSetMeans DEF BloomContent
<1>8. BloomContent' = BloomContent \cup Bloom!BitsOf(in[t])
  BY <1>1, <1>5, <1>6 DEF BloomContent
<1>9. /\ ~noins[t] /\ ~noins'[t] /\ in'[t] = in[t] /\ ~answer'[t]
      /\ answer'[t] \in BOOLEAN
  BY <1>1, <1>2 DEF Knows
<1> QED BY <1>1, <1>3, <1>7, <1>8, <1>9, BloomDecides

(* Setting a bit: it counted as set already.                               *)
LEMMA BloomSetBitRefines ==
  ASSUME BloomInv, BloomInv', NEW t \in Thread, Bloom!SetBit(t)
  PROVE  BloomSame
<1>1. /\ filter' = filter \cup {BitAt(t, h[t])} /\ UNCHANGED <<in, noins, answer>>
      /\ at[t] = "set"
      /\ \/ at' = at /\ h' = [h EXCEPT ![t] = @ + 1]
         \/ at' = [at EXCEPT ![t] = "unlock"] /\ h' = h
  BY DEF Bloom!SetBit, Bloom!BitOf, Bloom!Goto, BitAt
<1>2. /\ Bloom!TypeOK /\ Bloom!TypeOK' /\ Knows(t) /\ Knows(t)'
      /\ at \in [Thread -> Bloom!Label] /\ h \in [Thread -> 1 .. hash_functions]
  BY BloomTypes DEF BloomInv
<1>3. /\ \A u \in Thread \ {t} : Stays(u)
      /\ at'[t] = "set" \/ at'[t] = "unlock"
  BY <1>1, <1>2 DEF Stays
<1>4. in[t] \in BloomVector
  BY <1>1, <1>2, BloomTypes DEF Knows
<1>5. Bloom!Pending = Bloom!BitsOf(in[t])
  BY <1>1, <1>2, PendingAlone
<1>6. BitAt(t, h[t]) \in Bloom!BitsOf(in[t])
  <2>1. DOMAIN HashValues[in[t]] = 1 .. hash_functions /\ h[t] \in 1 .. hash_functions
    BY <1>2, <1>4, BloomParameters DEF Bloom!BloomAssumption
  <2> QED BY <2>1 DEF BitAt, Bloom!BitsOf, Bloom!Range
<1>7. BloomContent' = BloomContent
  <2>1. CASE at'[t] = "set"
    <3>1. at' = at
      BY <1>1, <1>2, <2>1
    <3>2. Bloom!Pending' = Bloom!Pending
      BY <1>1, <3>1 DEF Bloom!Pending
    <3> QED BY <1>1, <1>5, <1>6, <3>2 DEF BloomContent
  <2>2. CASE at'[t] = "unlock"
    <3>1. \A u \in Thread : at'[u] \in {"retest", "set", "unlock"} => u = t
      BY <1>2, <2>2 DEF Bloom!TypeOK
    <3>2. {u \in Thread : at'[u] = "set"} = {}
      BY <2>2, <3>1
    <3>3. Bloom!Pending' = {}
      BY <3>2 DEF Bloom!Pending
    <3>4. Bloom!BitsOf(in[t]) \subseteq filter'
      <4>1. AllSet(t)'
        BY <1>2, <2>2 DEF Knows
      <4>2. DOMAIN HashValues[in[t]] = 1 .. hash_functions
        BY <1>4, BloomParameters DEF Bloom!BloomAssumption
      <4> QED BY <1>1, <4>1, <4>2 DEF AllSet, BitAt, Bloom!BitsOf, Bloom!Range
    <3> QED BY <1>1, <1>5, <1>6, <3>3, <3>4 DEF BloomContent
  <2> QED BY <1>3, <2>1, <2>2
<1>8. \A u \in Thread : Bloom!Operation(u)' = Bloom!Operation(u)
  <2>1. \A u \in Thread \ {t} : Bloom!Operation(u)' = Bloom!Operation(u)
    BY <1>3 DEF Stays, Bloom!Operation
  <2>2. Bloom!Operation(t)' = Bloom!Operation(t)
    BY <1>1, <1>3 DEF Bloom!Operation
  <2> QED BY <2>1, <2>2
<1> QED BY <1>7, <1>8 DEF BloomSame, BloomOperations

(* The return.                                                             *)
LEMMA BloomReturnRefines ==
  ASSUME BloomInv, NEW t \in Thread, Bloom!Return(t)
  PROVE  Bloom!Contract!AbstractNext \/ BloomSame
<1>1. /\ at[t] = "return" /\ at' = [at EXCEPT ![t] = "idle"] /\ in' = [in EXCEPT ![t] = NULL]
      /\ noins' = [noins EXCEPT ![t] = FALSE] /\ h' = [h EXCEPT ![t] = 1]
      /\ answer' = [answer EXCEPT ![t] = FALSE] /\ filter' = filter
  BY DEF Bloom!Return, Bloom!Goto
<1>2. at'[t] = "idle" /\ \A u \in Thread \ {t} : Stays(u)
  BY <1>1, BloomTypes DEF BloomInv, Stays
<1>3. Bloom!Operation(t)' = Bloom!Contract!Idle
  BY <1>2 DEF Bloom!Operation, Bloom!Contract!Idle
<1>4. CASE noins[t]
  <2>1. Bloom!Operation(t) = Bloom!Contract!Idle
    BY <1>4 DEF Bloom!Operation, Bloom!Contract!Idle
  <2> QED BY <1>1, <1>2, <1>3, <2>1, BloomStutters
<1>5. CASE ~noins[t]
  <2>1. Bloom!Operation(t).kind = "searched"
    BY <1>1, <1>5 DEF Bloom!Operation
  <2>2. BloomOperations' = [BloomOperations EXCEPT ![t] = Bloom!Contract!Idle]
    BY <1>2, <1>3, OneBloomOperation
  <2>3. BloomContent' = BloomContent
    BY <1>1, <1>2, PendingStays DEF BloomContent
  <2>4. Bloom!Contract!Return(t)
    BY <2>1, <2>2, <2>3 DEF Bloom!Contract!Return, BloomOperations, BloomContent
  <2> QED BY <2>4 DEF Bloom!Contract!AbstractNext
<1> QED BY <1>4, <1>5

(* The steps that the contract does not see.                               *)
LEMMA BloomHidden ==
  ASSUME BloomInv, NEW t \in Thread,
         Bloom!TestUnset(t) \/ Bloom!Lock(t) \/ Bloom!Unlock(t)
  PROVE  BloomSame
<1>1. /\ UNCHANGED <<filter, in, noins, h, answer>>
      /\ \/ /\ at[t] = "test"
            /\ at' = [at EXCEPT ![t] = IF noins[t] THEN "return" ELSE "lock"]
         \/ at[t] = "lock" /\ at' = [at EXCEPT ![t] = "retest"]
         \/ at[t] = "unlock" /\ at' = [at EXCEPT ![t] = "return"]
  BY DEF Bloom!TestUnset, Bloom!Lock, Bloom!Unlock, Bloom!Goto
<1>2. /\ \A u \in Thread \ {t} : Stays(u)
      /\ \/ at[t] = "test" /\ at'[t] = IF noins[t] THEN "return" ELSE "lock"
         \/ at[t] = "lock" /\ at'[t] = "retest"
         \/ at[t] = "unlock" /\ at'[t] = "return"
  BY <1>1, BloomTypes DEF BloomInv, Stays
<1>3. Bloom!Operation(t)' = Bloom!Operation(t)
  BY <1>1, <1>2 DEF Bloom!Operation
<1> QED BY <1>1, <1>2, <1>3, BloomStutters

(* Every step is a step of a VectorStore, or hidden.                       *)
LEMMA BloomNextRefines ==
  BloomInv /\ BloomInv' /\ [Bloom!Next]_(Bloom!vars)
    => [Bloom!Contract!AbstractNext]_(Bloom!Contract!avars)
<1> SUFFICES ASSUME BloomInv, BloomInv', [Bloom!Next]_(Bloom!vars)
             PROVE  Bloom!Contract!AbstractNext \/ BloomSame
  BY DEF BloomSame, BloomContent, BloomOperations, Bloom!Contract!avars
<1>1. CASE UNCHANGED Bloom!vars
  BY <1>1 DEF Bloom!vars, BloomSame, BloomContent, BloomOperations, Bloom!Pending,
     Bloom!Operation
<1>2. CASE Bloom!Next
  <2>1. PICK t \in Thread :
           \/ \E v \in BloomVector, b \in BOOLEAN : Bloom!SearchAndInsert(t, v, b)
           \/ Bloom!Step(t)
           \/ Bloom!Return(t)
    BY <1>2 DEF Bloom!Next
  <2> QED BY <2>1, BloomCallRefines, BloomSetRefines, BloomUnsetRefines,
             BloomSetBitRefines, BloomReturnRefines, BloomHidden DEF Bloom!Step
<1> QED BY <1>1, <1>2
-----------------------------------------------------------------------------
(* The stores as a search gets them: the invariant of the one there is.    *)
StoresInv ==
  /\ kind = "plugin" => PluginInv
  /\ BloomInv

LEMMA StoresSteps ==
  [StoresNext]_storesVars => /\ kind' = kind
                             /\ kind = "plugin" => [PluginNext]_allVars
                             /\ [Bloom!Next]_(Bloom!vars)
<1> SUFFICES ASSUME [StoresNext]_storesVars
             PROVE  /\ kind' = kind
                    /\ kind = "plugin" => [PluginNext]_allVars
                    /\ [Bloom!Next]_(Bloom!vars)
  OBVIOUS
<1> QED BY DEF StoresNext, StlStep, CountedNext, BloomNext, storesVars, pluginVars,
           bloomVars, Bloom!vars

LEMMA StoresInvariant == StoresSpec => []StoresInv
<1>1. StoresInit => StoresInv
  BY InitPlugin, BloomBegins DEF StoresInit, StoresInv
<1>2. StoresInv /\ [StoresNext]_storesVars => StoresInv'
  BY StoresSteps, StepPlugin, BloomStep DEF StoresInv
<1> QED BY <1>1, <1>2, PTL DEF StoresSpec

(* The counters of PluginStore (Store.h 63-73): whenever no thread is in a *)
(* call, their sum is the number of markings stored, however the searches  *)
(* of any number of threads for the same new markings interleaved.         *)
THEOREM MarkingsAreCounted == StoresSpec => []MarkingsCounted
  BY StoresInvariant, PluginCounts, PTL DEF StoresInv, MarkingsCounted

(* VBloomStore::searchAndInsert: when an insertion returns the vector is   *)
(* in the filter, and what is reported as known has all its bits set,      *)
(* although bits are tested outside the mutex, for any number of threads   *)
(* and vectors and two or more hash functions: with one, which the command *)
(* line accepts, a second hash value is written behind the thread's slot   *)
(* (VBloomStore.inc 85), and nothing is claimed.                           *)
THEOREM AnswersAreBacked == StoresSpec => []AnswerBacked
  BY StoresInvariant, BloomAnswers, PTL DEF StoresInv, AnswerBacked

(* The double-checked mutex of the Bloom filter: to the calls that insert  *)
(* each search takes effect at one moment between its call and its return, *)
(* and no two threads report the same vector as new.                       *)
THEOREM BloomRefinement == StoresSpec => BloomImplementsVectorStore
<1>1. StoresInit => Bloom!Contract!AbstractInit
  BY BloomInitRefines DEF StoresInit
<1>2. StoresInv /\ StoresInv' /\ [StoresNext]_storesVars
        => [Bloom!Contract!AbstractNext]_(Bloom!Contract!avars)
  BY StoresSteps, BloomNextRefines DEF StoresInv
<1> QED BY <1>1, <1>2, StoresInvariant, PTL
        DEF StoresSpec, BloomImplementsVectorStore, Bloom!ImplementsVectorStore,
            Bloom!Contract!AbstractSpec

(* The front end and the store behind it: whatever calls a search makes,   *)
(* the STL store answers them as a VectorStore, called directly or from    *)
(* PluginStore.                                                            *)
THEOREM FrontEndRefinement == StoresSpec => ImplementsVectorStore
<1>1. StoresInit => Init
  BY DEF StoresInit, PluginInit
<1>2. [StoresNext]_storesVars => [Next]_vars
  <2> SUFFICES ASSUME [StoresNext]_storesVars PROVE [Next]_vars
    OBVIOUS
  <2>1. CASE UNCHANGED storesVars
    BY <2>1 DEF storesVars, pluginVars, allVars
  <2>2. ASSUME NEW t \in Thread, StlStep(t) PROVE Next
    BY <2>2 DEF StlStep, Next
  <2>3. CASE CountedNext
    <3>1. PICK t \in Thread : \/ \E v \in Vector : PluginSearchAndInsert(t, v)
                              \/ PluginStep(t)
                              \/ PluginReturn(t)
      BY <2>3 DEF CountedNext, PluginNext
    <3>2. CASE \E v \in Vector : PluginSearchAndInsert(t, v)
      BY <3>2 DEF PluginSearchAndInsert, Next, Call
    <3> QED
      BY <3>1, <3>2 DEF PluginStep, PluginReturn, Next
  <2>4. CASE BloomNext
    BY <2>4 DEF BloomNext, pluginVars, allVars
  <2> QED BY <2>1, <2>2, <2>3, <2>4 DEF StoresNext
<1> QED BY <1>1, <1>2, Refinement, PTL DEF StoresSpec, Spec
=============================================================================
