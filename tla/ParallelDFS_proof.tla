------------------------- MODULE ParallelDFS_proof --------------------------
(***************************************************************************)
(* Proofs about ParallelDFS, for every state graph, every number of        *)
(* threads and every choice of fire lists.                                 *)
(***************************************************************************)
EXTENDS ParallelDFSInv, TLAPS, FiniteSetTheorems, SequenceTheorems
-----------------------------------------------------------------------------
(* Popping a sequence keeps its other elements.                            *)
LEMMA PopProperties ==
  ASSUME NEW S, NEW s \in Seq(S), s # <<>>
  PROVE  /\ Len(s) \in Nat \ {0}
         /\ Top(s) \in S
         /\ Pop(s) \in Seq(S)
         /\ Len(Pop(s)) = Len(s) - 1
         /\ DOMAIN Pop(s) = 1 .. (Len(s) - 1)
         /\ \A i \in 1 .. (Len(s) - 1) : Pop(s)[i] = s[i]
<1>1. Len(s) \in Nat \ {0}
  BY EmptySeq
<1>2. \A i \in 1 .. Len(s) : s[i] \in S
  BY ElementOfSeq
<1>3. Top(s) \in S
  BY <1>1, <1>2 DEF Top
<1>4. /\ Pop(s) \in Seq(S)
      /\ Len(Pop(s)) = Len(s) - 1
      /\ \A i \in 1 .. (Len(s) - 1) : Pop(s)[i] = s[i]
  <2>1. /\ SubSeq(s, 1, Len(s) - 1) \in Seq(S)
        /\ Len(SubSeq(s, 1, Len(s) - 1)) = IF 1 <= Len(s) - 1 THEN Len(s) - 1
                                           ELSE 0
        /\ \A i \in 1 .. (Len(s) - 1) : SubSeq(s, 1, Len(s) - 1)[i] = s[i]
    BY <1>1, <1>2
  <2>2. Pop(s) = SubSeq(s, 1, Len(s) - 1)
    BY DEF Pop
  <2>3. (IF 1 <= Len(s) - 1 THEN Len(s) - 1 ELSE 0) = Len(s) - 1
    <3>1. \A n \in Nat : n # 0 => (IF 1 <= n - 1 THEN n - 1 ELSE 0) = n - 1
      OBVIOUS
    <3> QED
      BY <1>1, <3>1
  <2> HIDE DEF Pop
  <2> QED
    BY ONLY <2>1, <2>2, <2>3
<1>5. DOMAIN Pop(s) = 1 .. (Len(s) - 1)
  BY <1>4, LenProperties
<1> QED
  BY <1>1, <1>3, <1>4, <1>5

(* A sequence of distinct threads has at most NumThreads elements, and all *)
(* threads when it has that many.                                          *)
LEMMA DistinctThreads ==
  ASSUME NEW s \in Seq(Thread),
         \A i, j \in DOMAIN s : s[i] = s[j] => i = j
  PROVE  /\ Len(s) <= NumThreads
         /\ Len(s) = NumThreads =>
               \A t \in Thread : \E i \in DOMAIN s : s[i] = t
<1>1. NumThreads \in Nat \ {0}
  BY NumThreadsAssumption DEF NumThreadsAssumption
<1>2. IsFiniteSet(Thread) /\ Cardinality(Thread) = NumThreads
  BY <1>1, FS_Interval DEF Thread
<1>3. DOMAIN s = 1 .. Len(s) /\ s \in [1 .. Len(s) -> Thread] /\ Len(s) \in Nat
  BY LenProperties
<1>4. s \in Injection(1 .. Len(s), Thread)
  BY <1>3 DEF Injection, IsInjective
<1>5. IsFiniteSet(1 .. Len(s)) /\ Cardinality(1 .. Len(s)) = Len(s)
  <2>1. \A n \in Nat : IsFiniteSet(1 .. n) /\ Cardinality(1 .. n) = n
    BY FS_Interval
  <2> QED
    BY <1>3, <2>1
<1>6. /\ Cardinality(1 .. Len(s)) <= Cardinality(Thread)
      /\ Cardinality(1 .. Len(s)) = Cardinality(Thread)
            <=> s \in Surjection(1 .. Len(s), Thread)
  BY <1>2, <1>4, FS_Injection
<1> QED
  BY <1>2, <1>3, <1>5, <1>6 DEF Surjection
-----------------------------------------------------------------------------
(* The labels of a thread that no other thread refers to.                  *)
Own == {"start", "insertInitial", "loop", "fire", "readNumSuspended",
        "pickReader", "resume", "suspend"}

(* A thread that works is not in suspended_threads, not a finder, not      *)
(* joined, and nobody hands work over to it.                               *)
LEMMA OwnFacts ==
  ASSUME Control, NEW t \in Thread, pc[t] \in Own
  PROVE  /\ ~InSuspended(t)
         /\ ~found[t]
         /\ ~(t < joined)
         /\ \A u \in Thread : HandingOver(u) => reader[u] # t
<1>1. ~InSuspended(t)
  BY DEF Control, SuspendedOK, Own
<1>2. ~found[t]
  BY DEF Control, FoundOK, Own
<1>3. ~(t < joined)
  BY DEF Control, JoinedOK, Own
<1>4. ASSUME NEW u \in Thread, HandingOver(u), reader[u] = t PROVE FALSE
  BY <1>4 DEF Control, HandOverToIdle, Own
<1> QED
  BY <1>1, <1>2, <1>3, <1>4

(* A step from one such label to another is none of Control's business.    *)
LEMMA OwnStep ==
  ASSUME Control, NEW t \in Thread, NEW l \in Own, pc[t] \in Own,
         pc' = [pc EXCEPT ![t] = l],
         UNCHANGED <<finished, suspended, sem, reader, posted, found, joined>>
  PROVE  Control'
<1>1. \A u \in Thread : pc'[u] = IF u = t THEN l ELSE pc[u]
  BY DEF Control, ControlType
<1>2. /\ ~InSuspended(t)
      /\ ~found[t]
      /\ ~(t < joined)
      /\ \A u \in Thread : HandingOver(u) => reader[u] # t
  BY OwnFacts
<1>3. ControlType'
  BY DEF Control, ControlType, Own, Label
<1>4. SuspendedOK'
  BY <1>1, <1>2 DEF Control, SuspendedOK, InSuspended
<1>5. HandOverToIdle'
  BY <1>1, <1>2 DEF Control, ControlType, HandOverToIdle, HandingOver, Own
<1>6. WakeUpExact'
  BY <1>1 DEF Control, WakeUpExact, HandingOver, Own
<1>7. NegativeEnd'
  BY <1>1 DEF Control, NegativeEnd, AllSuspended, InSuspended, SomeFound, Own
<1>8. FoundOK'
  BY <1>1, <1>2 DEF Control, FoundOK, Own
<1>9. WokenOK'
  BY <1>1 DEF Control, WokenOK, Given, InSuspended, Own
<1>10. JoinedOK'
  BY <1>1, <1>2 DEF Control, JoinedOK
<1> QED
  BY <1>3, <1>4, <1>5, <1>6, <1>7, <1>8, <1>9, <1>10 DEF Control

(* A thread that ends because the search is over.                          *)
LEMMA EndStep ==
  ASSUME Control, NEW t \in Thread, pc[t] \in {"loop", "resume", "woken"},
         finished, pc' = [pc EXCEPT ![t] = "done"],
         UNCHANGED <<finished, suspended, sem, reader, posted, found, joined>>
  PROVE  Control'
<1>1. \A u \in Thread : pc'[u] = IF u = t THEN "done" ELSE pc[u]
  BY DEF Control, ControlType
<1>2. ~found[t]
  BY DEF Control, FoundOK
<1>3. ControlType'
  BY DEF Control, ControlType, Label
<1>4. SuspendedOK'
  BY <1>1, <1>2 DEF Control, SuspendedOK, InSuspended
<1>5. HandOverToIdle'
  BY <1>1, <1>2 DEF Control, ControlType, HandOverToIdle, HandingOver
<1>6. WakeUpExact'
  BY DEF Control, WakeUpExact
<1>7. NegativeEnd'
  BY <1>1 DEF Control, NegativeEnd, AllSuspended, InSuspended, SomeFound
<1>8. FoundOK'
  BY <1>1, <1>2 DEF Control, FoundOK
<1>9. WokenOK'
  BY <1>1 DEF Control, WokenOK
<1>10. JoinedOK'
  BY <1>1 DEF Control, JoinedOK
<1> QED
  BY <1>3, <1>4, <1>5, <1>6, <1>7, <1>8, <1>9, <1>10 DEF Control

(* A thread that meets a goal.                                             *)
LEMMA FoundStep ==
  ASSUME Control, NEW t \in Thread, pc[t] \in {"start", "fire"},
         pc' = [pc EXCEPT ![t] = "announce"],
         found' = [found EXCEPT ![t] = TRUE],
         UNCHANGED <<finished, suspended, sem, reader, posted, joined>>
  PROVE  Control'
<1>1. \A u \in Thread : pc'[u] = IF u = t THEN "announce" ELSE pc[u]
  BY DEF Control, ControlType
<1>2. \A u \in Thread : found'[u] = IF u = t THEN TRUE ELSE found[u]
  BY DEF Control, ControlType
<1>3. /\ ~InSuspended(t)
      /\ ~(t < joined)
      /\ \A u \in Thread : HandingOver(u) => reader[u] # t
  BY OwnFacts DEF Own
<1>4. ControlType'
  BY DEF Control, ControlType, Label
<1>5. SuspendedOK'
  BY <1>1, <1>2, <1>3 DEF Control, SuspendedOK, InSuspended
<1>6. HandOverToIdle'
  BY <1>1, <1>2, <1>3 DEF Control, ControlType, HandOverToIdle, HandingOver
<1>7. WakeUpExact'
  BY <1>1 DEF Control, WakeUpExact, HandingOver
<1>8. NegativeEnd'
  BY <1>1, <1>2 DEF Control, NegativeEnd, AllSuspended, InSuspended, SomeFound
<1>9. FoundOK'
  BY <1>1, <1>2 DEF Control, FoundOK
<1>10. WokenOK'
  BY <1>1 DEF Control, WokenOK, Given, InSuspended
<1>11. JoinedOK'
  BY <1>1, <1>3 DEF Control, JoinedOK
<1> QED
  BY <1>4, <1>5, <1>6, <1>7, <1>8, <1>9, <1>10, <1>11 DEF Control

(* The thread picked is asleep and leaves the array; no other hand-over    *)
(* has it.                                                                 *)
LEMMA PickReaderControl ==
  ASSUME Control, NEW t \in Thread, PickReader(t)
  PROVE  Control'
<1>1. CASE suspended = <<>>
  <2>1. pc' = [pc EXCEPT ![t] = "loop"]
    BY <1>1 DEF PickReader, Expand, Goto
  <2>2. UNCHANGED <<finished, suspended, sem, reader, posted, found, joined>>
    BY <1>1 DEF PickReader, callerVars
  <2> QED
    BY <2>1, <2>2, OwnStep DEF PickReader, Own
<1>2. CASE suspended # <<>>
  <2> DEFINE r == Top(suspended)
  <2>1. /\ pc[t] = "pickReader"
        /\ reader' = [reader EXCEPT ![t] = r]
        /\ suspended' = Pop(suspended)
        /\ pc' = [pc EXCEPT ![t] = "copy"]
        /\ UNCHANGED <<finished, sem, posted, found, joined>>
    BY <1>2 DEF PickReader, Goto, callerVars
  <2>2. /\ Len(suspended) \in Nat \ {0}
        /\ r \in Thread
        /\ r = suspended[Len(suspended)]
        /\ suspended' \in Seq(Thread)
        /\ DOMAIN suspended = 1 .. Len(suspended)
        /\ DOMAIN suspended' = 1 .. (Len(suspended) - 1)
        /\ \A i \in 1 .. (Len(suspended) - 1) : suspended'[i] = suspended[i]
    BY <1>2, <2>1, PopProperties, LenProperties DEF Control, ControlType, Top
  <2>3. \A i, j \in DOMAIN suspended : suspended[i] = suspended[j] => i = j
    BY DEF Control, SuspendedOK
  <2>4. /\ \A i \in DOMAIN suspended : i \in DOMAIN suspended' \/ i = Len(suspended)
        /\ \A i \in DOMAIN suspended' : i \in DOMAIN suspended /\ i # Len(suspended)
        /\ Len(suspended) \in DOMAIN suspended
    BY <2>2
  <2> HIDE DEF r
  <2>5. \A u \in Thread : InSuspended(u)' <=> InSuspended(u) /\ u # r
    BY <2>2, <2>3, <2>4 DEF InSuspended
  <2>6. InSuspended(r)
    BY <2>2, <2>4 DEF InSuspended
  <2>7. /\ ~InSuspended(t)
        /\ ~found[t]
        /\ ~(t < joined)
        /\ \A u \in Thread : HandingOver(u) => reader[u] # t
    BY <2>1, OwnFacts DEF Own
  <2>8. \A u \in Thread : pc'[u] = IF u = t THEN "copy" ELSE pc[u]
    BY <2>1 DEF Control, ControlType
  <2>9. \A u \in Thread : reader'[u] = IF u = t THEN r ELSE reader[u]
    BY <2>1 DEF Control, ControlType
  <2>10. ~AllSuspended
    BY <2>7 DEF AllSuspended
  <2>11. r # t
    BY <2>6, <2>7
  <2>12. /\ \/ pc[r] = "wait"
            \/ finished /\ pc[r] \in {"woken", "done"}
         /\ ~found[r]
    BY <2>2, <2>6, <2>10 DEF Control, SuspendedOK, NegativeEnd
  <2>13. \A u \in Thread : HandingOver(u) => reader[u] # r
    BY <2>6 DEF Control, HandOverToIdle, InSuspended
  <2>14. \A u \in Thread : HandingOver(u)' <=> HandingOver(u) \/ u = t
    BY <2>1, <2>8 DEF HandingOver
  <2>15. ControlType'
    BY <2>1, <2>2 DEF Control, ControlType, Label
  <2>16. SuspendedOK'
    <3>1. \A i, j \in DOMAIN suspended' :
             suspended'[i] = suspended'[j] => i = j
      BY <2>2, <2>3, <2>4
    <3> QED
      BY <2>1, <2>5, <2>7, <2>8, <3>1 DEF Control, SuspendedOK
  <2>17. HandOverToIdle'
    <3> SUFFICES ASSUME NEW u \in Thread, HandingOver(u)'
                 PROVE  /\ \/ pc'[reader'[u]] = "wait"
                           \/ /\ finished'
                              /\ pc'[reader'[u]] \in {"woken", "done"}
                              /\ ~found'[reader'[u]]
                        /\ \A i \in DOMAIN suspended' :
                              suspended'[i] # reader'[u]
                        /\ \A v \in Thread \ {u} :
                              HandingOver(v)' => reader'[v] # reader'[u]
      BY DEF HandOverToIdle
    <3>1. CASE u = t
      <4>1. reader'[u] = r
        BY <2>9, <3>1
      <4>2. pc'[r] = pc[r]
        BY <2>2, <2>8, <2>11
      <4>3. \A i \in DOMAIN suspended' : suspended'[i] # r
        BY <2>2, <2>5 DEF InSuspended
      <4> QED
        BY <2>1, <2>9, <2>12, <2>13, <2>14, <3>1, <4>1, <4>2, <4>3
    <3>2. CASE u # t
      <4>1. HandingOver(u) /\ reader'[u] = reader[u] /\ reader[u] # t
            /\ reader[u] # r
        BY <2>7, <2>9, <2>13, <2>14, <3>2
      <4>2. reader[u] \in Thread
        BY DEF Control, ControlType
      <4>3. /\ \/ pc[reader[u]] = "wait"
               \/ finished /\ pc[reader[u]] \in {"woken", "done"}
                  /\ ~found[reader[u]]
            /\ \A i \in DOMAIN suspended : suspended[i] # reader[u]
            /\ \A v \in Thread \ {u} : HandingOver(v) => reader[v] # reader[u]
        BY <4>1 DEF Control, HandOverToIdle
      <4>4. \A i \in DOMAIN suspended' : suspended'[i] # reader[u]
        BY <2>2, <2>4, <4>3
      <4>5. \A v \in Thread \ {u} : HandingOver(v)' => reader'[v] # reader[u]
        BY <2>9, <2>14, <4>1, <4>3
      <4> QED
        BY <2>1, <2>8, <4>1, <4>2, <4>3, <4>4, <4>5
    <3> QED
      BY <3>1, <3>2
  <2>18. WakeUpExact'
    <3> SUFFICES ASSUME ~finished, NEW u \in Thread
                 PROVE  /\ sem[u] <= 1
                        /\ sem[u] = 1 <=>
                             /\ pc'[u] = "wait"
                             /\ ~InSuspended(u)'
                             /\ \A v \in Thread :
                                  ~(HandingOver(v)' /\ reader'[v] = u)
      BY <2>1 DEF WakeUpExact, InSuspended
    <3>1. /\ sem[u] <= 1
          /\ sem[u] = 1 <=> /\ pc[u] = "wait"
                            /\ ~InSuspended(u)
                            /\ \A v \in Thread :
                                 ~(HandingOver(v) /\ reader[v] = u)
      BY DEF Control, WakeUpExact, InSuspended
    <3>2. CASE u = r
      <4>1. sem[u] # 1
        BY <2>6, <3>1, <3>2
      <4>2. HandingOver(t)' /\ reader'[t] = u
        BY <2>9, <2>14, <3>2
      <4> QED
        BY <3>1, <4>1, <4>2
    <3>3. CASE u # r
      <4>1. ~HandingOver(t)
        BY <2>1 DEF HandingOver
      <4>2. \A v \in Thread : HandingOver(v)' /\ reader'[v] = u
                                 <=> HandingOver(v) /\ reader[v] = u
        BY <2>9, <2>14, <3>3, <4>1
      <4>3. (pc'[u] = "wait" <=> pc[u] = "wait")
            /\ (InSuspended(u)' <=> InSuspended(u))
        BY <2>1, <2>5, <2>8, <3>3
      <4> QED
        BY <3>1, <4>2, <4>3
    <3> QED
      BY <3>2, <3>3
  <2>19. NegativeEnd'
    BY <2>1, <2>8, <2>10 DEF Control, NegativeEnd, SomeFound
  <2>20. FoundOK'
    BY <2>1, <2>7, <2>8 DEF Control, FoundOK
  <2>21. WokenOK'
    BY <2>1, <2>5, <2>6, <2>8, <2>9 DEF Control, WokenOK, Given
  <2>22. JoinedOK'
    BY <2>1, <2>7, <2>8 DEF Control, JoinedOK
  <2> QED
    BY <2>15, <2>16, <2>17, <2>18, <2>19, <2>20, <2>21, <2>22 DEF Control
<1> QED
  BY <1>1, <1>2

(* While data is copied the reader stays asleep.                           *)
LEMMA CopyToReaderControl ==
  ASSUME Control, NEW t \in Thread, CopyToReader(t)
  PROVE  Control'
<1>1. /\ pc[t] = "copy"
      /\ pc' = [pc EXCEPT ![t] = "postReader"]
      /\ UNCHANGED <<finished, suspended, sem, reader, posted, found, joined>>
  BY DEF CopyToReader, Goto, sharedVars, callerVars
<1>2. \A u \in Thread : pc'[u] = IF u = t THEN "postReader" ELSE pc[u]
  BY <1>1 DEF Control, ControlType
<1>3. \A u \in Thread : HandingOver(u)' <=> HandingOver(u)
  BY <1>1, <1>2 DEF HandingOver
<1>4. ~InSuspended(t) /\ ~found[t] /\ ~(t < joined)
  BY <1>1 DEF Control, SuspendedOK, FoundOK, JoinedOK
<1>5. \A u \in Thread : InSuspended(u)' <=> InSuspended(u)
  BY <1>1 DEF InSuspended
<1>6. \A u \in Thread : HandingOver(u) => reader[u] # t
  BY <1>1 DEF Control, HandOverToIdle
<1>7. ControlType'
  BY <1>1 DEF Control, ControlType, Label
<1>8. SuspendedOK'
  BY <1>1, <1>2, <1>4, <1>5 DEF Control, SuspendedOK
<1>9. HandOverToIdle'
  BY <1>1, <1>2, <1>3, <1>6 DEF Control, ControlType, HandOverToIdle
<1>10. WakeUpExact'
  BY <1>1, <1>2, <1>3 DEF Control, WakeUpExact
<1>11. NegativeEnd'
  BY <1>1, <1>2, <1>5 DEF Control, NegativeEnd, AllSuspended, SomeFound
<1>12. FoundOK'
  BY <1>1, <1>2, <1>4 DEF Control, FoundOK
<1>13. WokenOK'
  BY <1>1, <1>2, <1>5 DEF Control, WokenOK, Given
<1>14. JoinedOK'
  BY <1>1, <1>2, <1>4 DEF Control, JoinedOK
<1> QED
  BY <1>7, <1>8, <1>9, <1>10, <1>11, <1>12, <1>13, <1>14 DEF Control

(* The post is the only one the reader gets before it wakes.               *)
LEMMA PostReaderControl ==
  ASSUME Control, NEW t \in Thread, PostReader(t)
  PROVE  Control'
<1> DEFINE r == reader[t]
<1>1. /\ pc[t] = "postReader"
      /\ pc' = [pc EXCEPT ![t] = "resume"]
      /\ sem' = [sem EXCEPT ![r] = @ + 1]
      /\ UNCHANGED <<finished, suspended, reader, posted, found, joined>>
  BY DEF PostReader, Goto, localVars, callerVars
<1>2. r \in Thread
  BY DEF Control, ControlType
<1>3. \A u \in Thread : pc'[u] = IF u = t THEN "resume" ELSE pc[u]
  BY <1>1 DEF Control, ControlType
<1>4. \A u \in Thread : sem'[u] = IF u = r THEN sem[u] + 1 ELSE sem[u]
  BY <1>1, <1>2 DEF Control, ControlType
<1>5. \A u \in Thread : HandingOver(u)' <=> HandingOver(u) /\ u # t
  BY <1>1, <1>3 DEF HandingOver
<1>6. ~InSuspended(t) /\ ~found[t] /\ ~(t < joined)
  BY <1>1 DEF Control, SuspendedOK, FoundOK, JoinedOK
<1>7. \A u \in Thread : InSuspended(u)' <=> InSuspended(u)
  BY <1>1 DEF InSuspended
<1>8. \A u \in Thread : HandingOver(u) => reader[u] # t
  BY <1>1 DEF Control, HandOverToIdle
<1>9. /\ \/ pc[r] = "wait"
         \/ finished
      /\ ~InSuspended(r)
      /\ \A u \in Thread \ {t} : HandingOver(u) => reader[u] # r
  BY <1>1 DEF Control, HandOverToIdle, HandingOver, InSuspended
<1>10. \A u \in Thread : sem[u] \in Nat
  BY DEF Control, ControlType
<1>11. HandingOver(t) /\ r # t
  BY <1>1, <1>8 DEF HandingOver
<1> HIDE DEF r
<1>12. ControlType'
  <2>1. sem' \in [Thread -> Nat]
    BY <1>1, <1>2 DEF Control, ControlType
  <2> QED
    BY <1>1, <2>1 DEF Control, ControlType, Label
<1>13. SuspendedOK'
  BY <1>1, <1>3, <1>6, <1>7 DEF Control, SuspendedOK
<1>14. HandOverToIdle'
  BY <1>1, <1>3, <1>5, <1>8 DEF Control, ControlType, HandOverToIdle
<1>15. WakeUpExact'
  <2> SUFFICES ASSUME ~finished, NEW u \in Thread
               PROVE  /\ sem'[u] <= 1
                      /\ sem'[u] = 1 <=>
                           /\ pc'[u] = "wait"
                           /\ ~InSuspended(u)
                           /\ \A v \in Thread :
                                ~(HandingOver(v)' /\ reader[v] = u)
    BY <1>1, <1>7 DEF WakeUpExact, InSuspended
  <2>1. /\ sem[u] <= 1
        /\ sem[u] = 1 <=> /\ pc[u] = "wait"
                          /\ ~InSuspended(u)
                          /\ \A v \in Thread :
                               ~(HandingOver(v) /\ reader[v] = u)
    BY DEF Control, WakeUpExact, InSuspended
  <2>2. CASE u = r
    <3>1. sem[u] = 0
      BY <1>10, <1>11, <2>1, <2>2 DEF r
    <3>2. sem'[u] = 1
      BY <1>4, <2>2, <3>1
    <3> QED
      BY <1>3, <1>5, <1>9, <1>11, <2>2, <3>2 DEF r
  <2>3. CASE u # r
    <3>1. \A v \in Thread : HandingOver(v)' /\ reader[v] = u
                               <=> HandingOver(v) /\ reader[v] = u
      BY <1>5, <2>3 DEF r
    <3>2. (pc'[u] = "wait" <=> pc[u] = "wait") /\ sem'[u] = sem[u]
      BY <1>1, <1>3, <1>4, <2>3
    <3> QED
      BY <2>1, <3>1, <3>2
  <2> QED
    BY <2>2, <2>3
<1>16. NegativeEnd'
  BY <1>1, <1>3, <1>7 DEF Control, NegativeEnd, AllSuspended, SomeFound
<1>17. FoundOK'
  BY <1>1, <1>3, <1>6 DEF Control, FoundOK
<1>18. WokenOK'
  BY <1>1, <1>3, <1>7 DEF Control, WokenOK, Given
<1>19. JoinedOK'
  BY <1>1, <1>3, <1>6 DEF Control, JoinedOK
<1> QED
  BY <1>12, <1>13, <1>14, <1>15, <1>16, <1>17, <1>18, <1>19 DEF Control

(* A thread enters the array once, and the last one announces the end.     *)
LEMMA SuspendControl ==
  ASSUME Control, NEW t \in Thread, Suspend(t)
  PROVE  Control'
<1> DEFINE l == IF Len(suspended') = NumThreads THEN "announce" ELSE "wait"
<1>1. /\ pc[t] = "suspend"
      /\ suspended' = Append(suspended, t)
      /\ pc' = [pc EXCEPT ![t] = l]
      /\ UNCHANGED <<finished, sem, reader, posted, found, joined>>
  BY DEF Suspend, Goto, localVars, callerVars
<1>2. l \in {"announce", "wait"}
  OBVIOUS
<1>3. l = "announce" => Len(suspended') = NumThreads
  OBVIOUS
<1> HIDE DEF l
<1>4. /\ ~InSuspended(t)
      /\ ~found[t]
      /\ ~(t < joined)
      /\ \A u \in Thread : HandingOver(u) => reader[u] # t
  BY <1>1, OwnFacts DEF Own
<1>5. /\ Len(suspended) \in Nat
      /\ DOMAIN suspended = 1 .. Len(suspended)
      /\ suspended' \in Seq(Thread)
      /\ DOMAIN suspended' = 1 .. (Len(suspended) + 1)
      /\ \A i \in 1 .. Len(suspended) : suspended'[i] = suspended[i]
      /\ suspended'[Len(suspended) + 1] = t
  BY <1>1, AppendProperties, LenProperties DEF Control, ControlType
<1>6. \A i \in DOMAIN suspended' :
         \/ i \in DOMAIN suspended /\ suspended'[i] = suspended[i]
         \/ i = Len(suspended) + 1 /\ suspended'[i] = t
  BY <1>5
<1>7. /\ \A i \in DOMAIN suspended : i \in DOMAIN suspended'
      /\ Len(suspended) + 1 \in DOMAIN suspended'
  BY <1>5
<1>8. \A u \in Thread : InSuspended(u)' <=> InSuspended(u) \/ u = t
  BY <1>5, <1>6, <1>7 DEF InSuspended
<1>9. \A i, j \in DOMAIN suspended' : suspended'[i] = suspended'[j] => i = j
  BY <1>4, <1>6 DEF Control, SuspendedOK, InSuspended
<1>10. Len(suspended') = NumThreads => AllSuspended'
  BY <1>5, <1>9, DistinctThreads DEF AllSuspended, InSuspended
<1>11. \A u \in Thread : pc'[u] = IF u = t THEN l ELSE pc[u]
  BY <1>1 DEF Control, ControlType
<1>12. \A u \in Thread : HandingOver(u)' <=> HandingOver(u)
  BY <1>1, <1>2, <1>11 DEF HandingOver
<1>13. ControlType'
  BY <1>1, <1>2, <1>5 DEF Control, ControlType, Label
<1>14. SuspendedOK'
  BY <1>1, <1>2, <1>4, <1>8, <1>9, <1>11 DEF Control, SuspendedOK
<1>15. HandOverToIdle'
  <2> SUFFICES ASSUME NEW u \in Thread, HandingOver(u)
               PROVE  /\ \/ pc'[reader[u]] = "wait"
                         \/ /\ finished
                            /\ pc'[reader[u]] \in {"woken", "done"}
                            /\ ~found[reader[u]]
                      /\ \A i \in DOMAIN suspended' : suspended'[i] # reader[u]
                      /\ \A v \in Thread \ {u} :
                            HandingOver(v) => reader[v] # reader[u]
    BY <1>1, <1>12 DEF HandOverToIdle
  <2>1. reader[u] \in Thread /\ reader[u] # t
    BY <1>4 DEF Control, ControlType
  <2>2. /\ \/ pc[reader[u]] = "wait"
           \/ finished /\ pc[reader[u]] \in {"woken", "done"}
              /\ ~found[reader[u]]
        /\ \A i \in DOMAIN suspended : suspended[i] # reader[u]
        /\ \A v \in Thread \ {u} : HandingOver(v) => reader[v] # reader[u]
    BY DEF Control, HandOverToIdle
  <2>3. \A i \in DOMAIN suspended' : suspended'[i] # reader[u]
    BY <1>6, <2>1, <2>2
  <2> QED
    BY <1>11, <2>1, <2>2, <2>3
<1>16. WakeUpExact'
  <2> SUFFICES ASSUME ~finished, NEW u \in Thread
               PROVE  /\ sem[u] <= 1
                      /\ sem[u] = 1 <=>
                           /\ pc'[u] = "wait"
                           /\ ~InSuspended(u)'
                           /\ \A v \in Thread :
                                ~(HandingOver(v) /\ reader[v] = u)
    BY <1>1, <1>12 DEF WakeUpExact, InSuspended
  <2>1. /\ sem[u] <= 1
        /\ sem[u] = 1 <=> /\ pc[u] = "wait"
                          /\ ~InSuspended(u)
                          /\ \A v \in Thread :
                               ~(HandingOver(v) /\ reader[v] = u)
    BY DEF Control, WakeUpExact, InSuspended
  <2> QED
    BY <1>1, <1>8, <1>11, <2>1
<1>17. NegativeEnd'
  BY <1>1, <1>2, <1>3, <1>8, <1>10, <1>11
     DEF Control, NegativeEnd, AllSuspended, SomeFound
<1>18. FoundOK'
  BY <1>1, <1>2, <1>4, <1>11 DEF Control, FoundOK
<1>19. WokenOK'
  BY <1>1, <1>2, <1>8, <1>11 DEF Control, WokenOK, Given
<1>20. JoinedOK'
  BY <1>1, <1>4, <1>11 DEF Control, JoinedOK
<1> QED
  BY <1>13, <1>14, <1>15, <1>16, <1>17, <1>18, <1>19, <1>20 DEF Control

(* A thread that gets through its semaphore was given work, or the search  *)
(* is over.                                                                *)
LEMMA WaitControl ==
  ASSUME Control, NEW t \in Thread, Wait(t)
  PROVE  Control'
<1>1. /\ pc[t] = "wait"
      /\ sem[t] > 0
      /\ sem' = [sem EXCEPT ![t] = @ - 1]
      /\ pc' = [pc EXCEPT ![t] = "woken"]
      /\ UNCHANGED <<finished, suspended, reader, posted, found, joined>>
  BY DEF Wait, Goto, localVars, callerVars
<1>2. \A u \in Thread : pc'[u] = IF u = t THEN "woken" ELSE pc[u]
  BY <1>1 DEF Control, ControlType
<1>3. \A u \in Thread : sem'[u] = IF u = t THEN sem[u] - 1 ELSE sem[u]
  BY <1>1 DEF Control, ControlType
<1>4. \A u \in Thread : sem[u] \in Nat
  BY DEF Control, ControlType
<1>5. \A u \in Thread : InSuspended(u)' <=> InSuspended(u)
  BY <1>1 DEF InSuspended
<1>6. \A u \in Thread : HandingOver(u)' <=> HandingOver(u)
  BY <1>1, <1>2 DEF HandingOver
<1>7. ~finished => /\ sem[t] = 1
                   /\ ~InSuspended(t)
                   /\ \A u \in Thread : HandingOver(u) => reader[u] # t
  BY <1>1, <1>4 DEF Control, WakeUpExact, InSuspended
<1>8. ~found[t] /\ ~(t < joined)
  BY <1>1 DEF Control, FoundOK, JoinedOK
<1>9. ControlType'
  <2>1. sem' \in [Thread -> Nat]
    BY <1>1, <1>4 DEF Control, ControlType
  <2> QED
    BY <1>1, <2>1 DEF Control, ControlType, Label
<1>10. SuspendedOK'
  BY <1>1, <1>2, <1>5, <1>7 DEF Control, SuspendedOK
<1>11. HandOverToIdle'
  BY <1>1, <1>2, <1>6, <1>7, <1>8 DEF Control, ControlType, HandOverToIdle
<1>12. WakeUpExact'
  BY <1>1, <1>2, <1>3, <1>6, <1>7 DEF Control, WakeUpExact
<1>13. NegativeEnd'
  BY <1>1, <1>2, <1>5 DEF Control, NegativeEnd, AllSuspended, SomeFound
<1>14. FoundOK'
  BY <1>1, <1>2, <1>8 DEF Control, FoundOK
<1>15. WokenOK'
  BY <1>1, <1>2, <1>5, <1>7 DEF Control, WokenOK, Given, HandingOver
<1>16. JoinedOK'
  BY <1>1, <1>2, <1>8 DEF Control, JoinedOK
<1> QED
  BY <1>9, <1>10, <1>11, <1>12, <1>13, <1>14, <1>15, <1>16 DEF Control

(* A woken thread ends, or works on as one that has been given work.       *)
LEMMA WokenControl ==
  ASSUME Control, NEW t \in Thread, Woken(t), ~finished
  PROVE  Control'
<1>1. /\ pc[t] = "woken"
      /\ pc' = [pc EXCEPT ![t] = "loop"]
      /\ UNCHANGED <<finished, suspended, sem, reader, posted, found, joined>>
  BY DEF Woken, Expand, Goto, sharedVars, callerVars
<1>2. \A u \in Thread : pc'[u] = IF u = t THEN "loop" ELSE pc[u]
  BY <1>1 DEF Control, ControlType
<1>3. ~InSuspended(t) /\ ~found[t] /\ ~(t < joined)
  BY <1>1 DEF Control, WokenOK, Given, FoundOK, JoinedOK
<1>4. \A u \in Thread : InSuspended(u)' <=> InSuspended(u)
  BY <1>1 DEF InSuspended
<1>5. \A u \in Thread : HandingOver(u)' <=> HandingOver(u)
  BY <1>1, <1>2 DEF HandingOver
<1>6. \A u \in Thread : HandingOver(u) => reader[u] # t
  BY <1>1 DEF Control, HandOverToIdle
<1>7. ControlType'
  BY <1>1 DEF Control, ControlType, Label
<1>8. SuspendedOK'
  BY <1>1, <1>2, <1>3, <1>4 DEF Control, SuspendedOK
<1>9. HandOverToIdle'
  BY <1>1, <1>2, <1>5, <1>6 DEF Control, ControlType, HandOverToIdle
<1>10. WakeUpExact'
  BY <1>1, <1>2, <1>5 DEF Control, WakeUpExact
<1>11. NegativeEnd'
  BY <1>1, <1>2, <1>4 DEF Control, NegativeEnd, AllSuspended, SomeFound
<1>12. FoundOK'
  BY <1>1, <1>2, <1>3 DEF Control, FoundOK
<1>13. WokenOK'
  BY <1>1, <1>2, <1>4 DEF Control, WokenOK, Given
<1>14. JoinedOK'
  BY <1>1, <1>2, <1>3 DEF Control, JoinedOK
<1> QED
  BY <1>7, <1>8, <1>9, <1>10, <1>11, <1>12, <1>13, <1>14 DEF Control

(* A thread that announces the end sets finished.                          *)
LEMMA AnnounceControl ==
  ASSUME Control, NEW t \in Thread, Announce(t)
  PROVE  Control'
<1>1. /\ pc[t] = "announce"
      /\ finished' = TRUE
      /\ pc' = [pc EXCEPT ![t] = "post"]
      /\ UNCHANGED <<suspended, sem, reader, posted, found, joined>>
  BY DEF Announce, Goto, localVars, callerVars
<1>2. \A u \in Thread : pc'[u] = IF u = t THEN "post" ELSE pc[u]
  BY <1>1 DEF Control, ControlType
<1>3. \A u \in Thread : InSuspended(u)' <=> InSuspended(u)
  BY <1>1 DEF InSuspended
<1>4. \A u \in Thread : HandingOver(u)' <=> HandingOver(u)
  BY <1>1, <1>2 DEF HandingOver
<1>5. \A u \in Thread : HandingOver(u) => reader[u] # t
  BY <1>1 DEF Control, HandOverToIdle
<1>6. ControlType'
  BY <1>1 DEF Control, ControlType, Label
<1>7. SuspendedOK'
  BY <1>1, <1>2, <1>3 DEF Control, SuspendedOK
<1>8. HandOverToIdle'
  BY <1>1, <1>2, <1>4, <1>5 DEF Control, ControlType, HandOverToIdle
<1>9. WakeUpExact'
  BY <1>1 DEF WakeUpExact
<1>10. NegativeEnd'
  BY <1>1, <1>2, <1>3 DEF Control, NegativeEnd, AllSuspended, SomeFound
<1>11. FoundOK'
  BY <1>1, <1>2 DEF Control, FoundOK
<1>12. WokenOK'
  BY <1>1 DEF WokenOK
<1>13. JoinedOK'
  BY <1>1, <1>2 DEF Control, JoinedOK
<1> QED
  BY <1>6, <1>7, <1>8, <1>9, <1>10, <1>11, <1>12, <1>13 DEF Control

(* An announcement posts every semaphore once.                             *)
LEMMA PostNextControl ==
  ASSUME Control, NEW t \in Thread, PostNext(t)
  PROVE  Control'
<1>1. /\ pc[t] = "post"
      /\ posted[t] < NumThreads
      /\ sem' = [sem EXCEPT ![posted[t]] = @ + 1]
      /\ posted' = [posted EXCEPT ![t] = @ + 1]
      /\ UNCHANGED <<finished, suspended, pc, reader, found, joined>>
  BY DEF PostNext, callerVars
<1>2. finished
  BY <1>1 DEF Control, FoundOK
<1>3. ControlType'
  <2>1. NumThreads \in Nat /\ posted[t] \in 0 .. NumThreads
    BY NumThreadsAssumption DEF NumThreadsAssumption, Control, ControlType
  <2>2. posted[t] \in Thread /\ posted[t] + 1 \in 0 .. NumThreads
    BY <1>1, <2>1 DEF Thread
  <2>3. sem' \in [Thread -> Nat]
    BY <1>1, <2>2 DEF Control, ControlType
  <2>4. posted' \in [Thread -> 0 .. NumThreads]
    BY <1>1, <2>2 DEF Control, ControlType
  <2> QED
    BY <1>1, <2>3, <2>4 DEF Control, ControlType
<1>4. SuspendedOK'
  BY <1>1 DEF Control, SuspendedOK, InSuspended
<1>5. HandOverToIdle'
  BY <1>1 DEF Control, HandOverToIdle, HandingOver
<1>6. WakeUpExact'
  BY <1>1, <1>2 DEF WakeUpExact
<1>7. NegativeEnd'
  BY <1>1 DEF Control, NegativeEnd, AllSuspended, InSuspended, SomeFound
<1>8. FoundOK' /\ WokenOK' /\ JoinedOK'
  BY <1>1, <1>2 DEF Control, FoundOK, WokenOK, JoinedOK
<1> QED
  BY <1>3, <1>4, <1>5, <1>6, <1>7, <1>8 DEF Control

(* A finder that published its stack is done.                              *)
LEMMA PublishControl ==
  ASSUME Control, NEW t \in Thread, Publish(t)
  PROVE  Control'
<1>1. /\ pc[t] = "post"
      /\ pc' = [pc EXCEPT ![t] = "done"]
      /\ UNCHANGED <<finished, suspended, sem, reader, posted, found, joined>>
  BY DEF Publish, Goto, callerVars
<1>2. finished
  BY <1>1 DEF Control, FoundOK
<1>3. \A u \in Thread : pc'[u] = IF u = t THEN "done" ELSE pc[u]
  BY <1>1 DEF Control, ControlType
<1>4. \A u \in Thread : HandingOver(u)' <=> HandingOver(u)
  BY <1>1, <1>3 DEF HandingOver
<1>5. \A u \in Thread : HandingOver(u) => reader[u] # t
  BY <1>1 DEF Control, HandOverToIdle
<1>6. ControlType'
  BY <1>1 DEF Control, ControlType, Label
<1>7. SuspendedOK'
  BY <1>1, <1>2, <1>3 DEF Control, SuspendedOK, InSuspended
<1>8. HandOverToIdle'
  BY <1>1, <1>3, <1>4, <1>5 DEF Control, ControlType, HandOverToIdle
<1>9. WakeUpExact'
  BY <1>1, <1>2 DEF WakeUpExact
<1>10. NegativeEnd'
  BY <1>1, <1>3 DEF Control, NegativeEnd, AllSuspended, InSuspended, SomeFound
<1>11. FoundOK'
  BY <1>1, <1>2, <1>3 DEF Control, FoundOK
<1>12. WokenOK'
  BY <1>1, <1>2 DEF WokenOK
<1>13. JoinedOK'
  BY <1>1, <1>3 DEF Control, JoinedOK
<1> QED
  BY <1>6, <1>7, <1>8, <1>9, <1>10, <1>11, <1>12, <1>13 DEF Control

(* Threads are joined in order, when they are done.                        *)
LEMMA JoinControl ==
  ASSUME Control, Join
  PROVE  Control'
<1>1. /\ joined < NumThreads
      /\ pc[joined] = "done"
      /\ joined' = joined + 1
      /\ UNCHANGED <<finished, suspended, sem, pc, reader, posted, found>>
  BY DEF Join, sharedVars, localVars
<1>2. NumThreads \in Nat /\ joined \in 0 .. NumThreads
  BY NumThreadsAssumption DEF NumThreadsAssumption, Control, ControlType
<1>3. joined' \in 0 .. NumThreads
  BY <1>1, <1>2
<1>4. ControlType'
  BY <1>1, <1>3 DEF Control, ControlType
<1>5. JoinedOK'
  <2>1. \A t \in Thread : t < joined' => t < joined \/ t = joined
    BY <1>1, <1>2 DEF Thread
  <2> QED
    BY <1>1, <2>1 DEF Control, JoinedOK
<1>6. SuspendedOK' /\ HandOverToIdle' /\ WakeUpExact'
  BY <1>1 DEF Control, SuspendedOK, InSuspended, HandOverToIdle, HandingOver,
              WakeUpExact
<1>7. NegativeEnd' /\ FoundOK' /\ WokenOK'
  BY <1>1 DEF Control, NegativeEnd, AllSuspended, InSuspended, SomeFound,
              FoundOK, WokenOK, Given
<1> QED
  BY <1>4, <1>5, <1>6, <1>7 DEF Control
-----------------------------------------------------------------------------
(* Control holds in the beginning.                                         *)
LEMMA ControlInit ==
  ASSUME Init
  PROVE  Control
<1>1. NumThreads \in Nat \ {0}
  BY NumThreadsAssumption DEF NumThreadsAssumption
<1>2. ControlType
  <2>1. <<>> \in Seq(Thread) /\ 0 \in 0 .. NumThreads
    BY <1>1, EmptySeq
  <2> QED
    BY <2>1 DEF Init, ControlType, Label
<1>3. DOMAIN suspended = {}
  BY DEF Init
<1>4. SuspendedOK /\ HandOverToIdle /\ WakeUpExact
  <2>1. ~finished /\ (\A t \in Thread : pc[t] = "start" /\ sem[t] = 0)
    BY DEF Init
  <2> QED
    BY <1>3, <2>1 DEF SuspendedOK, InSuspended, HandOverToIdle, HandingOver,
                      WakeUpExact
<1>5. NegativeEnd /\ FoundOK /\ WokenOK
  BY DEF Init, NegativeEnd, FoundOK, WokenOK
<1>6. JoinedOK
  BY DEF Init, JoinedOK, Thread
<1> QED
  BY <1>2, <1>4, <1>5, <1>6 DEF Control

(* Every step keeps Control.                                               *)
LEMMA ControlStep ==
  ASSUME Control, [Next]_vars
  PROVE  Control'
<1> USE DEF Own, sharedVars, localVars, callerVars
<1>1. ASSUME NEW t \in Thread, CheckInitial(t) PROVE Control'
  <2>1. CASE ns[t] \in Goal
    BY <1>1, <2>1, FoundStep DEF CheckInitial, Goto
  <2>2. CASE ns[t] \notin Goal
    <3>1. found' = found
      BY <1>1, <2>2, OwnFacts DEF CheckInitial, Control, ControlType
    <3> QED
      BY <1>1, <2>2, <3>1, OwnStep DEF CheckInitial, Goto
  <2> QED
    BY <2>1, <2>2
<1>2. ASSUME NEW t \in Thread, InsertInitial(t) PROVE Control'
  BY <1>2, OwnStep DEF InsertInitial, Expand, Goto
<1>3. ASSUME NEW t \in Thread, Abort(t) PROVE Control'
  BY <1>3, EndStep DEF Abort, Goto
<1>4. ASSUME NEW t \in Thread, TakeEntry(t) PROVE Control'
  BY <1>4, OwnStep DEF TakeEntry, Goto
<1>5. ASSUME NEW t \in Thread, CloseMarking(t) PROVE Control'
  BY <1>5, OwnStep DEF CloseMarking, Backtrack, Goto
<1>6. ASSUME NEW t \in Thread, FireKnown(t) PROVE Control'
  BY <1>6, OwnStep DEF FireKnown, Goto
<1>7. ASSUME NEW t \in Thread, FireGoal(t) PROVE Control'
  BY <1>7, FoundStep DEF FireGoal, Goto
<1>8. ASSUME NEW t \in Thread, FireNew(t) PROVE Control'
  BY <1>8, OwnStep DEF FireNew, Expand, Goto
<1>9. ASSUME NEW t \in Thread, ReadNumSuspended(t) PROVE Control'
  BY <1>9, OwnStep DEF ReadNumSuspended, Expand, Goto
<1>10. ASSUME NEW t \in Thread, Resume(t) PROVE Control'
  BY <1>10, OwnStep, EndStep DEF Resume, Backtrack, Goto
<1>11. ASSUME NEW t \in Thread, Woken(t) PROVE Control'
  BY <1>11, WokenControl, EndStep DEF Woken, Goto
<1>12. ASSUME Join \/ Stop \/ UNCHANGED vars PROVE Control'
  <2>1. CASE UNCHANGED vars
    BY <2>1 DEF vars, Control, ControlType, SuspendedOK, InSuspended,
         HandOverToIdle, HandingOver, WakeUpExact, NegativeEnd, AllSuspended,
         SomeFound, FoundOK, WokenOK, Given, JoinedOK
  <2> QED
    BY <1>12, <2>1, JoinControl DEF Stop
<1> QED
  BY <1>1, <1>2, <1>3, <1>4, <1>5, <1>6, <1>7, <1>8, <1>9, <1>10, <1>11,
     <1>12, PickReaderControl, CopyToReaderControl, PostReaderControl,
     SuspendControl, WaitControl, AnnounceControl, PostNextControl,
     PublishControl DEF Next, Step

(* The control skeleton holds in every reachable state.                    *)
THEOREM ControlInvariant == Spec => []Control
<1>1. Init => Control
  BY ControlInit
<1>2. Control /\ [Next]_vars => Control'
  BY ControlStep
<1> QED
  BY <1>1, <1>2, PTL DEF Spec
-----------------------------------------------------------------------------
(* Facts about the graph.                                                  *)
LEMMA SuccessorType ==
  ASSUME NEW m \in Marking, NEW tr \in Transition
  PROVE  Fire(m, tr) \in Marking
BY Graph DEF GraphAssumption, Fire

(* A fire list is a sequence of enabled transitions.                       *)
LEMMA FirelistType ==
  ASSUME NEW m \in Marking, NEW f \in Firelists[m]
  PROVE  /\ f \in Seq(Transition)
         /\ Len(f) \in Nat
         /\ DOMAIN f = 1 .. Len(f)
         /\ \A i \in DOMAIN f : f[i] \in Enabled[m] /\ f[i] \in Transition
<1>1. f \in Seq(Transition) /\ \A i \in DOMAIN f : f[i] \in Enabled[m]
  BY Graph DEF GraphAssumption
<1>2. Len(f) \in Nat /\ DOMAIN f = 1 .. Len(f)
  BY <1>1, LenProperties
<1>3. \A i \in DOMAIN f : f[i] \in Transition
  BY <1>1, <1>2, ElementOfSeq
<1> QED
  BY <1>1, <1>2, <1>3

(* Backfiring the transition just fired returns to where it was fired.     *)
LEMMA BackfireUndoesFire ==
  ASSUME NEW m \in Marking, NEW tr \in Enabled[m]
  PROVE  Backfire(Fire(m, tr), tr) = m
<1>1. \A k \in Marking :
         tr \in Enabled[k] /\ Successor[k][tr] = Fire(m, tr) => k = m
  BY Graph DEF GraphAssumption, Fire
<1>2. tr \in Enabled[m] /\ Successor[m][tr] = Fire(m, tr)
  BY DEF Fire
<1> QED
  BY <1>1, <1>2 DEF Backfire

(* Firing does not leave the reachable markings.                           *)
LEMMA ReachableClosed ==
  /\ Initial \in Marking \cap Reachable
  /\ \A m \in Marking \cap Reachable : \A tr \in Enabled[m] :
        Fire(m, tr) \in Marking \cap Reachable
<1>1. Initial \in Marking
  BY Graph DEF GraphAssumption
<1>2. Initial \in Reachable
  BY <1>1 DEF Reachable
<1>3. ASSUME NEW m \in Marking \cap Reachable, NEW tr \in Enabled[m]
      PROVE  Fire(m, tr) \in Marking \cap Reachable
  <2>1. tr \in Transition
    BY Graph DEF GraphAssumption
  <2>2. Fire(m, tr) \in Marking
    BY <2>1, SuccessorType
  <2>3. ASSUME NEW S \in SUBSET Marking, Initial \in S, FullyClosed(S)
        PROVE  Fire(m, tr) \in S
    <3>1. m \in S
      BY <2>3 DEF Reachable
    <3> QED
      BY <2>3, <3>1 DEF FullyClosed
  <2> QED
    BY <2>2, <2>3 DEF Reachable
<1> QED
  BY <1>1, <1>2, <1>3
-----------------------------------------------------------------------------
(* Fire lists that have been tried from some index on.                     *)
LEMMA TriedGrows ==
  ASSUME NEW m, NEW fl, NEW i, NEW S, NEW T, S \subseteq T, Tried(m, fl, i, S)
  PROVE  Tried(m, fl, i, T)
BY DEF Tried

(* Of a new fire list nothing is claimed to have been tried.               *)
LEMMA TriedFresh ==
  ASSUME NEW m \in Marking, NEW f \in Firelists[m], NEW S
  PROVE  Tried(m, f, Len(f) + 1, S)
<1>1. Len(f) \in Nat /\ DOMAIN f = 1 .. Len(f)
  BY FirelistType
<1>2. \A n \in Nat : \A j \in 1 .. n : ~(j >= n + 1)
  OBVIOUS
<1>3. \A j \in DOMAIN f : ~(j >= Len(f) + 1)
  BY <1>1, <1>2
<1>4. Len(f) <= Len(f)
  BY <1>1
<1> QED
  BY <1>3, <1>4 DEF Tried

(* The beginning of a fire list that a stack entry keeps has enabled       *)
(* transitions only.                                                       *)
LEMMA TriedEnabled ==
  ASSUME NEW m \in Marking, NEW fl \in Seq(Transition), NEW i, NEW S,
         Tried(m, fl, i, S), NEW j \in 1 .. Len(fl)
  PROVE  fl[j] \in Enabled[m] /\ fl[j] \in Transition
<1>1. PICK f \in Firelists[m] :
         Len(fl) <= Len(f) /\ \A k \in 1 .. Len(fl) : fl[k] = f[k]
  BY DEF Tried
<1>2. Len(fl) \in Nat /\ Len(f) \in Nat
  BY FirelistType, LenProperties
<1>3. j \in 1 .. Len(f)
  BY <1>1, <1>2
<1> QED
  BY <1>1, <1>3, FirelistType

(* When the successor of an entry is in the store, that entry has been     *)
(* tried.                                                                  *)
LEMMA TriedOneMore ==
  ASSUME NEW m \in Marking, NEW fl \in Seq(Transition), NEW i \in Nat, NEW S,
         i < Len(fl), Tried(m, fl, i + 2, S), Fire(m, fl[i + 1]) \in S
  PROVE  Tried(m, fl, i + 1, S)
<1>1. PICK f \in Firelists[m] :
         /\ Len(fl) <= Len(f) /\ \A k \in 1 .. Len(fl) : fl[k] = f[k]
         /\ \A j \in DOMAIN f : j >= i + 2 => Fire(m, f[j]) \in S
  BY DEF Tried
<1>2. Len(fl) \in Nat /\ Len(f) \in Nat /\ DOMAIN f = 1 .. Len(f)
  BY FirelistType, LenProperties
<1>3. fl[i + 1] = f[i + 1]
  BY <1>1, <1>2
<1>4. \A j \in DOMAIN f : j >= i + 1 => j = i + 1 \/ j >= i + 2
  BY <1>2
<1>5. \A j \in DOMAIN f : j >= i + 1 => Fire(m, f[j]) \in S
  BY <1>1, <1>3, <1>4
<1> QED
  BY <1>1, <1>5 DEF Tried

(* A marking all of whose entries have been tried is processed.            *)
LEMMA TriedAll ==
  ASSUME NEW m \in Marking, NEW fl, NEW S, Tried(m, fl, 1, S)
  PROVE  Processed(m, S)
<1>1. PICK f \in Firelists[m] : \A j \in DOMAIN f : j >= 1 => Fire(m, f[j]) \in S
  BY DEF Tried
<1>2. \A j \in DOMAIN f : j >= 1
  BY FirelistType
<1> QED
  BY <1>1, <1>2 DEF Processed
-----------------------------------------------------------------------------
(* Stacks.                                                                 *)
LEMMA StackGrows ==
  ASSUME NEW s, NEW m, NEW S, NEW T, S \subseteq T, StackOK(s, m, S)
  PROVE  StackOK(s, m, T)
BY TriedGrows DEF StackOK, FrameOK

(* The empty stack is sound for the initial marking.                       *)
LEMMA EmptyStackOK ==
  ASSUME NEW S
  PROVE  StackOK(<<>>, Initial, S)
<1>1. <<>> \in Seq(Frame) /\ Len(<<>>) = 0 /\ DOMAIN <<>> = {}
  BY EmptySeq
<1>2. 1 .. (Len(<<>>) - 1) = {}
  BY <1>1
<1> QED
  BY <1>1, <1>2 DEF StackOK, Replays

(* Pushing the entry that led to a marking keeps the stack sound.          *)
LEMMA StackPush ==
  ASSUME NEW S, NEW s, NEW m \in Marking, NEW fr, StackOK(s, fr.at, S),
         FrameOK(fr, S), Fire(fr.at, Fired(fr)) = m
  PROVE  /\ StackOK(Append(s, fr), m, S)
         /\ Append(s, fr) # <<>>
<1>1. s \in Seq(Frame) /\ fr \in Frame
  BY DEF StackOK, FrameOK
<1> DEFINE u == Append(s, fr)
           n == Len(s)
<1>2. /\ n \in Nat
      /\ DOMAIN s = 1 .. n
      /\ s = <<>> <=> n = 0
  BY <1>1, LenProperties, EmptySeq
<1>3. /\ u \in Seq(Frame)
      /\ u # <<>>
      /\ Len(u) = n + 1
      /\ DOMAIN u = 1 .. (n + 1)
      /\ \A i \in 1 .. n : u[i] = s[i]
      /\ u[n + 1] = fr
  BY <1>1, AppendProperties, LenProperties
<1> HIDE DEF u
<1>4. Top(u) = fr
  BY <1>3 DEF Top
<1>5. \A i \in DOMAIN u : FrameOK(u[i], S)
  <2>1. \A i \in DOMAIN u : i \in 1 .. n \/ i = n + 1
    BY <1>2, <1>3
  <2> QED
    BY <1>2, <1>3, <2>1 DEF StackOK
<1>6. u[1].at = Initial
  <2>1. CASE n = 0
    BY <1>2, <1>3, <2>1 DEF StackOK, Replays
  <2>2. CASE n # 0
    BY <1>2, <1>3, <2>2 DEF StackOK, Replays
  <2> QED
    BY <2>1, <2>2
<1>7. \A i \in 1 .. (Len(u) - 1) : Fire(u[i].at, Fired(u[i])) = u[i + 1].at
  <2> SUFFICES ASSUME NEW i \in 1 .. n
               PROVE  Fire(u[i].at, Fired(u[i])) = u[i + 1].at
    BY <1>2, <1>3
  <2>1. u[i] = s[i]
    BY <1>3
  <2>2. CASE i = n
    <3>1. n # 0 /\ s[i] = Top(s)
      BY <1>2, <2>2 DEF Top
    <3> QED
      BY <1>2, <1>3, <2>1, <2>2, <3>1 DEF StackOK, Replays
  <2>3. CASE i # n
    <3>1. i \in 1 .. (n - 1) /\ i + 1 \in 1 .. n
      <4>1. \A k \in Nat : \A j \in 1 .. k :
               j # k => j \in 1 .. (k - 1) /\ j + 1 \in 1 .. k
        OBVIOUS
      <4> HIDE DEF n
      <4> QED
        BY <1>2, <2>3, <4>1
    <3>2. Fire(s[i].at, Fired(s[i])) = s[i + 1].at
      BY <3>1 DEF StackOK, Replays
    <3> QED
      BY <1>3, <2>1, <3>1, <3>2
  <2> QED
    BY <2>2, <2>3
<1> QED
  BY <1>3, <1>4, <1>5, <1>6, <1>7 DEF StackOK, Replays, u

(* Popping returns to the marking, the fire list and the entry below, all  *)
(* later entries of which have been tried.                                 *)
LEMMA StackPop ==
  ASSUME NEW S \in SUBSET Marking, NEW s, NEW m \in S, StackOK(s, m, S), s # <<>>
  PROVE  LET top == Top(s) IN
         /\ Backfire(m, Fired(top)) = top.at
         /\ top.at \in S
         /\ top.fl \in Seq(Transition)
         /\ top.current \in Nat
         /\ top.current <= Len(top.fl)
         /\ Tried(top.at, top.fl, top.current + 1, S)
         /\ StackOK(Pop(s), top.at, S)
<1> DEFINE top == Top(s)
           n == Len(s)
           u == Pop(s)
<1>1. s \in Seq(Frame)
  BY DEF StackOK
<1>2. /\ n \in Nat \ {0}
      /\ top = s[n]
      /\ u \in Seq(Frame)
      /\ Len(u) = n - 1
      /\ DOMAIN u = 1 .. (n - 1)
      /\ \A i \in 1 .. (n - 1) : u[i] = s[i]
      /\ DOMAIN s = 1 .. n
  BY <1>1, PopProperties, LenProperties DEF Top
<1>3. n \in DOMAIN s /\ \A i \in 1 .. (n - 1) : i \in DOMAIN s
  BY <1>2
<1>4. FrameOK(top, S)
  BY <1>2, <1>3 DEF StackOK
<1>5. /\ top.at \in S
      /\ top.fl \in Seq(Transition)
      /\ top.current \in Nat
      /\ top.current < Len(top.fl)
      /\ Tried(top.at, top.fl, top.current + 1, S)
  BY <1>4 DEF FrameOK, Frame
<1>6. Len(top.fl) \in Nat
  BY <1>5, LenProperties
<1>7. top.current + 1 \in 1 .. Len(top.fl)
  BY <1>5, <1>6
<1>8. Fired(top) \in Enabled[top.at]
  BY <1>5, <1>7, TriedEnabled DEF Fired
<1>9. Fire(top.at, Fired(top)) = m
  BY DEF StackOK, Replays
<1>10. Backfire(m, Fired(top)) = top.at
  BY <1>5, <1>8, <1>9, BackfireUndoesFire
<1>11. top.current <= Len(top.fl)
  BY <1>5, <1>6
<1> HIDE DEF top, u
<1>12. StackOK(u, top.at, S)
  <2>1. \A i \in DOMAIN u : FrameOK(u[i], S)
    BY <1>2, <1>3 DEF StackOK
  <2>2. u = <<>> => top.at = Initial
    <3> SUFFICES ASSUME u = <<>> PROVE top.at = Initial
      OBVIOUS
    <3>1. Len(u) = 0
      BY EmptySeq
    <3>2. n = 1
      BY <1>2, <3>1
    <3> QED
      BY <1>2, <3>2 DEF StackOK, Replays
  <2>3. u # <<>> => /\ u[1].at = Initial
                    /\ Fire(Top(u).at, Fired(Top(u))) = top.at
    <3> SUFFICES ASSUME u # <<>>
                 PROVE  /\ u[1].at = Initial
                        /\ Fire(Top(u).at, Fired(Top(u))) = top.at
      OBVIOUS
    <3>1. Len(u) \in Nat \ {0}
      BY <1>2, EmptySeq
    <3>2. 1 \in 1 .. (n - 1) /\ n - 1 \in 1 .. (n - 1) /\ (n - 1) + 1 = n
      BY <1>2, <3>1
    <3>3. Top(u) = s[n - 1] /\ u[1] = s[1]
      BY <1>2, <3>2 DEF Top
    <3>4. Fire(s[n - 1].at, Fired(s[n - 1])) = s[n].at
      BY <3>2 DEF StackOK, Replays
    <3> QED
      BY <1>2, <3>3, <3>4 DEF StackOK, Replays
  <2>4. \A i \in 1 .. (Len(u) - 1) : Fire(u[i].at, Fired(u[i])) = u[i + 1].at
    <3> SUFFICES ASSUME NEW i \in 1 .. (Len(u) - 1)
                 PROVE  Fire(u[i].at, Fired(u[i])) = u[i + 1].at
      OBVIOUS
    <3>1. i \in 1 .. (n - 1) /\ i + 1 \in 1 .. (n - 1)
      BY <1>2
    <3> QED
      BY <1>2, <3>1 DEF StackOK, Replays
  <2> QED
    BY <1>2, <2>1, <2>2, <2>3, <2>4 DEF StackOK, Replays
<1> QED
  BY <1>5, <1>10, <1>11, <1>12 DEF top, u
(* The copy made by the copy constructors replays to the same marking, and *)
(* of each frame keeps the entries a search still needs.                   *)
LEMMA StackCopy ==
  ASSUME NEW S, NEW s, NEW m, StackOK(s, m, S)
  PROVE  /\ StackOK(CopyStack(s), m, S)
         /\ s # <<>> => CopyStack(s) # <<>>
         /\ DOMAIN CopyStack(s) = DOMAIN s
         /\ \A i \in DOMAIN s : CopyStack(s)[i].at = s[i].at
<1> DEFINE c == CopyStack(s)
           n == Len(s)
<1>1. s \in Seq(Frame)
  BY DEF StackOK
<1>2. /\ n \in Nat
      /\ DOMAIN s = 1 .. n
      /\ s = <<>> <=> n = 0
  BY <1>1, LenProperties, EmptySeq
<1>3. /\ DOMAIN c = 1 .. n
      /\ \A i \in 1 .. n :
            c[i] = [s[i] EXCEPT !.fl = SubSeq(s[i].fl, 1, s[i].current + 1)]
  BY <1>2 DEF CopyStack
<1> HIDE DEF c, n
<1>4. ASSUME NEW i \in 1 .. n
      PROVE  /\ FrameOK(c[i], S)
             /\ c[i].at = s[i].at
             /\ Fired(c[i]) = Fired(s[i])
  <2> DEFINE fl == s[i].fl
             k  == s[i].current
             cut == SubSeq(fl, 1, k + 1)
  <2>1. FrameOK(s[i], S)
    BY <1>2 DEF StackOK
  <2>2. /\ s[i] \in Frame
        /\ s[i].at \in S
        /\ fl \in Seq(Transition)
        /\ k \in Nat
        /\ k < Len(fl)
        /\ Tried(s[i].at, fl, k + 1, S)
    BY <2>1 DEF FrameOK, Frame
  <2>3. c[i] = [at |-> s[i].at, fl |-> cut, current |-> k]
    <3>1. s[i] = [at |-> s[i].at, fl |-> fl, current |-> k]
      BY <2>2 DEF Frame
    <3>2. c[i] = [s[i] EXCEPT !.fl = cut]
      BY <1>3
    <3> QED
      BY <3>1, <3>2
  <2> HIDE DEF fl, k
  <2>4. /\ cut \in Seq(Transition)
        /\ Len(cut) = k + 1
        /\ \A j \in 1 .. (k + 1) : cut[j] = fl[j]
    <3>1. Len(fl) \in Nat
      BY <2>2, LenProperties
    <3>2. k + 1 \in 1 .. Len(fl)
      BY <2>2, <3>1
    <3>3. 1 <= k + 1
      BY <2>2
    <3> QED
      BY <2>2, <3>1, <3>2, <3>3, SubSeqProperties
  <2> HIDE DEF cut
  <2>5. Tried(s[i].at, cut, k + 1, S)
    <3>1. PICK f \in Firelists[s[i].at] :
             /\ Len(fl) <= Len(f)
             /\ \A j \in 1 .. Len(fl) : fl[j] = f[j]
             /\ \A j \in DOMAIN f : j >= k + 1 => Fire(s[i].at, f[j]) \in S
      BY <2>2 DEF Tried
    <3>2. s[i].at \in Marking
      BY <2>2 DEF Frame
    <3>3. Len(fl) \in Nat /\ Len(f) \in Nat
      BY <2>2, <3>2, FirelistType, LenProperties
    <3>4. k + 1 <= Len(f) /\ \A j \in 1 .. (k + 1) : j \in 1 .. Len(fl)
      BY <2>2, <3>1, <3>3
    <3>5. \A j \in 1 .. (k + 1) : cut[j] = f[j]
      BY <2>4, <3>1, <3>4
    <3> QED
      BY <2>4, <3>1, <3>4, <3>5 DEF Tried
  <2>6. cut[k + 1] = fl[k + 1]
    BY <2>2, <2>4
  <2>7. Fired(c[i]) = Fired(s[i])
    BY <2>3, <2>6 DEF Fired, fl, k
  <2>8. k < Len(cut)
    BY <2>2, <2>4
  <2>9. s[i].at \in Marking
    BY <2>2 DEF Frame
  <2>10. FrameOK(c[i], S)
    BY <2>2, <2>3, <2>4, <2>5, <2>8, <2>9 DEF FrameOK, Frame
  <2> QED
    BY <2>3, <2>7, <2>10
<1>5. c \in Seq(Frame)
  <2>1. \A i \in 1 .. n : c[i] \in Frame
    BY <1>4 DEF FrameOK
  <2>2. c = [i \in 1 .. n |-> c[i]]
    BY <1>3 DEF c, CopyStack
  <2>3. c \in [1 .. n -> Frame]
    BY <2>1, <2>2
  <2> QED
    BY <1>2, <2>3, SeqDef
<1>6. Len(c) = n
  BY <1>2, <1>3, <1>5, LenProperties
<1>7. s # <<>> => c # <<>>
  BY <1>2, <1>3, <1>5, <1>6, EmptySeq
<1>8. Replays(c, m)
  <2>1. Replays(s, m)
    BY DEF StackOK
  <2>2. c = <<>> => m = Initial
    BY <1>7, <2>1 DEF Replays
  <2>3. ASSUME c # <<>>
        PROVE  /\ c[1].at = Initial
               /\ Fire(Top(c).at, Fired(Top(c))) = m
    <3>1. n # 0
      BY <1>5, <1>6, <2>3, EmptySeq
    <3>2. 1 \in 1 .. n /\ n \in 1 .. n
      BY <1>2, <3>1
    <3>3. /\ s[1].at = Initial
          /\ Fire(s[n].at, Fired(s[n])) = m
      BY <1>2, <2>1, <3>1 DEF Replays, Top, n
    <3>4. Top(c) = c[n]
      BY <1>6 DEF Top
    <3> QED
      BY <1>4, <3>2, <3>3, <3>4
  <2>4. ASSUME NEW i \in 1 .. (n - 1)
        PROVE  Fire(c[i].at, Fired(c[i])) = c[i + 1].at
    <3>1. i \in 1 .. n /\ i + 1 \in 1 .. n
      BY <1>2
    <3>2. Fire(s[i].at, Fired(s[i])) = s[i + 1].at
      BY <2>1 DEF Replays, n
    <3> QED
      BY <1>4, <3>1, <3>2
  <2> QED
    BY <1>6, <2>2, <2>3, <2>4 DEF Replays
<1>9. \A i \in DOMAIN c : FrameOK(c[i], S)
  BY <1>3, <1>4
<1>10. StackOK(c, m, S)
  BY <1>5, <1>8, <1>9 DEF StackOK
<1> QED
  BY <1>2, <1>3, <1>4, <1>7, <1>10 DEF c
-----------------------------------------------------------------------------
(* The Data layer.  A thread's part of the search, as it is after ...      *)

(* ... computing the fire list of its marking,                             *)
LEMMA ExpandPart ==
  ASSUME DataType, ControlType, NEW t \in Thread, NEW m \in Marking,
         Expand(t, m), ns'[t] = m, m \in store',
         StackOK(stack'[t], m, store')
  PROVE  /\ ThreadPart(t)'
         /\ firelist' \in [Thread -> Seq(Transition)]
         /\ entry' \in [Thread -> Nat]
         /\ pc'[t] = "loop"
         /\ \A u \in Thread \ {t} : /\ pc'[u] = pc[u]
                                    /\ firelist'[u] = firelist[u]
                                    /\ entry'[u] = entry[u]
<1>1. PICK f \in Firelists[m] :
         /\ firelist' = [firelist EXCEPT ![t] = f]
         /\ entry' = [entry EXCEPT ![t] = Len(f)]
  BY DEF Expand
<1>2. pc' = [pc EXCEPT ![t] = "loop"]
  BY DEF Expand, Goto
<1>3. f \in Seq(Transition) /\ Len(f) \in Nat
  BY FirelistType
<1>4. /\ firelist'[t] = f
      /\ entry'[t] = Len(f)
      /\ pc'[t] = "loop"
  BY <1>1, <1>2 DEF DataType, ControlType
<1>5. /\ firelist' \in [Thread -> Seq(Transition)]
      /\ entry' \in [Thread -> Nat]
  BY <1>1, <1>3 DEF DataType
<1>6. Tried(m, f, Len(f) + 1, store')
  BY TriedFresh
<1>7. Len(f) <= Len(f)
  BY <1>3
<1>8. ThreadPart(t)'
  BY <1>4, <1>6, <1>7 DEF ThreadPart, Working
<1> QED
  BY <1>1, <1>2, <1>4, <1>5, <1>8 DEF DataType, ControlType

(* ... returning to the marking below.                                     *)
LEMMA BacktrackPart ==
  ASSUME DataType, ControlType, NEW t \in Thread, ThreadPart(t),
         stack[t] # <<>>, Backtrack(t), store' = store
  PROVE  /\ ThreadPart(t)'
         /\ ns' \in [Thread -> Marking]
         /\ stack' \in [Thread -> Seq(Frame)]
         /\ firelist' \in [Thread -> Seq(Transition)]
         /\ entry' \in [Thread -> Nat]
         /\ pc'[t] = "loop"
         /\ \A u \in Thread \ {t} : /\ pc'[u] = pc[u]
                                    /\ ns'[u] = ns[u]
                                    /\ stack'[u] = stack[u]
                                    /\ firelist'[u] = firelist[u]
                                    /\ entry'[u] = entry[u]
<1> DEFINE top == Top(stack[t])
<1>1. store \in SUBSET Marking /\ ns[t] \in store
  BY DEF DataType, ThreadPart
<1>2. StackOK(stack[t], ns[t], store)
  BY DEF ThreadPart
<1>3. /\ Backfire(ns[t], Fired(top)) = top.at
      /\ top.at \in store
      /\ top.fl \in Seq(Transition)
      /\ top.current \in Nat
      /\ top.current <= Len(top.fl)
      /\ Tried(top.at, top.fl, top.current + 1, store)
      /\ StackOK(Pop(stack[t]), top.at, store)
  BY <1>1, <1>2, StackPop
<1>4. /\ ns' = [ns EXCEPT ![t] = top.at]
      /\ firelist' = [firelist EXCEPT ![t] = top.fl]
      /\ entry' = [entry EXCEPT ![t] = top.current]
      /\ stack' = [stack EXCEPT ![t] = Pop(stack[t])]
      /\ pc' = [pc EXCEPT ![t] = "loop"]
  BY <1>3 DEF Backtrack, Goto
<1> HIDE DEF top
<1>5. Pop(stack[t]) \in Seq(Frame)
  BY <1>3 DEF StackOK
<1>6. /\ ns'[t] = top.at
      /\ firelist'[t] = top.fl
      /\ entry'[t] = top.current
      /\ stack'[t] = Pop(stack[t])
      /\ pc'[t] = "loop"
  BY <1>4 DEF DataType, ControlType
<1>7. ThreadPart(t)'
  BY <1>3, <1>6 DEF ThreadPart, Working
<1>8. /\ ns' \in [Thread -> Marking]
      /\ stack' \in [Thread -> Seq(Frame)]
      /\ firelist' \in [Thread -> Seq(Transition)]
      /\ entry' \in [Thread -> Nat]
  BY <1>1, <1>3, <1>4, <1>5 DEF DataType
<1> QED
  BY <1>4, <1>6, <1>7, <1>8 DEF DataType, ControlType

(* What a step of t has to show, if it leaves the other threads alone.     *)
LEMMA PartStep ==
  ASSUME Data, NEW t \in Thread, DataType', store \subseteq store',
         \A u \in Thread \ {t} : /\ pc'[u] = pc[u]
                                 /\ ns'[u] = ns[u]
                                 /\ stack'[u] = stack[u]
                                 /\ firelist'[u] = firelist[u]
                                 /\ entry'[u] = entry[u]
                                 /\ found'[u] = found[u]
                                 /\ HasPart(u)' => HasPart(u),
         /\ pc'[t] \in {"start", "insertInitial"} =>
               ns'[t] = Initial /\ stack'[t] = <<>>
         /\ pc'[t] = "insertInitial" => Initial \notin Goal,
         HasPart(t)' => ThreadPart(t)',
         found'[t] => ns'[t] \in Goal /\ ns'[t] \in store' \cup {Initial},
         store' \cap Goal # {} => SomeFound'
  PROVE  Data'
<1>1. StartOK'
  BY DEF Data, StartOK
<1>2. PartOK'
  <2> SUFFICES ASSUME NEW u \in Thread \ {t}, HasPart(u)'
               PROVE  ThreadPart(u)'
    BY DEF PartOK
  <2>1. ThreadPart(u)
    BY DEF Data, PartOK
  <2>2. StackOK(stack[u], ns[u], store')
    BY <2>1, StackGrows DEF ThreadPart
  <2>3. \A fl, m, i : Tried(m, fl, i, store) => Tried(m, fl, i, store')
    BY TriedGrows
  <2> QED
    BY <2>1, <2>2, <2>3 DEF ThreadPart
<1>3. GoalOK'
  <2>1. \A u \in Thread : found'[u] =>
           ns'[u] \in Goal /\ ns'[u] \in store' \cup {Initial}
    BY DEF Data, GoalOK
  <2> QED
    BY <2>1 DEF GoalOK
<1> QED
  BY <1>1, <1>2, <1>3 DEF Data

(* A thread that hands nothing over: the parts of the others are as before.*)
LEMMA OwnPartStep ==
  ASSUME Data, NEW t \in Thread, DataType', store \subseteq store',
         pc[t] # "copy", suspended' = suspended, reader' = reader,
         \A u \in Thread \ {t} : /\ pc'[u] = pc[u]
                                 /\ ns'[u] = ns[u]
                                 /\ stack'[u] = stack[u]
                                 /\ firelist'[u] = firelist[u]
                                 /\ entry'[u] = entry[u]
                                 /\ found'[u] = found[u],
         /\ pc'[t] \in {"start", "insertInitial"} =>
               ns'[t] = Initial /\ stack'[t] = <<>>
         /\ pc'[t] = "insertInitial" => Initial \notin Goal,
         HasPart(t)' => ThreadPart(t)',
         found'[t] => ns'[t] \in Goal /\ ns'[t] \in store' \cup {Initial},
         store' \cap Goal # {} => SomeFound'
  PROVE  Data'
<1>1. ASSUME NEW u \in Thread \ {t}, HasPart(u)' PROVE HasPart(u)
  <2>1. \A v \in Thread : pc[v] = "copy" => pc'[v] = "copy"
    OBVIOUS
  <2>2. Given(u)' => Given(u)
    BY <2>1 DEF Given, InSuspended
  <2> QED
    BY <1>1, <2>2 DEF HasPart
<1> QED
  BY <1>1, PartStep

(* A step that changes nothing but the label of t.                         *)
LEMMA LabelData ==
  ASSUME Control, Data, NEW t \in Thread, NEW l, pc[t] # "copy",
         pc' = [pc EXCEPT ![t] = l],
         l \notin {"start", "insertInitial", "loop", "fire"},
         HasPart(t)' => HasPart(t),
         l \in Working => stack[t] # <<>>,
         UNCHANGED <<store, globalStack, suspended, ns, stack, firelist, entry,
                     reader, found>>
  PROVE  Data'
<1>1. \A u \in Thread : pc'[u] = IF u = t THEN l ELSE pc[u]
  BY DEF Control, ControlType
<1>2. DataType'
  BY DEF Data, DataType
<1>3. HasPart(t)' => ThreadPart(t)'
  BY <1>1 DEF Data, PartOK, ThreadPart
<1>4. /\ found'[t] => ns'[t] \in Goal /\ ns'[t] \in store' \cup {Initial}
      /\ store' \cap Goal # {} => SomeFound'
  BY DEF Data, GoalOK, SomeFound
<1> QED
  BY <1>1, <1>2, <1>3, <1>4, OwnPartStep

(* Only threads of these labels hold a part of the search.                 *)
LEMMA PartLabels ==
  ASSUME NEW t \in Thread,
         pc[t] \in {"start", "insertInitial", "suspend", "announce", "post",
                    "done"}
  PROVE  ~HasPart(t)
BY DEF HasPart, Working

(* A look at the initial marking keeps Data.                               *)
LEMMA CheckInitialData ==
  ASSUME Control, Data, NEW t \in Thread, CheckInitial(t)
  PROVE  Data'
<1>1. /\ pc[t] = "start"
      /\ found' = [found EXCEPT ![t] = ns[t] \in Goal]
      /\ pc' = [pc EXCEPT ![t] = IF ns[t] \in Goal THEN "announce"
                                 ELSE "insertInitial"]
      /\ UNCHANGED <<store, suspended, globalStack, ns, stack, firelist, entry,
                     reader>>
  BY DEF CheckInitial, Goto, sharedVars
<1>2. ns[t] = Initial /\ stack[t] = <<>>
  BY <1>1 DEF Data, StartOK
<1>3. /\ \A u \in Thread \ {t} : pc'[u] = pc[u] /\ found'[u] = found[u]
      /\ pc'[t] = IF ns[t] \in Goal THEN "announce" ELSE "insertInitial"
      /\ found'[t] <=> ns[t] \in Goal
  BY <1>1 DEF Control, ControlType
<1>4. DataType'
  BY <1>1 DEF Data, DataType
<1>5. ~HasPart(t)'
  BY <1>3 DEF HasPart, Working
<1>6. store' \cap Goal # {} => SomeFound'
  <2>1. SomeFound => SomeFound'
    <3>1. ~found[t]
      BY <1>1 DEF Control, FoundOK
    <3> QED
      BY <1>3, <3>1 DEF SomeFound
  <2> QED
    BY <1>1, <2>1 DEF Data, GoalOK
<1> QED
  BY <1>1, <1>2, <1>3, <1>4, <1>5, <1>6, OwnPartStep

(* A thread that has entered the initial marking holds it, with an empty   *)
(* stack and all of its fire list to try.                                  *)
LEMMA InsertInitialData ==
  ASSUME Control, Data, NEW t \in Thread, InsertInitial(t)
  PROVE  Data'
<1>1. /\ pc[t] = "insertInitial"
      /\ store' = store \cup {ns[t]}
      /\ Expand(t, ns[t])
      /\ UNCHANGED <<suspended, globalStack, ns, stack, reader, found>>
  BY DEF InsertInitial
<1>2. ns[t] = Initial /\ stack[t] = <<>> /\ Initial \notin Goal
  BY <1>1 DEF Data, StartOK
<1>3. Initial \in Marking \cap Reachable
  BY ReachableClosed
<1>4. StackOK(stack'[t], ns[t], store')
  BY <1>1, <1>2, EmptyStackOK
<1>5. ns'[t] = ns[t] /\ ns[t] \in store'
  BY <1>1
<1>6. /\ ThreadPart(t)'
      /\ firelist' \in [Thread -> Seq(Transition)]
      /\ entry' \in [Thread -> Nat]
      /\ pc'[t] = "loop"
      /\ \A u \in Thread \ {t} : /\ pc'[u] = pc[u]
                                 /\ firelist'[u] = firelist[u]
                                 /\ entry'[u] = entry[u]
  BY <1>1, <1>2, <1>3, <1>4, <1>5, ExpandPart DEF Control, Data
<1>7. DataType'
  BY <1>1, <1>2, <1>3, <1>6 DEF Data, DataType
<1>8. /\ ~found'[t]
      /\ store' \cap Goal # {} => SomeFound'
  BY <1>1, <1>2 DEF Data, GoalOK, SomeFound, Control, FoundOK
<1> QED
  BY <1>1, <1>6, <1>7, <1>8, OwnPartStep

(* Taking the next entry keeps Data.                                       *)
LEMMA TakeEntryData ==
  ASSUME Control, Data, NEW t \in Thread, TakeEntry(t)
  PROVE  Data'
<1>1. /\ pc[t] = "loop"
      /\ entry[t] > 0
      /\ entry' = [entry EXCEPT ![t] = @ - 1]
      /\ pc' = [pc EXCEPT ![t] = "fire"]
      /\ UNCHANGED <<store, suspended, globalStack, ns, stack, firelist, reader,
                     found>>
  BY DEF TakeEntry, Goto, sharedVars
<1>2. /\ ns[t] \in store
      /\ StackOK(stack[t], ns[t], store)
      /\ entry[t] <= Len(firelist[t])
      /\ Tried(ns[t], firelist[t], entry[t] + 1, store)
  BY <1>1 DEF Data, PartOK, HasPart, ThreadPart, Working
<1>3. entry[t] \in Nat /\ Len(firelist[t]) \in Nat
  BY LenProperties DEF Data, DataType
<1>4. /\ \A u \in Thread \ {t} : pc'[u] = pc[u] /\ entry'[u] = entry[u]
      /\ pc'[t] = "fire"
      /\ entry'[t] = entry[t] - 1
  BY <1>1 DEF Data, DataType, Control, ControlType
<1>5. /\ entry'[t] \in Nat
      /\ entry'[t] < Len(firelist[t])
      /\ entry'[t] + 2 = entry[t] + 1
  BY <1>1, <1>2, <1>3, <1>4
<1>6. ThreadPart(t)'
  BY <1>1, <1>2, <1>4, <1>5 DEF ThreadPart, Working
<1>7. DataType'
  BY <1>1, <1>4, <1>5 DEF Data, DataType
<1>8. /\ found'[t] => ns'[t] \in Goal /\ ns'[t] \in store' \cup {Initial}
      /\ store' \cap Goal # {} => SomeFound'
  BY <1>1 DEF Data, GoalOK, SomeFound
<1> QED
  BY <1>1, <1>4, <1>6, <1>7, <1>8, OwnPartStep

(* After a backtrack the net state is the marking of the entry popped, and *)
(* its fire list has been tried from there on.                             *)
LEMMA BacktrackData ==
  ASSUME Control, Data, NEW t \in Thread, pc[t] \in {"loop", "resume"},
         stack[t] # <<>>, Backtrack(t),
         UNCHANGED <<store, suspended, globalStack, reader, found>>
  PROVE  Data'
<1>1. ThreadPart(t)
  BY DEF Data, PartOK, HasPart, Working
<1>2. /\ ThreadPart(t)'
      /\ ns' \in [Thread -> Marking]
      /\ stack' \in [Thread -> Seq(Frame)]
      /\ firelist' \in [Thread -> Seq(Transition)]
      /\ entry' \in [Thread -> Nat]
      /\ pc'[t] = "loop"
      /\ \A u \in Thread \ {t} : /\ pc'[u] = pc[u]
                                 /\ ns'[u] = ns[u]
                                 /\ stack'[u] = stack[u]
                                 /\ firelist'[u] = firelist[u]
                                 /\ entry'[u] = entry[u]
  BY <1>1, BacktrackPart DEF Control, Data
<1>3. DataType'
  BY <1>2 DEF Data, DataType
<1>4. /\ ~found'[t]
      /\ store' \cap Goal # {} => SomeFound'
  BY DEF Data, GoalOK, SomeFound, Control, FoundOK
<1> QED
  BY <1>2, <1>3, <1>4, OwnPartStep

(* What a thread knows that is about to fire.                              *)
LEMMA FirePart ==
  ASSUME Control, Data, NEW t \in Thread, pc[t] = "fire"
  PROVE  LET tr == firelist[t][entry[t] + 1]
             m  == Fire(ns[t], tr) IN
         /\ ns[t] \in store
         /\ ns[t] \in Marking
         /\ StackOK(stack[t], ns[t], store)
         /\ entry[t] < Len(firelist[t])
         /\ entry[t] \in Nat
         /\ firelist[t] \in Seq(Transition)
         /\ Tried(ns[t], firelist[t], entry[t] + 2, store)
         /\ tr \in Enabled[ns[t]]
         /\ m \in Marking \cap Reachable
         /\ Backfire(m, tr) = ns[t]
         /\ ~found[t]
<1> DEFINE tr == firelist[t][entry[t] + 1]
           m  == Fire(ns[t], tr)
<1>1. /\ ns[t] \in store
      /\ StackOK(stack[t], ns[t], store)
      /\ entry[t] < Len(firelist[t])
      /\ Tried(ns[t], firelist[t], entry[t] + 2, store)
  BY DEF Data, PartOK, HasPart, ThreadPart, Working
<1>2. /\ entry[t] \in Nat
      /\ firelist[t] \in Seq(Transition)
      /\ Len(firelist[t]) \in Nat
      /\ ns[t] \in Marking \cap Reachable
  BY <1>1, LenProperties DEF Data, DataType
<1>3. entry[t] + 1 \in 1 .. Len(firelist[t])
  BY <1>1, <1>2
<1>4. tr \in Enabled[ns[t]]
  BY <1>1, <1>2, <1>3, TriedEnabled
<1>5. m \in Marking \cap Reachable
  BY <1>2, <1>4, ReachableClosed
<1>6. Backfire(m, tr) = ns[t]
  BY <1>2, <1>4, BackfireUndoesFire
<1>7. ~found[t]
  BY DEF Control, FoundOK
<1> QED
  BY <1>1, <1>2, <1>4, <1>5, <1>6, <1>7

(* A known successor counts as tried.                                      *)
LEMMA FireKnownData ==
  ASSUME Control, Data, NEW t \in Thread, FireKnown(t)
  PROVE  Data'
<1> DEFINE tr == firelist[t][entry[t] + 1]
           m  == Fire(ns[t], tr)
<1>1. /\ pc[t] = "fire"
      /\ m \in store
      /\ ns' = [ns EXCEPT ![t] = Backfire(m, tr)]
      /\ pc' = [pc EXCEPT ![t] = "loop"]
      /\ UNCHANGED <<store, suspended, globalStack, stack, firelist, entry,
                     reader, found>>
  BY DEF FireKnown, Goto, sharedVars
<1>2. /\ ns[t] \in store
      /\ ns[t] \in Marking
      /\ StackOK(stack[t], ns[t], store)
      /\ entry[t] < Len(firelist[t])
      /\ entry[t] \in Nat
      /\ firelist[t] \in Seq(Transition)
      /\ Tried(ns[t], firelist[t], entry[t] + 2, store)
      /\ Backfire(m, tr) = ns[t]
      /\ ~found[t]
  BY <1>1, FirePart
<1>3. Tried(ns[t], firelist[t], entry[t] + 1, store)
  BY <1>1, <1>2, TriedOneMore
<1> HIDE DEF m, tr
<1>4. ns' = ns
  BY <1>1, <1>2 DEF Data, DataType
<1>5. /\ \A u \in Thread \ {t} : pc'[u] = pc[u]
      /\ pc'[t] = "loop"
  BY <1>1 DEF Control, ControlType
<1>6. entry[t] <= Len(firelist[t])
  BY <1>2, LenProperties
<1>7. ThreadPart(t)'
  BY <1>1, <1>2, <1>3, <1>4, <1>5, <1>6 DEF ThreadPart, Working
<1>8. DataType'
  BY <1>1, <1>4 DEF Data, DataType
<1>9. store' \cap Goal # {} => SomeFound'
  BY <1>1 DEF Data, GoalOK, SomeFound
<1> QED
  BY <1>1, <1>2, <1>4, <1>5, <1>7, <1>8, <1>9, OwnPartStep

(* A goal is reachable and in the store.                                   *)
LEMMA FireGoalData ==
  ASSUME Control, Data, NEW t \in Thread, FireGoal(t)
  PROVE  Data'
<1> DEFINE tr == firelist[t][entry[t] + 1]
           m  == Fire(ns[t], tr)
<1>1. /\ pc[t] = "fire"
      /\ m \in Goal
      /\ store' = store \cup {m}
      /\ ns' = [ns EXCEPT ![t] = m]
      /\ found' = [found EXCEPT ![t] = TRUE]
      /\ pc' = [pc EXCEPT ![t] = "announce"]
      /\ UNCHANGED <<suspended, globalStack, stack, firelist, entry, reader>>
  BY DEF FireGoal, Goto
<1>2. m \in Marking \cap Reachable
  BY <1>1, FirePart
<1> HIDE DEF m, tr
<1>3. /\ \A u \in Thread \ {t} : /\ pc'[u] = pc[u]
                                 /\ ns'[u] = ns[u]
                                 /\ found'[u] = found[u]
      /\ pc'[t] = "announce"
      /\ ns'[t] = m
      /\ found'[t]
  BY <1>1 DEF Data, DataType, Control, ControlType
<1>4. DataType'
  BY <1>1, <1>2 DEF Data, DataType
<1>5. ~HasPart(t)'
  BY <1>3 DEF HasPart, Working
<1>6. SomeFound'
  BY <1>3 DEF SomeFound
<1>7. /\ \A u \in Thread \ {t} : /\ pc'[u] = pc[u]
                                 /\ ns'[u] = ns[u]
                                 /\ stack'[u] = stack[u]
                                 /\ firelist'[u] = firelist[u]
                                 /\ entry'[u] = entry[u]
                                 /\ found'[u] = found[u]
      /\ store \subseteq store'
      /\ ns'[t] \in Goal /\ ns'[t] \in store' \cup {Initial}
  BY <1>1, <1>3
<1>8. pc[t] # "copy" /\ suspended' = suspended /\ reader' = reader
  BY <1>1
<1> QED
  BY ONLY Data, <1>3, <1>4, <1>5, <1>6, <1>7, <1>8, OwnPartStep

(* A new marking is in the store, and its thread goes on from it or is     *)
(* about to hand it over.                                                  *)
LEMMA FireNewData ==
  ASSUME Control, Data, NEW t \in Thread, FireNew(t)
  PROVE  Data'
<1> DEFINE tr == firelist[t][entry[t] + 1]
           m  == Fire(ns[t], tr)
           fr == [at |-> ns[t], fl |-> firelist[t], current |-> entry[t]]
<1>1. /\ pc[t] = "fire"
      /\ m \notin Goal
      /\ store' = store \cup {m}
      /\ ns' = [ns EXCEPT ![t] = m]
      /\ stack' = [stack EXCEPT ![t] = Append(@, fr)]
      /\ UNCHANGED <<suspended, globalStack, reader, found>>
  BY DEF FireNew
<1>2. \/ /\ pc' = [pc EXCEPT ![t] = "readNumSuspended"]
         /\ UNCHANGED <<firelist, entry>>
      \/ Expand(t, m)
  BY DEF FireNew, Goto
<1>3. /\ ns[t] \in store
      /\ ns[t] \in Marking
      /\ StackOK(stack[t], ns[t], store)
      /\ entry[t] < Len(firelist[t])
      /\ entry[t] \in Nat
      /\ firelist[t] \in Seq(Transition)
      /\ Tried(ns[t], firelist[t], entry[t] + 2, store)
      /\ m \in Marking \cap Reachable
      /\ ~found[t]
  BY <1>1, FirePart
<1>4. FrameOK(fr, store')
  <2>1. Tried(ns[t], firelist[t], entry[t] + 2, store')
    BY <1>1, <1>3, TriedGrows
  <2>2. Fire(ns[t], firelist[t][entry[t] + 1]) \in store'
    BY <1>1
  <2>3. Tried(ns[t], firelist[t], entry[t] + 1, store')
    BY <1>3, <2>1, <2>2, TriedOneMore
  <2> QED
    BY <1>1, <1>3, <2>3 DEF FrameOK, Frame
<1>5. Fire(fr.at, Fired(fr)) = m
  BY DEF Fired
<1>6. StackOK(stack[t], fr.at, store')
  BY <1>1, <1>3, StackGrows
<1> HIDE DEF m, tr, fr
<1>7. /\ StackOK(Append(stack[t], fr), m, store')
      /\ Append(stack[t], fr) # <<>>
  BY <1>3, <1>4, <1>5, <1>6, StackPush
<1>8. /\ ns'[t] = m
      /\ stack'[t] = Append(stack[t], fr)
      /\ \A u \in Thread \ {t} : ns'[u] = ns[u] /\ stack'[u] = stack[u]
      /\ ns' \in [Thread -> Marking]
      /\ stack' \in [Thread -> Seq(Frame)]
  <2>1. Append(stack[t], fr) \in Seq(Frame)
    BY <1>7 DEF StackOK
  <2> QED
    BY <1>1, <1>3, <2>1 DEF Data, DataType
<1>9. /\ ThreadPart(t)'
      /\ firelist' \in [Thread -> Seq(Transition)]
      /\ entry' \in [Thread -> Nat]
      /\ pc'[t] \in {"readNumSuspended", "loop"}
      /\ \A u \in Thread \ {t} : /\ pc'[u] = pc[u]
                                 /\ firelist'[u] = firelist[u]
                                 /\ entry'[u] = entry[u]
  <2>1. m \in store'
    BY <1>1
  <2>2. StackOK(stack'[t], m, store')
    BY <1>7, <1>8
  <2>3. CASE Expand(t, m)
    BY <1>3, <1>8, <2>1, <2>2, <2>3, ExpandPart DEF Control, Data
  <2>4. CASE /\ pc' = [pc EXCEPT ![t] = "readNumSuspended"]
             /\ UNCHANGED <<firelist, entry>>
    <3>1. pc'[t] = "readNumSuspended"
      BY <2>4 DEF Control, ControlType
    <3>2. ThreadPart(t)'
      BY <1>7, <1>8, <2>1, <3>1 DEF ThreadPart
    <3> QED
      BY <2>4, <3>1, <3>2 DEF Data, DataType, Control, ControlType
  <2> QED
    BY <1>2, <2>3, <2>4
<1>10. DataType'
  BY <1>1, <1>3, <1>8, <1>9 DEF Data, DataType
<1>11. store' \cap Goal # {} => SomeFound'
  BY <1>1 DEF Data, GoalOK, SomeFound
<1> QED
  BY <1>1, <1>3, <1>8, <1>9, <1>10, <1>11, OwnPartStep

(* A thread that finds nobody to hand its marking to goes on with it.      *)
LEMMA KeepData ==
  ASSUME Control, Data, NEW t \in Thread, HasPart(t), ~found[t],
         pc[t] \in {"readNumSuspended", "pickReader", "woken"},
         Expand(t, ns[t]),
         UNCHANGED <<store, suspended, globalStack, ns, stack, reader, found>>
  PROVE  Data'
<1>1. ns[t] \in store /\ StackOK(stack[t], ns[t], store)
  BY DEF Data, PartOK, ThreadPart
<1>2. ns[t] \in Marking
  BY <1>1 DEF Data, DataType
<1>3. /\ ThreadPart(t)'
      /\ firelist' \in [Thread -> Seq(Transition)]
      /\ entry' \in [Thread -> Nat]
      /\ pc'[t] = "loop"
      /\ \A u \in Thread \ {t} : /\ pc'[u] = pc[u]
                                 /\ firelist'[u] = firelist[u]
                                 /\ entry'[u] = entry[u]
  BY <1>1, <1>2, ExpandPart DEF Control, Data
<1>4. DataType'
  BY <1>3 DEF Data, DataType
<1>5. store' \cap Goal # {} => SomeFound'
  BY DEF Data, GoalOK, SomeFound
<1> QED
  BY <1>3, <1>4, <1>5, OwnPartStep

(* A giver that found a reader still holds its part.                       *)
LEMMA PickReaderData ==
  ASSUME Control, Data, NEW t \in Thread, PickReader(t)
  PROVE  Data'
<1>1. HasPart(t) /\ ~found[t] /\ pc[t] = "pickReader"
  BY DEF PickReader, HasPart, Working, Control, FoundOK
<1>2. CASE suspended = <<>>
  BY <1>1, <1>2, KeepData DEF PickReader
<1>3. CASE suspended # <<>>
  <2> DEFINE r == Top(suspended)
  <2>1. /\ reader' = [reader EXCEPT ![t] = r]
        /\ suspended' = Pop(suspended)
        /\ pc' = [pc EXCEPT ![t] = "copy"]
        /\ UNCHANGED <<store, globalStack, ns, stack, firelist, entry, found>>
    BY <1>3 DEF PickReader, Goto
  <2>2. /\ Len(suspended) \in Nat \ {0}
        /\ r = suspended[Len(suspended)]
        /\ DOMAIN suspended = 1 .. Len(suspended)
        /\ DOMAIN suspended' = 1 .. (Len(suspended) - 1)
        /\ \A i \in 1 .. (Len(suspended) - 1) : suspended'[i] = suspended[i]
    BY <1>3, <2>1, PopProperties, LenProperties DEF Control, ControlType, Top
  <2>3. \A i \in DOMAIN suspended : i \in DOMAIN suspended' \/ i = Len(suspended)
    BY <2>2
  <2> HIDE DEF r
  <2>4. /\ \A u \in Thread : pc'[u] = IF u = t THEN "copy" ELSE pc[u]
        /\ \A u \in Thread : reader'[u] = IF u = t THEN r ELSE reader[u]
    BY <2>1 DEF Control, ControlType
  <2>5. ASSUME NEW u \in Thread \ {t}, HasPart(u)' PROVE HasPart(u)
    <3>1. CASE u = r
      <4>1. pc'[t] = "copy" /\ reader'[t] = u
        BY <2>4, <3>1
      <4>2. ~Given(u)'
        BY <4>1 DEF Given
      <4> QED
        BY <2>4, <2>5, <4>2 DEF HasPart
    <3>2. CASE u # r
      <4>1. InSuspended(u) => InSuspended(u)'
        BY <2>2, <2>3, <3>2 DEF InSuspended
      <4>2. \A v \in Thread : pc[v] = "copy" /\ reader[v] = u
                                 => pc'[v] = "copy" /\ reader'[v] = u
        BY <1>1, <2>4
      <4>3. Given(u)' => Given(u)
        BY <4>1, <4>2 DEF Given
      <4> QED
        BY <2>4, <2>5, <4>3 DEF HasPart
    <3> QED
      BY <3>1, <3>2
  <2>6. ThreadPart(t)'
    <3>1. ThreadPart(t)
      BY <1>1 DEF Data, PartOK
    <3> QED
      BY <1>1, <2>1, <2>4, <3>1 DEF ThreadPart, Working
  <2>7. DataType'
    BY <2>1 DEF Data, DataType
  <2>8. store' \cap Goal # {} => SomeFound'
    BY <2>1 DEF Data, GoalOK, SomeFound
  <2> QED
    BY <1>1, <2>1, <2>4, <2>5, <2>6, <2>7, <2>8, PartStep
<1> QED
  BY <1>2, <1>3

(* The reader is given a sound part: the copied stack, the new net state   *)
(* and a fresh fire list.                                                  *)
LEMMA CopyToReaderData ==
  ASSUME Control, Data, NEW t \in Thread, CopyToReader(t)
  PROVE  Data'
<1> DEFINE r == reader[t]
           c == CopyStack(stack[t])
<1>1. /\ pc[t] = "copy"
      /\ stack' = [stack EXCEPT ![r] = c]
      /\ ns' = [ns EXCEPT ![r] = ns[t]]
      /\ pc' = [pc EXCEPT ![t] = "postReader"]
      /\ UNCHANGED <<store, suspended, globalStack, firelist, entry, reader,
                     found>>
  BY DEF CopyToReader, Goto, sharedVars
<1>2. /\ r \in Thread
      /\ pc[r] \in {"wait", "woken", "done"}
      /\ ~found[r]
      /\ \A u \in Thread \ {t} : HandingOver(u) => reader[u] # r
  <2>1. HandingOver(t)
    BY <1>1 DEF HandingOver
  <2>2. r \in Thread
    BY DEF Control, ControlType
  <2>3. ~found[r]
    BY <2>1, <2>2 DEF Control, HandOverToIdle, FoundOK
  <2> QED
    BY <2>1, <2>2, <2>3 DEF Control, HandOverToIdle
<1>3. ThreadPart(t) /\ stack[t] # <<>>
  BY <1>1 DEF Data, PartOK, HasPart, ThreadPart, Working
<1>4. /\ ns[t] \in store
      /\ ns[t] \in Marking
      /\ StackOK(c, ns[t], store)
  BY <1>3, StackCopy DEF ThreadPart, Data, DataType
<1> HIDE DEF r, c
<1>5. r # t
  BY <1>1, <1>2
<1>6. \A u \in Thread : /\ stack'[u] = IF u = r THEN c ELSE stack[u]
                        /\ ns'[u] = IF u = r THEN ns[t] ELSE ns[u]
                        /\ pc'[u] = IF u = t THEN "postReader" ELSE pc[u]
  BY <1>1 DEF Data, DataType, Control, ControlType
<1>7. DataType'
  BY <1>1, <1>4 DEF Data, DataType, StackOK
<1>8. StartOK'
  BY <1>2, <1>6 DEF Data, StartOK
<1>9. PartOK'
  <2> SUFFICES ASSUME NEW u \in Thread, HasPart(u)'
               PROVE  ThreadPart(u)'
    BY DEF PartOK
  <2>1. CASE u = t
    BY <1>1, <1>3, <1>5, <1>6, <2>1 DEF ThreadPart, Working
  <2>2. CASE u = r
    <3>1. pc'[u] \in {"wait", "woken", "done"}
      BY <1>2, <1>5, <1>6, <2>2
    <3> QED
      BY <1>1, <1>4, <1>6, <2>2, <3>1 DEF ThreadPart, Working
  <2>3. CASE u # t /\ u # r
    <3>1. Given(u)' => Given(u)
      <4>1. \A v \in Thread : pc[v] = "copy" /\ reader[v] = u
                                 => pc'[v] = "copy" /\ reader'[v] = u
        BY <1>1, <1>6, <2>3 DEF r
      <4>2. InSuspended(u) => InSuspended(u)'
        BY <1>1 DEF InSuspended
      <4> QED
        BY <4>1, <4>2 DEF Given
    <3>2. HasPart(u)
      BY <1>6, <2>3, <3>1 DEF HasPart
    <3>3. ThreadPart(u)
      BY <3>2 DEF Data, PartOK
    <3> QED
      BY <1>1, <1>6, <2>3, <3>3 DEF ThreadPart
  <2> QED
    BY <2>1, <2>2, <2>3
<1>10. GoalOK'
  BY <1>1, <1>2, <1>6 DEF Data, GoalOK, SomeFound
<1> QED
  BY <1>7, <1>8, <1>9, <1>10 DEF Data

(* A thread suspends itself holding nothing.                               *)
LEMMA SuspendData ==
  ASSUME Control, Data, NEW t \in Thread, Suspend(t)
  PROVE  Data'
<1>1. /\ pc[t] = "suspend"
      /\ suspended' = Append(suspended, t)
      /\ pc' = [pc EXCEPT ![t] = IF Len(suspended') = NumThreads
                                 THEN "announce" ELSE "wait"]
      /\ UNCHANGED <<store, globalStack, ns, stack, firelist, entry, reader,
                     found>>
  BY DEF Suspend, Goto, localVars
<1>2. /\ \A u \in Thread \ {t} : pc'[u] = pc[u]
      /\ pc'[t] \in {"announce", "wait"}
  BY <1>1 DEF Control, ControlType
<1>3. /\ \A u \in Thread : InSuspended(u) => InSuspended(u)'
      /\ InSuspended(t)'
  <2>1. suspended \in Seq(Thread) /\ Len(suspended) \in Nat
    BY LenProperties DEF Control, ControlType
  <2>2. /\ DOMAIN suspended = 1 .. Len(suspended)
        /\ DOMAIN suspended' = 1 .. (Len(suspended) + 1)
        /\ \A i \in 1 .. Len(suspended) : suspended'[i] = suspended[i]
        /\ suspended'[Len(suspended) + 1] = t
    BY <1>1, <2>1, AppendProperties, LenProperties
  <2>3. /\ \A i \in DOMAIN suspended : i \in DOMAIN suspended'
        /\ Len(suspended) + 1 \in DOMAIN suspended'
    BY <2>1, <2>2
  <2> QED
    BY <2>2, <2>3 DEF InSuspended
<1>4. ASSUME NEW u \in Thread \ {t}, HasPart(u)' PROVE HasPart(u)
  <2>1. \A v \in Thread : pc[v] = "copy" => pc'[v] = "copy"
    BY <1>1, <1>2
  <2>2. Given(u)' => Given(u)
    BY <1>1, <1>3, <2>1 DEF Given
  <2> QED
    BY <1>2, <1>4, <2>2 DEF HasPart
<1>5. ~HasPart(t)'
  BY <1>2, <1>3 DEF HasPart, Working, Given
<1>6. DataType'
  BY <1>1 DEF Data, DataType
<1>7. /\ ~found'[t]
      /\ store' \cap Goal # {} => SomeFound'
  BY <1>1 DEF Data, GoalOK, SomeFound, Control, FoundOK
<1> QED
  BY <1>1, <1>2, <1>4, <1>5, <1>6, <1>7, PartStep

(* The stack published does not matter to those that work.                 *)
LEMMA PublishData ==
  ASSUME Control, Data, NEW t \in Thread, Publish(t)
  PROVE  Data'
<1>1. /\ pc[t] = "post"
      /\ \/ globalStack' = stack[t] /\ stack' = [stack EXCEPT ![t] = globalStack]
         \/ UNCHANGED <<globalStack, stack>>
      /\ pc' = [pc EXCEPT ![t] = "done"]
      /\ UNCHANGED <<store, suspended, ns, firelist, entry, reader, found>>
  BY DEF Publish, Goto
<1>2. DataType'
  BY <1>1 DEF Data, DataType
<1>3. /\ \A u \in Thread \ {t} : pc'[u] = pc[u] /\ stack'[u] = stack[u]
      /\ pc'[t] = "done"
  BY <1>1 DEF Data, DataType, Control, ControlType
<1>4. ~HasPart(t)'
  BY <1>3 DEF HasPart, Working
<1>5. /\ found'[t] => ns'[t] \in Goal /\ ns'[t] \in store' \cup {Initial}
      /\ store' \cap Goal # {} => SomeFound'
  BY <1>1 DEF Data, GoalOK, SomeFound
<1> QED
  BY <1>1, <1>2, <1>3, <1>4, <1>5, OwnPartStep

(* A thread woken with work holds the part that it was given.              *)
LEMMA WokenData ==
  ASSUME Control, Data, NEW t \in Thread, Woken(t)
  PROVE  Data'
<1>1. /\ pc[t] = "woken"
      /\ UNCHANGED <<store, suspended, globalStack, ns, stack, reader, found>>
      /\ \/ pc' = [pc EXCEPT ![t] = "done"] /\ UNCHANGED <<firelist, entry>>
         \/ ~finished /\ Expand(t, ns[t])
  BY DEF Woken, Goto, sharedVars
<1>2. CASE ~finished /\ Expand(t, ns[t])
  <2>1. HasPart(t) /\ ~found[t]
    BY <1>1, <1>2 DEF Control, WokenOK, HasPart, FoundOK
  <2> QED
    BY <1>1, <1>2, <2>1, KeepData
<1>3. CASE pc' = [pc EXCEPT ![t] = "done"] /\ UNCHANGED <<firelist, entry>>
  <2>1. pc'[t] = "done"
    BY <1>3 DEF Control, ControlType
  <2>2. ~HasPart(t)'
    BY <2>1 DEF HasPart, Working
  <2> QED
    BY <1>1, <1>3, <2>2, LabelData DEF Working
<1> QED
  BY <1>1, <1>2, <1>3

(* Steps that change control only keep Data.                               *)
LEMMA LabelStepsData ==
  ASSUME Control, Data, NEW t \in Thread,
         \/ Abort(t) \/ PostReader(t) \/ Wait(t) \/ Announce(t) \/ PostNext(t)
  PROVE  Data'
<1> USE DEF sharedVars, localVars, Goto
<1>1. CASE Abort(t)
  <2>1. /\ pc[t] = "loop"
        /\ pc' = [pc EXCEPT ![t] = "done"]
        /\ UNCHANGED <<store, globalStack, suspended, ns, stack, firelist,
                       entry, reader, found>>
    BY <1>1 DEF Abort
  <2>2. HasPart(t)
    BY <2>1 DEF HasPart, Working
  <2> QED
    BY <2>1, <2>2, LabelData DEF Working
<1>2. CASE PostReader(t)
  <2>1. /\ pc[t] = "postReader"
        /\ pc' = [pc EXCEPT ![t] = "resume"]
        /\ UNCHANGED <<store, globalStack, suspended, ns, stack, firelist,
                       entry, reader, found>>
    BY <1>2 DEF PostReader
  <2>2. HasPart(t)
    BY <2>1 DEF HasPart, Working
  <2>3. stack[t] # <<>>
    BY <2>1, <2>2 DEF Data, PartOK, ThreadPart, Working
  <2> QED
    BY <2>1, <2>2, <2>3, LabelData
<1>3. CASE Wait(t)
  <2>1. /\ pc[t] = "wait"
        /\ pc' = [pc EXCEPT ![t] = "woken"]
        /\ UNCHANGED <<store, globalStack, suspended, ns, stack, firelist,
                       entry, reader, found>>
    BY <1>3 DEF Wait
  <2>2. HasPart(t)' => HasPart(t)
    <3>1. \A u \in Thread : pc'[u] = IF u = t THEN "woken" ELSE pc[u]
      BY <2>1 DEF Control, ControlType
    <3>2. Given(t)' => Given(t)
      <4>1. \A v \in Thread : pc[v] = "copy" => pc'[v] = "copy"
        BY <2>1, <3>1
      <4> QED
        BY <2>1, <4>1 DEF Given, InSuspended
    <3> QED
      BY <2>1, <3>1, <3>2 DEF HasPart, Working
  <2> QED
    BY <2>1, <2>2, LabelData DEF Working
<1>4. CASE Announce(t)
  <2>1. /\ pc[t] = "announce"
        /\ pc' = [pc EXCEPT ![t] = "post"]
        /\ UNCHANGED <<store, globalStack, suspended, ns, stack, firelist,
                       entry, reader, found>>
    BY <1>4 DEF Announce
  <2>2. ~HasPart(t)'
    BY <2>1 DEF HasPart, Working, Control, ControlType
  <2> QED
    BY <2>1, <2>2, LabelData DEF Working
<1>5. CASE PostNext(t)
  <2>1. UNCHANGED <<pc, store, globalStack, suspended, ns, stack, firelist,
                    entry, reader, found>>
    BY <1>5 DEF PostNext
  <2> QED
    BY <2>1 DEF Data, DataType, StartOK, PartOK, HasPart, Given, InSuspended,
                ThreadPart, GoalOK, SomeFound
<1> QED
  BY <1>1, <1>2, <1>3, <1>4, <1>5

(* Data holds in the beginning.                                            *)
LEMMA DataInit ==
  ASSUME Init
  PROVE  Data
<1>1. Initial \in Marking
  BY Graph DEF GraphAssumption
<1>2. DataType
  <2>1. <<>> \in Seq(Frame) /\ <<>> \in Seq(Transition)
    BY EmptySeq
  <2> QED
    BY <1>1, <2>1 DEF Init, DataType
<1>3. \A t \in Thread : /\ pc[t] = "start"
                        /\ ns[t] = Initial
                        /\ stack[t] = <<>>
                        /\ ~found[t]
  BY DEF Init
<1>4. StartOK /\ PartOK /\ GoalOK
  BY <1>3 DEF StartOK, PartOK, HasPart, Working, GoalOK, Init
<1> QED
  BY <1>2, <1>4 DEF Data

(* Every step keeps Data.                                                  *)
LEMMA DataStep ==
  ASSUME Control, Data, [Next]_vars
  PROVE  Data'
<1>1. ASSUME NEW t \in Thread, CloseMarking(t) PROVE Data'
  <2>1. CASE stack[t] # <<>>
    <3>1. pc[t] = "loop" /\ Backtrack(t)
      BY <1>1, <2>1 DEF CloseMarking
    <3>2. UNCHANGED <<store, suspended, globalStack, reader, found>>
      BY <1>1 DEF CloseMarking, sharedVars
    <3> QED
      BY <2>1, <3>1, <3>2, BacktrackData
  <2>2. CASE stack[t] = <<>>
    <3>1. /\ pc[t] = "loop"
          /\ pc' = [pc EXCEPT ![t] = "suspend"]
          /\ UNCHANGED <<store, globalStack, suspended, ns, stack, firelist,
                         entry, reader, found>>
      BY <1>1, <2>2 DEF CloseMarking, sharedVars, Goto
    <3>2. ~HasPart(t)'
      BY <3>1 DEF HasPart, Working, Control, ControlType
    <3> QED
      BY <3>1, <3>2, LabelData DEF Working
  <2> QED
    BY <2>1, <2>2
<1>2. ASSUME NEW t \in Thread, ReadNumSuspended(t) PROVE Data'
  <2>1. /\ pc[t] = "readNumSuspended"
        /\ UNCHANGED <<store, suspended, globalStack, ns, stack, reader, found>>
        /\ \/ /\ pc' = [pc EXCEPT ![t] = "pickReader"]
              /\ UNCHANGED <<firelist, entry>>
           \/ Expand(t, ns[t])
    BY <1>2 DEF ReadNumSuspended, sharedVars, Goto
  <2>2. HasPart(t) /\ ~found[t] /\ stack[t] # <<>>
    BY <2>1 DEF HasPart, Working, Control, FoundOK, Data, PartOK, ThreadPart
  <2>3. CASE Expand(t, ns[t])
    BY <2>1, <2>2, <2>3, KeepData
  <2>4. CASE /\ pc' = [pc EXCEPT ![t] = "pickReader"]
             /\ UNCHANGED <<firelist, entry>>
    BY <2>1, <2>2, <2>4, LabelData
  <2> QED
    BY <2>1, <2>3, <2>4
<1>3. ASSUME NEW t \in Thread, Resume(t) PROVE Data'
  <2>1. /\ pc[t] = "resume"
        /\ UNCHANGED <<store, suspended, globalStack, reader, found>>
        /\ \/ /\ pc' = [pc EXCEPT ![t] = "done"]
              /\ UNCHANGED <<ns, stack, firelist, entry>>
           \/ Backtrack(t)
    BY <1>3 DEF Resume, sharedVars, Goto
  <2>2. HasPart(t) /\ stack[t] # <<>>
    BY <2>1 DEF HasPart, Working, Data, PartOK, ThreadPart
  <2>3. CASE Backtrack(t)
    BY <2>1, <2>2, <2>3, BacktrackData
  <2>4. CASE /\ pc' = [pc EXCEPT ![t] = "done"]
             /\ UNCHANGED <<ns, stack, firelist, entry>>
    BY <2>1, <2>2, <2>4, LabelData DEF Working
  <2> QED
    BY <2>1, <2>3, <2>4
<1>4. ASSUME Join \/ Stop \/ UNCHANGED vars PROVE Data'
  <2>1. UNCHANGED <<store, suspended, globalStack, pc, ns, stack, firelist,
                    entry, reader, found>>
    BY <1>4 DEF Join, Stop, vars, sharedVars, localVars
  <2> QED
    BY <2>1 DEF Data, DataType, StartOK, PartOK, HasPart, Given, InSuspended,
                ThreadPart, GoalOK, SomeFound
<1> QED
  BY <1>1, <1>2, <1>3, <1>4, CheckInitialData, InsertInitialData,
     TakeEntryData, FireKnownData, FireGoalData, FireNewData, PickReaderData,
     CopyToReaderData, SuspendData, PublishData, WokenData, LabelStepsData
     DEF Next, Step

(* The stacks, fire lists and net states of all threads stay sound.        *)
THEOREM DataInvariant == Spec => []Data
<1>1. Init => Control /\ Data
  BY ControlInit, DataInit
<1>2. (Control /\ Data) /\ [Next]_vars => (Control /\ Data)'
  BY ControlStep, DataStep
<1> QED
  BY <1>1, <1>2, PTL DEF Spec

(* ParallelExploration.cc 165-171: whoever built it, the stack of a thread *)
(* that works is a path from the initial marking to its net state.         *)
THEOREM StacksArePaths == Spec => []StackIsPath
<1>1. Data => StackIsPath
  BY DEF Data, PartOK, HasPart, ThreadPart, StackOK, StackIsPath
<1> QED
  BY <1>1, DataInvariant, PTL
-----------------------------------------------------------------------------
(* The Coverage layer: no marking is forgotten.                            *)
LEMMA ProcessedGrows ==
  ASSUME NEW m, NEW S, NEW T, S \subseteq T, Processed(m, S)
  PROVE  Processed(m, T)
BY DEF Processed

(* What a step has to keep for no marking to be forgotten: others keep     *)
(* what they hold, and what this thread lets go is processed or held by    *)
(* someone else.                                                           *)
LEMMA CoverStep ==
  ASSUME Covered, NEW t \in Thread, store \subseteq store',
         SomeFound => SomeFound',
         \A u \in Thread \ {t} : /\ pc'[u] = pc[u]
                                 /\ ns'[u] = ns[u]
                                 /\ stack'[u] = stack[u]
                                 /\ HasPart(u) => HasPart(u)',
         \A m : Holds(t, m) =>
            SomeFound' \/ Processed(m, store') \/ Holds(t, m)',
         \A m \in store' \ store : SomeFound' \/ Holds(t, m)'
  PROVE  Covered'
<1> SUFFICES ASSUME ~SomeFound', NEW m \in store'
             PROVE  Processed(m, store') \/ \E u \in Thread : Holds(u, m)'
  BY DEF Covered
<1>1. CASE m \in store
  <2>1. CASE Processed(m, store)
    BY <2>1, ProcessedGrows
  <2>2. CASE \E u \in Thread : Holds(u, m)
    <3>1. PICK u \in Thread : Holds(u, m)
      BY <2>2
    <3>2. u # t => Holds(u, m)'
      BY <3>1 DEF Holds
    <3> QED
      BY <3>1, <3>2
  <2> QED
    BY <1>1, <2>1, <2>2 DEF Covered
<1> QED
  BY <1>1

(* A thread that takes no reader and enters no suspension: the others keep *)
(* their parts.                                                            *)
LEMMA OwnCoverStep ==
  ASSUME Covered, NEW t \in Thread, store \subseteq store',
         SomeFound => SomeFound',
         pc'[t] # "copy", suspended' = suspended, reader' = reader,
         \A u \in Thread \ {t} : /\ pc'[u] = pc[u]
                                 /\ ns'[u] = ns[u]
                                 /\ stack'[u] = stack[u],
         \A m : Holds(t, m) =>
            SomeFound' \/ Processed(m, store') \/ Holds(t, m)',
         \A m \in store' \ store : SomeFound' \/ Holds(t, m)'
  PROVE  Covered'
<1>1. ASSUME NEW u \in Thread \ {t}, HasPart(u) PROVE HasPart(u)'
  <2>1. \A v \in Thread : pc'[v] = "copy" => pc[v] = "copy"
    OBVIOUS
  <2>2. Given(u) => Given(u)'
    BY <2>1 DEF Given, InSuspended
  <2> QED
    BY <1>1, <2>2 DEF HasPart
<1> QED
  BY <1>1, CoverStep

(* A step that changes neither data nor a part.                            *)
LEMMA LabelCovered ==
  ASSUME Control, Covered, NEW t \in Thread, NEW l, l # "copy",
         pc' = [pc EXCEPT ![t] = l],
         l \in {"postReader", "resume"} => pc[t] \in {"postReader", "resume"},
         HasPart(t) => HasPart(t)' \/ SomeFound,
         UNCHANGED <<store, suspended, ns, stack, reader, found>>
  PROVE  Covered'
<1>1. \A u \in Thread : pc'[u] = IF u = t THEN l ELSE pc[u]
  BY DEF Control, ControlType
<1>2. SomeFound => SomeFound'
  BY DEF SomeFound
<1>3. \A m : Holds(t, m) => SomeFound' \/ Holds(t, m)'
  BY <1>1, <1>2 DEF Holds
<1> QED
  BY <1>1, <1>2, <1>3, OwnCoverStep

(* Before a thread gives up because the search is over, a goal was found.  *)
LEMMA OverMeansFound ==
  ASSUME Control, NEW t \in Thread, finished, ~InSuspended(t)
  PROVE  SomeFound
BY DEF Control, NegativeEnd, AllSuspended

(* The marking a backtrack leaves is processed.                            *)
LEMMA BacktrackCovered ==
  ASSUME Control, Data, Covered, NEW t \in Thread,
         pc[t] \in {"loop", "resume"}, stack[t] # <<>>,
         pc[t] = "loop" => entry[t] = 0, Backtrack(t),
         UNCHANGED <<store, suspended, reader, found>>
  PROVE  Covered'
<1> DEFINE top == Top(stack[t])
           s   == stack[t]
           n   == Len(stack[t])
<1>1. ThreadPart(t)
  BY DEF Data, PartOK, HasPart, Working
<1>2. /\ Backfire(ns[t], Fired(top)) = top.at
      /\ ns[t] \in Marking
  <2>1. store \in SUBSET Marking /\ ns[t] \in store /\ StackOK(s, ns[t], store)
    BY <1>1 DEF ThreadPart, Data, DataType
  <2> QED
    BY <2>1, StackPop
<1>3. /\ n \in Nat \ {0}
      /\ top = s[n]
      /\ DOMAIN s = 1 .. n
      /\ DOMAIN Pop(s) = 1 .. (n - 1)
      /\ \A i \in 1 .. (n - 1) : Pop(s)[i] = s[i]
  <2>1. s \in Seq(Frame)
    BY DEF Data, DataType
  <2> QED
    BY <2>1, PopProperties, LenProperties DEF Top
<1>4. \A i \in DOMAIN s : i = n \/ i \in DOMAIN Pop(s)
  BY <1>3
<1>5. /\ ns' = [ns EXCEPT ![t] = top.at]
      /\ stack' = [stack EXCEPT ![t] = Pop(s)]
      /\ pc' = [pc EXCEPT ![t] = "loop"]
  BY <1>2 DEF Backtrack, Goto
<1> HIDE DEF top, s, n
<1>6. /\ ns'[t] = top.at
      /\ stack'[t] = Pop(s)
      /\ pc'[t] = "loop"
      /\ \A u \in Thread \ {t} : /\ pc'[u] = pc[u]
                                 /\ ns'[u] = ns[u]
                                 /\ stack'[u] = stack[u]
  BY <1>5 DEF Data, DataType, Control, ControlType
<1>7. HasPart(t)'
  BY <1>6 DEF HasPart, Working
<1>8. ASSUME NEW m, Holds(t, m) PROVE Processed(m, store') \/ Holds(t, m)'
  <2>1. CASE m = ns[t] /\ pc[t] = "loop"
    <3>1. Tried(ns[t], firelist[t], 1, store)
      BY <1>1, <2>1 DEF ThreadPart
    <3> QED
      BY <1>2, <2>1, <3>1, TriedAll
  <2>2. CASE \E i \in DOMAIN s : m = s[i].at
    <3>1. PICK i \in DOMAIN s : m = s[i].at
      BY <2>2
    <3>2. CASE i = n
      BY <1>3, <1>6, <1>7, <3>1, <3>2 DEF Holds
    <3>3. CASE i # n
      <4>1. i \in DOMAIN stack'[t] /\ m = stack'[t][i].at
        BY <1>3, <1>4, <1>6, <3>1, <3>3
      <4> QED
        BY <1>7, <4>1 DEF Holds
    <3> QED
      BY <3>2, <3>3
  <2> QED
    BY <1>8, <2>1, <2>2 DEF Holds, s
<1>9. SomeFound => SomeFound'
  BY DEF SomeFound
<1> QED
  BY <1>6, <1>8, <1>9, OwnCoverStep

(* A thread that goes on with the marking it has.                          *)
LEMMA KeepCovered ==
  ASSUME Control, Covered, NEW t \in Thread,
         pc[t] \in {"readNumSuspended", "pickReader", "woken"}, Expand(t, ns[t]),
         UNCHANGED <<store, suspended, ns, stack, reader, found>>
  PROVE  Covered'
<1>1. pc' = [pc EXCEPT ![t] = "loop"]
  BY DEF Expand, Goto
<1>2. HasPart(t)'
  BY <1>1 DEF HasPart, Working, Control, ControlType
<1> QED
  BY <1>1, <1>2, LabelCovered

(* The initial marking is held by those that have entered it.              *)
LEMMA StartCovered ==
  ASSUME Control, Data, Covered, NEW t \in Thread,
         CheckInitial(t) \/ InsertInitial(t)
  PROVE  Covered'
<1>1. CASE CheckInitial(t)
  <2>1. /\ pc[t] = "start"
        /\ found' = [found EXCEPT ![t] = ns[t] \in Goal]
        /\ pc' = [pc EXCEPT ![t] = IF ns[t] \in Goal THEN "announce"
                                   ELSE "insertInitial"]
        /\ UNCHANGED <<store, suspended, ns, stack, reader>>
    BY <1>1 DEF CheckInitial, Goto, sharedVars
  <2>2. ~found[t]
    BY <2>1 DEF Control, FoundOK
  <2>3. /\ \A u \in Thread \ {t} : pc'[u] = pc[u] /\ found'[u] = found[u]
        /\ pc'[t] # "copy"
    BY <2>1 DEF Control, ControlType
  <2>4. SomeFound => SomeFound'
    BY <2>2, <2>3 DEF SomeFound
  <2>5. \A m : ~Holds(t, m)
    BY <2>1 DEF Holds, HasPart, Working
  <2> QED
    BY <2>1, <2>3, <2>4, <2>5, OwnCoverStep
<1>2. CASE InsertInitial(t)
  <2>1. /\ pc[t] = "insertInitial"
        /\ store' = store \cup {ns[t]}
        /\ pc' = [pc EXCEPT ![t] = "loop"]
        /\ UNCHANGED <<suspended, ns, stack, reader, found>>
    BY <1>2 DEF InsertInitial, Expand, Goto
  <2>2. /\ \A u \in Thread \ {t} : pc'[u] = pc[u]
        /\ pc'[t] = "loop"
    BY <2>1 DEF Control, ControlType
  <2>3. SomeFound => SomeFound'
    BY <2>1 DEF SomeFound
  <2>4. \A m : ~Holds(t, m)
    BY <2>1 DEF Holds, HasPart, Working
  <2>5. Holds(t, ns[t])'
    BY <2>1, <2>2 DEF Holds, HasPart, Working
  <2>6. \A m \in store' \ store : Holds(t, m)'
    BY <2>1, <2>5
  <2> QED
    BY <2>1, <2>2, <2>3, <2>4, <2>6, OwnCoverStep
<1> QED
  BY <1>1, <1>2

(* After a goal nothing has to be covered.                                 *)
LEMMA FireGoalCovered ==
  ASSUME Control, Data, Covered, NEW t \in Thread, FireGoal(t)
  PROVE  Covered'
<1>1. found' = [found EXCEPT ![t] = TRUE]
  BY DEF FireGoal
<1>2. SomeFound'
  BY <1>1 DEF SomeFound, Control, ControlType
<1> QED
  BY <1>2 DEF Covered

(* A known successor changes no holder.                                    *)
LEMMA FireKnownCovered ==
  ASSUME Control, Data, Covered, NEW t \in Thread, FireKnown(t)
  PROVE  Covered'
<1>1. /\ pc[t] = "fire"
      /\ ns' = [ns EXCEPT ![t] = Backfire(Fire(ns[t], firelist[t][entry[t] + 1]),
                                          firelist[t][entry[t] + 1])]
      /\ pc' = [pc EXCEPT ![t] = "loop"]
      /\ UNCHANGED <<store, suspended, stack, reader, found>>
  BY DEF FireKnown, Goto, sharedVars
<1>2. ns' = ns
  <2>1. Backfire(Fire(ns[t], firelist[t][entry[t] + 1]),
                 firelist[t][entry[t] + 1]) = ns[t]
    BY <1>1, FirePart
  <2> QED
    BY <1>1, <2>1 DEF Data, DataType
<1>3. HasPart(t)'
  BY <1>1 DEF HasPart, Working, Control, ControlType
<1> QED
  BY <1>1, <1>2, <1>3, LabelCovered

(* A new marking is held by its thread, and so is the marking it came      *)
(* from.                                                                   *)
LEMMA FireNewCovered ==
  ASSUME Control, Data, Covered, NEW t \in Thread, FireNew(t)
  PROVE  Covered'
<1> DEFINE m  == Fire(ns[t], firelist[t][entry[t] + 1])
           fr == [at |-> ns[t], fl |-> firelist[t], current |-> entry[t]]
           s  == stack[t]
           n  == Len(stack[t])
<1>1. /\ pc[t] = "fire"
      /\ store' = store \cup {m}
      /\ ns' = [ns EXCEPT ![t] = m]
      /\ stack' = [stack EXCEPT ![t] = Append(s, fr)]
      /\ \/ pc' = [pc EXCEPT ![t] = "readNumSuspended"]
         \/ pc' = [pc EXCEPT ![t] = "loop"]
      /\ UNCHANGED <<suspended, reader, found>>
  BY DEF FireNew, Expand, Goto
<1>2. fr \in Frame
  BY <1>1, FirePart DEF Frame
<1>3. fr.at = ns[t]
  OBVIOUS
<1> HIDE DEF m, fr
<1>4. /\ DOMAIN s = 1 .. n
      /\ n \in Nat
      /\ DOMAIN Append(s, fr) = 1 .. (n + 1)
      /\ \A i \in 1 .. n : Append(s, fr)[i] = s[i]
      /\ Append(s, fr)[n + 1] = fr
  <2>1. s \in Seq(Frame)
    BY DEF Data, DataType
  <2> QED
    BY <1>2, <2>1, AppendProperties, LenProperties
<1> HIDE DEF s, n
<1>5. /\ \A i \in DOMAIN s : i \in DOMAIN Append(s, fr)
      /\ n + 1 \in DOMAIN Append(s, fr)
  BY <1>4
<1>6. /\ \A u \in Thread \ {t} : /\ pc'[u] = pc[u]
                                 /\ ns'[u] = ns[u]
                                 /\ stack'[u] = stack[u]
      /\ pc'[t] \in {"readNumSuspended", "loop"}
      /\ ns'[t] = m
      /\ stack'[t] = Append(s, fr)
  BY <1>1 DEF Data, DataType, Control, ControlType
<1>7. HasPart(t)'
  BY <1>6 DEF HasPart, Working
<1>8. ASSUME NEW k, Holds(t, k) PROVE Holds(t, k)'
  <2>1. CASE k = ns[t]
    BY <1>3, <1>4, <1>5, <1>6, <1>7, <2>1 DEF Holds
  <2>2. CASE \E i \in DOMAIN s : k = s[i].at
    <3>1. PICK i \in DOMAIN s : k = s[i].at
      BY <2>2
    <3>2. i \in DOMAIN stack'[t] /\ k = stack'[t][i].at
      BY <1>4, <1>5, <1>6, <3>1
    <3> QED
      BY <1>7, <3>2 DEF Holds
  <2> QED
    BY <1>8, <2>1, <2>2 DEF Holds, s
<1>9. \A k \in store' \ store : Holds(t, k)'
  BY <1>1, <1>6, <1>7 DEF Holds
<1>10. SomeFound => SomeFound'
  BY <1>1 DEF SomeFound
<1> QED
  BY <1>1, <1>6, <1>8, <1>9, <1>10, OwnCoverStep

(* A giver that missed a reader goes on holding both markings.             *)
LEMMA PickReaderCovered ==
  ASSUME Control, Data, Covered, NEW t \in Thread, PickReader(t)
  PROVE  Covered'
<1>1. pc[t] = "pickReader"
  BY DEF PickReader
<1>2. CASE suspended = <<>>
  BY <1>1, <1>2, KeepCovered DEF PickReader
<1>3. CASE suspended # <<>>
  <2> DEFINE r == Top(suspended)
  <2>1. /\ reader' = [reader EXCEPT ![t] = r]
        /\ suspended' = Pop(suspended)
        /\ pc' = [pc EXCEPT ![t] = "copy"]
        /\ UNCHANGED <<store, ns, stack, found>>
    BY <1>3 DEF PickReader, Goto
  <2>2. /\ Len(suspended) \in Nat \ {0}
        /\ r = suspended[Len(suspended)]
        /\ DOMAIN suspended = 1 .. Len(suspended)
        /\ DOMAIN suspended' = 1 .. (Len(suspended) - 1)
        /\ \A i \in 1 .. (Len(suspended) - 1) : suspended'[i] = suspended[i]
    BY <1>3, <2>1, PopProperties, LenProperties DEF Control, ControlType, Top
  <2>3. /\ \A i \in DOMAIN suspended' : i \in DOMAIN suspended
        /\ Len(suspended) \in DOMAIN suspended
    BY <2>2
  <2> HIDE DEF r
  <2>4. /\ \A u \in Thread : pc'[u] = IF u = t THEN "copy" ELSE pc[u]
        /\ \A u \in Thread : reader'[u] = IF u = t THEN r ELSE reader[u]
    BY <2>1 DEF Control, ControlType
  <2>5. InSuspended(r) /\ \A u \in Thread : InSuspended(u)' => InSuspended(u)
    BY <2>2, <2>3 DEF InSuspended
  <2>6. ASSUME NEW u \in Thread \ {t}, HasPart(u) PROVE HasPart(u)'
    <3>1. ASSUME Given(u) PROVE Given(u)'
      <4>1. u # r
        BY <2>5, <3>1 DEF Given
      <4> QED
        BY <2>4, <2>5, <3>1, <4>1 DEF Given
    <3> QED
      BY <2>4, <2>6, <3>1 DEF HasPart
  <2>7. \A m : Holds(t, m) => Holds(t, m)'
    BY <1>1, <2>1, <2>4 DEF Holds, HasPart, Working
  <2>8. SomeFound => SomeFound'
    BY <2>1 DEF SomeFound
  <2> QED
    BY <2>1, <2>4, <2>6, <2>7, <2>8, CoverStep
<1> QED
  BY <1>2, <1>3

(* What the giver lets go is held by the reader.                           *)
LEMMA CopyToReaderCovered ==
  ASSUME Control, Data, Covered, NEW t \in Thread, CopyToReader(t)
  PROVE  Covered'
<1> DEFINE r == reader[t]
           c == CopyStack(stack[t])
<1>1. /\ pc[t] = "copy"
      /\ stack' = [stack EXCEPT ![r] = c]
      /\ ns' = [ns EXCEPT ![r] = ns[t]]
      /\ pc' = [pc EXCEPT ![t] = "postReader"]
      /\ UNCHANGED <<store, finished, suspended, reader, found>>
  BY DEF CopyToReader, Goto, sharedVars
<1>2. CASE finished
  <2>1. ~InSuspended(t)
    BY <1>1 DEF Control, SuspendedOK
  <2>2. SomeFound'
    BY <1>1, <1>2, <2>1, OverMeansFound DEF SomeFound
  <2> QED
    BY <2>2 DEF Covered
<1>3. CASE ~finished
  <2>1. /\ HandingOver(t)
        /\ r \in Thread
        /\ pc[r] = "wait"
        /\ ~InSuspended(r)
        /\ \A u \in Thread \ {t} : HandingOver(u) => reader[u] # r
    <3>1. HandingOver(t)
      BY <1>1 DEF HandingOver
    <3>2. r \in Thread
      BY DEF Control, ControlType
    <3> QED
      BY <1>3, <3>1, <3>2 DEF Control, HandOverToIdle, InSuspended
  <2>2. r # t /\ r' = r
    BY <1>1, <2>1
  <2> HIDE DEF r, c
  <2>3. \A u \in Thread : /\ stack'[u] = IF u = r THEN c ELSE stack[u]
                          /\ ns'[u] = IF u = r THEN ns[t] ELSE ns[u]
                          /\ pc'[u] = IF u = t THEN "postReader" ELSE pc[u]
    BY <1>1, <2>1 DEF Data, DataType, Control, ControlType
  <2>4. \A v \in Thread : pc'[v] = "copy" => pc[v] = "copy" /\ v # t
    BY <2>3
  <2>5. HasPart(r)'
    <3>1. \A v \in Thread : ~(pc'[v] = "copy" /\ reader'[v] = r)
      BY <1>1, <2>1, <2>4 DEF HandingOver
    <3>2. Given(r)'
      BY <1>1, <2>1, <2>2, <3>1 DEF Given, InSuspended
    <3> QED
      BY <2>1, <2>2, <2>3, <3>2 DEF HasPart
  <2>6. ~HasPart(r)
    BY <1>1, <2>1 DEF HasPart, Given, Working, r
  <2>7. ASSUME NEW u \in Thread, NEW m, Holds(u, m)
        PROVE  \E v \in Thread : Holds(v, m)'
    <3>1. u # r
      BY <2>6, <2>7 DEF Holds
    <3>2. CASE u = t
      <4>1. CASE m = ns[t]
        <5>1. Holds(r, m)'
          BY <2>1, <2>2, <2>3, <2>5, <4>1 DEF Holds
        <5> QED
          BY <2>1, <2>2, <5>1
      <4>2. CASE \E i \in DOMAIN stack[t] : m = stack[t][i].at
        <5>1. Holds(t, m)'
          BY <2>2, <2>3, <4>2 DEF Holds, HasPart, Working
        <5> QED
          BY <5>1
      <4> QED
        BY <2>7, <3>2, <4>1, <4>2 DEF Holds
    <3>3. CASE u # t
      <4>1. Given(u) => Given(u)'
        BY <1>1, <2>4 DEF Given, InSuspended
      <4>2. Holds(u, m)'
        BY <2>3, <2>7, <3>1, <3>3, <4>1 DEF Holds, HasPart
      <4> QED
        BY <4>2
    <3> QED
      BY <3>2, <3>3
  <2>8. SomeFound => SomeFound'
    BY <1>1 DEF SomeFound
  <2> QED
    BY <1>1, <2>7, <2>8 DEF Covered, Processed
<1> QED
  BY <1>2, <1>3

(* The last marking of a search tree is processed when its thread suspends *)
(* itself.                                                                 *)
LEMMA SuspendCovered ==
  ASSUME Control, Data, Covered, NEW t \in Thread, Suspend(t)
  PROVE  Covered'
<1>1. /\ pc[t] = "suspend"
      /\ suspended' = Append(suspended, t)
      /\ pc' = [pc EXCEPT ![t] = IF Len(suspended') = NumThreads
                                 THEN "announce" ELSE "wait"]
      /\ UNCHANGED <<store, ns, stack, reader, found>>
  BY DEF Suspend, Goto, localVars
<1>2. /\ \A u \in Thread \ {t} : pc'[u] = pc[u]
      /\ pc'[t] \in {"announce", "wait"}
  BY <1>1 DEF Control, ControlType
<1>3. \A u \in Thread \ {t} : InSuspended(u)' => InSuspended(u)
  <2>1. suspended \in Seq(Thread) /\ Len(suspended) \in Nat
    BY LenProperties DEF Control, ControlType
  <2>2. /\ DOMAIN suspended = 1 .. Len(suspended)
        /\ DOMAIN suspended' = 1 .. (Len(suspended) + 1)
        /\ \A i \in 1 .. Len(suspended) : suspended'[i] = suspended[i]
        /\ suspended'[Len(suspended) + 1] = t
    BY <1>1, <2>1, AppendProperties, LenProperties
  <2>3. \A i \in DOMAIN suspended' : i \in DOMAIN suspended
                                        \/ i = Len(suspended) + 1
    BY <2>1, <2>2
  <2> QED
    BY <2>2, <2>3 DEF InSuspended
<1>4. ASSUME NEW u \in Thread \ {t}, HasPart(u) PROVE HasPart(u)'
  <2>1. \A v \in Thread : pc'[v] = "copy" => pc[v] = "copy"
    BY <1>2
  <2>2. Given(u) => Given(u)'
    BY <1>1, <1>3, <2>1 DEF Given
  <2> QED
    BY <1>2, <1>4, <2>2 DEF HasPart
<1>5. \A m : ~Holds(t, m)
  BY <1>1 DEF Holds, HasPart, Working
<1>6. SomeFound => SomeFound'
  BY <1>1 DEF SomeFound
<1> QED
  BY <1>1, <1>2, <1>4, <1>5, <1>6, CoverStep

(* No step forgets a marking.                                              *)
LEMMA CoveredStep ==
  ASSUME Control, Data, Covered, [Next]_vars
  PROVE  Covered'
<1> USE DEF sharedVars, localVars, Goto
<1>1. ASSUME NEW t \in Thread, CloseMarking(t) PROVE Covered'
  <2>1. CASE stack[t] # <<>>
    <3>1. pc[t] = "loop" /\ entry[t] = 0 /\ Backtrack(t)
      BY <1>1, <2>1 DEF CloseMarking
    <3>2. UNCHANGED <<store, suspended, reader, found>>
      BY <1>1 DEF CloseMarking
    <3> QED
      BY <2>1, <3>1, <3>2, BacktrackCovered
  <2>2. CASE stack[t] = <<>>
    <3>1. /\ pc[t] = "loop"
          /\ entry[t] = 0
          /\ pc' = [pc EXCEPT ![t] = "suspend"]
          /\ UNCHANGED <<store, suspended, ns, stack, reader, found>>
      BY <1>1, <2>2 DEF CloseMarking
    <3>2. /\ \A u \in Thread \ {t} : pc'[u] = pc[u]
          /\ pc'[t] # "copy"
      BY <3>1 DEF Control, ControlType
    <3>3. Processed(ns[t], store)
      <4>1. ThreadPart(t)
        BY <3>1 DEF Data, PartOK, HasPart, Working
      <4>2. ns[t] \in Marking /\ Tried(ns[t], firelist[t], 1, store)
        BY <3>1, <4>1 DEF ThreadPart, Data, DataType
      <4> QED
        BY <4>2, TriedAll
    <3>4. \A m : Holds(t, m) => m = ns[t]
      <4>1. DOMAIN stack[t] = {}
        BY <2>2
      <4> QED
        BY <4>1 DEF Holds
    <3>5. SomeFound => SomeFound'
      BY <3>1 DEF SomeFound
    <3> QED
      BY <3>1, <3>2, <3>3, <3>4, <3>5, OwnCoverStep
  <2> QED
    BY <2>1, <2>2
<1>2. ASSUME NEW t \in Thread, ReadNumSuspended(t) PROVE Covered'
  <2>1. /\ pc[t] = "readNumSuspended"
        /\ UNCHANGED <<store, suspended, ns, stack, reader, found>>
        /\ \/ pc' = [pc EXCEPT ![t] = "pickReader"]
           \/ Expand(t, ns[t])
    BY <1>2 DEF ReadNumSuspended
  <2>2. CASE Expand(t, ns[t])
    BY <2>1, <2>2, KeepCovered
  <2>3. CASE pc' = [pc EXCEPT ![t] = "pickReader"]
    <3>1. HasPart(t)'
      BY <2>3 DEF HasPart, Working, Control, ControlType
    <3> QED
      BY <2>1, <2>3, <3>1, LabelCovered
  <2> QED
    BY <2>1, <2>2, <2>3
<1>3. ASSUME NEW t \in Thread, Resume(t) PROVE Covered'
  <2>1. /\ pc[t] = "resume"
        /\ UNCHANGED <<store, suspended, reader, found>>
    BY <1>3 DEF Resume
  <2>2. CASE finished
    <3>1. SomeFound
      BY <2>1, <2>2, OverMeansFound DEF Control, SuspendedOK
    <3> QED
      BY <2>1, <3>1 DEF Covered, SomeFound
  <2>3. CASE ~finished
    <3>1. Backtrack(t)
      BY <1>3, <2>3 DEF Resume
    <3>2. stack[t] # <<>>
      BY <2>1 DEF HasPart, Working, Data, PartOK, ThreadPart
    <3> QED
      BY <2>1, <3>1, <3>2, BacktrackCovered
  <2> QED
    BY <2>2, <2>3
<1>4. ASSUME NEW t \in Thread, Woken(t) PROVE Covered'
  <2>1. /\ pc[t] = "woken"
        /\ UNCHANGED <<store, suspended, ns, stack, reader, found>>
        /\ \/ finished /\ pc' = [pc EXCEPT ![t] = "done"]
           \/ Expand(t, ns[t])
    BY <1>4 DEF Woken
  <2>2. CASE Expand(t, ns[t])
    BY <2>1, <2>2, KeepCovered
  <2>3. CASE finished /\ pc' = [pc EXCEPT ![t] = "done"]
    <3>1. HasPart(t) => SomeFound
      BY <2>1, <2>3, OverMeansFound DEF HasPart, Given, Working
    <3> QED
      BY <2>1, <2>3, <3>1, LabelCovered
  <2> QED
    BY <2>1, <2>2, <2>3
<1>5. ASSUME NEW t \in Thread, Abort(t) PROVE Covered'
  <2>1. /\ pc[t] = "loop"
        /\ finished
        /\ UNCHANGED <<store, found>>
    BY <1>5 DEF Abort
  <2>2. SomeFound
    BY <2>1, OverMeansFound DEF Control, SuspendedOK
  <2> QED
    BY <2>1, <2>2 DEF Covered, SomeFound
<1>6. ASSUME NEW t \in Thread, TakeEntry(t) PROVE Covered'
  <2>1. /\ pc' = [pc EXCEPT ![t] = "fire"]
        /\ UNCHANGED <<store, suspended, ns, stack, reader, found>>
    BY <1>6 DEF TakeEntry
  <2>2. HasPart(t)'
    BY <2>1 DEF HasPart, Working, Control, ControlType
  <2> QED
    BY <2>1, <2>2, LabelCovered
<1>7. ASSUME NEW t \in Thread, PostReader(t) PROVE Covered'
  <2>1. /\ pc[t] = "postReader"
        /\ pc' = [pc EXCEPT ![t] = "resume"]
        /\ UNCHANGED <<store, suspended, ns, stack, reader, found>>
    BY <1>7 DEF PostReader
  <2>2. HasPart(t)'
    BY <2>1 DEF HasPart, Working, Control, ControlType
  <2> QED
    BY <2>1, <2>2, LabelCovered
<1>8. ASSUME NEW t \in Thread, Wait(t) PROVE Covered'
  <2>1. /\ pc[t] = "wait"
        /\ pc' = [pc EXCEPT ![t] = "woken"]
        /\ UNCHANGED <<store, suspended, ns, stack, reader, found>>
    BY <1>8 DEF Wait
  <2>2. HasPart(t) => HasPart(t)'
    <3>1. \A u \in Thread : pc'[u] = IF u = t THEN "woken" ELSE pc[u]
      BY <2>1 DEF Control, ControlType
    <3>2. \A u \in Thread : pc'[u] = "copy" => pc[u] = "copy"
      BY <3>1
    <3>3. Given(t) => Given(t)'
      BY <2>1, <3>2 DEF Given, InSuspended
    <3> QED
      BY <2>1, <3>1, <3>3 DEF HasPart, Working
  <2> QED
    BY <2>1, <2>2, LabelCovered
<1>9. ASSUME NEW t \in Thread, Announce(t) \/ Publish(t) PROVE Covered'
  <2>1. /\ pc[t] \in {"announce", "post"}
        /\ UNCHANGED <<store, suspended, ns, reader, found>>
        /\ \A u \in Thread \ {t} : pc'[u] = pc[u] /\ stack'[u] = stack[u]
        /\ pc'[t] # "copy"
    BY <1>9 DEF Announce, Publish, Control, ControlType, Data, DataType
  <2>2. \A m : ~Holds(t, m)
    BY <2>1 DEF Holds, HasPart, Working
  <2>3. SomeFound => SomeFound'
    BY <2>1 DEF SomeFound
  <2> QED
    BY <2>1, <2>2, <2>3, OwnCoverStep
<1>10. ASSUME (\E t \in Thread : PostNext(t)) \/ Join \/ Stop \/ UNCHANGED vars
       PROVE  Covered'
  <2>1. UNCHANGED <<store, suspended, pc, ns, stack, reader, found>>
    BY <1>10 DEF PostNext, Join, Stop, vars
  <2> QED
    BY <2>1 DEF Covered, SomeFound, Processed, Holds, HasPart, Given,
                InSuspended
<1> QED
  BY <1>1, <1>2, <1>3, <1>4, <1>5, <1>6, <1>7, <1>8, <1>9, <1>10,
     StartCovered, FireKnownCovered, FireGoalCovered, FireNewCovered,
     PickReaderCovered, CopyToReaderCovered, SuspendCovered DEF Next, Step

(* What the other parts of Coverage need to know of a step of thread t.    *)
StepFacts(t) ==
  /\ store \subseteq store'
  /\ UNCHANGED callerVars
  /\ \A u \in Thread \ {t} : pc'[u] = pc[u] /\ found'[u] = found[u]
  /\ pc[t] # "done"
  /\ pc[t] = "wait" => sem[t] > 0
  /\ pc[t] = "start" => pc'[t] = "insertInitial" \/ found'[t]
  /\ pc[t] # "start" => pc'[t] \notin {"start", "insertInitial"}
  /\ pc[t] = "insertInitial" => Initial \in store'
  /\ pc[t] \notin {"start", "fire"} => found'[t] = found[t]
  /\ pc'[t] = "announce" => found'[t] \/ Suspend(t)

(* What the steps of the threads leave alone.                              *)
LEMMA StepFactsHold ==
  ASSUME Control, Data, NEW t \in Thread, Step(t)
  PROVE  StepFacts(t)
<1> USE DEF sharedVars, localVars, Goto, Control, ControlType
<1>1. CASE CheckInitial(t) \/ Abort(t) \/ TakeEntry(t) \/ FireKnown(t)
  BY <1>1 DEF CheckInitial, Abort, TakeEntry, FireKnown, StepFacts
<1>2. CASE InsertInitial(t)
  <2>1. pc[t] = "insertInitial" /\ store' = store \cup {ns[t]}
        /\ pc' = [pc EXCEPT ![t] = "loop"] /\ found' = found
        /\ UNCHANGED callerVars
    BY <1>2 DEF InsertInitial, Expand
  <2>2. ns[t] = Initial
    BY <2>1 DEF Data, StartOK
  <2> QED
    BY <2>1, <2>2 DEF StepFacts
<1>3. CASE CloseMarking(t)
  <2>1. pc[t] = "loop" /\ store' = store /\ found' = found
        /\ \/ pc' = [pc EXCEPT ![t] = "loop"]
           \/ pc' = [pc EXCEPT ![t] = "suspend"]
        /\ UNCHANGED callerVars
    BY <1>3 DEF CloseMarking, Backtrack
  <2> QED
    BY <2>1 DEF StepFacts
<1>4. CASE FireGoal(t)
  BY <1>4 DEF FireGoal, StepFacts
<1>5. CASE FireNew(t) \/ ReadNumSuspended(t) \/ PickReader(t)
  <2>1. pc[t] \in {"fire", "readNumSuspended", "pickReader"}
        /\ store \subseteq store' /\ found' = found
        /\ \/ pc' = [pc EXCEPT ![t] = "loop"]
           \/ pc' = [pc EXCEPT ![t] = "readNumSuspended"]
           \/ pc' = [pc EXCEPT ![t] = "pickReader"]
           \/ pc' = [pc EXCEPT ![t] = "copy"]
        /\ UNCHANGED callerVars
    BY <1>5 DEF FireNew, ReadNumSuspended, PickReader, Expand
  <2> QED
    BY <2>1 DEF StepFacts
<1>6. CASE CopyToReader(t) \/ PostReader(t)
  BY <1>6 DEF CopyToReader, PostReader, StepFacts
<1>7. CASE Resume(t) \/ Woken(t)
  <2>1. pc[t] \in {"resume", "woken"} /\ store' = store /\ found' = found
        /\ \/ pc' = [pc EXCEPT ![t] = "loop"]
           \/ pc' = [pc EXCEPT ![t] = "done"]
        /\ UNCHANGED callerVars
    BY <1>7 DEF Resume, Woken, Backtrack, Expand
  <2> QED
    BY <2>1 DEF StepFacts
<1>8. CASE Suspend(t)
  <2>1. pc[t] = "suspend" /\ store' = store /\ found' = found
        /\ \/ pc' = [pc EXCEPT ![t] = "announce"]
           \/ pc' = [pc EXCEPT ![t] = "wait"]
        /\ UNCHANGED callerVars
    BY <1>8 DEF Suspend
  <2> QED
    BY <1>8, <2>1 DEF StepFacts
<1>9. CASE Wait(t) \/ Announce(t) \/ PostNext(t) \/ Publish(t)
  BY <1>9 DEF Wait, Announce, PostNext, Publish, StepFacts
<1> QED
  BY <1>1, <1>2, <1>3, <1>4, <1>5, <1>6, <1>7, <1>8, <1>9 DEF Step

(* The last thread awake: when Suspend fills the array, nobody has found a *)
(* goal, and all the others sleep.                                         *)
LEMMA LastToSuspend ==
  ASSUME Control, NEW t \in Thread, Suspend(t), pc'[t] = "announce"
  PROVE  ~finished /\ \A u \in Thread \ {t} : pc[u] = "wait"
<1>1. /\ pc[t] = "suspend"
      /\ suspended' = Append(suspended, t)
      /\ pc' = [pc EXCEPT ![t] = IF Len(suspended') = NumThreads
                                 THEN "announce" ELSE "wait"]
  BY DEF Suspend, Goto
<1>2. Len(suspended') = NumThreads
  BY <1>1 DEF Control, ControlType
<1>3. ~InSuspended(t)
  BY <1>1 DEF Control, SuspendedOK
<1>4. suspended \in Seq(Thread) /\ Len(suspended) \in Nat
  BY LenProperties DEF Control, ControlType
<1>5. /\ suspended' \in Seq(Thread)
      /\ DOMAIN suspended = 1 .. Len(suspended)
      /\ DOMAIN suspended' = 1 .. (Len(suspended) + 1)
      /\ \A i \in 1 .. Len(suspended) : suspended'[i] = suspended[i]
      /\ suspended'[Len(suspended) + 1] = t
  BY <1>1, <1>4, AppendProperties, LenProperties
<1>6. \A i \in DOMAIN suspended' : i \in DOMAIN suspended
                                      \/ i = Len(suspended) + 1
  BY <1>4, <1>5
<1>7. \A i, j \in DOMAIN suspended' : suspended'[i] = suspended'[j] => i = j
  BY <1>3, <1>5, <1>6 DEF Control, SuspendedOK, InSuspended
<1>8. \A u \in Thread : \E i \in DOMAIN suspended' : suspended'[i] = u
  BY <1>2, <1>5, <1>7, DistinctThreads
<1>9. \A u \in Thread \ {t} : InSuspended(u)
  BY <1>5, <1>6, <1>8 DEF InSuspended
<1>10. \A u \in Thread : ~found[u]
  BY <1>1, <1>9 DEF Control, SuspendedOK, FoundOK
<1>11. ~AllSuspended
  BY <1>3 DEF AllSuspended
<1>12. ~finished
  BY <1>10, <1>11 DEF Control, NegativeEnd, SomeFound
<1>13. ASSUME NEW u \in Thread \ {t} PROVE pc[u] = "wait"
  BY <1>9, <1>10, <1>11, <1>12 DEF Control, SuspendedOK, NegativeEnd
<1> QED
  BY <1>12, <1>13

(* Coverage holds in the beginning.                                        *)
LEMMA CoverageInit ==
  ASSUME Init
  PROVE  Coverage
<1>1. Covered /\ InitialEntered /\ LastAwake
  BY DEF Init, Covered, InitialEntered, LastAwake
<1>2. CallerOK
  <2>1. Initial \in Marking
    BY Graph DEF GraphAssumption
  <2>2. \A t \in Thread : ~(t < joined)
    BY DEF Init, Thread
  <2> QED
    BY <2>1, <2>2 DEF Init, CallerOK
<1> QED
  BY <1>1, <1>2 DEF Coverage

(* Every step keeps Coverage.                                              *)
LEMMA CoverageStep ==
  ASSUME Control, Data, Coverage, [Next]_vars
  PROVE  Coverage'
<1>1. Covered'
  BY CoveredStep DEF Coverage
<1>2. ASSUME NEW t \in Thread, Step(t)
      PROVE  InitialEntered' /\ CallerOK' /\ LastAwake'
  <2>1. StepFacts(t)
    BY <1>2, StepFactsHold
  <2>2. \A u \in Thread : found[u] => found'[u]
    BY <2>1 DEF StepFacts, Control, FoundOK
  <2>3. InitialEntered'
    BY <2>1, <2>2 DEF StepFacts, Coverage, InitialEntered
  <2>4. CallerOK'
    <3>1. UNCHANGED <<joined, value, result>> /\ store \subseteq store'
      BY <2>1 DEF StepFacts, callerVars
    <3>2. ~(t < joined)
      BY <2>1 DEF StepFacts, Control, JoinedOK
    <3>3. \A u \in Thread : u < joined => (found'[u] <=> found[u])
      BY <2>1, <3>2 DEF StepFacts
    <3> QED
      BY <3>1, <3>3 DEF Coverage, CallerOK
  <2>5. LastAwake'
    <3> SUFFICES ASSUME NEW u \in Thread, pc'[u] = "announce", ~found'[u]
                 PROVE  /\ ~finished'
                        /\ \A v \in Thread \ {u} : pc'[v] = "wait"
      BY DEF LastAwake
    <3>1. CASE u = t
      <4>1. Suspend(t)
        BY <2>1, <3>1 DEF StepFacts
      <4>2. finished' = finished
        BY <4>1 DEF Suspend
      <4> QED
        BY <2>1, <3>1, <4>1, <4>2, LastToSuspend DEF StepFacts
    <3>2. CASE u # t
      <4>1. pc[u] = "announce" /\ ~found[u]
        BY <2>1, <3>2 DEF StepFacts
      <4>2. ~finished /\ pc[t] = "wait"
        BY <3>2, <4>1 DEF Coverage, LastAwake
      <4>3. InSuspended(t)
        BY <4>1 DEF Control, NegativeEnd, AllSuspended
      <4>4. sem[t] > 0
        BY <2>1, <4>2 DEF StepFacts
      <4>5. sem[t] \in Nat /\ sem[t] <= 1 /\ sem[t] # 1
        BY <4>2, <4>3 DEF Control, ControlType, WakeUpExact, InSuspended
      <4> QED
        BY <4>4, <4>5
    <3> QED
      BY <3>1, <3>2
  <2> QED
    BY <2>3, <2>4, <2>5
<1>3. ASSUME Join PROVE InitialEntered' /\ CallerOK' /\ LastAwake'
  <2>1. /\ joined < NumThreads
        /\ joined' = joined + 1
        /\ \/ found[joined] /\ value' = TRUE /\ result' = ns[joined]
           \/ ~found[joined] /\ UNCHANGED <<value, result>>
        /\ UNCHANGED <<store, finished, pc, ns, found>>
    BY <1>3 DEF Join, sharedVars, localVars
  <2>2. InitialEntered' /\ LastAwake'
    BY <2>1 DEF Coverage, InitialEntered, LastAwake
  <2>3. joined \in Thread
    BY <2>1, NumThreadsAssumption
       DEF NumThreadsAssumption, Control, ControlType, Thread
  <2>4. \A t \in Thread : t < joined' <=> t < joined \/ t = joined
    BY <2>1, <2>3 DEF Thread
  <2>5. CASE found[joined]
    <3>1. value' = TRUE /\ result' = ns[joined]
      BY <2>1, <2>5
    <3>2. ns[joined] \in Goal /\ ns[joined] \in store \cup {Initial}
          /\ ns[joined] \in Marking
      BY <2>3, <2>5 DEF Data, GoalOK, DataType
    <3> QED
      BY <2>1, <2>2, <2>3, <2>4, <2>5, <3>1, <3>2 DEF CallerOK
  <2>6. CASE ~found[joined]
    BY <2>1, <2>2, <2>4, <2>6 DEF Coverage, CallerOK
  <2> QED
    BY <2>2, <2>5, <2>6
<1>4. ASSUME UNCHANGED vars PROVE InitialEntered' /\ CallerOK' /\ LastAwake'
  BY <1>4 DEF vars, sharedVars, localVars, callerVars, Coverage,
              InitialEntered, CallerOK, LastAwake
<1> QED
  BY <1>1, <1>2, <1>3, <1>4 DEF Coverage, Next, Stop

(* The inductive invariant holds in every reachable state.                 *)
THEOREM Invariance == Spec => []IInv
<1>1. Init => IInv
  BY ControlInit, DataInit, CoverageInit DEF IInv
<1>2. IInv /\ [Next]_vars => IInv'
  BY ControlStep, DataStep, CoverageStep DEF IInv
<1> QED
  BY <1>1, <1>2, PTL DEF Spec
-----------------------------------------------------------------------------
(* Every variable keeps its type, and suspended_threads its NumThreads     *)
(* entries, however many threads suspend themselves and are taken again.   *)
THEOREM TypeCorrect == Spec => []TypeOK
<1>1. IInv => TypeOK
  <2> SUFFICES ASSUME IInv PROVE TypeOK
    OBVIOUS
  <2>1. Len(suspended) <= NumThreads
    BY DistinctThreads DEF IInv, Control, ControlType, SuspendedOK
  <2> QED
    BY <2>1 DEF IInv, Control, ControlType, Data, DataType, Coverage, CallerOK,
                TypeOK
<1> QED
  BY <1>1, Invariance, PTL

(* ParallelExploration.cc 155-174: a hand-over never touches a thread that *)
(* works, and no two hand-overs touch the same thread.                     *)
THEOREM HandOversToIdle == Spec => []HandOverToIdle
<1>1. IInv => HandOverToIdle
  BY DEF IInv, Control
<1> QED
  BY <1>1, Invariance, PTL

(* ParallelExploration.cc 173 and 244: before the end of the search, a     *)
(* semaphore is 1 exactly while its thread has work it was not woken for.  *)
THEOREM WakeUpsExact == Spec => []WakeUpExact
<1>1. IInv => WakeUpExact
  BY DEF IInv, Control
<1> QED
  BY <1>1, Invariance, PTL

(* When nobody holds a part of the search and no goal was found, the store *)
(* is a complete reduced state space.                                      *)
LEMMA NobodyHolds ==
  ASSUME IInv, ~SomeFound, \A t \in Thread : ~HasPart(t),
         \E t \in Thread : pc[t] \notin {"start", "insertInitial"}
  PROVE  Complete(store) /\ store \cap Goal = {}
<1>1. \A m \in store : Processed(m, store)
  BY DEF IInv, Coverage, Covered, Holds
<1>2. Initial \in store
  BY DEF IInv, Coverage, InitialEntered, SomeFound
<1>3. store \cap Goal = {}
  BY DEF IInv, Data, GoalOK
<1> QED
  BY <1>1, <1>2, <1>3 DEF Complete

(* ParallelExploration.cc 233: the thread that counts num_suspended up to  *)
(* the number of threads is the last one awake, and nothing is left to do. *)
THEOREM LastAsleepIsEnd == Spec => []AllAsleepIsEnd
<1>1. IInv => AllAsleepIsEnd
  <2> SUFFICES ASSUME IInv, NEW t \in Thread, pc[t] = "announce", ~found[t]
               PROVE  /\ \A u \in Thread \ {t} : pc[u] = "wait" /\ sem[u] = 0
                      /\ Complete(store)
    BY DEF AllAsleepIsEnd
  <2>1. ~finished /\ \A u \in Thread \ {t} : pc[u] = "wait"
    BY DEF IInv, Coverage, LastAwake
  <2>2. \A u \in Thread : InSuspended(u)
    BY DEF IInv, Control, NegativeEnd, AllSuspended
  <2>3. ASSUME NEW u \in Thread \ {t} PROVE sem[u] = 0
    <3>1. sem[u] \in Nat /\ sem[u] <= 1 /\ sem[u] # 1
      BY <2>1, <2>2 DEF IInv, Control, ControlType, WakeUpExact, InSuspended
    <3> QED
      BY <3>1
  <2>4. ~SomeFound
    BY <2>2 DEF IInv, Control, SuspendedOK, SomeFound
  <2>5. \A u \in Thread : ~HasPart(u)
    BY <2>1, <2>2 DEF HasPart, Given, Working
  <2> QED
    BY <2>1, <2>3, <2>4, <2>5, NobodyHolds
<1> QED
  BY <1>1, Invariance, PTL

(* What the joined threads have found is what the caller returns.          *)
ReturnOK ==
  Returned =>
    /\ value => result \in Goal /\ result \in store \cup {Initial}
    /\ ~value => /\ result = Initial
                 /\ Complete(store)
                 /\ store \cap Goal = {}

(* What holds when the last thread has been joined.                        *)
LEMMA AtReturn ==
  ASSUME IInv
  PROVE  ReturnOK
<1> SUFFICES ASSUME Returned PROVE ReturnOK
  BY DEF ReturnOK
<1>1. \A t \in Thread : t < joined
  BY NumThreadsAssumption DEF Returned, Thread, NumThreadsAssumption
<1>2. \A t \in Thread : pc[t] = "done"
  BY <1>1 DEF IInv, Control, JoinedOK
<1>3. value <=> SomeFound
  BY <1>1 DEF IInv, Coverage, CallerOK, SomeFound
<1>4. \A t \in Thread : ~HasPart(t)
  BY <1>2 DEF HasPart, Working
<1>5. 0 \in Thread
  BY NumThreadsAssumption DEF Thread, NumThreadsAssumption
<1>6. ~value => Complete(store) /\ store \cap Goal = {}
  BY <1>2, <1>3, <1>4, <1>5, NobodyHolds
<1> QED
  BY <1>6 DEF IInv, Coverage, CallerOK, ReturnOK

(* ParallelExploration.h: the verdict of the parallel search is correct    *)
(* for every net, fire list, property and number of threads.               *)
THEOREM VerdictIsCorrect == Spec => []VerdictCorrect
<1>1. IInv => VerdictCorrect
  <2> SUFFICES ASSUME IInv, Returned
               PROVE  /\ value => result \in Goal \cap Reachable
                      /\ ~value => /\ Complete(store) /\ store \cap Goal = {}
                                   /\ FirelistsApplicable =>
                                         Reachable \cap Goal = {}
    BY DEF VerdictCorrect
  <2>1. store \subseteq Marking \cap Reachable /\ Initial \in Reachable
    BY ReachableClosed DEF IInv, Data, DataType
  <2> QED
    BY <2>1, AtReturn DEF ReturnOK, FirelistsApplicable
<1> QED
  BY <1>1, Invariance, PTL
-----------------------------------------------------------------------------
(* The refinement: a step of ParallelDFS is a step of ReachabilitySearch,  *)
(* or leaves what that module sees unchanged.                              *)
LEMMA AbstractInitHolds ==
  ASSUME Init
  PROVE  Search!AbstractInit
<1>1. ~Returned
  BY NumThreadsAssumption DEF Init, Returned, NumThreadsAssumption
<1> QED
  BY <1>1 DEF Init, Search!AbstractInit

(* A thread's step visits markings of a ReachabilitySearch, or none.       *)
LEMMA AbstractThreadStep ==
  ASSUME IInv, NEW t \in Thread, Step(t)
  PROVE  [Search!AbstractNext]_Search!avars
<1>1. StepFacts(t)
  BY StepFactsHold DEF IInv
<1>2. UNCHANGED <<joined, value, result>>
  BY <1>1 DEF StepFacts, callerVars
<1>3. ~Returned
  <2>1. ~(t < joined)
    BY <1>1 DEF StepFacts, IInv, Control, JoinedOK
  <2> QED
    BY <2>1, NumThreadsAssumption DEF Returned, Thread, NumThreadsAssumption
<1>4. ~Returned'
  BY <1>2, <1>3 DEF Returned
<1>5. CASE store' = store
  BY <1>2, <1>3, <1>4, <1>5 DEF Search!avars
<1>6. ASSUME NEW m \in Marking, m \notin store, store' = store \cup {m},
             \/ m = Initial
             \/ \E k \in store : \E tr \in Enabled[k] : m = Fire(k, tr)
      PROVE  Search!Visit
  <2>1. \/ m = Initial
        \/ \E k \in store : \E tr \in Enabled[k] : m = Search!Fire(k, tr)
    BY <1>6 DEF Fire, Search!Fire
  <2> QED
    BY <1>3, <1>4, <1>6, <2>1 DEF Search!Visit
<1>7. CASE InsertInitial(t)
  <2>1. store' = store \cup {Initial}
    BY <1>7 DEF InsertInitial, IInv, Data, StartOK
  <2>2. Initial \in Marking
    BY Graph DEF GraphAssumption
  <2>3. CASE Initial \in store
    BY <1>5, <2>1, <2>3
  <2>4. CASE Initial \notin store
    BY <1>6, <2>1, <2>2, <2>4 DEF Search!AbstractNext
  <2> QED
    BY <2>3, <2>4
<1>8. CASE FireGoal(t) \/ FireNew(t)
  <2> DEFINE tr == firelist[t][entry[t] + 1]
             m  == Fire(ns[t], tr)
  <2>1. pc[t] = "fire" /\ m \notin store /\ store' = store \cup {m}
    BY <1>8 DEF FireGoal, FireNew
  <2>2. m \in Marking /\ ns[t] \in store /\ tr \in Enabled[ns[t]]
    BY <2>1, FirePart DEF IInv
  <2>3. Search!Visit
    BY <1>6, <2>1, <2>2
  <2> QED
    BY <2>3 DEF Search!AbstractNext
<1>9. CASE \/ CheckInitial(t) \/ Abort(t) \/ TakeEntry(t) \/ CloseMarking(t)
           \/ FireKnown(t) \/ ReadNumSuspended(t) \/ PickReader(t)
           \/ CopyToReader(t) \/ PostReader(t) \/ Resume(t) \/ Suspend(t)
           \/ Wait(t) \/ Woken(t) \/ Announce(t) \/ PostNext(t) \/ Publish(t)
  <2>1. store' = store
    BY <1>9 DEF CheckInitial, Abort, TakeEntry, CloseMarking, FireKnown,
         ReadNumSuspended, PickReader, CopyToReader, PostReader, Resume,
         Suspend, Wait, Woken, Announce, PostNext, Publish, sharedVars
  <2> QED
    BY <1>5, <2>1
<1> QED
  BY <1>7, <1>8, <1>9 DEF Step

(* The last join gives the verdict of a ReachabilitySearch.                *)
LEMMA AbstractJoin ==
  ASSUME IInv, ReturnOK', Join
  PROVE  [Search!AbstractNext]_Search!avars
<1>1. store' = store /\ joined < NumThreads /\ joined' = joined + 1
  BY DEF Join, sharedVars
<1>2. ~Returned
  BY <1>1, NumThreadsAssumption
     DEF Returned, NumThreadsAssumption, IInv, Control, ControlType
<1>3. CASE ~Returned'
  BY <1>1, <1>2, <1>3 DEF Search!avars
<1>4. CASE Returned'
  <2>1. /\ value' => result' \in Goal /\ result' \in store \cup {Initial}
        /\ ~value' => /\ result' = Initial
                      /\ Complete(store)' /\ store \cap Goal = {}
    BY <1>1, <1>4 DEF ReturnOK
  <2>2. Complete(store)' => Search!Complete(store)
    BY <1>1 DEF Complete, Processed, Fire, Search!Complete, Search!Processed,
                Search!Fire
  <2>3. CASE value'
    <3>1. Search!AnswerYes
      BY <1>1, <1>2, <1>4, <2>1, <2>3 DEF Search!AnswerYes
    <3> QED
      BY <3>1 DEF Search!AbstractNext
  <2>4. CASE ~value'
    <3>1. Search!AnswerNo
      BY <1>1, <1>2, <1>4, <2>1, <2>2, <2>4 DEF Search!AnswerNo
    <3> QED
      BY <3>1 DEF Search!AbstractNext
  <2> QED
    BY <2>3, <2>4
<1> QED
  BY <1>3, <1>4

(* DFSExploration.h's contract of depth_first: the parallel search is a    *)
(* search of the abstract kind.                                            *)
THEOREM Refinement == Spec => ImplementsSearch
<1>1. Init => Search!AbstractInit
  BY AbstractInitHolds
<1>2. IInv /\ ReturnOK' /\ [Next]_vars => [Search!AbstractNext]_Search!avars
  <2> SUFFICES ASSUME IInv, ReturnOK', [Next]_vars
               PROVE  [Search!AbstractNext]_Search!avars
    OBVIOUS
  <2>1. CASE UNCHANGED vars
    BY <2>1 DEF vars, sharedVars, localVars, callerVars, Search!avars, Returned
  <2>2. CASE \E t \in Thread : Step(t)
    BY <2>2, AbstractThreadStep
  <2>3. CASE Join
    BY <2>3, AbstractJoin
  <2> QED
    BY <2>1, <2>2, <2>3 DEF Next, Stop
<1>3. IInv => ReturnOK
  BY AtReturn
<1> QED
  BY <1>1, <1>2, <1>3, Invariance, PTL DEF Spec, ImplementsSearch, Search!AbstractSpec
=============================================================================
