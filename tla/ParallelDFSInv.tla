--------------------------- MODULE ParallelDFSInv ---------------------------
(***************************************************************************)
(* The inductive invariant of ParallelDFS, in three layers: Control speaks *)
(* of program counters, semaphores and the array of suspended threads      *)
(* only; Data adds what the threads' stacks and fire lists mean; Coverage  *)
(* says that no marking of the store is forgotten, and what the caller has *)
(* read off.  Module ParallelDFS_proof shows each layer inductive relative *)
(* to the ones before it.                                                  *)
(***************************************************************************)
EXTENDS ParallelDFS

InSuspended(t) == \E i \in DOMAIN suspended : suspended[i] = t

AllSuspended == \A t \in Thread : InSuspended(t)

SomeFound == \E t \in Thread : found[t]

(* A thread that has been given a search tree, and not yet gone on with it:*)
(* it was taken from suspended_threads, and its data has been copied.      *)
Given(t) == /\ ~InSuspended(t)
            /\ \A u \in Thread : ~(pc[u] = "copy" /\ reader[u] = t)
-----------------------------------------------------------------------------
ControlType ==
  /\ finished \in BOOLEAN
  /\ suspended \in Seq(Thread)
  /\ sem \in [Thread -> Nat]
  /\ pc \in [Thread -> Label]
  /\ reader \in [Thread -> Thread]
  /\ posted \in [Thread -> 0 .. NumThreads]
  /\ found \in [Thread -> BOOLEAN]
  /\ joined \in 0 .. NumThreads

(* suspended_threads has no thread twice, and those it has sleep, or have  *)
(* been woken by the end of the search, or announce that end.              *)
SuspendedOK ==
  /\ \A i, j \in DOMAIN suspended : suspended[i] = suspended[j] => i = j
  /\ \A t \in Thread : InSuspended(t) =>
        /\ pc[t] \in {"wait", "announce", "post", "woken", "done"}
        /\ pc[t] \in {"woken", "done"} => finished
        /\ ~found[t]

(* When a negative end is announced, or the search is over without a       *)
(* finder, every thread has suspended itself.                              *)
NegativeEnd ==
  /\ \A t \in Thread : pc[t] \in {"announce", "post"} /\ ~found[t]
                          => AllSuspended
  /\ finished /\ ~SomeFound => AllSuspended

FoundOK ==
  \A t \in Thread :
    /\ found[t] => pc[t] \in {"announce", "post", "done"}
    /\ pc[t] \in {"post", "done"} => finished

WokenOK == \A t \in Thread : pc[t] = "woken" => finished \/ Given(t)

JoinedOK == \A t \in Thread : t < joined => pc[t] = "done"

Control == /\ ControlType
           /\ SuspendedOK
           /\ HandOverToIdle
           /\ WakeUpExact
           /\ NegativeEnd
           /\ FoundOK
           /\ WokenOK
           /\ JoinedOK
-----------------------------------------------------------------------------
(* fl is the beginning of a fire list of m, and every successor that list  *)
(* leads to from index i on has been entered in S.                         *)
Tried(m, fl, i, S) ==
  \E f \in Firelists[m] :
    /\ Len(fl) <= Len(f)
    /\ \A j \in 1 .. Len(fl) : fl[j] = f[j]
    /\ \A j \in DOMAIN f : j >= i => Fire(m, f[j]) \in S

FrameOK(frame, S) ==
  /\ frame \in Frame
  /\ frame.at \in S
  /\ frame.current < Len(frame.fl)
  /\ Tried(frame.at, frame.fl, frame.current + 1, S)

StackOK(s, m, S) ==
  /\ s \in Seq(Frame)
  /\ \A i \in DOMAIN s : FrameOK(s[i], S)
  /\ Replays(s, m)

(* The threads that hold a part of the search: those that work, and those  *)
(* that have been given a part.                                            *)
HasPart(t) == \/ pc[t] \in Working
              \/ pc[t] \in {"wait", "woken"} /\ Given(t)

DataType ==
  /\ store \subseteq Marking \cap Reachable
  /\ ns \in [Thread -> Marking]
  /\ stack \in [Thread -> Seq(Frame)]
  /\ globalStack \in Seq(Frame)
  /\ firelist \in [Thread -> Seq(Transition)]
  /\ entry \in [Thread -> Nat]

StartOK ==
  \A t \in Thread :
    /\ pc[t] \in {"start", "insertInitial"} =>
          ns[t] = Initial /\ stack[t] = <<>>
    /\ pc[t] = "insertInitial" => Initial \notin Goal

(* What a thread that holds a part knows: its net state is in the store,   *)
(* its stack is sound, and of its current fire list all entries from entry *)
(* on have been tried, but for the one it is about to fire.                *)
ThreadPart(t) ==
  /\ ns[t] \in store
  /\ StackOK(stack[t], ns[t], store)
  /\ pc[t] = "loop" => /\ entry[t] <= Len(firelist[t])
                       /\ Tried(ns[t], firelist[t], entry[t] + 1, store)
  /\ pc[t] = "fire" => /\ entry[t] < Len(firelist[t])
                       /\ Tried(ns[t], firelist[t], entry[t] + 2, store)
  /\ pc[t] \in Working \ {"loop", "fire"} => stack[t] # <<>>

PartOK == \A t \in Thread : HasPart(t) => ThreadPart(t)

GoalOK ==
  /\ \A t \in Thread : found[t] =>
        ns[t] \in Goal /\ ns[t] \in store \cup {Initial}
  /\ store \cap Goal # {} => SomeFound

Data == DataType /\ StartOK /\ PartOK /\ GoalOK
-----------------------------------------------------------------------------
(* Thread t vouches for marking m: m is on its stack, or is its net state  *)
(* (unless that has been handed over, and t is on its way back from it).   *)
Holds(t, m) ==
  /\ HasPart(t)
  /\ \/ m = ns[t] /\ pc[t] \notin {"postReader", "resume"}
     \/ \E i \in DOMAIN stack[t] : m = stack[t][i].at

(* No marking is forgotten: unless a goal has been found, every marking of *)
(* the store is processed or in the hands of some thread.                  *)
Covered ==
  SomeFound \/ \A m \in store :
     Processed(m, store) \/ \E t \in Thread : Holds(t, m)

InitialEntered ==
  \A t \in Thread : pc[t] \notin {"start", "insertInitial"} =>
     found[t] \/ Initial \in store

CallerOK ==
  /\ value \in BOOLEAN
  /\ result \in Marking
  /\ value <=> \E t \in Thread : t < joined /\ found[t]
  /\ value => result \in Goal /\ result \in store \cup {Initial}
  /\ ~value => result = Initial

(* A thread that announces a negative end is the last one awake.           *)
LastAwake ==
  \A t \in Thread : pc[t] = "announce" /\ ~found[t] =>
     /\ ~finished
     /\ \A u \in Thread \ {t} : pc[u] = "wait"

Coverage == Covered /\ InitialEntered /\ CallerOK /\ LastAwake

(* The inductive invariant.                                                *)
IInv == Control /\ Data /\ Coverage
=============================================================================
