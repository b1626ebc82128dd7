----------------------------- MODULE VSTLStore -----------------------------
(***************************************************************************)
(* VSTLStore (Stores/VectorStores/VSTLStore.inc and .cc): a set of vectors *)
(* behind a readers-writer lock.  A search looks under the read lock and,  *)
(* when it has to insert, looks again under the write lock.  The model is  *)
(* of several threads; with a single one no lock is taken (lines 65-73).   *)
(***************************************************************************)
CONSTANTS
  Thread,   \* the threads
  Vector,   \* the encoded markings
  NULL      \* no payload

ASSUME NoPayload == NULL \notin Vector

VARIABLES
  store,     \* the map, or set, of vectors
  readers,   \* rwlock: the threads that hold it for reading ...
  writers,   \* ... and for writing
  pc,        \* where a thread stands in its operation
  ci,        \* intermediate: the vector searched for, or popped
  noinsert,  \* the argument of that name
  ret,       \* the answer
  payload    \* the vector whose payload the caller's pointer points to

storeVars  == <<store, readers, writers>>
threadVars == <<pc, ci, noinsert, ret, payload>>
vars       == <<storeVars, threadVars>>

Goto(t, label) == pc' = [pc EXCEPT ![t] = label]

Init ==
  /\ store = {}
  /\ readers = {}
  /\ writers = {}
  /\ pc = [t \in Thread |-> "idle"]
  /\ ci \in [Thread -> Vector]
  /\ noinsert = [t \in Thread |-> FALSE]
  /\ ret = [t \in Thread |-> FALSE]
  /\ payload = [t \in Thread |-> NULL]
-----------------------------------------------------------------------------
(* searchAndInsert is called with a pointer that is NULL (as in the example*)
(* of Store.h 34): the vector is copied.                                   *)
SearchAndInsert(t, v, b) ==
  /\ pc[t] = "idle"
  /\ ci' = [ci EXCEPT ![t] = v]
  /\ noinsert' = [noinsert EXCEPT ![t] = b]
  /\ payload' = [payload EXCEPT ![t] = NULL]
  /\ Goto(t, "rdlock")
  /\ UNCHANGED <<storeVars, ret>>

ReadLock(t) ==
  /\ pc[t] = "rdlock"
  /\ writers = {}
  /\ readers' = readers \cup {t}
  /\ Goto(t, "count")
  /\ UNCHANGED <<store, writers, ci, noinsert, ret, payload>>

Count(t) ==
  /\ pc[t] = "count"
  /\ ret' = [ret EXCEPT ![t] = ci[t] \in store]
  /\ Goto(t, "rdunlock")
  /\ UNCHANGED <<storeVars, ci, noinsert, payload>>

(* Variant: a hit returns without giving the lock back.                    *)
ReadUnlockOnMiss(t) ==
  /\ pc[t] = "rdunlock"
  /\ readers' = IF ret[t] THEN readers ELSE readers \ {t}
  /\ Goto(t, IF ret[t] \/ noinsert[t] THEN "return" ELSE "wrlock")
  /\ UNCHANGED <<store, writers, ci, noinsert, ret, payload>>

(* A hit, and a miss that must not insert, is the answer.                  *)
ReadUnlock(t) ==
  /\ pc[t] = "rdunlock"
  /\ readers' = readers \ {t}
  /\ Goto(t, IF ret[t] \/ noinsert[t] THEN "return" ELSE "wrlock")
  /\ UNCHANGED <<store, writers, ci, noinsert, ret, payload>>

WriteLock(t) ==
  /\ pc[t] = "wrlock"
  /\ writers = {} /\ readers = {}
  /\ writers' = {t}
  /\ Goto(t, "insert")
  /\ UNCHANGED <<store, readers, ci, noinsert, ret, payload>>

(* Variant: the answer is that of the first look.                          *)
InsertUnchecked(t) ==
  /\ pc[t] = "insert"
  /\ store' = store \cup {ci[t]}
  /\ payload' = [payload EXCEPT ![t] = ci[t]]
  /\ Goto(t, "wrunlock")
  /\ UNCHANGED <<readers, writers, ci, noinsert, ret>>

(* The second look; store[ci] makes an entry if there is none.             *)
Insert(t) ==
  /\ pc[t] = "insert"
  /\ ret' = [ret EXCEPT ![t] = ci[t] \in store]
  /\ store' = store \cup {ci[t]}
  /\ payload' = [payload EXCEPT ![t] = ci[t]]
  /\ Goto(t, "wrunlock")
  /\ UNCHANGED <<readers, writers, ci, noinsert>>

WriteUnlock(t) ==
  /\ pc[t] = "wrunlock"
  /\ writers' = {}
  /\ Goto(t, "return")
  /\ UNCHANGED <<store, readers, ci, noinsert, ret, payload>>

(* popVector                                                               *)
PopVector(t) ==
  /\ pc[t] = "idle"
  /\ Goto(t, "popwrlock")
  /\ UNCHANGED <<storeVars, ci, noinsert, ret, payload>>

PopWriteLock(t) ==
  /\ pc[t] = "popwrlock"
  /\ writers = {} /\ readers = {}
  /\ writers' = {t}
  /\ Goto(t, "pop")
  /\ UNCHANGED <<store, readers, ci, noinsert, ret, payload>>

(* The first vector in the order of the set; the model takes any.          *)
Pop(t) ==
  /\ pc[t] = "pop"
  /\ ret' = [ret EXCEPT ![t] = store # {}]
  /\ \/ store = {} /\ UNCHANGED <<ci, store>>
     \/ \E v \in store : /\ ci' = [ci EXCEPT ![t] = v]
                         /\ store' = store \ {v}
  /\ Goto(t, "popwrunlock")
  /\ UNCHANGED <<readers, writers, noinsert, payload>>

PopWriteUnlock(t) ==
  /\ pc[t] = "popwrunlock"
  /\ writers' = {}
  /\ Goto(t, "popreturn")
  /\ UNCHANGED <<store, readers, ci, noinsert, ret, payload>>

(* The operation returns, and its local variables are gone.                *)
Return(t) ==
  /\ pc[t] \in {"return", "popreturn"}
  /\ noinsert' = [noinsert EXCEPT ![t] = FALSE]
  /\ ret' = [ret EXCEPT ![t] = FALSE]
  /\ payload' = [payload EXCEPT ![t] = NULL]
  /\ Goto(t, "idle")
  /\ UNCHANGED <<storeVars, ci>>

Step(t) ==
  \/ ReadLock(t)  \/ Count(t)  \/ ReadUnlock(t)
  \/ WriteLock(t) \/ Insert(t) \/ WriteUnlock(t)
  \/ PopWriteLock(t) \/ Pop(t) \/ PopWriteUnlock(t)

Call(t) == \/ \E v \in Vector, b \in BOOLEAN : SearchAndInsert(t, v, b)
           \/ PopVector(t)

Next == \E t \in Thread : Call(t) \/ Step(t) \/ Return(t)

Spec == Init /\ [][Next]_vars
-----------------------------------------------------------------------------
Label == {"idle", "rdlock", "count", "rdunlock", "wrlock", "insert",
          "wrunlock", "return", "popwrlock", "pop", "popwrunlock", "popreturn"}

(* Type invariant, with what the lock guarantees: readers and writers are  *)
(* the threads that stand between its locking and unlocking, and a writer  *)
(* is alone.                                                               *)
TypeOK ==
  /\ store \subseteq Vector
  /\ pc \in [Thread -> Label]
  /\ ci \in [Thread -> Vector]
  /\ noinsert \in [Thread -> BOOLEAN]
  /\ ret \in [Thread -> BOOLEAN]
  /\ payload \in [Thread -> Vector \cup {NULL}]
  /\ readers = {t \in Thread : pc[t] \in {"count", "rdunlock"}}
  /\ writers = {t \in Thread : pc[t] \in {"insert", "wrunlock", "pop", "popwrunlock"}}
  /\ \A t \in writers : writers = {t} /\ readers = {}

(* The abstract operation of thread t.  It is decided at the first look,   *)
(* or at the second if it came to that.                                    *)
Operation(t) ==
  CASE pc[t] = "idle" -> [kind |-> "idle"]
    [] pc[t] \in {"popwrlock", "pop"} -> [kind |-> "pop"]
    [] pc[t] \in {"popwrunlock", "popreturn"} ->
         IF ret[t] THEN [kind |-> "popped", vector |-> ci[t]] ELSE [kind |-> "empty"]
    [] \/ pc[t] \in {"wrunlock", "return"}
       \/ pc[t] = "rdunlock" /\ (ret[t] \/ noinsert[t]) ->
         [kind |-> "searched", vector |-> ci[t], found |-> ret[t]]
    [] OTHER -> [kind |-> "search", vector |-> ci[t], noinsert |-> noinsert[t]]

Contract == INSTANCE VectorStore WITH
  Cells <- [v \in Vector |-> {v}],
  content <- store,
  op <- [t \in Thread |-> Operation(t)]

(* The store is a VectorStore: although a search that inserts looks twice, *)
(* with other threads inserting and popping in between, each operation is  *)
(* answered as if it had happened at one moment (VSTLStore.inc 75-94).     *)
ImplementsVectorStore == Contract!AbstractSpec

(* "If the marking is found, the address is set to the (already existing)  *)
(* payload entry of that marking, if a new marking was added the address   *)
(* will be set to a newly allocated payload entry" (Store.h 95).           *)
PayloadIsOfVector ==
  \A t \in Thread :
     pc[t] = "return" /\ (ret[t] \/ ~noinsert[t]) => payload[t] = ci[t]
=============================================================================
