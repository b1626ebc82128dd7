---------------------------- MODULE VBloomStore ----------------------------
(***************************************************************************)
(* VBloomStore (Stores/VectorStores/VBloomStore.inc): a Bloom filter.  A   *)
(* vector is reported as known when all its bits are set.  Bits are tested *)
(* without a lock; a thread that meets an unset bit tests it again under   *)
(* the mutex and sets it and all that follow.                              *)
(***************************************************************************)
EXTENDS Integers, Functions

CONSTANTS
  Thread,          \* the threads
  Vector,          \* the encoded markings
  NULL,            \* no vector
  Bit,             \* 0 .. SIZE - 1
  hash_functions,  \* the number of hash functions
  HashValues       \* HashValues[v]: the bits of vector v, one per function

(* The first two hash functions are always computed, and written.          *)
BloomAssumption ==
  /\ hash_functions \in Nat \ {0, 1}
  /\ HashValues \in [Vector -> [1 .. hash_functions -> Bit]]
  /\ NULL \notin Vector

VARIABLES
  filter,    \* the bits that are set
  mutex,     \* the threads that hold the mutex
  pc,        \* where a thread stands in searchAndInsert
  in,        \* the vector searched for; NULL between the operations
  noinsert,  \* the argument of that name
  h,         \* the hash function whose bit is tested, or set
  ret        \* the answer

vars == <<filter, mutex, pc, in, noinsert, h, ret>>

Goto(t, label) == pc' = [pc EXCEPT ![t] = label]

BitOf(t) == HashValues[in[t]][h[t]]

Init ==
  /\ filter = {}
  /\ mutex = {}
  /\ pc = [t \in Thread |-> "idle"]
  /\ in = [t \in Thread |-> NULL]
  /\ noinsert = [t \in Thread |-> FALSE]
  /\ h = [t \in Thread |-> 1]
  /\ ret = [t \in Thread |-> FALSE]
-----------------------------------------------------------------------------
(* searchAndInsert is called: the hash values are computed.                *)
SearchAndInsert(t, v, b) ==
  /\ pc[t] = "idle"
  /\ in' = [in EXCEPT ![t] = v]
  /\ noinsert' = [noinsert EXCEPT ![t] = b]
  /\ h' = [h EXCEPT ![t] = 1]
  /\ Goto(t, "test")
  /\ UNCHANGED <<filter, mutex, ret>>

(* The loop goes on behind a bit that is set; after the last one the       *)
(* vector is known.                                                        *)
NextBit(t) ==
  \/ /\ h[t] < hash_functions
     /\ h' = [h EXCEPT ![t] = @ + 1]
     /\ Goto(t, "test")
     /\ UNCHANGED ret
  \/ /\ h[t] = hash_functions
     /\ ret' = [ret EXCEPT ![t] = TRUE]
     /\ Goto(t, "return")
     /\ UNCHANGED h

(* The test without the mutex.                                             *)
TestSet(t) ==
  /\ pc[t] = "test"
  /\ BitOf(t) \in filter
  /\ NextBit(t)
  /\ UNCHANGED <<filter, mutex, in, noinsert>>

TestUnset(t) ==
  /\ pc[t] = "test"
  /\ BitOf(t) \notin filter
  /\ \/ noinsert[t] /\ Goto(t, "return")
     \/ ~noinsert[t] /\ Goto(t, "lock")
  /\ UNCHANGED <<filter, mutex, in, noinsert, h, ret>>

Lock(t) ==
  /\ pc[t] = "lock"
  /\ mutex = {}
  /\ mutex' = {t}
  /\ Goto(t, "retest")
  /\ UNCHANGED <<filter, in, noinsert, h, ret>>

(* Another thread has set the bit: go on testing behind it.                *)
RetestSet(t) ==
  /\ pc[t] = "retest"
  /\ BitOf(t) \in filter
  /\ mutex' = {}
  /\ NextBit(t)
  /\ UNCHANGED <<filter, in, noinsert>>

(* Variant: the bit is not tested again under the mutex.                   *)
NoRetestUnset(t) ==
  /\ pc[t] = "retest"
  /\ Goto(t, "set")
  /\ UNCHANGED <<filter, mutex, in, noinsert, h, ret>>

RetestUnset(t) ==
  /\ pc[t] = "retest"
  /\ BitOf(t) \notin filter
  /\ Goto(t, "set")
  /\ UNCHANGED <<filter, mutex, in, noinsert, h, ret>>

(* Variant: only the bit that was unset is set.                            *)
SetOneBit(t) ==
  /\ pc[t] = "set"
  /\ filter' = filter \cup {BitOf(t)}
  /\ Goto(t, "unlock")
  /\ UNCHANGED <<mutex, in, noinsert, h, ret>>

(* This bit and all subsequent ones are set, one after the other.          *)
SetBit(t) ==
  /\ pc[t] = "set"
  /\ filter' = filter \cup {BitOf(t)}
  /\ \/ /\ h[t] < hash_functions
        /\ h' = [h EXCEPT ![t] = @ + 1]
        /\ UNCHANGED pc
     \/ /\ h[t] = hash_functions
        /\ Goto(t, "unlock")
        /\ UNCHANGED h
  /\ UNCHANGED <<mutex, in, noinsert, ret>>

Unlock(t) ==
  /\ pc[t] = "unlock"
  /\ mutex' = {}
  /\ Goto(t, "return")
  /\ UNCHANGED <<filter, in, noinsert, h, ret>>

(* The operation returns, and its local variables are gone.                *)
Return(t) ==
  /\ pc[t] = "return"
  /\ in' = [in EXCEPT ![t] = NULL]
  /\ noinsert' = [noinsert EXCEPT ![t] = FALSE]
  /\ h' = [h EXCEPT ![t] = 1]
  /\ ret' = [ret EXCEPT ![t] = FALSE]
  /\ Goto(t, "idle")
  /\ UNCHANGED <<filter, mutex>>

Step(t) ==
  \/ TestSet(t)   \/ TestUnset(t)   \/ Lock(t)
  \/ RetestSet(t) \/ RetestUnset(t) \/ SetBit(t) \/ Unlock(t)

(* popVector and empty abort the program, and are not called.              *)
Next ==
  \E t \in Thread :
    \/ \E v \in Vector, b \in BOOLEAN : SearchAndInsert(t, v, b)
    \/ Step(t)
    \/ Return(t)

Spec == Init /\ [][Next]_vars
-----------------------------------------------------------------------------
Label == {"idle", "test", "lock", "retest", "set", "unlock", "return"}

(* Type invariant, with what the mutex guarantees.                         *)
TypeOK ==
  /\ filter \subseteq Bit
  /\ pc \in [Thread -> Label]
  /\ in \in [Thread -> Vector \cup {NULL}]
  /\ noinsert \in [Thread -> BOOLEAN]
  /\ h \in [Thread -> 1 .. hash_functions]
  /\ ret \in [Thread -> BOOLEAN]
  /\ mutex = {t \in Thread : pc[t] \in {"retest", "set", "unlock"}}
  /\ \A t \in mutex : mutex = {t}

BitsOf(v) == Range(HashValues[v])

(* When an insertion returns, the vector is in the filter, for good: "set  *)
(* this and all subsequent bits to 1 (previous bits were already 1)"       *)
(* (VBloomStore.inc 111); and a vector is reported as known only when all  *)
(* its bits are set.                                                       *)
AnswerBacked ==
  \A t \in Thread :
    pc[t] = "return" /\ (ret[t] \/ ~noinsert[t]) => BitsOf(in[t]) \subseteq filter

(* A thread that sets bits is the first to insert this vector; the bits it *)
(* has still to set are counted as set already.                            *)
Pending == UNION {BitsOf(in[t]) : t \in {u \in Thread : pc[u] = "set"}}

(* A mere search changes nothing, and is left to AnswerBacked: while       *)
(* another thread sets bits it may miss a vector that is about to be there.*)
Operation(t) ==
  CASE pc[t] = "idle" \/ noinsert[t] -> [kind |-> "idle"]
    [] ~noinsert[t] /\ pc[t] \in {"set", "unlock", "return"} ->
         [kind |-> "searched", vector |-> in[t], found |-> ret[t]]
    [] OTHER -> [kind |-> "search", vector |-> in[t], noinsert |-> noinsert[t]]

Contract == INSTANCE VectorStore WITH
  Cells <- [v \in Vector |-> BitsOf(v)],
  content <- filter \cup Pending,
  op <- [t \in Thread |-> Operation(t)]

(* To the calls that insert the filter is a VectorStore ("some rare        *)
(* occasion where double-checked locking actually works", VBloomStore.inc  *)
(* 108): two threads never both report a vector as new, and none is        *)
(* reported as known before its bits are.                                  *)
ImplementsVectorStore == Contract!AbstractSpec
=============================================================================
