------------------------------ MODULE StoresMC ------------------------------
(***************************************************************************)
(* The stores of module Stores and the prefix tree, one at a time.  Threads*)
(* may all call for the same vectors at the same time.                     *)
(***************************************************************************)
EXTENDS Stores, PrefixTreeWords

CONSTANTS t1, t2, t3, v1, v2, bitlen

VARIABLES firstvector, branch, op    \* the prefix tree

treeVars == <<firstvector, branch, op>>

(* Three vectors with two bits each that overlap in a ring: each is known  *)
(* by accident once the other two are.                                     *)
Ring == 0 .. 2
RingHash == [v \in Ring |-> [i \in 1 .. hash_functions |-> (v + i) % 3]]

(* The operations of the tree are atomic: one thread calls them all.       *)
Tree == INSTANCE PrefixTreeStore WITH Thread <- {t1}

ASSUME Tree!BitlenAssumption

(* Zeros, ones, alternating bits, and pairs of bits.                       *)
SomeMarkings == {[i \in 0 .. Bits - 1 |-> 0],
                 [i \in 0 .. Bits - 1 |-> 1],
                 [i \in 0 .. Bits - 1 |-> i % 2],
                 [i \in 0 .. Bits - 1 |-> (i \div 2) % 2]}

(* The STL store starts with any vectors in its threads' unused variables. *)
MCInit ==
  /\ StoresInit
  /\ Tree!Init
  /\ kind \in {"stl", "plugin"} \/ ci = [t \in Thread |-> v1]

TreeNext ==
  /\ kind = "prefix"
  /\ Tree!Next
  /\ UNCHANGED storesVars

(* Two threads are enough where no more is asked than which of two comes   *)
(* first.                                                                  *)
MCNext ==
  \/ (\E t \in {t1, t2} : StlStep(t)) /\ UNCHANGED treeVars
  \/ CountedNext /\ UNCHANGED treeVars
  \/ BloomNext /\ UNCHANGED treeVars
  \/ TreeNext

mcVars == <<storesVars, treeVars>>

MCSpec ==
  /\ MCInit
  /\ [][MCNext]_mcVars
  /\ \A t \in Thread :
       WF_mcVars(/\ kind = "plugin"
                 /\ PluginStep(t) \/ PluginReturn(t)
                 /\ UNCHANGED <<kind, bloomVars, treeVars>>)
-----------------------------------------------------------------------------
(* Every call of the front end returns: no thread keeps a lock.  (Its calls*)
(* are bounded; the lock itself promises nothing to a writer if reads never*)
(* stop.)                                                                  *)
PluginCallsReturn ==
  \A t \in Thread : (kind = "plugin" /\ pc[t] # "idle") ~> pc[t] = "idle"

(* The prefix tree is a VectorStore, over any insertions and pops          *)
(* (PrefixTreeStore.inc 95-514).                                           *)
TreeImplementsVectorStore == Tree!ImplementsVectorStore

(* The words do not depend on the state: one state is enough to check them.*)
Untouched == kind = "prefix" /\ firstvector = NULL /\ op = [t \in {t1} |-> Tree!Idle]

(* The search stops at the first bit in which the marking differs from a   *)
(* vector, and reports a match exactly if there is none (PrefixTreeStore   *)
(* .inc 176-288), so that the tree may compare bit by bit.                 *)
WordsLocated == Untouched => LocatedRight

(* popVector puts together the marking a decision was made for             *)
(* (PrefixTreeStore.inc 467-504).                                          *)
WordsRebuilt == Untouched => RebuiltRight
=============================================================================
