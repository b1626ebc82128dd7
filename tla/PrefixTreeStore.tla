-------------------------- MODULE PrefixTreeStore --------------------------
(***************************************************************************)
(* PrefixTreeStore (Stores/VectorStores/PrefixTreeStore.h and .inc), the   *)
(* store LoLA uses by default: the first vector is kept whole, any other   *)
(* one as the bits behind the first bit in which it differs from a vector  *)
(* that is there already.  The model numbers bits from the front of the    *)
(* marking and leaves the words that hold them out.  Every operation runs  *)
(* under the lock, for reading or for writing, from its first step to its  *)
(* last, and is one step here.                                             *)
(***************************************************************************)
EXTENDS Integers, SequencesExt

CONSTANTS
  Thread,   \* the threads
  bitlen,   \* the number of bits of a vector
  NULL      \* no vector

BitlenAssumption == bitlen \in Nat \ {0}

VARIABLES
  firstvector,  \* the first vector; NULL as long as the store is empty
  branch,       \* the decisions that differ from it
  op            \* op[t]: the operation of thread t

vars == <<firstvector, branch, op>>

BitVector == [0 .. bitlen - 1 -> 0 .. 1]

(* Decision: the bit that differs, the bits behind it, and the decisions   *)
(* that differ from those (nextnew).  The decisions linked by nextold are  *)
(* a sequence.                                                             *)
Decision(b, vector, nextnew) == [bit |-> b, vector |-> vector, nextnew |-> nextnew]

From(in, b) == [i \in {j \in DOMAIN in : j >= b} |-> in[i]]

Idle == [kind |-> "idle"]

Init ==
  /\ firstvector = NULL
  /\ branch = <<>>
  /\ op = [t \in Thread |-> Idle]
-----------------------------------------------------------------------------
(* The bits of the vector in which the input differs from it.              *)
Differing(in, vector) == {i \in DOMAIN vector : in[i] # vector[i]}

(* The place in the list for a branch at bit b: all early branches are     *)
(* skipped.                                                                *)
Anchor(old, b) ==
  CHOOSE i \in 1 .. Len(old) + 1 :
    /\ \A j \in 1 .. i - 1 : old[j].bit < b
    /\ i <= Len(old) => old[i].bit >= b

(* The search of the input in a vector and the decisions that differ from  *)
(* it: whether it was found, and the decisions with the input inserted.    *)
RECURSIVE Search(_, _, _)
Search(in, vector, old) ==
  IF Differing(in, vector) = {} THEN [found |-> TRUE, branch |-> old]
  ELSE LET b == Min(Differing(in, vector))
           a == Anchor(old, b)
       IN IF a <= Len(old) /\ old[a].bit = b
          THEN LET s == Search(in, old[a].vector, old[a].nextnew)
               IN [found |-> s.found,
                   branch |-> [old EXCEPT ![a].nextnew = s.branch]]
          ELSE [found |-> FALSE,
                branch |-> InsertAt(old, a, Decision(b, From(in, b + 1), <<>>))]

CallSearch(t, in, noinsert) ==
  /\ op[t] = Idle
  /\ op' = [op EXCEPT ![t] = [kind |-> "search", vector |-> in,
                              noinsert |-> noinsert]]
  /\ UNCHANGED <<firstvector, branch>>

Searched(t, found) ==
  op' = [op EXCEPT ![t] = [kind |-> "searched", vector |-> op[t].vector,
                           found |-> found]]

(* searchAndInsert                                                         *)
SearchEmpty(t) ==
  /\ op[t].kind = "search"
  /\ firstvector = NULL
  /\ firstvector' = IF op[t].noinsert THEN NULL ELSE op[t].vector
  /\ Searched(t, FALSE)
  /\ UNCHANGED branch

SearchAndInsert(t) ==
  /\ op[t].kind = "search"
  /\ firstvector # NULL
  /\ LET s == Search(op[t].vector, firstvector, branch)
     IN /\ Searched(t, s.found)
        /\ branch' = IF op[t].noinsert THEN branch ELSE s.branch
  /\ UNCHANGED firstvector

CallPop(t) ==
  /\ op[t] = Idle
  /\ op' = [op EXCEPT ![t] = [kind |-> "pop"]]
  /\ UNCHANGED <<firstvector, branch>>

Popped(t) == op' = [op EXCEPT ![t] = [kind |-> "popped", vector |-> firstvector]]

(* popVector                                                               *)
PopEmpty(t) ==
  /\ op[t].kind = "pop"
  /\ firstvector = NULL
  /\ op' = [op EXCEPT ![t] = [kind |-> "empty"]]
  /\ UNCHANGED <<firstvector, branch>>

PopLast(t) ==
  /\ op[t].kind = "pop"
  /\ firstvector # NULL
  /\ branch = <<>>
  /\ firstvector' = NULL
  /\ Popped(t)
  /\ UNCHANGED branch

(* The vector with the bit of the decision toggled and the bits behind it  *)
(* replaced by those of the decision.                                      *)
Rebuilt(vector, d) ==
  [i \in DOMAIN vector |-> CASE i < d.bit -> vector[i]
                             [] i = d.bit -> 1 - vector[i]
                             [] i > d.bit -> d.vector[i]]

(* Variant: the decisions that differ from the last one go with it.        *)
PopDropping(t) ==
  /\ op[t].kind = "pop"
  /\ firstvector # NULL
  /\ branch # <<>>
  /\ firstvector' = Rebuilt(firstvector, Last(branch))
  /\ branch' = Front(branch)
  /\ Popped(t)

(* The vector of the decision that differs last becomes the first vector,  *)
(* and those that differ from it take its place in the list.               *)
PopFirst(t) ==
  /\ op[t].kind = "pop"
  /\ firstvector # NULL
  /\ branch # <<>>
  /\ firstvector' = Rebuilt(firstvector, Last(branch))
  /\ branch' = Front(branch) \o Last(branch).nextnew
  /\ Popped(t)

Return(t) ==
  /\ op[t].kind \in {"searched", "popped", "empty"}
  /\ op' = [op EXCEPT ![t] = Idle]
  /\ UNCHANGED <<firstvector, branch>>

Next ==
  \E t \in Thread :
    \/ \E in \in BitVector, noinsert \in BOOLEAN : CallSearch(t, in, noinsert)
    \/ CallPop(t)
    \/ SearchEmpty(t) \/ SearchAndInsert(t)
    \/ PopEmpty(t) \/ PopLast(t) \/ PopFirst(t)
    \/ Return(t)

Spec == Init /\ [][Next]_vars
-----------------------------------------------------------------------------
(* Decisions that differ from a vector whose bits start at bit from:       *)
(* "decision nodes differing later than this one" follow each other, the   *)
(* vector of a decision has the bits behind its own.                       *)
RECURSIVE DecisionsOK(_, _)
DecisionsOK(old, from) ==
  /\ \A i, j \in DOMAIN old : i < j => old[i].bit < old[j].bit
  /\ \A i \in DOMAIN old :
       LET d == old[i]
       IN /\ d.bit \in from .. bitlen - 1
          /\ d.vector \in [d.bit + 1 .. bitlen - 1 -> 0 .. 1]
          /\ DecisionsOK(d.nextnew, d.bit + 1)

(* Type invariant: the shape of the tree.                                  *)
TypeOK ==
  /\ firstvector \in BitVector \cup {NULL}
  /\ firstvector = NULL => branch = <<>>
  /\ DecisionsOK(branch, 0)

(* The vectors that a vector and the decisions that differ from it stand   *)
(* for.                                                                    *)
RECURSIVE Stored(_, _)
Stored(vector, old) ==
  {vector} \cup
  UNION {{Rebuilt(vector, [old[i] EXCEPT !.vector = w]) :
            w \in Stored(old[i].vector, old[i].nextnew)} : i \in DOMAIN old}

Contract == INSTANCE VectorStore WITH
  Vector <- BitVector,
  Cells <- [v \in BitVector |-> {v}],
  content <- IF firstvector = NULL THEN {} ELSE Stored(firstvector, branch)

(* The tree is a VectorStore, whatever the order in which vectors came and *)
(* were popped: a search finds exactly the vectors inserted and not yet    *)
(* popped, an insertion adds one and moves none, and popVector returns a   *)
(* vector of the store and takes out this one and no other.                *)
ImplementsVectorStore == Contract!AbstractSpec
=============================================================================
