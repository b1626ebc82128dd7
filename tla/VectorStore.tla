---------------------------- MODULE VectorStore ----------------------------
(***************************************************************************)
(* What the stores promise the threads that use them (VectorStore.h): an   *)
(* operation takes effect at once, at some moment between its call and its *)
(* return.  A store remembers cells: a vector is known when all its cells  *)
(* are.  For an exact store the only cell of a vector is the vector, for a *)
(* Bloom filter the cells are bits and a vector may be known by accident.  *)
(***************************************************************************)
CONSTANTS
  Thread,
  Vector,
  Cells      \* Cells[v]: the cells of vector v

VARIABLES
  content,   \* the cells remembered
  op         \* op[t]: the operation of thread t

avars == <<content, op>>

Idle == [kind |-> "idle"]

AbstractInit ==
  /\ content = {}
  /\ op = [t \in Thread |-> Idle]

(* searchAndInsert is called with a vector; noinsert asks for a search     *)
(* only.                                                                   *)
CallSearch(t) ==
  /\ op[t] = Idle
  /\ \E v \in Vector, noinsert \in BOOLEAN :
        op' = [op EXCEPT ![t] = [kind |-> "search", vector |-> v,
                                 noinsert |-> noinsert]]
  /\ UNCHANGED content

(* "true, if the marking was found in the store, otherwise false": the     *)
(* moment of truth.                                                        *)
DecideSearch(t) ==
  /\ op[t].kind = "search"
  /\ LET v == op[t].vector
         found == Cells[v] \subseteq content
     IN /\ op' = [op EXCEPT ![t] = [kind |-> "searched", vector |-> v,
                                    found |-> found]]
        /\ content' = IF op[t].noinsert THEN content ELSE content \cup Cells[v]

CallPop(t) ==
  /\ op[t] = Idle
  /\ op' = [op EXCEPT ![t] = [kind |-> "pop"]]
  /\ UNCHANGED content

(* "gets and removes a vector from the store; false, if the store was      *)
(* already empty".                                                         *)
DecidePop(t) ==
  /\ op[t].kind = "pop"
  /\ \/ /\ content = {}
        /\ op' = [op EXCEPT ![t] = [kind |-> "empty"]]
        /\ UNCHANGED content
     \/ \E v \in Vector :
          /\ Cells[v] \subseteq content
          /\ content' = content \ Cells[v]
          /\ op' = [op EXCEPT ![t] = [kind |-> "popped", vector |-> v]]

Return(t) ==
  /\ op[t].kind \in {"searched", "popped", "empty"}
  /\ op' = [op EXCEPT ![t] = Idle]
  /\ UNCHANGED content

AbstractNext ==
  \E t \in Thread : \/ CallSearch(t) \/ DecideSearch(t)
                    \/ CallPop(t)    \/ DecidePop(t)
                    \/ Return(t)

AbstractSpec == AbstractInit /\ [][AbstractNext]_avars
=============================================================================
