--------------------------- MODULE CoverGraphInv ----------------------------
(***************************************************************************)
(* What makes the coverability search of CoverGraph correct.               *)
(***************************************************************************)
EXTENDS CoverGraph

Stage == {"init", "startFirst", "initCheck", "initAsleep", "register",
          "insertRoot", "begin", "head", "fire", "link", "readIdle",
          "takeHelper", "giveState", "givePayload", "wake", "enlist", "exit",
          "check", "asleep", "resume", "terminate", "signal", "barrier",
          "barrierWait", "leave", "done"}

Giving == {"giveState", "givePayload", "wake"}
Sleeping == {"initCheck", "initAsleep", "check", "asleep"}
-----------------------------------------------------------------------------
(* getHelper hands work to threads that wait for it and to no other: the   *)
(* counter that is read without a lock counts the set, and a thread that   *)
(* somebody gives a node to is not in the set any more, is nobody else's   *)
(* helper and sleeps until it is woken or the search is over.              *)
HelperTakenOnce ==
  /\ idleCount = Cardinality(idleSet)
  /\ \A t \in Thread : pc[t] \in Giving =>
        /\ helper[t] \notin idleSet
        /\ pc[helper[t]] \in Sleeping \/ exit
        /\ idle[helper[t]]
        /\ \A u \in Thread \ {t} :
              pc[u] \in Giving => helper[u] # helper[t]

(* The net state a thread works on is that of its node: the walk over the  *)
(* tree that coverThread makes from node to node, undoing and redoing      *)
(* transitions and omegas, arrives at the right marking with the right     *)
(* flags, and so does every delegated copy.                                *)
NodeReached ==
  \A t \in Thread : pc[t] = "fire" \/ (pc[t] = "head" /\ ~exit) =>
     /\ ns[t].Current = currentPayload[t]
     /\ EnabledExact(ns[t])

(* A thread's mutex, condition and flag idle are on its own stack and end  *)
(* with it: nobody leaves terminateThreadMutex while another thread may    *)
(* still signal it or give it a node.                                      *)
LeaveTogether ==
  (\E t \in Thread : pc[t] \in {"leave", "done"}) =>
     \A t \in Thread : pc[t] \in {"barrierWait", "leave", "done"}

(* Sets of nodes that contain the root of a thread's list and, with a      *)
(* node, the next one; the nodes on the list are those in all of them.     *)
Closed(S) == \A k \in S : store[k].next # NoNode => store[k].next \in S

OnList(t) ==
  {k \in DOMAIN store :
     /\ root[t] # NoNode
     /\ \A S \in SUBSET DOMAIN store : root[t] \in S /\ Closed(S) => k \in S}

Ends(t) == \E k \in OnList(t) : store[k].next = NoNode

WithNewNode == Giving \cup {"link", "readIdle", "takeHelper"}

(* A node has been given to a thread that has not yet begun with it.       *)
Given(t) ==
  /\ ~idle[t]
  /\ \/ pc[t] \in {"begin", "check", "asleep", "resume"}
     \/ t # 0 /\ pc[t] \in {"initCheck", "initAsleep"}

(* The node on its way to a list: one that the thread has created or been  *)
(* given.                                                                  *)
Held(t) ==
  IF pc[t] \in WithNewNode THEN {ipay[t]}
  ELSE IF Given(t) THEN {info[t].payload} ELSE {}

(* As long as the search goes on a node is on the list of one thread or on *)
(* its way there, and never twice: no node is worked on by two threads,    *)
(* and none is lost when work is handed over.                              *)
NodesOnOneList ==
  ~exit =>
    /\ \A t \in Thread : OnList(t) \cap Held(t) = {}
    /\ \A t, u \in Thread : t # u =>
          (OnList(t) \cup Held(t)) \cap (OnList(u) \cup Held(u)) = {}
    /\ DOMAIN store = UNION {OnList(t) \cup Held(t) : t \in Thread}

(* When the threads leave the search, releaseOmegas can walk each thread's *)
(* part of the graph along the next pointers from its root: the walk comes *)
(* to an end, and no two threads release the same node.                    *)
ReleasedOnce ==
  (\A t \in Thread : pc[t] \in {"leave", "done"}) =>
     \A t, u \in Thread :
        /\ root[t] # NoNode => Ends(t)
        /\ t # u => OnList(t) \cap OnList(u) = {}
-----------------------------------------------------------------------------
(* The inductive invariant of the theorems, about the pool of threads      *)
(* only: it does not speak of nodes and net states.                        *)
Starting == {"init", "startFirst", "initCheck", "initAsleep"}
Searching == {"fire", "link", "readIdle", "takeHelper"} \cup Giving
Arrived == {"barrierWait", "leave", "done"}

Coming == {t \in Thread : pc[t] = "init"}
Present == {t \in Thread : pc[t] \notin Arrived}

PoolType ==
  /\ pc \in [Thread -> Stage]
  /\ idle \in [Thread -> BOOLEAN]
  /\ helper \in [Thread -> Thread]
  /\ idleSet \in SUBSET Thread
  /\ idleCount \in Nat
  /\ running \in Nat
  /\ terminating \in Nat
  /\ exit \in BOOLEAN

(* Until thread 0 has registered the others, all of them wait.             *)
Startup ==
  /\ running = Cardinality(Coming)
  /\ running > 0 => /\ pc[0] \in {"init", "initCheck", "initAsleep"}
                    /\ idle[0]
                    /\ \A t \in Thread : pc[t] # "startFirst"
  /\ \A t \in Thread : pc[t] = "startFirst" =>
        /\ pc[0] \in Starting
        /\ idle[0]
        /\ \A u \in Thread : pc[u] = "startFirst" => u = t
  /\ pc[0] \in Starting \cup {"register"} =>
        /\ ~exit
        /\ idleSet = {}
        /\ \A t \in Thread \ {0} : pc[t] \in Starting /\ idle[t]
  /\ \A t \in Thread : pc[t] \in {"register", "insertRoot"} => t = 0

(* Who is idle, in the set of the idle ones, or in the hands of a giver.   *)
InSet == \A t \in idleSet : idle[t] /\ (pc[t] \in Sleeping \cup {"exit"} \/ exit)

AtWork ==
  \A t \in Thread :
     /\ pc[t] \in {"register", "insertRoot", "begin", "resume", "head"} =>
           ~idle[t] \/ exit
     /\ pc[t] \in Searching => ~idle[t]

OnTheWay ==
  \A t \in Thread :
     /\ pc[t] = "enlist" =>
           /\ idle[t]
           /\ t \notin idleSet
           /\ \A u \in Thread : pc[u] \in Giving => helper[u] # t
     /\ pc[t] = "exit" => idleSet = Thread \/ exit

Pool == HelperTakenOnce /\ InSet /\ AtWork /\ OnTheWay

(* The barrier at the end.                                                 *)
Barrier ==
  /\ terminating = Cardinality(Present)
  /\ \A t \in Thread : pc[t] \in Arrived \cup {"signal", "barrier"} => exit
  /\ \A t \in Thread : pc[t] \in {"leave", "done"} => terminating = 0

PoolInv == PoolType /\ Startup /\ Pool /\ Barrier
-----------------------------------------------------------------------------
(* The inductive invariant of the lists.                                   *)
NodeField == {"parent", "next", "transition", "omegas", "nextLevel"}

ListType ==
  /\ NoNode \notin DOMAIN store
  /\ \A k \in DOMAIN store : DOMAIN store[k] = NodeField
  /\ DOMAIN root = Thread /\ DOMAIN unlinked = Thread /\ DOMAIN ipay = Thread
  /\ DOMAIN info = Thread
  /\ \A t \in Thread : DOMAIN info[t] = {"given", "ns", "payload"}

(* Until thread 0 has stored the initial marking there is no node, and the *)
(* other threads wait.                                                     *)
Unbegun == pc[0] \in Starting \cup {"register", "insertRoot"}

BeforeRoot ==
  Unbegun => /\ ~exit
             /\ \A t \in Thread \ {0} : pc[t] \in Starting /\ idle[t]
             /\ DOMAIN store = {}
             /\ info[0].ns.Current = InitialMarking

(* A list ends with the node unlinked; nodes on the way to one have no     *)
(* successors.                                                             *)
Linked ==
  ~exit =>
    /\ \A k \in DOMAIN store : store[k].next \in DOMAIN store \cup {NoNode}
    /\ \A t \in Thread :
         /\ root[t] # NoNode => /\ root[t] \in DOMAIN store
                                /\ unlinked[t] \in OnList(t)
                                /\ store[unlinked[t]].next = NoNode
         /\ \A k \in Held(t) : store[k].next = NoNode

(* A thread that has begun has a list, and a giver has given what it is    *)
(* past giving.                                                            *)
Delivered(t) ==
  /\ pc[t] \in Starting \cup {"register", "insertRoot", "begin"} => root[t] = NoNode
  /\ pc[t] \in Searching \cup {"head", "enlist", "check", "asleep", "resume"} =>
       root[t] # NoNode
  /\ Given(t) => info[t].given
  /\ pc[t] \in {"givePayload", "wake"} => info[helper[t]].given
  /\ pc[t] = "wake" => info[helper[t]].payload = ipay[t]

Delivery == ~exit => \A t \in Thread : Delivered(t)

ListInv == ListType /\ BeforeRoot /\ Linked /\ Delivery /\ NodesOnOneList
=============================================================================
