---------------------------- MODULE PluginStore ----------------------------
(***************************************************************************)
(* PluginStore over a VSTLStore (Stores/PluginStore.inc, Stores/Store.inc):*)
(* what the searches call.  It encodes the marking, passes it on to the    *)
(* vector store and counts, in one counter for each thread, the calls and  *)
(* the markings that were new.  The model starts from encoded markings.    *)
(***************************************************************************)
EXTENDS VSTLStore, Integers, FiniteSets, Functions

CONSTANT MaxCalls   \* bound: the calls a search makes

ASSUME CallsAssumption == MaxCalls \in Nat /\ IsFiniteSet(Thread)

VARIABLES
  calls,      \* calls
  markings    \* markings

allVars == <<vars, calls, markings>>

PluginInit ==
  /\ Init
  /\ calls = [t \in Thread |-> 0]
  /\ markings = [t \in Thread |-> 0]

get_number_of_markings == SumFunction(markings)

(* A search calls for marking v.  The parameter noinsert has no name and   *)
(* is not passed on: every call inserts, whatever its caller asks for.     *)
PluginSearchAndInsert(t, v) ==
  /\ SumFunction(calls) < MaxCalls
  /\ SearchAndInsert(t, v, FALSE)
  /\ calls' = [calls EXCEPT ![t] = @ + 1]
  /\ UNCHANGED markings

PluginStep(t) == Step(t) /\ UNCHANGED <<calls, markings>>

PluginReturn(t) ==
  /\ Return(t)
  /\ markings' = IF ret[t] THEN markings ELSE [markings EXCEPT ![t] = @ + 1]
  /\ UNCHANGED calls

PluginNext ==
  \E t \in Thread :
    \/ \E v \in Vector : PluginSearchAndInsert(t, v)
    \/ PluginStep(t)
    \/ PluginReturn(t)

PluginSpec == PluginInit /\ [][PluginNext]_allVars
-----------------------------------------------------------------------------
Quiet == \A t \in Thread : pc[t] = "idle"

(* "The sum of all values is the actual total number of markings found",   *)
(* "The value is exact when the search is finished" (Store.h 63-73): every *)
(* marking is new for exactly one of the threads that found it at the same *)
(* time.                                                                   *)
NumberOfMarkingsExact == Quiet => get_number_of_markings = Cardinality(store)
=============================================================================
