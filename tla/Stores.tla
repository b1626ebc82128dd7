------------------------------- MODULE Stores -------------------------------
(***************************************************************************)
(* One store at a time, as StoreCreator makes one for a search: the STL    *)
(* store called directly, the same store behind the front end that counts, *)
(* or the Bloom filter.                                                    *)
(***************************************************************************)
EXTENDS PluginStore

CONSTANTS
  Kinds,                              \* the stores there are
  BloomVector, Bit,                   \* parameters of the Bloom filter
  hash_functions, HashValues

VARIABLES
  kind,                                      \* which store it is
  filter, mutex, at, in, noins, h, answer    \* the Bloom filter

pluginVars == allVars
bloomVars  == <<filter, mutex, at, in, noins, h, answer>>
storesVars == <<kind, pluginVars, bloomVars>>

Bloom == INSTANCE VBloomStore WITH
  Vector <- BloomVector, pc <- at, noinsert <- noins, ret <- answer

ASSUME BloomParameters == Bloom!BloomAssumption

StoresInit ==
  /\ kind \in Kinds
  /\ PluginInit
  /\ Bloom!Init

StlStep(t) ==
  /\ kind = "stl"
  /\ Call(t) \/ Step(t) \/ Return(t)
  /\ UNCHANGED <<kind, calls, markings, bloomVars>>

CountedNext ==
  /\ kind = "plugin"
  /\ PluginNext
  /\ UNCHANGED <<kind, bloomVars>>

BloomNext ==
  /\ kind = "bloom"
  /\ Bloom!Next
  /\ UNCHANGED <<kind, pluginVars>>

StoresNext == (\E t \in Thread : StlStep(t)) \/ CountedNext \/ BloomNext

StoresSpec == StoresInit /\ [][StoresNext]_storesVars
-----------------------------------------------------------------------------
(* Of the threads that find a new marking at the same time exactly one     *)
(* counts it ("the value is exact when the search is finished", Store.h    *)
(* 63-73).                                                                 *)
MarkingsCounted == kind = "plugin" => NumberOfMarkingsExact

(* When an insertion returns, the vector is in the filter, for good, and a *)
(* vector is reported as known only when all its bits are set              *)
(* (VBloomStore.inc 98-125).                                               *)
AnswerBacked == Bloom!AnswerBacked

(* To the calls that insert, the Bloom filter is a VectorStore             *)
(* (VBloomStore.inc 108).                                                  *)
BloomImplementsVectorStore == Bloom!ImplementsVectorStore
=============================================================================
