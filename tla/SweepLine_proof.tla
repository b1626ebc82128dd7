-------------------------- MODULE SweepLine_proof ---------------------------
(***************************************************************************)
(* Proofs about the sweep-line search, for every net whose transitions     *)
(* keep to a progress measure, any number of fronts and of threads.        *)
(***************************************************************************)
EXTENDS SweepLineInv, FiniteSetTheorems, WellFoundedInduction, TLAPS

(* A family of sets that contains the empty set, and each set that is in   *)
(* it without any one of its elements, contains the finite set S.          *)
LEMMA Subsets ==
  ASSUME NEW S, IsFiniteSet(S), NEW G, {} \in G,
         \A T \in SUBSET S : T # {} /\ (\A x \in T : T \ {x} \in G) => T \in G
  PROVE  S \in G
<1> DEFINE B == {T \in SUBSET S : T \notin G}
<1> SUFFICES ASSUME B # {} PROVE FALSE
  OBVIOUS
<1>1. B \subseteq FiniteSubsetsOf(S)
  BY FS_Subset DEF FiniteSubsetsOf
<1>2. PICK T \in B : \A U \in B : <<U, T>> \notin StrictSubsetOrdering(S)
  <2> HIDE DEF B
  <2> QED BY <1>1, FS_StrictSubsetOrderingWellFounded, WFMin, Zenon
<1>3. ASSUME NEW x \in T PROVE T \ {x} \in G
  <2>1. <<T \ {x}, T>> \in StrictSubsetOrdering(S)
    BY DEF StrictSubsetOrdering
  <2> QED BY <1>2, <2>1
<1>4. T # {}
  OBVIOUS
<1> QED BY <1>3, <1>4

(* A finite set of integers with an element has a greatest and a least one.*)
LEMMA Extremes ==
  ASSUME NEW S, IsFiniteSet(S), S \subseteq Int, S # {}
  PROVE  /\ Max(S) \in S /\ \A x \in S : Max(S) >= x
         /\ Min(S) \in S /\ \A x \in S : Min(S) <= x
<1> DEFINE G == {T \in SUBSET S : T # {} =>
                   /\ \E y \in T : \A x \in T : y >= x
                   /\ \E y \in T : \A x \in T : y <= x}
<1>1. {} \in G
  OBVIOUS
<1>2. ASSUME NEW T \in SUBSET S, T # {}, \A x \in T : T \ {x} \in G PROVE T \in G
  <2>1. PICK z \in T : TRUE
    BY <1>2
  <2>2. CASE T \ {z} = {}
    BY <2>1, <2>2
  <2>3. CASE T \ {z} # {}
    <3>1. /\ \E y \in T \ {z} : \A x \in T \ {z} : y >= x
          /\ \E y \in T \ {z} : \A x \in T \ {z} : y <= x
      BY <1>2, <2>1, <2>3
    <3>2. PICK a \in T \ {z} : \A x \in T \ {z} : a >= x
      BY <3>1
    <3>3. PICK b \in T \ {z} : \A x \in T \ {z} : b <= x
      BY <3>1
    <3>4. \E y \in T : \A x \in T : y >= x
      <4>1. CASE a >= z
        BY <3>2, <4>1
      <4>2. CASE z >= a
        BY <2>1, <3>2, <4>2
      <4> QED BY <2>1, <3>2, <4>1, <4>2
    <3>5. \E y \in T : \A x \in T : y <= x
      <4>1. CASE b <= z
        BY <3>3, <4>1
      <4>2. CASE z <= b
        BY <2>1, <3>3, <4>2
      <4> QED BY <2>1, <3>3, <4>1, <4>2
    <3> QED BY <3>4, <3>5
  <2> QED BY <2>2, <2>3
<1>3. S \in G
  <2> HIDE DEF G
  <2> QED BY <1>1, <1>2, Subsets
<1>4. /\ \E y \in S : \A x \in S : y >= x
      /\ \E y \in S : \A x \in S : y <= x
  BY <1>3
<1> QED BY <1>4 DEF Max, Min

(* The window reaches from the largest loss to the largest gain.           *)
LEMMA Bounds ==
  /\ FrontOffset \in Nat /\ BackOffset \in Nat
  /\ Size \in Nat \ {0} /\ Size = FrontOffset + BackOffset + 1
  /\ Delay \in 0 .. BackOffset
  /\ \A t \in Transition : ProgressMeasure[t] \in Offsets
  /\ 0 \in Offsets
<1> DEFINE P == {ProgressMeasure[t] : t \in Transition}
           S == P \cup {0}
<1>1. IsFiniteSet(S) /\ S \subseteq Int /\ S # {} /\ 0 \in S
  <2>1. IsFiniteSet(Transition) /\ P \subseteq Int
    BY SweepAssumption
  <2>2. IsFiniteSet(P)
    <3>1. ProgressMeasure \in Surjection(Transition, P)
      BY SweepAssumption DEF Surjection
    <3> HIDE DEF P
    <3> QED BY <2>1, <3>1, FS_Surjection
  <2> HIDE DEF P
  <2>3. IsFiniteSet(P \cup {0})
    BY <2>2, FS_AddElement
  <2> QED BY <2>1, <2>3
<1> HIDE DEF S
<1>2. /\ Max(S) \in Int /\ \A x \in S : Max(S) >= x
      /\ Min(S) \in Int /\ \A x \in S : Min(S) <= x
  BY <1>1, Extremes
<1>3. FrontOffset = Max(S) /\ BackOffset = -Min(S)
  BY DEF FrontOffset, BackOffset, S
<1>4. \A t \in Transition : ProgressMeasure[t] \in S /\ ProgressMeasure[t] \in Int
  BY <1>1 DEF S
<1> QED
  BY <1>1, <1>2, <1>3, <1>4, SweepAssumption DEF Size, Offsets

(* The remainder of a number below three times the divisor.                *)
LEMMA ModCases ==
  ASSUME NEW n \in Nat \ {0}, NEW a \in 0 .. 3 * n - 1
  PROVE  (a % n) = IF a < n THEN a ELSE IF a < 2 * n THEN a - n ELSE a - 2 * n
  OBVIOUS

Cut(n, a) == IF a < n THEN a ELSE IF a < 2 * n THEN a - n ELSE a - 2 * n

RingArithmetic(n, F, B, a) ==
  /\ \A d \in -B .. F : Cut(n, a + n + d) \in 0 .. n - 1
  /\ Cut(n, a + n) = a
  /\ \A d, e \in -B .. F : Cut(n, a + n + d) = Cut(n, a + n + e) => d = e
  /\ \A s \in 0 .. n - 1 : \/ s - a \in -B .. F /\ Cut(n, a + n + (s - a)) = s
                           \/ s - a - n \in -B .. F /\ Cut(n, a + n + (s - a - n)) = s
                           \/ s - a + n \in -B .. F /\ Cut(n, a + n + (s - a + n)) = s
  /\ Cut(n, a + 1) \in 0 .. n - 1
  /\ \A d \in -B .. F - 1 : Cut(n, Cut(n, a + 1) + n + d) = Cut(n, a + n + (d + 1))
  /\ Cut(n, Cut(n, a + 1) + n + F) = Cut(n, a + n - B)
  /\ \A i \in 0 .. F : Cut(n, a + i) = Cut(n, a + n + i)
  /\ Cut(n, a + (F + 1)) = Cut(n, a + n - B)
  /\ \A i \in 1 .. B : Cut(n, a + (n - i)) = Cut(n, a + n - i)

LEMMA CutFacts ==
  ASSUME NEW F \in Nat, NEW B \in Nat, NEW n \in Nat, n = F + B + 1, NEW a \in 0 .. n - 1
  PROVE  RingArithmetic(n, F, B, a)
  BY DEF Cut, RingArithmetic

(* The slots of a ring whose front is in slot a.                           *)
SlotFrom(a, d) == (a + Size + d) % Size

LEMMA RingSlots ==
  ASSUME NEW a \in 0 .. Size - 1
  PROVE  /\ \A d \in Offsets : SlotFrom(a, d) \in 0 .. Size - 1
         /\ SlotFrom(a, 0) = a
         /\ \A d, e \in Offsets : SlotFrom(a, d) = SlotFrom(a, e) => d = e
         /\ \A s \in 0 .. Size - 1 : \E d \in Offsets : SlotFrom(a, d) = s
         /\ After(a, 1) \in 0 .. Size - 1
         /\ \A d \in Offsets : d # FrontOffset =>
              d + 1 \in Offsets /\ SlotFrom(After(a, 1), d) = SlotFrom(a, d + 1)
         /\ SlotFrom(After(a, 1), FrontOffset) = SlotFrom(a, -BackOffset)
         /\ \A n \in 0 .. FrontOffset : After(a, n) = SlotFrom(a, n)
         /\ After(a, FrontOffset + 1) = SlotFrom(a, -BackOffset)
         /\ Delay > 0 => After(a, Size - Delay) = SlotFrom(a, -Delay)
<1> DEFINE F == FrontOffset
           B == BackOffset
           n == Size
<1>0. /\ F \in Nat /\ B \in Nat /\ n \in Nat \ {0} /\ n = F + B + 1 /\ a \in 0 .. n - 1
      /\ Offsets = -B .. F /\ Delay \in 0 .. B
  BY Bounds DEF Offsets
<1>1. \A x \in 0 .. 3 * n - 1 : (x % n) = Cut(n, x)
  BY <1>0, ModCases DEF Cut
<1> HIDE DEF F, B, n
<1>c. RingArithmetic(n, F, B, a)
  BY <1>0, CutFacts
<1>2. \A b \in 0 .. n - 1 : \A i \in 0 .. n : ((b + i) % n) = Cut(n, b + i)
  BY <1>0, <1>1
<1>3. \A b \in 0 .. n - 1 : \A d \in -B .. F : ((b + n + d) % n) = Cut(n, b + n + d)
  BY <1>0, <1>1
<1>4. \A i \in 0 .. n : After(a, i) = Cut(n, a + i)
  BY <1>0, <1>2 DEF After, n
<1>5. \A b \in 0 .. n - 1 : \A d \in -B .. F : SlotFrom(b, d) = Cut(n, b + n + d)
  BY <1>3 DEF SlotFrom, n
<1>6. After(a, 1) = Cut(n, a + 1) /\ After(a, 1) \in 0 .. n - 1
  BY <1>0, <1>4, <1>c DEF RingArithmetic
<1>7. \A d \in -B .. F : SlotFrom(After(a, 1), d) = Cut(n, Cut(n, a + 1) + n + d)
  BY <1>5, <1>6
<1>8. \A d \in -B .. F : d # F =>
        d + 1 \in -B .. F /\ SlotFrom(After(a, 1), d) = SlotFrom(a, d + 1)
  <2> TAKE d \in -B .. F
  <2> HAVE d # F
  <2>1. d \in -B .. F - 1 /\ d + 1 \in -B .. F
    BY <1>0
  <2> QED BY <1>0, <1>5, <1>7, <2>1, <1>c DEF RingArithmetic
<1>9. SlotFrom(After(a, 1), F) = SlotFrom(a, -B)
  <2>1. F \in -B .. F /\ -B \in -B .. F /\ a + n + (-B) = a + n - B
    BY <1>0
  <2> QED BY <1>0, <1>5, <1>7, <2>1, <1>c DEF RingArithmetic
<1>10. \A i \in 0 .. F : After(a, i) = SlotFrom(a, i)
  <2> TAKE i \in 0 .. F
  <2>1. i \in 0 .. n /\ i \in -B .. F
    BY <1>0
  <2>2. After(a, i) = Cut(n, a + i) /\ SlotFrom(a, i) = Cut(n, a + n + i)
    BY <1>0, <1>4, <1>5, <2>1
  <2> QED BY <2>2, <1>c DEF RingArithmetic
<1>11. After(a, F + 1) = SlotFrom(a, -B)
  <2>1. F + 1 \in 0 .. n /\ -B \in -B .. F /\ a + n + (-B) = a + n - B
    BY <1>0
  <2> QED BY <1>0, <1>4, <1>5, <2>1, <1>c DEF RingArithmetic
<1>12. Delay > 0 => After(a, n - Delay) = SlotFrom(a, -Delay)
  <2> HAVE Delay > 0
  <2>1. n - Delay \in 0 .. n /\ -Delay \in -B .. F /\ a + n + (-Delay) = a + n - Delay
        /\ Delay \in 1 .. B
    BY <1>0
  <2> QED BY <1>0, <1>4, <1>5, <2>1, <1>c DEF RingArithmetic
<1>13. \A d \in -B .. F : SlotFrom(a, d) \in 0 .. n - 1
  <2> TAKE d \in -B .. F
  <2>1. SlotFrom(a, d) = Cut(n, a + n + d)
    BY <1>0, <1>5
  <2> QED BY <2>1, <1>c DEF RingArithmetic
<1>14. SlotFrom(a, 0) = a
  <2>1. 0 \in -B .. F /\ a + n + 0 = a + n
    BY <1>0
  <2> QED BY <1>0, <1>5, <2>1, <1>c DEF RingArithmetic
<1>15. \A d, e \in -B .. F : SlotFrom(a, d) = SlotFrom(a, e) => d = e
  <2> TAKE d, e \in -B .. F
  <2>1. SlotFrom(a, d) = Cut(n, a + n + d) /\ SlotFrom(a, e) = Cut(n, a + n + e)
    BY <1>0, <1>5
  <2> QED BY <2>1, <1>c DEF RingArithmetic
<1>16. \A s \in 0 .. n - 1 : \E d \in -B .. F : SlotFrom(a, d) = s
  <2> TAKE s \in 0 .. n - 1
  <2>1. \E d \in -B .. F : Cut(n, a + n + d) = s
    BY <1>0, <1>c DEF RingArithmetic
  <2> QED BY <1>0, <1>5, <2>1
<1> QED
  BY <1>0, <1>6, <1>8, <1>9, <1>10, <1>11, <1>12, <1>13, <1>14, <1>15, <1>16
  DEF F, B, n
-----------------------------------------------------------------------------
(* The threads: those of the fronts come first.                            *)
LEMMA Threads ==
  ASSUME setup \in Setups
  PROVE  /\ NumFronts \in Nat \ {0} /\ NumThreads \in Nat /\ NumThreads >= NumFronts
         /\ Initial \in Marking
         /\ 0 \in Front /\ 0 \in Thread /\ Front \subseteq Thread /\ Helper \subseteq Thread
         /\ Front \subseteq Nat /\ Thread \subseteq Nat
         /\ \A t \in Thread : t \in Helper <=> t \notin Front
         /\ Helped <=> Helper # {}
         /\ IsFiniteSet(Thread) /\ IsFiniteSet(Front) /\ IsFiniteSet(Helper)
<1>1. /\ NumFronts \in Nat \ {0} /\ NumThreads \in Nat /\ NumThreads >= NumFronts
      /\ Initial \in Marking
  BY SweepAssumption DEF NumFronts, NumThreads, Initial
<1>2. IsFiniteSet(Thread) /\ IsFiniteSet(Front)
  BY <1>1, FS_Interval DEF Thread, Front
<1>3. IsFiniteSet(Helper)
  BY <1>2, FS_Subset DEF Helper
<1>4. Helped <=> Helper # {}
  <2>1. NumThreads > NumFronts => NumFronts \in Helper
    BY <1>1 DEF Helper, Thread, Front
  <2>2. ~(NumThreads > NumFronts) => Helper = {}
    BY <1>1 DEF Helper, Thread, Front
  <2> QED BY <2>1, <2>2 DEF Helped
<1> QED BY <1>1, <1>2, <1>3, <1>4 DEF Thread, Front, Helper

(* The fronts form a ring.                                                 *)
LEMMA FrontsRing ==
  ASSUME setup \in Setups
  PROVE  /\ \A f \in Front : NextFront(f) \in Front /\ Pred(f) \in Front
         /\ \A f \in Front : Pred(NextFront(f)) = f /\ NextFront(Pred(f)) = f
         /\ \A f \in Front : FrontOf(f) = f
         /\ \A f \in Front : Pred(f) = IF f = 0 THEN NumFronts - 1 ELSE f - 1
         /\ \A t \in Thread : FrontOf(t) \in Front
         /\ NumFronts > 1 => \A f \in Front : NextFront(f) # f /\ Pred(f) # f
         /\ NumFronts = 1 => Front = {0}
<1>1. NumFronts \in Nat \ {0} /\ Thread \subseteq Nat
  BY Threads
<1>2. \A x \in 0 .. 3 * NumFronts - 1 :
        (x % NumFronts) = IF x < NumFronts THEN x
                          ELSE IF x < 2 * NumFronts THEN x - NumFronts
                          ELSE x - 2 * NumFronts
  BY <1>1, ModCases
<1>3. \A f \in Front : /\ NextFront(f) = IF f + 1 = NumFronts THEN 0 ELSE f + 1
                       /\ Pred(f) = IF f = 0 THEN NumFronts - 1 ELSE f - 1
                       /\ FrontOf(f) = f
  BY <1>1, <1>2 DEF NextFront, Pred, FrontOf, Front
<1>4. \A t \in Thread : FrontOf(t) \in Front
  BY <1>1 DEF FrontOf, Front
<1> QED BY <1>1, <1>3, <1>4 DEF Front
-----------------------------------------------------------------------------
(* What a signal does to the labels.                                       *)
LEMMA SignalledLabels ==
  ASSUME NEW label \in [Thread -> FrontLabel \cup HelperLabel], NEW h
  PROVE  \E l : /\ Signalled(h, label) = [label EXCEPT ![h] = l]
                /\ \/ l = label[h]
                   \/ label[h] = "initAsleep" /\ l = "initCheck"
                   \/ label[h] = "asleep" /\ l = "awake"
<1> DEFINE new == CASE label[h] = "initAsleep" -> "initCheck"
                    [] label[h] = "asleep" -> "awake"
                    [] OTHER -> label[h]
<1>1. Signalled(h, label) = [label EXCEPT ![h] = new]
  BY DEF Signalled
<1>2. \/ new = label[h]
      \/ label[h] = "initAsleep" /\ new = "initCheck"
      \/ label[h] = "asleep" /\ new = "awake"
  <2>1. CASE label[h] = "initAsleep"
    <3>1. label[h] # "asleep"
      BY <2>1
    <3> QED
      BY <2>1, <3>1, Zenon
  <2>2. CASE label[h] = "asleep"
    <3>1. label[h] # "initAsleep"
      BY <2>2
    <3> QED
      BY <2>2, <3>1, Zenon
  <2>3. CASE label[h] # "initAsleep" /\ label[h] # "asleep"
    BY <2>3, Zenon
  <2> QED
    BY <2>1, <2>2, <2>3
<1> HIDE DEF new
<1> QED
  BY <1>1, <1>2

(* A sleeper that was awakened.                                            *)
Roused(old, new) == \/ old = "initAsleep" /\ new = "initCheck"
                    \/ old = "asleep" /\ new = "awake"

Signals(t, l, h) == \/ pc' = [pc EXCEPT ![t] = l]
                    \/ pc' = Signalled(h, [pc EXCEPT ![t] = l])

LEMMA SignalledStep ==
  ASSUME ControlType, NEW t \in Thread,
         NEW l \in (FrontLabel \cup HelperLabel) \ {"initAsleep", "asleep"},
         NEW h \in Thread, Signals(t, l, h)
  PROVE  /\ pc' \in [Thread -> FrontLabel \cup HelperLabel]
         /\ pc'[t] = l
         /\ \A u \in Thread \ {t} : pc'[u] = pc[u] \/ (u = h /\ Roused(pc[u], pc'[u]))
<1> DEFINE label == [pc EXCEPT ![t] = l]
<1>0. pc \in [Thread -> FrontLabel \cup HelperLabel]
  BY DEF ControlType
<1>1. label \in [Thread -> FrontLabel \cup HelperLabel] /\ label[t] = l
      /\ \A u \in Thread \ {t} : label[u] = pc[u]
  BY <1>0
<1> HIDE DEF label
<1>2. CASE pc' = label
  BY <1>1, <1>2
<1>3. CASE pc' = Signalled(h, label)
  <2>0. \E k : /\ Signalled(h, label) = [label EXCEPT ![h] = k]
               /\ k = label[h] \/ Roused(label[h], k)
    BY <1>1, SignalledLabels, Zenon DEF Roused
  <2>1. PICK k : /\ pc' = [label EXCEPT ![h] = k]
                 /\ k = label[h] \/ Roused(label[h], k)
    BY <1>3, <2>0
  <2>2. k \in FrontLabel \cup HelperLabel
    BY <1>1, <2>1 DEF Roused, FrontLabel, HelperLabel, Waiting
  <2>3. h = t => k = l
    BY <1>1, <2>1 DEF Roused
  <2> QED
    BY <1>1, <2>1, <2>2, <2>3
<1> QED
  BY <1>2, <1>3 DEF Signals, label

-----------------------------------------------------------------------------
(* What a step of thread t leaves to the other threads.                    *)
Others(t) ==
  \A u \in Thread \ {t} :
     /\ pc'[u] = pc[u] \/ Roused(pc[u], pc'[u])
     /\ frontptr'[u] = frontptr[u]
     /\ ns'[u] = ns[u] /\ entry'[u] = entry[u] /\ tried'[u] = tried[u]
     /\ (found'[u] <=> found[u])

(* The threads and fronts stay the same.                                   *)
LEMMA SameThreads ==
  ASSUME setup \in Setups, setup' = setup
  PROVE  /\ Thread' = Thread /\ Front' = Front /\ Helper' = Helper
         /\ NumFronts' = NumFronts /\ (Helped' <=> Helped) /\ Initial' = Initial
  BY DEF Thread, Front, Helper, NumFronts, NumThreads, Helped, Initial

(* What a step has to keep to.                                             *)
LEMMA ControlKept ==
  ASSUME ControlType, setup' = setup, NEW t \in Thread,
         pc' \in [Thread -> FrontLabel \cup HelperLabel],
         \A u \in Thread \ {t} : pc'[u] = pc[u] \/ Roused(pc[u], pc'[u]),
         t \in Front => pc'[t] \in FrontLabel, t \in Helper => pc'[t] \in HelperLabel,
         exit' \in BOOLEAN, running' \in Int, terminating' \in Int,
         helpers' \in [Front -> Int],
         idle' \in [Thread -> BOOLEAN], call' \in [Thread -> BOOLEAN],
         glance' \in [Thread -> BOOLEAN], found' \in [Thread -> BOOLEAN],
         frontptr' \in [Thread -> Front], \A f \in Front : frontptr'[f] = frontptr[f],
         todo' \in [Thread -> SUBSET Thread],
         \A u \in Thread \ {t} : todo'[u] = todo[u],
         t \in Front /\ pc'[t] \in {"draw", "drawWake", "tell", "dismiss"} =>
           todo'[t] \subseteq Helper,
         t \in Front /\ pc'[t] = "drawWake" => todo'[t] # {},
         t \in Front /\ pc'[t] = "startFronts" => t = 0 /\ todo'[0] \subseteq Front \ {0}
  PROVE  ControlType'
<1>0. /\ Thread' = Thread /\ Front' = Front /\ Helper' = Helper /\ setup' \in Setups
      /\ 0 \in Front /\ Front \subseteq Thread /\ Helper \subseteq Thread
      /\ \A u \in Thread : u \in Helper <=> u \notin Front
  BY SameThreads, Threads DEF ControlType
<1>1. /\ "initCheck" \in FrontLabel /\ "initCheck" \in HelperLabel
      /\ "awake" \in HelperLabel /\ "asleep" \notin FrontLabel
  BY DEF FrontLabel, HelperLabel, Waiting, Between, Live, Sweeping, Checking, Ended
<1>2. ASSUME NEW f \in Front PROVE pc'[f] \in FrontLabel /\ frontptr'[f] = f
  BY <1>0, <1>1 DEF ControlType, Roused
<1>3. ASSUME NEW u \in Helper PROVE pc'[u] \in HelperLabel
  BY <1>0, <1>1 DEF ControlType, Roused
<1>4. ASSUME NEW f \in Front, pc'[f] \in {"draw", "drawWake", "tell", "dismiss"}
      PROVE  todo'[f] \subseteq Helper
  BY <1>0, <1>4 DEF ControlType, Roused
<1>5. ASSUME NEW f \in Front, pc'[f] = "drawWake" PROVE todo'[f] # {}
  BY <1>0, <1>5 DEF ControlType, Roused
<1>6. ASSUME NEW f \in Front, pc'[f] = "startFronts"
      PROVE  f = 0 /\ todo'[0] \subseteq Front \ {0}
  BY <1>0, <1>6 DEF ControlType, Roused
<1> QED
  BY <1>0, <1>2, <1>3, <1>4, <1>5, <1>6 DEF ControlType
-----------------------------------------------------------------------------
(* A thread in checkStates.                                                *)
LEMMA CheckFacts ==
  ASSUME TypeOK, NEW t \in Thread, CheckStates(t)
  PROVE  /\ pc[t] \in Checking
         /\ pc'[t] \in Checking \cup {Checked(t)}
         /\ pc' = [pc EXCEPT ![t] = pc'[t]]
         /\ UNCHANGED <<first, active, link, frontVars, idleVars, running,
                        terminating, verdict>>
         /\ exit' \in BOOLEAN /\ (exit => exit') /\ (exit' # exit => pc[t] = "solved")
         /\ found' \in [Thread -> BOOLEAN]
         /\ \A u \in Thread \ {t} : /\ ns'[u] = ns[u] /\ entry'[u] = entry[u]
                                     /\ tried'[u] = tried[u] /\ (found'[u] <=> found[u])
<1>0. /\ pc \in [Thread -> FrontLabel \cup HelperLabel] /\ exit \in BOOLEAN
      /\ found \in [Thread -> BOOLEAN]
      /\ ns \in [Thread -> Marking] /\ entry \in [Thread -> Nat]
      /\ tried \in [Thread -> SUBSET Buckets]
  BY DEF TypeOK, ControlType, DataType
<1> USE DEF Goto, listVars, ringVars, frontVars, idleVars, workVars, endVars, Checking
<1>1. CASE Loop(t)
  BY <1>0, <1>1 DEF Loop
<1>2. CASE Pop(t)
  BY <1>0, <1>2 DEF Pop, TryNext
<1>3. CASE PopNew(t)
  BY <1>0, <1>3 DEF PopNew, TryNext
<1>4. CASE Keep(t)
  BY <1>0, <1>4 DEF Keep, Expand
<1>5. CASE KeepOld(t)
  BY <1>0, <1>5 DEF KeepOld, Expand
<1>6. CASE LookOld(t)
  BY <1>0, <1>6 DEF LookOld, Look, NextEntry
<1>7. CASE LookNew(t)
  BY <1>0, <1>7 DEF LookNew, Look, NextEntry
<1>8. CASE LookSame(t)
  BY <1>0, <1>8 DEF LookSame, Look, NextEntry
<1>9. CASE LookStore(t)
  BY <1>0, <1>9 DEF LookStore, Look, NextEntry
<1>10. CASE Insert(t)
  BY <1>0, <1>10 DEF Insert, NextEntry
<1>11. CASE InsertNew(t)
  BY <1>0, <1>11 DEF InsertNew, NextEntry
<1>12. CASE Solved(t)
  BY <1>0, <1>12 DEF Solved
<1> QED
  BY <1>1, <1>2, <1>3, <1>4, <1>5, <1>6, <1>7, <1>8, <1>9, <1>10, <1>11, <1>12
  DEF CheckStates

(* The steps of a front that touch neither idle threads nor helpers.       *)
Plain(f) ==
  \/ Again(f) \/ MayBegin(f) \/ Link(f) \/ Run(f) \/ Drained(f) \/ Quit(f) \/ Extend(f)
  \/ MayAdvance(f) \/ Finish(f) \/ Advance(f) \/ Post(f) \/ Deinit(f) \/ HandOver(f)

LEMMA PlainFacts ==
  ASSUME TypeOK, NEW f \in Front, f \in Thread, Plain(f)
  PROVE  /\ pc' = [pc EXCEPT ![f] = pc'[f]]
         /\ pc'[f] \in Between \cup {"end", "deinit", "run", "busy", "loop", "quit", "extend",
                                   "mayAdvance", "advance", "post", "handOver"}
         /\ UNCHANGED <<idleVars, workVars, running, terminating, verdict>>
         /\ exit' \in BOOLEAN /\ (exit => exit') /\ (exit' # exit => pc[f] = "deinit")
<1>0. pc \in [Thread -> FrontLabel \cup HelperLabel] /\ exit \in BOOLEAN
      /\ fresh \in [Front -> BOOLEAN]
  BY DEF TypeOK, ControlType, DataType
<1> USE DEF Goto, listVars, ringVars, frontVars, idleVars, workVars, endVars, Between
<1>1. CASE Again(f)
  BY <1>0, <1>1 DEF Again
<1>2. CASE MayBegin(f)
  BY <1>0, <1>2 DEF MayBegin, MayGoOn
<1>3. CASE Link(f)
  BY <1>0, <1>3 DEF Link, LinkFor
<1>4. CASE Run(f)
  BY <1>0, <1>4 DEF Run
<1>5. CASE Drained(f)
  BY <1>0, <1>5 DEF Drained
<1>6. CASE Quit(f)
  BY <1>0, <1>6 DEF Quit
<1>7. CASE Extend(f)
  BY <1>0, <1>7 DEF Extend
<1>8. CASE MayAdvance(f)
  BY <1>0, <1>8 DEF MayAdvance, MayGoOn
<1>9. CASE Finish(f)
  BY <1>0, <1>9 DEF Finish
<1>10. CASE Advance(f)
  BY <1>0, <1>10 DEF Advance, AdvanceKeeping
<1>11. CASE Post(f)
  BY <1>0, <1>11 DEF Post
<1>12. CASE Deinit(f)
  BY <1>0, <1>12 DEF Deinit
<1>13. CASE HandOver(f)
  BY <1>0, <1>13 DEF HandOver
<1> QED
  BY <1>1, <1>2, <1>3, <1>4, <1>5, <1>6, <1>7, <1>8, <1>9, <1>10, <1>11, <1>12, <1>13
  DEF Plain

(* The other steps of a thread that wake nobody.                           *)
Alone(t) ==
  \/ Initialise(t) \/ InitCheck(t) \/ Terminate(t) \/ Return(t)
  \/ t \in Front /\ (Begin(t) \/ Busy(t) \/ Draw(t) \/ Drain(t) \/ End(t))
  \/ t \in Helper /\ (\/ Outer(t) \/ Inner(t) \/ Glance(t) \/ JoinFront(t) \/ Work(t)
                      \/ Release(t) \/ Back(t) \/ Read(t) \/ Nap(t) \/ Awake(t))

LEMMA AloneFacts ==
  ASSUME TypeOK, NEW t \in Thread, Alone(t)
  PROVE  /\ pc' = [pc EXCEPT ![t] = pc'[t]]
         /\ t \in Front => pc'[t] \in FrontLabel
         /\ t \in Helper => pc'[t] \in HelperLabel
         /\ UNCHANGED <<listVars, ringVars, frontrunner, back, countdown, workVars, exit,
                        verdict>>
         /\ running' \in Int /\ terminating' \in Int
         /\ helpers' \in [Front -> Int]
         /\ idle' \in [Thread -> BOOLEAN] /\ call' \in [Thread -> BOOLEAN]
         /\ glance' \in [Thread -> BOOLEAN]
         /\ \A u \in Thread \ {t} : (idle'[u] <=> idle[u])
         /\ frontptr' \in [Thread -> Front]
         /\ \A u \in Thread : frontptr'[u] = frontptr[u] \/ (u = t /\ t \in Helper)
         /\ todo' \in [Thread -> SUBSET Thread]
         /\ \A u \in Thread \ {t} : todo'[u] = todo[u]
         /\ t \in Front /\ pc'[t] \in {"draw", "drawWake", "tell", "dismiss"} =>
              todo'[t] \subseteq Helper
         /\ t \in Front /\ pc'[t] = "drawWake" => todo'[t] # {}
         /\ t \in Front /\ pc'[t] = "startFronts" => t = 0 /\ todo'[0] \subseteq Front \ {0}
<1>0. /\ setup \in Setups
      /\ pc \in [Thread -> FrontLabel \cup HelperLabel] /\ exit \in BOOLEAN
      /\ running \in Int /\ terminating \in Int /\ helpers \in [Front -> Int]
      /\ idle \in [Thread -> BOOLEAN] /\ call \in [Thread -> BOOLEAN]
      /\ glance \in [Thread -> BOOLEAN]
      /\ frontptr \in [Thread -> Front] /\ todo \in [Thread -> SUBSET Thread]
      /\ \A f \in Front : pc[f] \in {"draw", "drawWake", "tell", "dismiss"} =>
                            todo[f] \subseteq Helper
  BY DEF TypeOK, ControlType, DataType
<1>n. /\ \A u \in Thread : u \in Helper <=> u \notin Front
      /\ Front \subseteq Thread /\ Helper \subseteq Thread /\ 0 \in Front
      /\ \A f \in Front : NextFront(f) \in Front
      /\ \A u \in Thread : FrontOf(u) \in Front
      /\ \A f \in Front : HelpersOf(f) \subseteq Helper
  BY <1>0, Threads, FrontsRing DEF HelpersOf
<1>l. /\ {"initCheck", "initAsleep", "startFirst", "startFronts", "begin", "again", "draw",
          "drawWake", "tell", "drained", "dismiss", "barrier", "done"} \subseteq FrontLabel
      /\ {"initCheck", "initAsleep", "startFirst", "outer", "terminate", "barrier", "done",
          "inner", "back", "glance", "read", "join", "work", "release", "loop", "nap",
          "asleep"} \subseteq HelperLabel
  BY DEF FrontLabel, HelperLabel, Waiting, Between, Live, Sweeping, Checking, Ended
<1> USE DEF Goto, listVars, ringVars, frontVars, idleVars, workVars, endVars
<1>1. CASE Initialise(t)
  BY <1>0, <1>n, <1>l, <1>1 DEF Initialise
<1>2. CASE InitCheck(t)
  BY <1>0, <1>n, <1>l, <1>2 DEF InitCheck
<1>3. CASE Terminate(t)
  BY <1>0, <1>n, <1>l, <1>3 DEF Terminate
<1>4. CASE Return(t)
  BY <1>0, <1>n, <1>l, <1>4 DEF Return
<1>5. CASE t \in Front /\ Begin(t)
  BY <1>0, <1>n, <1>l, <1>5 DEF Begin
<1>6. CASE t \in Front /\ Busy(t)
  BY <1>0, <1>n, <1>l, <1>6 DEF Busy
<1>7. CASE t \in Front /\ Draw(t)
  <2>1. /\ \E h, b : call' = [call EXCEPT ![h] = b] /\ b \in BOOLEAN
        /\ UNCHANGED <<listVars, ringVars, frontVars, helpers, idle, frontptr, glance,
                        workVars, endVars>>
    BY <1>7 DEF Draw
  <2>2. call' \in [Thread -> BOOLEAN]
    BY <1>0, <2>1
  <2>3. CASE todo[t] # {}
    <3>1. pc' = [pc EXCEPT ![t] = "drawWake"] /\ todo' = todo
      BY <1>7, <2>3 DEF Draw
    <3>2. pc'[t] = "drawWake" /\ pc[t] = "draw"
      BY <1>0, <1>7, <3>1 DEF Draw
    <3> QED BY <1>0, <1>n, <1>l, <1>7, <2>1, <2>2, <2>3, <3>1, <3>2
  <2>4. CASE todo[t] = {}
    <3>1. pc' = [pc EXCEPT ![t] = "tell"] /\ todo' = [todo EXCEPT ![t] = Helper]
      BY <1>7, <2>4 DEF Draw
    <3>2. pc'[t] = "tell"
      BY <1>0, <3>1
    <3> QED BY <1>0, <1>n, <1>l, <1>7, <2>1, <2>2, <3>1, <3>2
  <2> QED BY <2>3, <2>4
<1>8. CASE t \in Front /\ Drain(t)
  BY <1>0, <1>n, <1>l, <1>8 DEF Drain
<1>9. CASE t \in Front /\ End(t)
  BY <1>0, <1>n, <1>l, <1>9 DEF End
<1>10. CASE t \in Helper /\ Outer(t)
  BY <1>0, <1>n, <1>l, <1>10 DEF Outer
<1>11. CASE t \in Helper /\ Inner(t)
  BY <1>0, <1>n, <1>l, <1>11 DEF Inner
<1>12. CASE t \in Helper /\ Glance(t)
  <2>1. \/ MoveOn(t) /\ UNCHANGED helpers
        \/ pc' = [pc EXCEPT ![t] = "join"] /\ UNCHANGED frontptr
           /\ helpers' \in [Front -> Int]
    BY <1>0, <1>12 DEF Glance
  <2>2. UNCHANGED <<listVars, ringVars, frontVars, idle, call, glance, todo, workVars,
                    endVars>>
    BY <1>12 DEF Glance
  <2>3. CASE MoveOn(t) /\ UNCHANGED helpers
    <3>1. NextFront(frontptr[t]) \in Front
      BY <1>0, <1>n
    <3>2. \E l \in {"read", "inner"} : pc' = [pc EXCEPT ![t] = l]
      BY <2>3 DEF MoveOn
    <3>3. frontptr' = [frontptr EXCEPT ![t] = NextFront(frontptr[t])]
      BY <2>3 DEF MoveOn
    <3> QED BY <1>0, <1>n, <1>l, <1>12, <2>2, <2>3, <3>1, <3>2, <3>3
  <2>4. CASE ~(MoveOn(t) /\ UNCHANGED helpers)
    BY <1>0, <1>n, <1>l, <1>12, <2>1, <2>2, <2>4
  <2> QED BY <2>3, <2>4
<1>13. CASE t \in Helper /\ JoinFront(t)
  <2>1. \/ MoveOn(t) /\ UNCHANGED helpers
        \/ pc' = [pc EXCEPT ![t] = "work"] /\ UNCHANGED frontptr
           /\ helpers' \in [Front -> Int]
    BY <1>0, <1>13 DEF JoinFront
  <2>2. UNCHANGED <<listVars, ringVars, frontVars, idle, call, glance, todo, workVars,
                    endVars>>
    BY <1>13 DEF JoinFront
  <2>3. CASE MoveOn(t) /\ UNCHANGED helpers
    <3>1. NextFront(frontptr[t]) \in Front
      BY <1>0, <1>n
    <3>2. \E l \in {"read", "inner"} : pc' = [pc EXCEPT ![t] = l]
      BY <2>3 DEF MoveOn
    <3>3. frontptr' = [frontptr EXCEPT ![t] = NextFront(frontptr[t])]
      BY <2>3 DEF MoveOn
    <3> QED BY <1>0, <1>n, <1>l, <1>13, <2>2, <2>3, <3>1, <3>2, <3>3
  <2>4. CASE ~(MoveOn(t) /\ UNCHANGED helpers)
    BY <1>0, <1>n, <1>l, <1>13, <2>1, <2>2, <2>4
  <2> QED BY <2>3, <2>4
<1>14. CASE t \in Helper /\ Work(t)
  BY <1>0, <1>n, <1>l, <1>14 DEF Work
<1>15. CASE t \in Helper /\ Release(t)
  BY <1>0, <1>n, <1>l, <1>15 DEF Release
<1>16. CASE t \in Helper /\ Back(t)
  BY <1>0, <1>n, <1>l, <1>16 DEF Back
<1>17. CASE t \in Helper /\ Read(t)
  BY <1>0, <1>n, <1>l, <1>17 DEF Read
<1>18. CASE t \in Helper /\ Nap(t)
  BY <1>0, <1>n, <1>l, <1>18 DEF Nap, SleepOrGoOn
<1>19. CASE t \in Helper /\ Awake(t)
  BY <1>0, <1>n, <1>l, <1>19 DEF Awake, SleepOrGoOn
<1> QED
  BY <1>1, <1>2, <1>3, <1>4, <1>5, <1>6, <1>7, <1>8, <1>9, <1>10, <1>11, <1>12, <1>13, <1>14, <1>15, <1>16, <1>17, <1>18, <1>19
  DEF Alone

(* Who is awakened, and what for.                                          *)
Waker(t) ==
  \/ StartFirst(t)
  \/ t \in Front /\ (StartFronts(t) \/ DrawWake(t) \/ Tell(t) \/ Dismiss(t))

Target(t, h) ==
  \/ pc[t] = "startFirst" /\ h = 0
  \/ pc[t] = "startFronts" /\ h \in Front \ {0} /\ h \in todo[t] \ todo'[t]
  \/ pc[t] \in {"drawWake", "tell", "dismiss"} /\ h \in Helper

WakerStep(t) ==
  /\ pc' \in [Thread -> FrontLabel \cup HelperLabel]
  /\ \A u \in Thread \ {t} : pc'[u] = pc[u] \/ (Target(t, u) /\ Roused(pc[u], pc'[u]))
  /\ UNCHANGED <<listVars, ringVars, frontVars, helpers, call, frontptr, glance,
                 workVars, endVars>>
  /\ idle' \in [Thread -> BOOLEAN]
  /\ \A u \in Thread : (idle'[u] <=> idle[u]) \/ (Target(t, u) /\ pc[t] # "dismiss")
  /\ todo' \in [Thread -> SUBSET Thread]
  /\ \A u \in Thread \ {t} : todo'[u] = todo[u]
  /\ \/ pc[t] = "startFirst" /\ pc'[t] = "initCheck"
     \/ /\ t \in Front
        /\ \/ pc[t] = "startFronts" /\ pc'[t] \in {"startFronts", "begin"}
           \/ pc[t] = "drawWake" /\ pc'[t] = "draw"
           \/ pc[t] = "tell" /\ pc'[t] \in {"tell", "loop"}
           \/ pc[t] = "dismiss" /\ pc'[t] \in {"dismiss", "terminate"}
  /\ todo'[t] \subseteq todo[t]

LEMMA WakerFacts ==
  ASSUME TypeOK, NEW t \in Thread, Waker(t)
  PROVE  WakerStep(t)
<1>0. /\ ControlType /\ setup \in Setups
      /\ pc \in [Thread -> FrontLabel \cup HelperLabel]
      /\ idle \in [Thread -> BOOLEAN] /\ todo \in [Thread -> SUBSET Thread]
      /\ \A f \in Front : pc[f] \in {"draw", "drawWake", "tell", "dismiss"} =>
                            todo[f] \subseteq Helper
      /\ \A f \in Front : pc[f] = "drawWake" => todo[f] # {}
      /\ \A f \in Front : pc[f] = "startFronts" => f = 0 /\ todo[0] \subseteq Front \ {0}
  BY DEF TypeOK, ControlType
<1>n. /\ Front \subseteq Thread /\ Helper \subseteq Thread /\ 0 \in Thread
      /\ Thread \subseteq Int /\ IsFiniteSet(Thread)
  BY <1>0, Threads
<1>m. todo[t] # {} => Min(todo[t]) \in todo[t] /\ Min(todo[t]) \in Thread
  <2>0. todo[t] \in SUBSET Thread
    BY <1>0
  <2>1. todo[t] \subseteq Thread /\ todo[t] \subseteq Int
    BY <1>n, <2>0, Zenon
  <2>2. IsFiniteSet(todo[t])
    BY <1>n, <2>1, FS_Subset
  <2> DEFINE S == todo[t]
  <2>3. S \subseteq Thread /\ S \subseteq Int /\ IsFiniteSet(S)
    BY <2>1, <2>2
  <2> HIDE DEF S
  <2>4. S # {} => Min(S) \in S
    BY <2>3, Extremes
  <2> QED BY <2>3, <2>4 DEF S
<1>l. {"initCheck", "startFronts", "begin", "draw", "tell", "loop", "dismiss", "terminate"}
        \subseteq (FrontLabel \cup HelperLabel) \ {"initAsleep", "asleep"}
  BY DEF FrontLabel, HelperLabel, Waiting, Between, Live, Sweeping, Checking, Ended
(* All are of one kind: the label of t changes, and then h is signalled. *)
<1>1. ASSUME NEW l \in (FrontLabel \cup HelperLabel) \ {"initAsleep", "asleep"},
             NEW h \in Thread, Signals(t, l, h)
      PROVE  /\ pc' \in [Thread -> FrontLabel \cup HelperLabel] /\ pc'[t] = l
             /\ \A u \in Thread \ {t} : pc'[u] = pc[u] \/ (u = h /\ Roused(pc[u], pc'[u]))
  BY <1>0, <1>1, SignalledStep
<1>2. ASSUME NEW l, NEW h \in Thread, Wake(h, [pc EXCEPT ![t] = l])
      PROVE  /\ Signals(t, l, h) /\ idle' \in [Thread -> BOOLEAN]
             /\ \A u \in Thread : u # h => (idle'[u] <=> idle[u])
  BY <1>0, <1>2 DEF Wake, Signals
<1>3. ASSUME NEW h \in Thread, Wake(h, pc)
      PROVE  /\ Signals(t, pc[t], h) /\ idle' \in [Thread -> BOOLEAN]
             /\ \A u \in Thread : u # h => (idle'[u] <=> idle[u])
  <2>1. pc = [pc EXCEPT ![t] = pc[t]]
    BY <1>0
  <2>2. pc' = Signalled(h, pc) \/ pc' = pc
    BY <1>3 DEF Wake
  <2>3. Signals(t, pc[t], h)
    BY <2>1, <2>2 DEF Signals
  <2> QED BY <1>0, <1>3, <2>3 DEF Wake
<1> USE DEF listVars, ringVars, frontVars, idleVars, workVars, endVars
<1>4. CASE StartFirst(t)
  <2>1. /\ pc[t] = "startFirst" /\ Wake(0, [pc EXCEPT ![t] = "initCheck"])
        /\ UNCHANGED <<listVars, ringVars, frontVars, helpers, call, frontptr, glance,
                       todo, workVars, endVars>>
    BY <1>4 DEF StartFirst
  <2> QED BY <1>0, <1>n, <1>l, <1>1, <1>2, <2>1 DEF Target, WakerStep
<1>5. CASE t \in Front /\ DrawWake(t)
  <2> DEFINE h == Min(todo[t])
  <2>1. /\ pc[t] = "drawWake" /\ Wake(h, [pc EXCEPT ![t] = "draw"])
        /\ todo' = [todo EXCEPT ![t] = @ \ {h}]
        /\ UNCHANGED <<listVars, ringVars, frontVars, helpers, call, frontptr, glance,
                       workVars, endVars>>
    BY <1>5 DEF DrawWake
  <2>2. h \in Helper /\ h \in Thread
    BY <1>0, <1>5, <1>m, <2>1
  <2> HIDE DEF h
  <2>3. /\ Signals(t, "draw", h) /\ idle' \in [Thread -> BOOLEAN]
        /\ \A u \in Thread : u # h => (idle'[u] <=> idle[u])
    BY <1>2, <2>1, <2>2
  <2>4. /\ pc' \in [Thread -> FrontLabel \cup HelperLabel] /\ pc'[t] = "draw"
        /\ \A u \in Thread \ {t} : pc'[u] = pc[u] \/ (u = h /\ Roused(pc[u], pc'[u]))
    BY <1>1, <1>l, <2>2, <2>3
  <2>5. Target(t, h)
    BY <2>1, <2>2 DEF Target
  <2> QED BY <1>0, <1>5, <2>1, <2>2, <2>3, <2>4, <2>5 DEF WakerStep
<1>6. ASSUME t \in Front, pc[t] \in {"startFronts", "tell"}, todo[t] # {},
             Wake(Min(todo[t]), pc), todo' = [todo EXCEPT ![t] = @ \ {Min(todo[t])}],
             UNCHANGED <<listVars, ringVars, frontVars, helpers, call, frontptr, glance,
                         workVars, endVars>>
      PROVE  WakerStep(t)
  <2> DEFINE h == Min(todo[t])
  <2>1. h \in Thread /\ Target(t, h)
    BY <1>0, <1>6, <1>m DEF Target
  <2>2. Wake(h, pc) /\ todo' = [todo EXCEPT ![t] = @ \ {h}]
    BY <1>6
  <2> HIDE DEF h
  <2>3. /\ Signals(t, pc[t], h) /\ idle' \in [Thread -> BOOLEAN]
        /\ \A u \in Thread : u # h => (idle'[u] <=> idle[u])
    BY <1>3, <2>1, <2>2
  <2>4. /\ pc' \in [Thread -> FrontLabel \cup HelperLabel] /\ pc'[t] = pc[t]
        /\ \A u \in Thread \ {t} : pc'[u] = pc[u] \/ (u = h /\ Roused(pc[u], pc'[u]))
    BY <1>1, <1>6, <1>l, <2>1, <2>3
  <2> QED BY <1>0, <1>6, <2>1, <2>2, <2>3, <2>4 DEF WakerStep
<1>7. ASSUME t \in Front, NEW l \in {"begin", "loop", "terminate"},
             pc' = [pc EXCEPT ![t] = l], todo' = todo, idle' = idle,
             \/ pc[t] = "startFronts" /\ l = "begin"
             \/ pc[t] = "tell" /\ l = "loop"
             \/ pc[t] = "dismiss" /\ l = "terminate",
             UNCHANGED <<listVars, ringVars, frontVars, helpers, call, frontptr, glance,
                         workVars, endVars>>
      PROVE  WakerStep(t)
  <2>1. Signals(t, l, 0)
    BY <1>7 DEF Signals
  <2> QED BY <1>0, <1>n, <1>l, <1>1, <1>7, <2>1 DEF WakerStep
<1>8. CASE t \in Front /\ StartFronts(t)
  <2>1. CASE todo[t] # {}
    <3>1. /\ pc[t] = "startFronts" /\ Wake(Min(todo[t]), pc)
          /\ todo' = [todo EXCEPT ![t] = @ \ {Min(todo[t])}]
          /\ UNCHANGED <<listVars, ringVars, frontVars, helpers, call, frontptr, glance,
                         workVars, endVars>>
      BY <1>8, <2>1 DEF StartFronts
    <3> QED BY <1>6, <1>8, <2>1, <3>1
  <2>2. CASE todo[t] = {}
    <3>1. /\ pc[t] = "startFronts" /\ pc' = [pc EXCEPT ![t] = "begin"]
          /\ todo' = todo /\ idle' = idle
          /\ UNCHANGED <<listVars, ringVars, frontVars, helpers, call, frontptr, glance,
                         workVars, endVars>>
      BY <1>8, <2>2 DEF StartFronts, Goto
    <3> QED BY <1>7, <1>8, <2>2, <3>1
  <2> QED BY <2>1, <2>2
<1>9. CASE t \in Front /\ Tell(t)
  <2>1. CASE todo[t] # {}
    <3>1. /\ pc[t] = "tell" /\ Wake(Min(todo[t]), pc)
          /\ todo' = [todo EXCEPT ![t] = @ \ {Min(todo[t])}]
          /\ UNCHANGED <<listVars, ringVars, frontVars, helpers, call, frontptr, glance,
                         workVars, endVars>>
      BY <1>9, <2>1 DEF Tell
    <3> QED BY <1>6, <1>9, <2>1, <3>1
  <2>2. CASE todo[t] = {}
    <3>1. /\ pc[t] = "tell" /\ pc' = [pc EXCEPT ![t] = "loop"]
          /\ todo' = todo /\ idle' = idle
          /\ UNCHANGED <<listVars, ringVars, frontVars, helpers, call, frontptr, glance,
                         workVars, endVars>>
      BY <1>9, <2>2 DEF Tell, Goto
    <3> QED BY <1>7, <1>9, <2>2, <3>1
  <2> QED BY <2>1, <2>2
<1>10. CASE t \in Front /\ Dismiss(t)
  <2>1. CASE todo[t] # {}
    <3> DEFINE h == Min(todo[t])
    <3>1. /\ pc[t] = "dismiss" /\ pc' = Signalled(h, pc) /\ idle' = idle
          /\ todo' = [todo EXCEPT ![t] = @ \ {h}]
          /\ UNCHANGED <<listVars, ringVars, frontVars, helpers, call, frontptr, glance,
                         workVars, endVars>>
      BY <1>10, <2>1 DEF Dismiss
    <3>2. h \in Thread /\ Target(t, h)
      BY <1>0, <1>10, <1>m, <2>1, <3>1 DEF Target
    <3> HIDE DEF h
    <3>3. Signals(t, "dismiss", h)
      <4>1. pc = [pc EXCEPT ![t] = "dismiss"]
        BY <1>0, <3>1
      <4> QED BY <3>1, <4>1 DEF Signals
    <3> QED BY <1>0, <1>n, <1>l, <1>1, <1>10, <3>1, <3>2, <3>3 DEF WakerStep
  <2>2. CASE todo[t] = {}
    <3>1. /\ pc[t] = "dismiss" /\ pc' = [pc EXCEPT ![t] = "terminate"]
          /\ todo' = todo /\ idle' = idle
          /\ UNCHANGED <<listVars, ringVars, frontVars, helpers, call, frontptr, glance,
                         workVars, endVars>>
      BY <1>10, <2>2 DEF Dismiss, Goto
    <3> QED BY <1>7, <1>10, <2>2, <3>1
  <2> QED BY <2>1, <2>2
<1> QED
  BY <1>4, <1>5, <1>8, <1>9, <1>10 DEF Waker

-----------------------------------------------------------------------------
(* A step is one of these kinds.                                           *)
LEMMA Kinds ==
  ASSUME NEW t \in Thread, Step(t)
  PROVE  \/ CheckStates(t)
         \/ t \in Front /\ Plain(t)
         \/ Alone(t)
         \/ Waker(t)
  BY DEF Step, FrontStep, HelperStep, Plain, Alone, Waker

LEMMA ControlStep ==
  ASSUME TypeOK, NEW t \in Thread, Step(t)
  PROVE  ControlType' /\ Others(t)
<1>0. /\ ControlType /\ setup \in Setups /\ setup' = setup
      /\ pc \in [Thread -> FrontLabel \cup HelperLabel] /\ exit \in BOOLEAN
      /\ running \in Int /\ terminating \in Int /\ helpers \in [Front -> Int]
      /\ idle \in [Thread -> BOOLEAN] /\ call \in [Thread -> BOOLEAN]
      /\ glance \in [Thread -> BOOLEAN] /\ found \in [Thread -> BOOLEAN]
      /\ frontptr \in [Thread -> Front] /\ todo \in [Thread -> SUBSET Thread]
      /\ \A f \in Front : pc[f] \in FrontLabel /\ frontptr[f] = f
      /\ \A h \in Helper : pc[h] \in HelperLabel
      /\ \A f \in Front : pc[f] \in {"draw", "drawWake", "tell", "dismiss"} =>
                            todo[f] \subseteq Helper
      /\ \A f \in Front : pc[f] = "startFronts" => f = 0 /\ todo[0] \subseteq Front \ {0}
  BY DEF TypeOK, ControlType, Step
<1>n. /\ \A u \in Thread : u \in Helper <=> u \notin Front
      /\ Front \subseteq Thread /\ Helper \subseteq Thread
      /\ Helped <=> Helper # {}
  BY <1>0, Threads
<1> USE DEF listVars, ringVars, frontVars, idleVars, workVars, endVars
<1>1. CASE CheckStates(t)
  <2>1. /\ pc[t] \in Checking
        /\ pc'[t] \in Checking \cup {Checked(t)}
        /\ pc' = [pc EXCEPT ![t] = pc'[t]]
        /\ UNCHANGED <<first, active, link, frontVars, idleVars, running,
                       terminating, verdict>>
        /\ exit' \in BOOLEAN
        /\ found' \in [Thread -> BOOLEAN]
        /\ \A u \in Thread \ {t} : /\ ns'[u] = ns[u] /\ entry'[u] = entry[u]
                                    /\ tried'[u] = tried[u] /\ (found'[u] <=> found[u])
    BY <1>1, CheckFacts
  <2>2. /\ t \in Front => pc'[t] \in FrontLabel
        /\ t \in Helper => pc'[t] \in HelperLabel
        /\ pc'[t] \notin {"draw", "drawWake", "tell", "dismiss", "startFronts"}
    BY <1>n, <2>1
    DEF Checked, FrontLabel, HelperLabel, Waiting, Between, Live, Sweeping, Checking, Ended
  <2>3. pc' \in [Thread -> FrontLabel \cup HelperLabel]
    BY <1>0, <1>n, <2>1, <2>2
  <2>4. \A u \in Thread \ {t} : pc'[u] = pc[u]
    BY <1>0, <2>1
  <2>5. Others(t)
    BY <2>1, <2>4 DEF Others
  <2> QED BY <1>0, <2>1, <2>2, <2>3, <2>4, <2>5, ControlKept
<1>2. CASE t \in Front /\ Plain(t)
  <2>1. /\ pc' = [pc EXCEPT ![t] = pc'[t]]
        /\ pc'[t] \in Between \cup {"end", "deinit", "run", "busy", "loop", "quit", "extend",
                                   "mayAdvance", "advance", "post", "handOver"}
        /\ UNCHANGED <<idleVars, workVars, running, terminating, verdict>>
        /\ exit' \in BOOLEAN
    BY <1>2, PlainFacts
  <2>2. /\ pc'[t] \in FrontLabel
        /\ pc'[t] \notin {"draw", "drawWake", "tell", "dismiss", "startFronts"}
    BY <2>1 DEF FrontLabel, Waiting, Between, Live, Sweeping, Checking, Ended
  <2>3. pc' \in [Thread -> FrontLabel \cup HelperLabel]
    BY <1>0, <2>1, <2>2
  <2>4. \A u \in Thread \ {t} : pc'[u] = pc[u]
    BY <1>0, <2>1
  <2>5. Others(t)
    BY <2>1, <2>4 DEF Others
  <2> QED BY <1>0, <1>n, <1>2, <2>1, <2>2, <2>3, <2>4, <2>5, ControlKept
<1>3. CASE Alone(t)
  <2>1. /\ pc' = [pc EXCEPT ![t] = pc'[t]]
        /\ t \in Front => pc'[t] \in FrontLabel
        /\ t \in Helper => pc'[t] \in HelperLabel
        /\ UNCHANGED <<workVars, exit>>
        /\ running' \in Int /\ terminating' \in Int
        /\ helpers' \in [Front -> Int]
        /\ idle' \in [Thread -> BOOLEAN] /\ call' \in [Thread -> BOOLEAN]
        /\ glance' \in [Thread -> BOOLEAN]
        /\ frontptr' \in [Thread -> Front]
        /\ \A u \in Thread : frontptr'[u] = frontptr[u] \/ (u = t /\ t \in Helper)
        /\ todo' \in [Thread -> SUBSET Thread]
        /\ \A u \in Thread \ {t} : todo'[u] = todo[u]
        /\ t \in Front /\ pc'[t] \in {"draw", "drawWake", "tell", "dismiss"} =>
             todo'[t] \subseteq Helper
        /\ t \in Front /\ pc'[t] = "drawWake" => todo'[t] # {}
        /\ t \in Front /\ pc'[t] = "startFronts" => t = 0 /\ todo'[0] \subseteq Front \ {0}
    BY <1>3, AloneFacts
  <2>3. pc' \in [Thread -> FrontLabel \cup HelperLabel]
    BY <1>0, <1>n, <2>1
  <2>4. \A u \in Thread \ {t} : pc'[u] = pc[u]
    BY <1>0, <2>1
  <2>5. Others(t)
    BY <2>1, <2>4 DEF Others
  <2>6. \A f \in Front : frontptr'[f] = frontptr[f]
    BY <1>n, <2>1
  <2>7. exit' \in BOOLEAN /\ found' \in [Thread -> BOOLEAN]
    BY <1>0, <2>1
  <2> QED BY <1>0, <2>1, <2>3, <2>4, <2>5, <2>6, <2>7, ControlKept
<1>4. CASE Waker(t)
  <2>1. WakerStep(t)
    BY <1>4, WakerFacts
  <2>2. /\ pc' \in [Thread -> FrontLabel \cup HelperLabel]
        /\ \A u \in Thread \ {t} : pc'[u] = pc[u] \/ Roused(pc[u], pc'[u])
        /\ UNCHANGED <<helpers, call, frontptr, glance, workVars, endVars>>
        /\ idle' \in [Thread -> BOOLEAN] /\ todo' \in [Thread -> SUBSET Thread]
        /\ \A u \in Thread \ {t} : todo'[u] = todo[u]
        /\ todo'[t] \subseteq todo[t]
    BY <2>1 DEF WakerStep
  <2>3. \/ pc[t] = "startFirst" /\ pc'[t] = "initCheck"
        \/ /\ t \in Front
           /\ \/ pc[t] = "startFronts" /\ pc'[t] \in {"startFronts", "begin"}
              \/ pc[t] = "drawWake" /\ pc'[t] = "draw"
              \/ pc[t] = "tell" /\ pc'[t] \in {"tell", "loop"}
              \/ pc[t] = "dismiss" /\ pc'[t] \in {"dismiss", "terminate"}
    BY <2>1 DEF WakerStep
  <2>4. /\ t \in Front => pc'[t] \in FrontLabel
        /\ t \in Helper => pc'[t] \in HelperLabel
    BY <1>n, <2>3 DEF FrontLabel, HelperLabel, Waiting, Between, Live, Sweeping, Checking, Ended
  <2>5. /\ t \in Front /\ pc'[t] \in {"draw", "drawWake", "tell", "dismiss"} =>
             todo'[t] \subseteq Helper
        /\ pc'[t] # "drawWake"
        /\ t \in Front /\ pc'[t] = "startFronts" => t = 0 /\ todo'[0] \subseteq Front \ {0}
    BY <1>0, <2>2, <2>3
  <2>6. Others(t)
    BY <2>2 DEF Others
  <2> QED BY <1>0, <2>2, <2>4, <2>5, <2>6, ControlKept
<1> QED
  BY <1>1, <1>2, <1>3, <1>4, Kinds

-----------------------------------------------------------------------------
(* A function with another value, a list or ring with another bucket.      *)
LEMMA ValueChanged ==
  ASSUME NEW D, NEW S, NEW a \in [D -> S], NEW i, NEW x \in S
  PROVE  [a EXCEPT ![i] = x] \in [D -> S]
  OBVIOUS

LEMMA ListChanged ==
  ASSUME NEW D, NEW S, NEW a \in [D -> SUBSET S], NEW i, NEW M \in SUBSET S
  PROVE  [a EXCEPT ![i] = M] \in [D -> SUBSET S]
  OBVIOUS

LEMMA SlotChanged ==
  ASSUME NEW D, NEW I, NEW S, NEW a \in [D -> [I -> SUBSET S]], NEW f \in D, NEW i,
         NEW M \in SUBSET S
  PROVE  [a EXCEPT ![f][i] = M] \in [D -> [I -> SUBSET S]]
<1>1. [a[f] EXCEPT ![i] = M] \in [I -> SUBSET S]
  BY ListChanged
<1> QED BY <1>1

(* What a front has in reach is in the lists.                              *)
LEMMA PlaceListed ==
  ASSUME TypeOK, RingsKnown, NEW f \in Front, link[f] # <<>>
  PROVE  /\ active[f] \in 0 .. Size - 1
         /\ link[f] \in [0 .. Size - 1 -> Int] /\ Pos(f) \in Int
         /\ \A d \in Offsets : /\ SlotAt(f, d) \in 0 .. Size - 1
                              /\ link[f][SlotAt(f, d)] = Pos(f) + d
                              /\ Pos(f) + d \in DOMAIN oldP
         /\ Pos(f) \in DOMAIN newP /\ DOMAIN newP = DOMAIN oldP
<1>1. /\ active[f] \in 0 .. Size - 1 /\ link[f] \in [0 .. Size - 1 -> Int]
      /\ DOMAIN newP = DOMAIN oldP /\ first \in Int
  BY DEF TypeOK, DataType
<1>2. /\ \A d \in Offsets : link[f][SlotAt(f, d)] = Pos(f) + d
      /\ Pos(f) - BackOffset >= first
      /\ first .. Pos(f) + FrontOffset \subseteq DOMAIN oldP
  BY DEF RingsKnown, RingKnown
<1>3. Pos(f) \in Int
  BY <1>1 DEF Pos
<1>4. ASSUME NEW d \in Offsets PROVE Pos(f) + d \in DOMAIN oldP
  <2>1. -BackOffset <= d /\ d <= FrontOffset /\ d \in Int
    BY Bounds DEF Offsets
  <2>2. Pos(f) + d >= first /\ Pos(f) + d <= Pos(f) + FrontOffset
    BY <1>1, <1>2, <1>3, <2>1, Bounds
  <2>3. Pos(f) + d \in first .. Pos(f) + FrontOffset
    BY <1>1, <1>3, <2>1, <2>2, Bounds
  <2> QED BY <1>2, <2>3
<1>5. \A d \in Offsets : SlotAt(f, d) \in 0 .. Size - 1
  BY <1>1, RingSlots DEF SlotFrom, SlotAt
<1>6. Pos(f) \in DOMAIN oldP
  BY <1>3, <1>4, Bounds
<1> QED BY <1>1, <1>2, <1>3, <1>4, <1>5, <1>6

(* What is read at the place of a front.                                   *)
LEMMA DataChecked ==
  ASSUME TypeOK, RingsKnown, NEW t \in Thread, CheckStates(t), setup' = setup
  PROVE  DataType'
<1>0. /\ first \in Int
      /\ DOMAIN oldP \subseteq Int /\ DOMAIN newP = DOMAIN oldP
      /\ newP \in [DOMAIN newP -> SUBSET Marking] /\ oldP \in [DOMAIN oldP -> SUBSET Marking]
      /\ store \in [Front -> [0 .. Size - 1 -> SUBSET Marking]]
      /\ active \in [Front -> 0 .. Size - 1]
      /\ link \in [Front -> [0 .. Size - 1 -> Int] \cup {<<>>}]
      /\ samevalue \in [Front -> SUBSET Marking]
      /\ fresh \in [Front -> BOOLEAN] /\ frontrunner \in [Front -> BOOLEAN]
      /\ sem \in [Front -> Nat]
      /\ back \in [Front -> 0 .. BackOffset] /\ countdown \in [Front -> 0 .. Size - 1]
      /\ ns \in [Thread -> Marking] /\ entry \in [Thread -> Nat]
      /\ tried \in [Thread -> SUBSET Buckets] /\ frontptr \in [Thread -> Front]
  BY DEF TypeOK, DataType, ControlType
<1>s. Thread' = Thread /\ Front' = Front
  BY SameThreads DEF TypeOK, ControlType
<1>f. ASSUME pc[t] \in Firing
      PROVE  /\ entry[t] \in 1 .. Len(Firelist[ns[t]])
             /\ Reached(t) \in Marking
  <2>1. entry[t] \in 1 .. Len(Firelist[ns[t]])
    BY <1>f DEF TypeOK
  <2>2. ns[t] \in Marking /\ Firelist[ns[t]] \in Seq(Transition)
    BY <1>0, SweepAssumption
  <2>3. Firelist[ns[t]][entry[t]] \in Transition
    BY <2>1, <2>2
  <2> QED BY <2>1, <2>2, <2>3, SweepAssumption DEF Reached
<1>g. \A m \in Marking : Len(Firelist[m]) \in Nat
  <2>1. \A m \in Marking : Firelist[m] \in Seq(Transition)
    BY SweepAssumption
  <2> QED BY <2>1
<1>h. \A f \in Front : \A i : \A M \in SUBSET Marking :
        [store EXCEPT ![f][i] = M] \in [Front -> [0 .. Size - 1 -> SUBSET Marking]]
  BY <1>0, SlotChanged
<1>i. ASSUME NEW f \in Front, NEW i \in 0 .. Size - 1 PROVE store[f][i] \in SUBSET Marking
  <2>1. store[f] \in [0 .. Size - 1 -> SUBSET Marking]
    BY <1>0
  <2> QED BY <2>1
<1>t. ASSUME NEW slot, NEW label, TryNext(t, slot, label)
      PROVE  \E B \in SUBSET Buckets : tried' = [tried EXCEPT ![t] = B]
  <2>1. PICK b \in Buckets : tried' = [tried EXCEPT ![t] = IF @ \cup {b} = Buckets THEN {}
                                                        ELSE @ \cup {b}]
    BY <1>t DEF TryNext
  <2>2. tried[t] \cup {b} \in SUBSET Buckets
    BY <1>0, <2>1
  <2> QED BY <2>1, <2>2
<1> USE DEF Goto, listVars, ringVars, frontVars, idleVars, workVars, endVars
<1>1. CASE Loop(t)
  BY <1>0, <1>s, <1>1 DEF Loop, DataType
<1>2. CASE Pop(t)
  <2> DEFINE f == frontptr[t]
             slot == store[f][active[f]]
  <2>1. \/ \E m \in slot : /\ ns' = [ns EXCEPT ![t] = m]
                            /\ store' = [store EXCEPT ![f][active[f]] = slot \ {m}]
                            /\ UNCHANGED tried
        \/ /\ \E B \in SUBSET Buckets : tried' = [tried EXCEPT ![t] = B]
           /\ UNCHANGED <<ns, store>>
    BY <1>t, <1>2 DEF Pop, Hits
  <2>2. UNCHANGED <<listVars, active, link, samevalue, fresh, frontVars,
                    idleVars, entry, found, endVars>>
    BY <1>2 DEF Pop
  <2>3. f \in Front /\ slot \in SUBSET Marking
    BY <1>0, <1>i
  <2>4. /\ store' \in [Front -> [0 .. Size - 1 -> SUBSET Marking]]
        /\ ns' \in [Thread -> Marking] /\ tried' \in [Thread -> SUBSET Buckets]
    <3> HIDE DEF f, slot
    <3>1. CASE \E m \in slot : /\ ns' = [ns EXCEPT ![t] = m]
                             /\ store' = [store EXCEPT ![f][active[f]] = slot \ {m}]
                             /\ UNCHANGED tried
      <4>1. PICK m \in slot : /\ ns' = [ns EXCEPT ![t] = m]
                             /\ store' = [store EXCEPT ![f][active[f]] = slot \ {m}]
                             /\ UNCHANGED tried
        BY <3>1
      <4>2. slot \ {m} \in SUBSET Marking /\ m \in Marking
        BY <2>3
      <4>3. store' \in [Front -> [0 .. Size - 1 -> SUBSET Marking]]
        BY <1>h, <2>3, <4>1, <4>2
      <4> QED BY <1>0, <4>1, <4>2, <4>3
    <3>2. CASE /\ \E B \in SUBSET Buckets : tried' = [tried EXCEPT ![t] = B]
               /\ UNCHANGED <<ns, store>>
      <4>1. PICK B \in SUBSET Buckets : tried' = [tried EXCEPT ![t] = B]
        BY <3>2
      <4>2. tried' \in [Thread -> SUBSET Buckets]
        BY <1>0, <4>1, ListChanged
      <4> QED BY <1>0, <3>2, <4>2
    <3> QED BY <2>1, <3>1, <3>2
  <2> QED BY <1>0, <1>s, <2>2, <2>4 DEF DataType
<1>3. CASE PopNew(t)
  <2> DEFINE at == link[frontptr[t]][active[frontptr[t]]]
  <2>1. \/ \E m \in newP[at] : /\ ns' = [ns EXCEPT ![t] = m]
                                /\ newP' = [newP EXCEPT ![at] = newP[at] \ {m}]
                                /\ UNCHANGED tried
        \/ /\ \E B \in SUBSET Buckets : tried' = [tried EXCEPT ![t] = B]
           /\ UNCHANGED <<ns, newP>>
    BY <1>t, <1>3 DEF PopNew, Hits
  <2>2. UNCHANGED <<first, oldP, ringVars, frontVars, idleVars, entry, found, endVars>>
    BY <1>3 DEF PopNew
  <2>3. at \in DOMAIN newP
    BY <1>0, <1>3, PlaceListed DEF PopNew, Pos
  <2> HIDE DEF at
  <2>4. newP' \in [DOMAIN newP -> SUBSET Marking]
        /\ ns' \in [Thread -> Marking] /\ tried' \in [Thread -> SUBSET Buckets]
    <3>1. CASE \E m \in newP[at] : /\ ns' = [ns EXCEPT ![t] = m]
                                   /\ newP' = [newP EXCEPT ![at] = newP[at] \ {m}]
                                   /\ UNCHANGED tried
      <4>1. PICK m \in newP[at] : /\ ns' = [ns EXCEPT ![t] = m]
                                  /\ newP' = [newP EXCEPT ![at] = newP[at] \ {m}]
                                  /\ UNCHANGED tried
        BY <3>1
      <4>2. newP[at] \in SUBSET Marking
        BY <1>0, <2>3
      <4>3. newP[at] \ {m} \in SUBSET Marking /\ m \in Marking
        BY <4>2
      <4>4. newP' \in [DOMAIN newP -> SUBSET Marking]
        BY <1>0, <4>1, <4>3, ListChanged
      <4> QED BY <1>0, <4>1, <4>3, <4>4
    <3>2. CASE /\ \E B \in SUBSET Buckets : tried' = [tried EXCEPT ![t] = B]
               /\ UNCHANGED <<ns, newP>>
      <4>1. PICK B \in SUBSET Buckets : tried' = [tried EXCEPT ![t] = B]
        BY <3>2
      <4>2. tried' \in [Thread -> SUBSET Buckets]
        BY <1>0, <4>1, ListChanged
      <4> QED BY <1>0, <3>2, <4>2
    <3> QED BY <2>1, <3>1, <3>2
  <2> QED BY <1>0, <1>s, <2>2, <2>4 DEF DataType
<1>4. CASE Keep(t)
  BY <1>0, <1>g, <1>s, <1>4 DEF Keep, Expand, DataType
<1>5. CASE KeepOld(t)
  <2> DEFINE at == link[frontptr[t]][active[frontptr[t]]]
  <2>0. oldP' = [oldP EXCEPT ![at] = oldP[at] \cup {ns[t]}]
    BY <1>5 DEF KeepOld
  <2> HIDE DEF at
  <2>1. oldP' \in [DOMAIN oldP -> SUBSET Marking] /\ DOMAIN oldP' = DOMAIN oldP
    <3>1. CASE at \in DOMAIN oldP
      <4>1. oldP[at] \cup {ns[t]} \in SUBSET Marking
        BY <1>0, <3>1
      <4> QED BY <1>0, <2>0, <4>1, ListChanged
    <3>2. CASE at \notin DOMAIN oldP
      BY <1>0, <2>0, <3>2
    <3> QED BY <3>1, <3>2
  <2> QED BY <1>0, <1>g, <1>s, <1>5, <2>1 DEF KeepOld, Expand, DataType
<1>6. CASE LookOld(t) \/ LookNew(t) \/ LookSame(t) \/ LookStore(t)
  <2>1. entry' = [entry EXCEPT ![t] = @ - 1] \/ entry' = entry
    BY <1>6 DEF LookOld, LookNew, LookSame, LookStore, Look, NextEntry
  <2>2. pc[t] \in Firing
    BY <1>6 DEF LookOld, LookNew, LookSame, LookStore, Look, Firing, Past, Checking
  <2>3. UNCHANGED <<listVars, ringVars, frontVars, idleVars, ns, tried, found, endVars>>
    BY <1>6 DEF LookOld, LookNew, LookSame, LookStore, Look
  <2>4. entry' \in [Thread -> Nat]
    <3>1. entry[t] \in Nat /\ entry[t] - 1 \in Nat
      BY <1>0, <1>f, <1>g, <2>2
    <3> QED BY <1>0, <2>1, <3>1
  <2> QED BY <1>0, <1>s, <2>3, <2>4 DEF DataType
<1>7. CASE Insert(t)
  <2>1. pc[t] \in Firing
    BY <1>7 DEF Insert, Firing, Past, Checking
  <2>2. entry' \in [Thread -> Nat]
    BY <1>0, <1>f, <1>7, <2>1 DEF Insert, NextEntry
  <2> DEFINE f == frontptr[t]
             i == Slot(t)
             m == Reached(t)
  <2>3. /\ f \in Front /\ m \in Marking
        /\ store' = [store EXCEPT ![f][i] = @ \cup {m}]
        /\ UNCHANGED <<listVars, active, link, samevalue, fresh, frontVars, idleVars,
                       ns, tried, found, endVars>>
    BY <1>0, <1>f, <1>7, <2>1 DEF Insert
  <2> HIDE DEF f, i, m
  <2>4. store' \in [Front -> [0 .. Size - 1 -> SUBSET Marking]]
    <3>1. CASE i \in 0 .. Size - 1
      <4>1. store[f][i] \cup {m} \in SUBSET Marking
        BY <1>i, <2>3, <3>1
      <4> QED BY <1>h, <2>3, <4>1
    <3>2. CASE i \notin 0 .. Size - 1
      <4> DEFINE M == store[f][i] \cup {m}
                 r == [store[f] EXCEPT ![i] = M]
      <4>1. store[f] \in [0 .. Size - 1 -> SUBSET Marking]
        BY <1>0, <2>3
      <4>2. store' = [store EXCEPT ![f] = r]
        BY <2>3
      <4> HIDE DEF M
      <4>3. r \in [0 .. Size - 1 -> SUBSET Marking]
        BY <3>2, <4>1
      <4> HIDE DEF r
      <4> QED BY <1>0, <4>2, <4>3, ValueChanged
    <3> QED BY <3>1, <3>2
  <2> QED BY <1>0, <1>s, <2>2, <2>3, <2>4 DEF DataType
<1>8. CASE InsertNew(t)
  <2>1. pc[t] \in Firing
    BY <1>8 DEF InsertNew, Firing, Past, Checking
  <2>2. entry' \in [Thread -> Nat]
    BY <1>0, <1>f, <1>8, <2>1 DEF InsertNew, NextEntry
  <2> DEFINE f == frontptr[t]
             i == Listed(t)
             m == Reached(t)
  <2>3. /\ f \in Front /\ m \in Marking
        /\ newP' = [newP EXCEPT ![i] = @ \cup {m}]
        /\ fresh' = [fresh EXCEPT ![f] = @ /\ m \in newP[i]]
        /\ UNCHANGED <<first, oldP, store, active, link, samevalue, frontVars, idleVars,
                       ns, tried, found, endVars>>
    BY <1>0, <1>f, <1>8, <2>1 DEF InsertNew
  <2> HIDE DEF f, i, m
  <2>4. newP' \in [DOMAIN newP -> SUBSET Marking] /\ DOMAIN newP' = DOMAIN newP
    BY <1>0, <2>3
  <2>5. fresh' \in [Front -> BOOLEAN]
    BY <1>0, <2>3
  <2> QED BY <1>0, <1>s, <2>2, <2>3, <2>4, <2>5 DEF DataType
<1>9. CASE Solved(t)
  BY <1>0, <1>s, <1>9 DEF Solved, DataType
<1> QED
  BY <1>1, <1>2, <1>3, <1>4, <1>5, <1>6, <1>7, <1>8, <1>9 DEF CheckStates

(* The lists grow at one end or the other.                                 *)
LEMMA ListsExtended ==
  ASSUME DataType, NEW places \in SUBSET Int,
         newP' = Extended(newP, places), oldP' = Extended(oldP, places)
  PROVE  /\ DOMAIN oldP' = DOMAIN oldP \cup places
         /\ DOMAIN newP' = DOMAIN oldP' /\ DOMAIN oldP' \subseteq Int
         /\ newP' \in [DOMAIN newP' -> SUBSET Marking]
         /\ oldP' \in [DOMAIN oldP' -> SUBSET Marking]
         /\ \A i \in DOMAIN newP : newP'[i] = newP[i] /\ oldP'[i] = oldP[i]
         /\ \A i \in DOMAIN newP' : i \notin DOMAIN newP => newP'[i] = {} /\ oldP'[i] = {}
<1>0. /\ DOMAIN oldP \subseteq Int /\ DOMAIN newP = DOMAIN oldP
      /\ newP \in [DOMAIN newP -> SUBSET Marking] /\ oldP \in [DOMAIN oldP -> SUBSET Marking]
  BY DEF DataType
<1> QED BY <1>0 DEF Extended

(* Whoever extends them adds buckets on the left.                          *)
LEMMA LeftExtended ==
  ASSUME TypeOK, NEW f \in Front, Extend(f) \/ Finish(f)
  PROVE  /\ \/ UNCHANGED listVars
            \/ \E n \in Nat : ExtendLeft(n)
         /\ back' \in [Front -> 0 .. BackOffset]
         /\ UNCHANGED <<ringVars, frontrunner, sem, countdown, idleVars, workVars, endVars>>
<1>0. /\ back \in [Front -> 0 .. BackOffset] /\ BackOffset \in Nat
  BY Bounds DEF TypeOK, DataType
<1> USE DEF listVars, ringVars, frontVars, idleVars, workVars, endVars
<1>1. CASE Extend(f)
  <2>1. UNCHANGED listVars \/ ExtendLeft(back[f])
    BY <1>1 DEF Extend
  <2>2. back' = [back EXCEPT ![f] = 0] \/ back' = [back EXCEPT ![f] = IF @ > 0 THEN @ - 1 ELSE 0]
    BY <1>1 DEF Extend
  <2>3. UNCHANGED <<ringVars, frontrunner, sem, countdown, idleVars, workVars, endVars>>
    BY <1>1 DEF Extend
  <2>4. back[f] \in Nat
    BY <1>0
  <2> QED BY <1>0, <2>1, <2>2, <2>3, <2>4
<1>2. CASE Finish(f)
  <2> DEFINE behind == {i \in 0 .. back[f] - 1 :
                          newP[link[f][After(active[f], FrontOffset + i + 2)]] # {}}
  <2>1. /\ IF behind = {} THEN UNCHANGED listVars ELSE ExtendLeft(back[f] - Min(behind))
        /\ back' = [back EXCEPT ![f] = 0]
        /\ UNCHANGED <<ringVars, frontrunner, sem, countdown, idleVars, workVars, endVars>>
    BY <1>2 DEF Finish
  <2>2. back[f] \in Nat
    BY <1>0
  <2>3. behind \subseteq 0 .. back[f] - 1
    OBVIOUS
  <2> HIDE DEF behind
  <2>4. 0 .. back[f] - 1 \subseteq Int /\ IsFiniteSet(0 .. back[f] - 1)
    BY <2>2, FS_Interval
  <2>5. IsFiniteSet(behind) /\ behind \subseteq Int
    BY <2>3, <2>4, FS_Subset
  <2>6. behind # {} => Min(behind) \in behind
    BY <2>5, Extremes
  <2>7. behind # {} => back[f] - Min(behind) \in Nat
    <3>1. ASSUME NEW m \in 0 .. back[f] - 1 PROVE back[f] - m \in Nat
      BY <2>2
    <3> QED BY <2>3, <2>6, <3>1
  <2> QED BY <1>0, <2>1, <2>7
<1> QED BY <1>1, <1>2

(* How a front that finds more work moves on.                              *)
Ahead(f) == Pos(f) + FrontOffset + 1

LEMMA AdvanceFacts ==
  ASSUME TypeOK, RingsKnown, NEW f \in Front, link[f] # <<>>, Advance(f)
  PROVE  /\ store' = IF Delay > 0
                     THEN [store EXCEPT ![f] = [@ EXCEPT ![SlotAt(f, -Delay)] = {},
                                                         ![active[f]] = samevalue[f]]]
                     ELSE store
         /\ samevalue' = [samevalue EXCEPT ![f] = {}]
         /\ link' = [link EXCEPT ![f] = [@ EXCEPT ![SlotAt(f, -BackOffset)] = Ahead(f)]]
         /\ newP' = Extended(newP, {Ahead(f)}) /\ oldP' = Extended(oldP, {Ahead(f)})
         /\ active' = [active EXCEPT ![f] = After(@, 1)]
         /\ countdown' = [countdown EXCEPT ![f] = IF @ > 0 THEN @ - 1 ELSE 0]
         /\ ~AtEnd(f) /\ Ahead(f) \in Int
         /\ UNCHANGED <<first, fresh, frontrunner, sem, back, idleVars, workVars, endVars>>
<1>0. /\ active[f] \in 0 .. Size - 1 /\ Pos(f) \in Int
      /\ \A d \in Offsets : link[f][SlotAt(f, d)] = Pos(f) + d
      /\ FrontOffset \in Nat /\ FrontOffset \in Offsets
  <2>1. FrontOffset \in Nat /\ FrontOffset \in Offsets
    BY Bounds DEF Offsets
  <2> QED BY <2>1, PlaceListed
<1>1. /\ \A n \in 0 .. FrontOffset : After(active[f], n) = SlotAt(f, n)
      /\ After(active[f], FrontOffset + 1) = SlotAt(f, -BackOffset)
      /\ Delay > 0 => After(active[f], Size - Delay) = SlotAt(f, -Delay)
  BY <1>0, RingSlots DEF SlotFrom, SlotAt
<1>2. After(active[f], FrontOffset) = SlotAt(f, FrontOffset)
  BY <1>0, <1>1
<1>3. link[f][After(active[f], FrontOffset)] + 1 = Ahead(f) /\ Ahead(f) \in Int
  BY <1>0, <1>2 DEF Ahead
<1>4. /\ store' = IF Delay > 0
                  THEN [store EXCEPT ![f][After(active[f], Size - Delay)] = {},
                                     ![f][active[f]] = samevalue[f]]
                  ELSE store
      /\ samevalue' = [samevalue EXCEPT ![f] = {}]
      /\ link' = [link EXCEPT ![f][After(active[f], FrontOffset + 1)] =
                    link[f][After(active[f], FrontOffset)] + 1]
      /\ newP' = Extended(newP, {link[f][After(active[f], FrontOffset)] + 1})
      /\ oldP' = Extended(oldP, {link[f][After(active[f], FrontOffset)] + 1})
      /\ active' = [active EXCEPT ![f] = After(@, 1)]
      /\ countdown' = [countdown EXCEPT ![f] = IF @ > 0 THEN @ - 1 ELSE 0]
      /\ ~AtEnd(f)
      /\ UNCHANGED <<first, fresh, frontrunner, sem, back, idleVars, workVars, endVars>>
  BY DEF Advance, AdvanceKeeping
<1>5. Delay > 0 =>
        [store EXCEPT ![f][After(active[f], Size - Delay)] = {}, ![f][active[f]] = samevalue[f]]
        = [store EXCEPT ![f] = [@ EXCEPT ![SlotAt(f, -Delay)] = {},
                                         ![active[f]] = samevalue[f]]]
  <2>1. store \in [Front -> [0 .. Size - 1 -> SUBSET Marking]]
    BY DEF TypeOK, DataType
  <2> QED BY <1>1, <2>1
<1> QED BY <1>1, <1>3, <1>4, <1>5

LEMMA DataPlain ==
  ASSUME TypeOK, RingsKnown, NEW f \in Front, Plain(f), setup' = setup
  PROVE  DataType'
<1>0. /\ first \in Int
      /\ DOMAIN oldP \subseteq Int /\ DOMAIN newP = DOMAIN oldP
      /\ newP \in [DOMAIN newP -> SUBSET Marking] /\ oldP \in [DOMAIN oldP -> SUBSET Marking]
      /\ store \in [Front -> [0 .. Size - 1 -> SUBSET Marking]]
      /\ active \in [Front -> 0 .. Size - 1]
      /\ link \in [Front -> [0 .. Size - 1 -> Int] \cup {<<>>}]
      /\ samevalue \in [Front -> SUBSET Marking]
      /\ fresh \in [Front -> BOOLEAN] /\ frontrunner \in [Front -> BOOLEAN]
      /\ sem \in [Front -> Nat]
      /\ back \in [Front -> 0 .. BackOffset] /\ countdown \in [Front -> 0 .. Size - 1]
      /\ ns \in [Thread -> Marking] /\ entry \in [Thread -> Nat]
      /\ tried \in [Thread -> SUBSET Buckets]
      /\ DataType
  BY DEF TypeOK, DataType
<1>s. /\ Thread' = Thread /\ Front' = Front
      /\ \A g \in Front : NextFront(g) \in Front /\ Pred(g) \in Front
  BY SameThreads, FrontsRing DEF TypeOK, ControlType
<1>n. BackOffset \in Nat /\ Size \in Nat \ {0} /\ BackOffset <= Size - 1
  BY Bounds
<1> USE DEF Goto, listVars, ringVars, frontVars, idleVars, workVars, endVars
<1>1. CASE Again(f) \/ Run(f) \/ Drained(f) \/ Quit(f)
  <2>1. UNCHANGED <<listVars, ringVars, frontVars, workVars>>
    BY <1>1 DEF Again, Run, Drained, Quit
  <2> QED BY <1>0, <1>s, <2>1 DEF DataType
<1>2. CASE MayBegin(f) \/ MayAdvance(f)
  <2>1. /\ UNCHANGED <<listVars, ringVars, frontrunner, back, countdown, workVars>>
        /\ sem' = sem \/ (sem[Pred(f)] > 0 /\ sem' = [sem EXCEPT ![Pred(f)] = @ - 1])
    BY <1>2 DEF MayBegin, MayAdvance, MayGoOn
  <2>2. sem[Pred(f)] \in Nat
    BY <1>0, <1>s
  <2>3. sem' \in [Front -> Nat]
    <3> DEFINE v == sem[Pred(f)] - 1
    <3>1. sem[Pred(f)] > 0 => v \in Nat
      BY <2>2
    <3>2. sem' = sem \/ (sem[Pred(f)] > 0 /\ sem' = [sem EXCEPT ![Pred(f)] = v])
      BY <2>1
    <3> HIDE DEF v
    <3>3. CASE sem' = sem
      BY <1>0, <3>3
    <3>4. CASE sem' # sem
      <4>1. v \in Nat /\ sem' = [sem EXCEPT ![Pred(f)] = v]
        BY <3>1, <3>2, <3>4
      <4> QED BY <1>0, <4>1, ValueChanged
    <3> QED BY <3>3, <3>4
  <2> QED BY <1>0, <1>s, <2>1, <2>3 DEF DataType
<1>3. CASE Link(f)
  <2>1. /\ UNCHANGED <<listVars, store, samevalue, frontrunner, sem, workVars>>
        /\ \/ UNCHANGED <<active, link, fresh, back, countdown>>
           \/ /\ back' = [back EXCEPT ![f] = BackOffset]
              /\ countdown' = [countdown EXCEPT ![f] = Size - 1]
              /\ link' = [link EXCEPT ![f] = [i \in 0 .. Size - 1 |-> first + i]]
              /\ active' = [active EXCEPT ![f] = BackOffset]
              /\ fresh' = [fresh EXCEPT ![f] = TRUE]
    BY <1>3 DEF Link, LinkFor
  <2>2. [i \in 0 .. Size - 1 |-> first + i] \in [0 .. Size - 1 -> Int]
    BY <1>0, <1>n
  <2>3. BackOffset \in 0 .. Size - 1 /\ BackOffset \in 0 .. BackOffset
        /\ Size - 1 \in 0 .. Size - 1
    BY <1>n
  <2>4. /\ link' \in [Front -> [0 .. Size - 1 -> Int] \cup {<<>>}]
        /\ active' \in [Front -> 0 .. Size - 1] /\ fresh' \in [Front -> BOOLEAN]
        /\ back' \in [Front -> 0 .. BackOffset] /\ countdown' \in [Front -> 0 .. Size - 1]
    <3>1. CASE UNCHANGED <<active, link, fresh, back, countdown>>
      BY <1>0, <3>1
    <3>2. CASE /\ back' = [back EXCEPT ![f] = BackOffset]
               /\ countdown' = [countdown EXCEPT ![f] = Size - 1]
               /\ link' = [link EXCEPT ![f] = [i \in 0 .. Size - 1 |-> first + i]]
               /\ active' = [active EXCEPT ![f] = BackOffset]
               /\ fresh' = [fresh EXCEPT ![f] = TRUE]
      <4>1. link' \in [Front -> [0 .. Size - 1 -> Int] \cup {<<>>}]
        BY <1>0, <2>2, <3>2, ValueChanged
      <4>2. active' \in [Front -> 0 .. Size - 1] /\ countdown' \in [Front -> 0 .. Size - 1]
        BY <1>0, <2>3, <3>2, ValueChanged
      <4>3. fresh' \in [Front -> BOOLEAN] /\ back' \in [Front -> 0 .. BackOffset]
        BY <1>0, <2>3, <3>2, ValueChanged
      <4> QED BY <4>1, <4>2, <4>3
    <3> QED BY <2>1, <3>1, <3>2
  <2> QED BY <1>0, <1>s, <2>1, <2>4 DEF DataType
<1>4. CASE Extend(f) \/ Finish(f)
  <2>1. /\ \/ UNCHANGED listVars
           \/ \E n \in Nat : ExtendLeft(n)
        /\ back' \in [Front -> 0 .. BackOffset]
        /\ UNCHANGED <<ringVars, frontrunner, sem, countdown, workVars>>
    BY <1>4, LeftExtended
  <2>2. /\ first' \in Int /\ DOMAIN oldP' \subseteq Int /\ DOMAIN newP' = DOMAIN oldP'
        /\ newP' \in [DOMAIN newP' -> SUBSET Marking]
        /\ oldP' \in [DOMAIN oldP' -> SUBSET Marking]
    <3>1. CASE UNCHANGED listVars
      BY <1>0, <3>1
    <3>2. CASE \E n \in Nat : ExtendLeft(n)
      <4>1. PICK n \in Nat : ExtendLeft(n)
        BY <3>2
      <4>2. /\ first' = first - n
            /\ newP' = Extended(newP, first' .. first - 1)
            /\ oldP' = Extended(oldP, first' .. first - 1)
        BY <4>1 DEF ExtendLeft
      <4>3. first' \in Int /\ first' .. first - 1 \in SUBSET Int
        BY <1>0, <4>2
      <4> QED BY <1>0, <4>2, <4>3, ListsExtended
    <3> QED BY <2>1, <3>1, <3>2
  <2> QED BY <1>0, <1>s, <2>1, <2>2 DEF DataType
<1>5. CASE Advance(f)
  <2>0. pc[f] = "advance"
    BY <1>5 DEF Advance, AdvanceKeeping
  <2>1. link[f] # <<>>
    BY <2>0 DEF RingsKnown, Live, Sweeping
  <2>2. /\ store' = IF Delay > 0
                    THEN [store EXCEPT ![f] = [@ EXCEPT ![SlotAt(f, -Delay)] = {},
                                                        ![active[f]] = samevalue[f]]]
                    ELSE store
        /\ samevalue' = [samevalue EXCEPT ![f] = {}]
        /\ link' = [link EXCEPT ![f] = [@ EXCEPT ![SlotAt(f, -BackOffset)] = Ahead(f)]]
        /\ newP' = Extended(newP, {Ahead(f)}) /\ oldP' = Extended(oldP, {Ahead(f)})
        /\ active' = [active EXCEPT ![f] = After(@, 1)]
        /\ countdown' = [countdown EXCEPT ![f] = IF @ > 0 THEN @ - 1 ELSE 0]
        /\ Ahead(f) \in Int
        /\ UNCHANGED <<first, fresh, frontrunner, sem, back, workVars>>
    BY <1>5, <2>1, AdvanceFacts
  <2>3. /\ DOMAIN oldP' \subseteq Int /\ DOMAIN newP' = DOMAIN oldP'
        /\ newP' \in [DOMAIN newP' -> SUBSET Marking]
        /\ oldP' \in [DOMAIN oldP' -> SUBSET Marking]
    <3>1. {Ahead(f)} \in SUBSET Int
      BY <2>2
    <3> QED BY <1>0, <2>2, <3>1, ListsExtended
  <2>4. After(active[f], 1) \in 0 .. Size - 1
    BY <1>0, RingSlots
  <2>5. /\ link[f] \in [0 .. Size - 1 -> Int]
        /\ [link[f] EXCEPT ![SlotAt(f, -BackOffset)] = Ahead(f)] \in [0 .. Size - 1 -> Int]
    BY <1>0, <2>1, <2>2
  <2>6. [store[f] EXCEPT ![SlotAt(f, -Delay)] = {}, ![active[f]] = samevalue[f]]
           \in [0 .. Size - 1 -> SUBSET Marking]
    BY <1>0
  <2>7. store' \in [Front -> [0 .. Size - 1 -> SUBSET Marking]]
    BY <1>0, <2>2, <2>6
  <2>8. /\ samevalue' \in [Front -> SUBSET Marking]
        /\ link' \in [Front -> [0 .. Size - 1 -> Int] \cup {<<>>}]
        /\ active' \in [Front -> 0 .. Size - 1]
        /\ countdown' \in [Front -> 0 .. Size - 1]
    <3>2. samevalue' \in [Front -> SUBSET Marking]
      BY <1>0, <2>2
    <3>3. link' \in [Front -> [0 .. Size - 1 -> Int] \cup {<<>>}]
      BY <1>0, <2>2, <2>5, ValueChanged
    <3>4. active' \in [Front -> 0 .. Size - 1]
      BY <1>0, <2>2, <2>4, ValueChanged
    <3>5. countdown' \in [Front -> 0 .. Size - 1]
      <4>1. (IF countdown[f] > 0 THEN countdown[f] - 1 ELSE 0) \in 0 .. Size - 1
        BY <1>0, <1>n
      <4> QED BY <1>0, <2>2, <4>1, ValueChanged
    <3> QED BY <3>2, <3>3, <3>4, <3>5
  <2> QED BY <1>0, <1>s, <2>2, <2>3, <2>7, <2>8 DEF DataType
<1>6. CASE Post(f)
  <2>1. /\ UNCHANGED <<listVars, ringVars, frontrunner, back, countdown, workVars>>
        /\ sem' = [sem EXCEPT ![f] = @ + 1]
    BY <1>6 DEF Post
  <2> QED BY <1>0, <1>s, <2>1 DEF DataType
<1>7. CASE Deinit(f)
  <2>1. /\ store' = [store EXCEPT ![f] = EmptyRing]
        /\ samevalue' = [samevalue EXCEPT ![f] = {}]
        /\ UNCHANGED <<listVars, active, link, fresh, sem, back, countdown, workVars>>
        /\ frontrunner' = frontrunner \/ frontrunner' = [frontrunner EXCEPT ![f] = FALSE]
    BY <1>7 DEF Deinit
  <2>2. EmptyRing \in [0 .. Size - 1 -> SUBSET Marking]
    BY DEF EmptyRing
  <2> QED BY <1>0, <1>s, <2>1, <2>2 DEF DataType
<1>8. CASE HandOver(f)
  <2>1. /\ UNCHANGED <<listVars, ringVars, back, countdown, workVars>>
        /\ frontrunner' = [frontrunner EXCEPT ![NextFront(f)] = TRUE]
        /\ sem' = [sem EXCEPT ![f] = 0]
    BY <1>8 DEF HandOver
  <2> QED BY <1>0, <1>s, <2>1 DEF DataType
<1> QED
  BY <1>1, <1>2, <1>3, <1>4, <1>5, <1>6, <1>7, <1>8 DEF Plain

(* The transitions of a marking are fired from the last to the first.      *)
EntryKnown(t) == pc[t] \in Firing => entry[t] \in 1 .. Len(Firelist[ns[t]])

LEMMA EntryStep ==
  ASSUME TypeOK, NEW t \in Thread, CheckStates(t), pc' = [pc EXCEPT ![t] = pc'[t]]
  PROVE  EntryKnown(t)'
<1>0. /\ pc \in [Thread -> FrontLabel \cup HelperLabel]
      /\ ns \in [Thread -> Marking] /\ entry \in [Thread -> Nat]
      /\ EntryKnown(t)
  BY DEF TypeOK, DataType, ControlType, EntryKnown
<1>g. /\ Firelist[ns[t]] \in Seq(Transition) /\ Len(Firelist[ns[t]]) \in Nat
      /\ Firelist[ns[t]] # <<>> => Len(Firelist[ns[t]]) \in 1 .. Len(Firelist[ns[t]])
  <2>1. Firelist[ns[t]] \in Seq(Transition)
    BY <1>0, SweepAssumption
  <2> QED BY <2>1
<1>k. /\ {"loop", "pop", "popNew", "keep", "keepOld", "solved", "release", "drain", "quit"}
           \cap Firing = {}
      /\ {"lookOld", "lookNew", "lookSame", "lookStore", "insert", "insertNew"} \subseteq Firing
  BY DEF Firing, Past, Checking
<1> USE DEF Goto, listVars, ringVars, frontVars, idleVars, workVars, endVars
<1>1. CASE Loop(t) \/ Pop(t) \/ PopNew(t) \/ Solved(t)
  <2>1. pc'[t] \in {"loop", "pop", "popNew", "keep", "keepOld", "release", "drain", "quit"}
    BY <1>0, <1>1 DEF Loop, Pop, PopNew, Solved, TryNext, Checked
  <2> QED BY <1>k, <2>1 DEF EntryKnown
<1>2. CASE Keep(t) \/ KeepOld(t)
  <2>1. /\ entry' = [entry EXCEPT ![t] = Len(Firelist[ns[t]])] /\ ns' = ns
        /\ pc'[t] \in {"solved", "loop", "lookOld"}
        /\ pc'[t] = "lookOld" => Firelist[ns[t]] # <<>>
    BY <1>0, <1>2 DEF Keep, KeepOld, Expand
  <2> QED BY <1>0, <1>g, <1>k, <2>1 DEF EntryKnown
<1>3. CASE \/ LookOld(t) \/ LookNew(t) \/ LookSame(t) \/ LookStore(t)
           \/ Insert(t) \/ InsertNew(t)
  <2>1. /\ ns' = ns
        /\ \/ entry' = entry
           \/ /\ entry' = [entry EXCEPT ![t] = @ - 1]
              /\ pc'[t] = (IF entry[t] = 1 THEN "loop" ELSE "lookOld")
    BY <1>0, <1>3 DEF LookOld, LookNew, LookSame, LookStore, Look, NextEntry, Insert, InsertNew
  <2>2. pc[t] \in Firing
    BY <1>3, <1>k DEF LookOld, LookNew, LookSame, LookStore, Look, Insert, InsertNew
  <2>3. entry[t] \in 1 .. Len(Firelist[ns[t]])
    BY <1>0, <2>2 DEF EntryKnown
  <2>4. CASE entry' = entry
    BY <2>1, <2>3, <2>4 DEF EntryKnown
  <2>5. CASE /\ entry' = [entry EXCEPT ![t] = @ - 1]
             /\ pc'[t] = (IF entry[t] = 1 THEN "loop" ELSE "lookOld")
    <3>1. entry'[t] = entry[t] - 1
      BY <1>0, <2>5
    <3>2. CASE entry[t] = 1
      BY <1>k, <2>5, <3>2 DEF EntryKnown
    <3>3. CASE entry[t] # 1
      BY <1>g, <2>1, <2>3, <3>1, <3>3 DEF EntryKnown
    <3> QED BY <3>2, <3>3
  <2> QED BY <2>1, <2>4, <2>5
<1> QED
  BY <1>1, <1>2, <1>3 DEF CheckStates

LEMMA TypeStep ==
  ASSUME TypeOK, RingsKnown, NEW t \in Thread, Step(t)
  PROVE  TypeOK'
<1>0. /\ setup \in Setups /\ setup' = setup
      /\ ControlType' /\ Others(t)
      /\ \A u \in Thread : EntryKnown(u)
      /\ Thread' = Thread /\ Front' = Front
  BY ControlStep, SameThreads DEF Step, TypeOK, ControlType, EntryKnown
<1>d. DataType
  BY DEF TypeOK
<1>o. ASSUME NEW u \in Thread \ {t} PROVE EntryKnown(u)'
  <2>1. /\ pc'[u] = pc[u] \/ Roused(pc[u], pc'[u])
        /\ ns'[u] = ns[u] /\ entry'[u] = entry[u]
    BY <1>0 DEF Others
  <2>2. pc'[u] \in Firing => pc[u] = pc'[u]
    BY <2>1 DEF Roused, Firing, Past, Checking
  <2> QED BY <1>0, <2>1, <2>2 DEF EntryKnown
<1> USE DEF listVars, ringVars, frontVars, idleVars, workVars, endVars
<1>1. CASE CheckStates(t)
  <2>1. DataType'
    BY <1>0, <1>1, DataChecked
  <2>2. EntryKnown(t)'
    BY <1>1, CheckFacts, EntryStep
  <2> QED BY <1>0, <1>o, <2>1, <2>2 DEF TypeOK, EntryKnown
<1>2. CASE t \in Front /\ Plain(t)
  <2>1. DataType'
    BY <1>0, <1>2, DataPlain
  <2>2. /\ UNCHANGED workVars
        /\ pc'[t] \in Between \cup {"end", "deinit", "run", "busy", "loop", "quit", "extend",
                                   "mayAdvance", "advance", "post", "handOver"}
    BY <1>2, PlainFacts
  <2>3. EntryKnown(t)'
    BY <2>2 DEF EntryKnown, Firing, Past, Checking, Between
  <2> QED BY <1>0, <1>o, <2>1, <2>3 DEF TypeOK, EntryKnown
<1>3. CASE Alone(t)
  <2>1. /\ UNCHANGED <<listVars, ringVars, frontrunner, back, countdown, workVars>>
        /\ sem' = sem \/ sem' = [sem EXCEPT ![t] = 1]
        /\ pc'[t] \notin Firing
    <3>1. UNCHANGED <<listVars, ringVars, frontrunner, back, countdown, workVars>>
      BY <1>3, AloneFacts
    <3>2. sem' = sem \/ sem' = [sem EXCEPT ![t] = 1]
      BY <1>3 DEF Alone, Initialise, InitCheck, Terminate, Return, Begin, Busy, Draw, Drain, End,
                  Outer, Inner, Glance, JoinFront, Work, Release, Back, Read, Nap, Awake
    <3>3. pc'[t] \notin Firing
      <4>1. pc \in [Thread -> FrontLabel \cup HelperLabel]
        BY DEF TypeOK, ControlType
      <4> QED
        BY <1>3, <4>1 DEF Alone, Initialise, InitCheck, Terminate, Return, Begin, Busy, Draw,
                  Drain, End, Outer, Inner, Glance, JoinFront, Work, Release, Back, Read, Nap,
                  Awake, Goto, MoveOn, SleepOrGoOn, Firing, Past, Checking
    <3> QED BY <3>1, <3>2, <3>3
  <2>2. sem \in [Front -> Nat] /\ sem' \in [Front -> Nat]
    <3>1. sem \in [Front -> Nat] /\ 1 \in Nat
      BY <1>d DEF DataType
    <3> QED BY <2>1, <3>1, ValueChanged
  <2>3. DataType'
    BY <1>d, <1>0, <2>1, <2>2 DEF DataType
  <2>4. EntryKnown(t)'
    BY <2>1 DEF EntryKnown
  <2> QED BY <1>0, <1>o, <2>3, <2>4 DEF TypeOK, EntryKnown
<1>4. CASE Waker(t)
  <2>1. WakerStep(t)
    BY <1>4, WakerFacts
  <2>2. /\ UNCHANGED <<listVars, ringVars, frontVars, workVars>>
        /\ pc'[t] \in {"initCheck", "startFronts", "begin", "draw", "tell", "loop",
                       "dismiss", "terminate"}
    BY <2>1 DEF WakerStep
  <2>3. DataType'
    BY <1>d, <1>0, <2>2 DEF DataType
  <2>4. EntryKnown(t)'
    BY <2>2 DEF EntryKnown, Firing, Past, Checking
  <2> QED BY <1>0, <1>o, <2>3, <2>4 DEF TypeOK, EntryKnown
<1> QED
  BY <1>1, <1>2, <1>3, <1>4, Kinds
-----------------------------------------------------------------------------
(* The ring of a front that has just linked it, ...                        *)
LEMMA RingLinked ==
  ASSUME TypeOK, RingsKnown, NEW f \in Front,
         link' = [link EXCEPT ![f] = [i \in 0 .. Size - 1 |-> first + i]],
         active' = [active EXCEPT ![f] = BackOffset], UNCHANGED listVars
  PROVE  /\ RingKnown(f)' /\ Pos(f)' = first + BackOffset
         /\ \A d \in Offsets : SlotAt(f, d)' = BackOffset + d
<1>0. /\ link \in [Front -> [0 .. Size - 1 -> Int] \cup {<<>>}]
      /\ active \in [Front -> 0 .. Size - 1] /\ first \in Int
      /\ first .. first + Size \subseteq DOMAIN oldP
      /\ first' = first /\ oldP' = oldP
  BY DEF TypeOK, DataType, RingsKnown, listVars
<1>1. /\ link'[f] = [i \in 0 .. Size - 1 |-> first + i] /\ active'[f] = BackOffset
  BY <1>0
<1>2. ASSUME NEW d \in Offsets
      PROVE  /\ SlotAt(f, d)' = BackOffset + d
             /\ link'[f][SlotAt(f, d)'] = first + BackOffset + d
  <2>1. /\ BackOffset + d \in 0 .. Size - 1 /\ Size \in Nat \ {0}
        /\ BackOffset + Size + d = (BackOffset + d) + Size
    BY Bounds DEF Offsets
  <2>2. \A k \in 0 .. Size - 1 : (k + Size) % Size = k
    BY <2>1
  <2>3. SlotAt(f, d)' = BackOffset + d
    BY <1>1, <2>1, <2>2 DEF SlotAt
  <2>4. link'[f][BackOffset + d] = first + (BackOffset + d)
    BY <1>1, <2>1
  <2>5. first + (BackOffset + d) = first + BackOffset + d
    BY <1>0, Bounds DEF Offsets
  <2> QED BY <2>3, <2>4, <2>5
<1>3. Pos(f)' = first + BackOffset
  BY <1>0, <1>1, Bounds DEF Pos
<1>4. first' .. Pos(f)' + FrontOffset \subseteq DOMAIN oldP'
  BY <1>0, <1>3, Bounds
<1>5. Pos(f)' - BackOffset >= first'
  BY <1>0, <1>3, Bounds
<1> QED BY <1>2, <1>3, <1>4, <1>5 DEF RingKnown

(* ... and of one that has advanced.                                       *)
LEMMA RingAdvanced ==
  ASSUME TypeOK, RingsKnown, NEW f \in Front, link[f] # <<>>, Advance(f)
  PROVE  /\ RingKnown(f)' /\ Pos(f)' = Pos(f) + 1
         /\ \A d \in Offsets :
              d # FrontOffset => d + 1 \in Offsets /\ SlotAt(f, d)' = SlotAt(f, d + 1)
         /\ SlotAt(f, FrontOffset)' = SlotAt(f, -BackOffset)
<1>0. /\ link \in [Front -> [0 .. Size - 1 -> Int] \cup {<<>>}]
      /\ active \in [Front -> 0 .. Size - 1] /\ first \in Int
      /\ DataType /\ Pos(f) - BackOffset >= first
      /\ first .. Pos(f) + FrontOffset \subseteq DOMAIN oldP
  BY DEF TypeOK, DataType, RingsKnown, RingKnown
<1>1. /\ active[f] \in 0 .. Size - 1 /\ link[f] \in [0 .. Size - 1 -> Int]
      /\ Pos(f) \in Int
      /\ \A d \in Offsets : SlotAt(f, d) \in 0 .. Size - 1
      /\ \A d \in Offsets : link[f][SlotAt(f, d)] = Pos(f) + d
  BY PlaceListed
<1>2. /\ link' = [link EXCEPT ![f] = [@ EXCEPT ![SlotAt(f, -BackOffset)] = Ahead(f)]]
      /\ newP' = Extended(newP, {Ahead(f)}) /\ oldP' = Extended(oldP, {Ahead(f)})
      /\ active' = [active EXCEPT ![f] = After(@, 1)]
      /\ Ahead(f) \in Int /\ first' = first
  BY AdvanceFacts
<1>3. /\ link'[f] = [link[f] EXCEPT ![SlotAt(f, -BackOffset)] = Ahead(f)]
      /\ active'[f] = After(active[f], 1)
  BY <1>0, <1>2
<1>4. /\ active'[f] \in 0 .. Size - 1
      /\ \A d \in Offsets :
           d # FrontOffset => d + 1 \in Offsets /\ SlotAt(f, d)' = SlotAt(f, d + 1)
      /\ SlotAt(f, FrontOffset)' = SlotAt(f, -BackOffset)
      /\ \A d, e \in Offsets : SlotAt(f, d) = SlotAt(f, e) => d = e
  <2> DEFINE a == active[f]
  <2>1. a \in 0 .. Size - 1
    BY <1>1
  <2> HIDE DEF a
  <2>2. /\ After(a, 1) \in 0 .. Size - 1
        /\ \A d \in Offsets : d # FrontOffset =>
              d + 1 \in Offsets /\ SlotFrom(After(a, 1), d) = SlotFrom(a, d + 1)
        /\ SlotFrom(After(a, 1), FrontOffset) = SlotFrom(a, -BackOffset)
        /\ \A d, e \in Offsets : SlotFrom(a, d) = SlotFrom(a, e) => d = e
    BY <2>1, RingSlots
  <2>3. /\ \A d : SlotAt(f, d) = SlotFrom(a, d)
        /\ \A d : SlotAt(f, d)' = SlotFrom(After(a, 1), d)
    BY <1>3 DEF SlotAt, SlotFrom, a
  <2> QED BY <1>3, <2>2, <2>3 DEF a
<1>b. /\ FrontOffset \in Nat /\ BackOffset \in Nat /\ 0 \in Offsets
      /\ -BackOffset \in Offsets /\ FrontOffset \in Offsets
      /\ \A d \in Offsets : d \in Int /\ d + 1 # -BackOffset
  BY Bounds DEF Offsets
<1>5. ASSUME NEW d \in Offsets
      PROVE  link'[f][SlotAt(f, d)'] = Pos(f) + 1 + d
  <2>1. CASE d = FrontOffset
    <3>1. SlotAt(f, d)' = SlotAt(f, -BackOffset) /\ SlotAt(f, -BackOffset) \in 0 .. Size - 1
      BY <1>1, <1>4, <1>b, <2>1
    <3>2. link'[f][SlotAt(f, d)'] = Ahead(f)
      BY <1>1, <1>3, <3>1
    <3> QED BY <1>1, <1>b, <2>1, <3>2 DEF Ahead
  <2>2. CASE d # FrontOffset
    <3>1. d + 1 \in Offsets /\ SlotAt(f, d)' = SlotAt(f, d + 1)
      BY <1>4, <2>2
    <3>2. SlotAt(f, d + 1) # SlotAt(f, -BackOffset)
      BY <1>4, <1>b, <3>1
    <3>3. link'[f][SlotAt(f, d)'] = link[f][SlotAt(f, d + 1)]
      BY <1>1, <1>3, <3>1, <3>2
    <3> QED BY <1>1, <1>b, <3>1, <3>3
  <2> QED BY <2>1, <2>2
<1>6. Pos(f)' = Pos(f) + 1
  <2>1. SlotAt(f, 0)' = active'[f]
    BY <1>4, RingSlots DEF SlotFrom, SlotAt
  <2>2. link'[f][active'[f]] = Pos(f) + 1 + 0
    BY <1>b, <1>5, <2>1
  <2>3. link'[f][active'[f]] = Pos(f) + 1
    BY <1>1, <2>2
  <2>4. Pos(f)' = link'[f][active'[f]]
    BY DEF Pos
  <2> QED BY <2>3, <2>4
<1>7. DOMAIN oldP' = DOMAIN oldP \cup {Ahead(f)}
  <2>1. {Ahead(f)} \in SUBSET Int
    BY <1>2
  <2> QED BY <1>0, <1>2, <2>1, ListsExtended
<1>8. first' .. Pos(f)' + FrontOffset \subseteq DOMAIN oldP'
  <2>1. ASSUME NEW i \in first' .. Pos(f)' + FrontOffset PROVE i \in DOMAIN oldP'
    <3>1. i \in first .. Pos(f) + FrontOffset \/ i = Ahead(f)
      BY SMTT(30), <1>0, <1>1, <1>2, <1>6, <1>b DEF Ahead
    <3> QED BY <1>0, <1>7, <3>1
  <2> QED BY <2>1
<1>9. Pos(f)' - BackOffset >= first'
  <2>1. first \in Int /\ BackOffset \in Int /\ Pos(f) \in Int /\ Pos(f) - BackOffset >= first
    BY <1>0, <1>1, <1>b
  <2>2. (Pos(f) + 1) - BackOffset >= first
    BY <2>1
  <2> QED BY <1>2, <1>6, <2>2
<1> QED BY <1>4, <1>5, <1>6, <1>8, <1>9 DEF RingKnown

(* The others are not touched.                                             *)
LEMMA RingKept ==
  ASSUME TypeOK, RingsKnown, NEW f \in Front, link[f] # <<>>,
         link'[f] = link[f], active'[f] = active[f], first' \in Int, first' <= first,
         DOMAIN oldP \subseteq DOMAIN oldP', first' .. first - 1 \subseteq DOMAIN oldP'
  PROVE  /\ RingKnown(f)' /\ Pos(f)' = Pos(f)
         /\ \A d \in Offsets : SlotAt(f, d)' = SlotAt(f, d)
<1>0. /\ RingKnown(f) /\ first \in Int /\ Pos(f) \in Int
      /\ BackOffset \in Nat /\ FrontOffset \in Nat
  BY PlaceListed, Bounds DEF RingsKnown, TypeOK, DataType
<1>1. Pos(f)' = Pos(f)
  BY DEF Pos
<1>2. \A d \in Offsets : SlotAt(f, d)' = SlotAt(f, d)
  BY DEF SlotAt
<1>3. \A d \in Offsets : link'[f][SlotAt(f, d)'] = Pos(f)' + d
  BY <1>0, <1>1, <1>2 DEF RingKnown
<1>4. Pos(f)' - BackOffset >= first'
  BY <1>0, <1>1 DEF RingKnown
<1>5. ASSUME NEW i \in first' .. Pos(f)' + FrontOffset PROVE i \in DOMAIN oldP'
  <2>1. i \in first' .. first - 1 \/ i \in first .. Pos(f) + FrontOffset
    BY <1>0, <1>1
  <2> QED BY <1>0, <2>1 DEF RingKnown
<1> QED BY <1>1, <1>2, <1>3, <1>4, <1>5 DEF RingKnown

LEMMA Intervals ==
  \A a, b \in Int : \A n \in Nat : \A i \in a .. a + n :
     a <= b => i \in a .. b - 1 \/ i \in b .. b + n
  OBVIOUS

LEMMA RingsKept ==
  ASSUME TypeOK, RingsKnown, NEW t \in Thread, Step(t), first' \in Int, first' <= first,
         DOMAIN oldP \subseteq DOMAIN oldP', first' .. first - 1 \subseteq DOMAIN oldP',
         UNCHANGED <<link, active>>, t \in Front /\ pc'[t] \in Live => pc[t] \in Live
  PROVE  RingsKnown'
<1>0. /\ setup \in Setups /\ setup' = setup /\ Others(t) /\ first \in Int
      /\ Thread' = Thread /\ Front' = Front /\ Front \subseteq Thread /\ Size \in Nat
  BY ControlStep, SameThreads, Threads, Bounds DEF Step, TypeOK, ControlType, DataType
<1>1. ASSUME NEW f \in Front, link'[f] # <<>> PROVE RingKnown(f)'
  BY <1>1, RingKept
<1>2. ASSUME NEW f \in Front, pc'[f] \in Live PROVE link'[f] # <<>>
  <2>1. pc[f] \in Live
    <3>1. CASE f = t
      BY <1>2, <3>1
    <3>2. CASE f # t
      BY <1>0, <1>2, <3>2 DEF Others, Roused, Live, Sweeping, Checking
    <3> QED BY <3>1, <3>2
  <2> QED BY <2>1 DEF RingsKnown
<1>3. ASSUME NEW i \in first' .. first' + Size PROVE i \in DOMAIN oldP'
  <2>1. i \in first' .. first - 1 \/ i \in first .. first + Size
    <3>1. first \in Int /\ first' \in Int /\ first' <= first /\ Size \in Nat
      BY <1>0
    <3> QED BY <3>1, Intervals
  <2> QED BY <2>1 DEF RingsKnown
<1> QED BY <1>0, <1>1, <1>2, <1>3 DEF RingsKnown

(* Only one front at a time moves its ring.                                *)
LEMMA RingsMoved ==
  ASSUME TypeOK, RingsKnown, NEW f \in Front, Step(f), first' = first,
         DOMAIN oldP \subseteq DOMAIN oldP',
         \A g \in Front \ {f} : link'[g] = link[g] /\ active'[g] = active[g],
         RingKnown(f)', link'[f] # <<>>
  PROVE  RingsKnown'
<1>0. /\ setup \in Setups /\ setup' = setup /\ f \in Thread /\ Others(f) /\ first \in Int
      /\ Thread' = Thread /\ Front' = Front /\ Front \subseteq Thread /\ Size \in Nat
  BY ControlStep, SameThreads, Threads, Bounds DEF Step, TypeOK, ControlType, DataType
<1>1. ASSUME NEW g \in Front, link'[g] # <<>> PROVE RingKnown(g)'
  <2>1. first .. first - 1 = {}
    BY <1>0
  <2>2. CASE g # f
    BY <1>0, <1>1, <2>1, <2>2, RingKept
  <2> QED BY <2>2
<1>2. ASSUME NEW g \in Front, pc'[g] \in Live PROVE link'[g] # <<>>
  <2>1. CASE g # f
    <3>1. pc[g] \in Live
      BY <1>0, <1>2, <2>1 DEF Others, Roused, Live, Sweeping, Checking
    <3> QED BY <2>1, <3>1 DEF RingsKnown
  <2> QED BY <2>1
<1> QED BY <1>0, <1>1, <1>2 DEF RingsKnown

LEMMA CheckLists ==
  ASSUME TypeOK, NEW t \in Thread, CheckStates(t)
  PROVE  /\ DOMAIN newP' = DOMAIN newP /\ DOMAIN oldP' = DOMAIN oldP
         /\ UNCHANGED <<first, link, active>>
<1>0. newP \in [DOMAIN newP -> SUBSET Marking] /\ oldP \in [DOMAIN oldP -> SUBSET Marking]
  BY DEF TypeOK, DataType
<1>1. UNCHANGED <<first, link, active>>
  BY CheckFacts
<1>2. oldP' = oldP \/ \E i, M : oldP' = [oldP EXCEPT ![i] = M]
  BY DEF CheckStates, Loop, Pop, PopNew, Keep, KeepOld, LookOld, LookNew, LookSame, LookStore,
         Look, Insert, InsertNew, Solved, listVars
<1>3. newP' = newP \/ \E i, M : newP' = [newP EXCEPT ![i] = M]
  BY DEF CheckStates, Loop, Pop, PopNew, Keep, KeepOld, LookOld, LookNew, LookSame, LookStore,
         Look, Insert, InsertNew, Solved, listVars
<1> QED BY <1>0, <1>1, <1>2, <1>3

LEMMA RingNotEmpty ==
  \A r \in [0 .. Size - 1 -> Int] : r # <<>>
<1>1. 0 \in 0 .. Size - 1
  BY Bounds
<1>2. DOMAIN <<>> = {}
  OBVIOUS
<1> QED BY <1>1, <1>2

LEMMA RingsStep ==
  ASSUME TypeOK, RingsKnown, NEW t \in Thread, Step(t)
  PROVE  RingsKnown'
<1>0. /\ DataType /\ first \in Int /\ first .. first - 1 = {} /\ Others(t)
      /\ pc \in [Thread -> FrontLabel \cup HelperLabel]
      /\ link \in [Front -> [0 .. Size - 1 -> Int] \cup {<<>>}]
      /\ active \in [Front -> 0 .. Size - 1]
      /\ \A u \in Thread : u \in Front => u \notin Helper
  <2>1. Others(t)
    BY ControlStep
  <2>2. \A u \in Thread : u \in Front => u \notin Helper
    BY Threads DEF TypeOK, ControlType
  <2>3. /\ DataType /\ first \in Int /\ pc \in [Thread -> FrontLabel \cup HelperLabel]
        /\ link \in [Front -> [0 .. Size - 1 -> Int] \cup {<<>>}]
        /\ active \in [Front -> 0 .. Size - 1]
    BY DEF TypeOK, DataType, ControlType
  <2> QED BY <2>1, <2>2, <2>3
<1> USE DEF listVars, ringVars, frontVars, idleVars, workVars, endVars
<1>1. CASE CheckStates(t)
  <2>1. /\ DOMAIN oldP' = DOMAIN oldP /\ UNCHANGED <<first, link, active>>
        /\ pc[t] \in Checking
    BY <1>1, CheckLists, CheckFacts
  <2>2. pc[t] \in Live
    BY <2>1 DEF Live, Sweeping
  <2> QED BY <1>0, <2>1, <2>2, RingsKept
<1>2. CASE t \in Front /\ Plain(t)
  <2>1. CASE Link(t)
    <3>1. CASE exit
      <4>1. UNCHANGED <<listVars, active, link>> /\ pc'[t] = "end"
        BY <1>0, <2>1, <3>1 DEF Link, LinkFor, Goto
      <4> QED BY <1>0, <4>1, RingsKept DEF Live, Sweeping, Checking
    <3>2. CASE ~exit
      <4>1. /\ UNCHANGED listVars
            /\ link' = [link EXCEPT ![t] = [i \in 0 .. Size - 1 |-> first + i]]
            /\ active' = [active EXCEPT ![t] = BackOffset]
        BY <2>1, <3>2 DEF Link, LinkFor
      <4>2. RingKnown(t)'
        BY <1>2, <4>1, RingLinked
      <4>3. link'[t] # <<>>
        <5>1. link'[t] = [i \in 0 .. Size - 1 |-> first + i]
          BY <1>0, <1>2, <4>1
        <5>2. link'[t] \in [0 .. Size - 1 -> Int]
          BY <1>0, <5>1, Bounds
        <5> QED BY <5>2, RingNotEmpty
      <4> QED BY <1>0, <1>2, <4>1, <4>2, <4>3, RingsMoved
    <3> QED BY <3>1, <3>2
  <2>2. CASE Advance(t)
    <3>1. pc[t] = "advance"
      BY <2>2 DEF Advance, AdvanceKeeping
    <3>2. link[t] # <<>>
      BY <1>2, <3>1 DEF RingsKnown, Live, Sweeping
    <3>3. RingKnown(t)'
      BY <1>2, <2>2, <3>2, RingAdvanced
    <3>4. /\ link' = [link EXCEPT ![t] = [@ EXCEPT ![SlotAt(t, -BackOffset)] = Ahead(t)]]
          /\ newP' = Extended(newP, {Ahead(t)}) /\ oldP' = Extended(oldP, {Ahead(t)})
          /\ active' = [active EXCEPT ![t] = After(@, 1)]
          /\ Ahead(t) \in Int /\ first' = first
      BY <1>2, <2>2, <3>2, AdvanceFacts
    <3>5. DOMAIN oldP \subseteq DOMAIN oldP'
      <4>1. {Ahead(t)} \in SUBSET Int
        BY <3>4
      <4>2. DOMAIN oldP' = DOMAIN oldP \cup {Ahead(t)}
        BY <1>0, <3>4, <4>1, ListsExtended
      <4> QED BY <4>2
    <3>6. link'[t] # <<>>
      <4>1. link[t] \in [0 .. Size - 1 -> Int] /\ 0 \in 0 .. Size - 1
        BY <1>0, <1>2, <3>2, Bounds
      <4>2. link'[t] = [link[t] EXCEPT ![SlotAt(t, -BackOffset)] = Ahead(t)]
        BY <1>0, <1>2, <3>4
      <4> DEFINE r == link[t]
                 i == SlotAt(t, -BackOffset)
                 x == Ahead(t)
      <4>3. x \in Int /\ r \in [0 .. Size - 1 -> Int]
        BY <3>4, <4>1
      <4> HIDE DEF r, i, x
      <4>4. [r EXCEPT ![i] = x] \in [0 .. Size - 1 -> Int]
        BY <4>3, ValueChanged
      <4>5. link'[t] \in [0 .. Size - 1 -> Int]
        BY <4>2, <4>4 DEF r, i, x
      <4> QED BY <4>5, RingNotEmpty
    <3> QED BY <1>0, <1>2, <3>3, <3>4, <3>5, <3>6, RingsMoved
  <2>3. CASE Extend(t) \/ Finish(t)
    <3>1. /\ UNCHANGED listVars \/ \E n \in Nat : ExtendLeft(n)
          /\ UNCHANGED <<link, active>>
      BY <1>2, <2>3, LeftExtended
    <3>2. pc[t] \in Live
      BY <2>3 DEF Extend, Finish, Live, Sweeping
    <3>3. CASE UNCHANGED listVars
      BY <1>0, <3>1, <3>2, <3>3, RingsKept
    <3>4. CASE \E n \in Nat : ExtendLeft(n)
      <4>1. PICK n \in Nat : ExtendLeft(n)
        BY <3>4
      <4>2. /\ first' = first - n
            /\ newP' = Extended(newP, first' .. first - 1)
            /\ oldP' = Extended(oldP, first' .. first - 1)
        BY <4>1 DEF ExtendLeft
      <4>3. first' \in Int /\ first' <= first /\ first' .. first - 1 \in SUBSET Int
        BY <1>0, <4>2
      <4>4. DOMAIN oldP' = DOMAIN oldP \cup (first' .. first - 1)
        BY <1>0, <4>2, <4>3, ListsExtended
      <4> QED BY <3>1, <3>2, <4>3, <4>4, RingsKept
    <3> QED BY <3>1, <3>3, <3>4
  <2>4. CASE ~Link(t) /\ ~Advance(t) /\ ~(Extend(t) \/ Finish(t))
    <3>1. UNCHANGED <<listVars, active, link>>
      BY <1>2, <2>4 DEF Plain, Again, MayBegin, MayAdvance, MayGoOn, Run, Drained, Quit, Post,
                        Deinit, HandOver
    <3>2. pc'[t] \in Live => pc[t] \in Live
      BY <1>0, <1>2, <2>4
      DEF Plain, Again, MayBegin, MayAdvance, MayGoOn, Run, Drained, Quit, Post,
          Deinit, HandOver, Goto, Live, Sweeping, Checking
    <3> QED BY <1>0, <3>1, <3>2, RingsKept
  <2> QED BY <2>1, <2>2, <2>3, <2>4
<1>3. CASE Alone(t)
  <2>1. UNCHANGED <<listVars, active, link>>
    BY <1>3, AloneFacts
  <2>2. t \in Front /\ pc'[t] \in Live => pc[t] \in Live
    BY <1>0, <1>3
    DEF Alone, Initialise, InitCheck, Terminate, Return, Begin, Busy, Draw, Drain, End,
        Goto, Live, Sweeping, Checking
  <2> QED BY <1>0, <2>1, <2>2, RingsKept
<1>4. CASE Waker(t)
  <2>1. WakerStep(t)
    BY <1>4, WakerFacts
  <2>2. /\ UNCHANGED <<listVars, ringVars>>
        /\ pc'[t] \in Live => pc[t] \in Live
    BY <2>1 DEF WakerStep, Live, Sweeping, Checking
  <2> QED BY <1>0, <2>2, RingsKept
<1> QED
  BY <1>1, <1>2, <1>3, <1>4, Kinds
-----------------------------------------------------------------------------
LEMMA TypeInit ==
  Init => TypeOK /\ RingsKnown
<1> SUFFICES ASSUME Init PROVE TypeOK /\ RingsKnown
  OBVIOUS
<1>0. setup \in Setups
  BY DEF Init
<1>n. /\ NumThreads \in Nat /\ Initial \in Marking
      /\ 0 \in Front /\ Front \subseteq Thread /\ Helper \subseteq Thread
      /\ \A f \in Front : FrontOf(f) = f
      /\ \A t \in Thread : FrontOf(t) \in Front
  BY <1>0, Threads, FrontsRing
<1>b. /\ BackOffset \in Nat /\ FrontOffset \in Nat /\ Size \in Nat \ {0}
      /\ Size = FrontOffset + BackOffset + 1
  BY Bounds
<1>1. ControlType
  <2>1. /\ exit = FALSE /\ running = NumThreads /\ terminating = NumThreads
        /\ helpers = [f \in Front |-> 0]
        /\ pc = [t \in Thread |-> "init"] /\ idle = [t \in Thread |-> TRUE]
        /\ call = [t \in Thread |-> FALSE] /\ frontptr = [t \in Thread |-> FrontOf(t)]
        /\ glance = [t \in Thread |-> FALSE] /\ todo = [t \in Thread |-> {}]
        /\ found = [t \in Thread |-> FALSE]
    BY DEF Init
  <2>2. "init" \in FrontLabel /\ "init" \in HelperLabel
    BY DEF FrontLabel, HelperLabel, Waiting
  <2>3. /\ pc \in [Thread -> FrontLabel \cup HelperLabel]
        /\ \A f \in Front : pc[f] = "init" /\ frontptr[f] = f
        /\ \A h \in Helper : pc[h] \in HelperLabel
    BY <1>n, <2>1, <2>2
  <2>4. /\ exit \in BOOLEAN /\ running \in Int /\ terminating \in Int
        /\ helpers \in [Front -> Int] /\ todo \in [Thread -> SUBSET Thread]
    <3>1. running \in Int /\ terminating \in Int
      BY <1>n, <2>1
    <3>2. helpers \in [Front -> Int]
      BY <2>1
    <3>3. todo \in [Thread -> SUBSET Thread]
      BY <2>1
    <3>4. exit \in BOOLEAN
      BY <2>1
    <3> QED BY <3>1, <3>2, <3>3, <3>4
  <2>6. /\ idle \in [Thread -> BOOLEAN] /\ call \in [Thread -> BOOLEAN]
        /\ glance \in [Thread -> BOOLEAN] /\ found \in [Thread -> BOOLEAN]
    BY <2>1, Zenon
  <2>5. frontptr \in [Thread -> Front]
    BY <1>n, <2>1
  <2> QED BY <1>0, <2>2, <2>3, <2>4, <2>5, <2>6 DEF ControlType
<1>2. DataType
  <2>1. /\ first = -BackOffset /\ newP = [i \in first .. first + Size |-> {}]
        /\ oldP = [i \in first .. first + Size |-> {}]
        /\ samevalue = [f \in Front |-> {}] /\ fresh = [f \in Front |-> TRUE]
        /\ frontrunner = [f \in Front |-> f = 0] /\ sem = [f \in Front |-> 0]
        /\ back = [f \in Front |-> BackOffset] /\ countdown = [f \in Front |-> Size - 1]
        /\ active = [f \in Front |-> BackOffset]
        /\ ns = [t \in Thread |-> Initial] /\ entry = [t \in Thread |-> 0]
        /\ tried = [t \in Thread |-> {}]
    BY DEF Init
  <2>2. store \in [Front -> [0 .. Size - 1 -> SUBSET Marking]]
    <3>1. store = [f \in Front |-> IF f = 0 THEN [EmptyRing EXCEPT ![BackOffset] = {Initial}]
                                  ELSE EmptyRing]
      BY DEF Init
    <3>2. EmptyRing \in [0 .. Size - 1 -> SUBSET Marking] /\ {Initial} \in SUBSET Marking
      BY <1>n DEF EmptyRing
    <3>3. [EmptyRing EXCEPT ![BackOffset] = {Initial}] \in [0 .. Size - 1 -> SUBSET Marking]
      BY <3>2, ListChanged
    <3> HIDE DEF EmptyRing
    <3> QED BY <3>1, <3>2, <3>3
  <2>3. link \in [Front -> [0 .. Size - 1 -> Int] \cup {<<>>}]
    <3>1. link = [f \in Front |-> IF f = 0 THEN [i \in 0 .. Size - 1 |-> first + i] ELSE <<>>]
      BY DEF Init
    <3>2. [i \in 0 .. Size - 1 |-> first + i] \in [0 .. Size - 1 -> Int]
      BY <1>b, <2>1
    <3> QED BY <3>1, <3>2
  <2>4. BackOffset \in 0 .. Size - 1 /\ Size - 1 \in 0 .. Size - 1
    BY <1>b
  <2>5. /\ DOMAIN oldP = first .. first + Size /\ DOMAIN newP = DOMAIN oldP
        /\ DOMAIN oldP \subseteq Int /\ first \in Int
        /\ newP \in [DOMAIN newP -> SUBSET Marking] /\ oldP \in [DOMAIN oldP -> SUBSET Marking]
    BY <1>b, <2>1
  <2>6. /\ active \in [Front -> 0 .. Size - 1] /\ back \in [Front -> 0 .. BackOffset]
        /\ countdown \in [Front -> 0 .. Size - 1]
    BY <1>b, <2>1, <2>4
  <2> QED BY <1>n, <2>1, <2>2, <2>3, <2>5, <2>6 DEF DataType
<1>3. \A t \in Thread : pc[t] \notin Firing /\ pc[t] \notin Live
  BY DEF Init, Firing, Past, Checking, Live, Sweeping
<1>4. TypeOK
  BY <1>1, <1>2, <1>3 DEF TypeOK
<1>5. /\ first = -BackOffset /\ DOMAIN oldP = first .. first + Size
      /\ link[0] = [i \in 0 .. Size - 1 |-> first + i] /\ active[0] = BackOffset
      /\ \A f \in Front : link[f] # <<>> => f = 0
  <2>1. /\ first = -BackOffset
        /\ oldP = [i \in first .. first + Size |-> {}]
        /\ active = [f \in Front |-> BackOffset]
        /\ link = [f \in Front |-> IF f = 0 THEN [i \in 0 .. Size - 1 |-> first + i] ELSE <<>>]
    BY DEF Init
  <2> QED BY <1>n, <2>1
<1>6. RingKnown(0)
  <2>1. Pos(0) = 0
    BY <1>b, <1>5 DEF Pos
  <2>2. ASSUME NEW d \in Offsets PROVE link[0][SlotAt(0, d)] = d
    <3>1. /\ BackOffset + d \in 0 .. Size - 1 /\ d \in Int
          /\ BackOffset + Size + d = (BackOffset + d) + Size
      BY <1>b DEF Offsets
    <3>2. \A k \in 0 .. Size - 1 : (k + Size) % Size = k
      BY <1>b
    <3>3. SlotAt(0, d) = BackOffset + d
      BY <1>5, <3>1, <3>2 DEF SlotAt
    <3> QED BY <1>b, <1>5, <3>1, <3>3
  <2>3. first .. Pos(0) + FrontOffset \subseteq DOMAIN oldP
    BY <1>b, <1>5, <2>1
  <2>4. Pos(0) - BackOffset >= first
    BY <1>b, <1>5, <2>1
  <2>5. \A d \in Offsets : Pos(0) + d = d
    BY <1>b, <2>1 DEF Offsets
  <2> QED BY <2>2, <2>3, <2>4, <2>5 DEF RingKnown
<1>7. RingsKnown
  BY <1>n, <1>3, <1>5, <1>6 DEF RingsKnown
<1> QED BY <1>4, <1>7

LEMMA TypeSame ==
  TypeOK /\ RingsKnown /\ UNCHANGED <<setup, listVars, ringVars, frontVars, idleVars, workVars,
                                     exit, running, terminating, pc>> =>
    TypeOK' /\ RingsKnown'
<1> SUFFICES ASSUME TypeOK, RingsKnown, UNCHANGED <<setup, listVars, ringVars, frontVars,
                      idleVars, workVars, exit, running, terminating, pc>>
             PROVE  TypeOK' /\ RingsKnown'
  OBVIOUS
<1> USE DEF listVars, ringVars, frontVars, idleVars, workVars
<1>1. /\ Thread' = Thread /\ Front' = Front /\ Helper' = Helper
  BY SameThreads DEF TypeOK, ControlType
<1>2. ControlType'
  BY <1>1 DEF TypeOK, ControlType
<1>3. DataType'
  BY <1>1 DEF TypeOK, DataType
<1>4. RingsKnown'
  <2>1. ASSUME NEW f PROVE RingKnown(f)' <=> RingKnown(f)
    BY DEF RingKnown, Pos, SlotAt
  <2> QED BY <1>1, <2>1 DEF RingsKnown
<1> QED BY <1>1, <1>2, <1>3, <1>4 DEF TypeOK

(* Type correctness.  It needs to be known that the slots of a ring point  *)
(* to places which are in the lists.                                       *)
THEOREM TypeCorrect == Spec => []TypeOK
<1>1. Init => TypeOK /\ RingsKnown
  BY TypeInit
<1>2. TypeOK /\ RingsKnown /\ [Next]_vars => (TypeOK /\ RingsKnown)'
  <2> SUFFICES ASSUME TypeOK, RingsKnown, [Next]_vars PROVE (TypeOK /\ RingsKnown)'
    OBVIOUS
  <2>1. ASSUME NEW t \in Thread, Step(t) PROVE (TypeOK /\ RingsKnown)'
    BY <2>1, TypeStep, RingsStep
  <2>2. CASE Join \/ Stop \/ UNCHANGED vars
    <3>1. UNCHANGED <<setup, listVars, ringVars, frontVars, idleVars, workVars,
                      exit, running, terminating, pc>>
      BY <2>2 DEF Join, Stop, vars, endVars
    <3> QED BY <3>1, TypeSame
  <2> QED BY <2>1, <2>2 DEF Next
<1> QED BY <1>1, <1>2, PTL DEF Spec
-----------------------------------------------------------------------------
AfterAgain(f) == \/ exit /\ pc'[f] = "end"
                 \/ NumFronts > 1 /\ pc'[f] = "mayBegin"
                 \/ ~(NumFronts > 1) /\ pc'[f] = "link"

(* From where to where a thread goes, ...                                  *)
Labels(t) ==
  /\ pc[t] = "init" =>
       /\ running' = running - 1
       /\ pc'[t] = IF running' = 0 THEN "startFirst" ELSE "initCheck"
  /\ pc[t] # "init" => running' = running /\ pc'[t] # "startFirst"
  /\ pc[t] = "startFirst" => pc'[t] = "initCheck"
  /\ pc[t] = "initCheck" =>
       /\ pc'[t] = IF idle[t] /\ ~exit THEN "initAsleep" ELSE IF t = 0 THEN "startFronts"
                   ELSE IF t \in Front THEN "begin" ELSE "outer"
       /\ t = 0 => todo'[0] = Front \ {0}
  /\ pc[t] # "initAsleep" /\ pc'[t] # "init"
  /\ pc'[t] \in Waiting => pc[t] \in Waiting
  /\ pc'[t] = "startFronts" => pc[t] \in {"initCheck", "startFronts"}
  /\ pc[t] = "startFronts" => todo'[t] \subseteq todo[t]
  /\ pc'[t] = "begin" => pc[t] \in {"initCheck", "startFronts"}
  /\ pc[t] = "begin" => pc'[t] = "again" /\ idle'[t]
  /\ pc[t] = "again" => AfterAgain(t)
  /\ pc[t] = "mayBegin" => pc'[t] = "link" /\ (frontrunner[t] \/ sem[Pred(t)] > 0)
  /\ pc[t] = "link" => pc'[t] = "run" \/ (exit /\ pc'[t] = "end")
  /\ pc'[t] \in Between => pc[t] \in Between \cup {"begin", "deinit", "handOver"}
  /\ pc'[t] \in Ended => pc[t] \in Ended \/ exit

(* ... and where the end of the search is told.                            *)
Ends(t) ==
  /\ found'[t] => found[t] \/ exit'
  /\ (exit => exit') /\ (exit' # exit => pc[t] \in {"solved", "deinit"})
  /\ pc'[t] = "run" => pc[t] \in {"link", "advance", "post"}
  /\ pc'[t] = "busy" => pc[t] = "run"
  /\ pc'[t] \in {"quit", "extend", "mayAdvance", "advance", "post"} =>
       \/ pc[t] \in {"quit", "extend", "mayAdvance", "advance", "post"}
       \/ pc[t] = "drained" /\ helpers[t] = 0
       \/ Helper = {}
  /\ pc'[t] \in {"deinit", "handOver"} =>
       \/ pc[t] \in {"quit", "advance", "deinit"}
       \/ pc[t] = "run" /\ exit
  /\ pc'[t] = "handOver" => pc[t] = "deinit"
  /\ t \in Front /\ pc'[t] \in Checking \cup {"drain", "drained", "quit"} =>
       pc'[t] = "loop" \/ pc[t] \in Checking \cup {"drain", "drained"}
  /\ pc'[t] \in {"extend", "mayAdvance", "advance"} =>
       pc[t] \in {"extend", "mayAdvance"} \/ (pc[t] = "quit" /\ ~exit)

LEMMA CheckMoves ==
  ASSUME TypeOK, NEW t \in Thread, CheckStates(t)
  PROVE  Labels(t) /\ Ends(t)
<1>0. /\ pc \in [Thread -> FrontLabel \cup HelperLabel] /\ exit \in BOOLEAN
      /\ found \in [Thread -> BOOLEAN] /\ setup \in Setups
  BY DEF TypeOK, ControlType, DataType
<1>1. /\ pc[t] \in Checking
      /\ pc'[t] \in Checking \cup {Checked(t)}
      /\ UNCHANGED running
      /\ exit' \in BOOLEAN /\ (exit => exit') /\ (exit' # exit => pc[t] = "solved")
  BY CheckFacts
<1>2. Checked(t) \in {"release", "drain", "quit"} /\ (Checked(t) = "quit" => Helper = {})
  BY <1>0, Threads DEF Checked
<1>3. Labels(t)
  BY <1>1, <1>2 DEF Labels, Checking, Waiting, Between, Ended
<1>4. found'[t] => found[t] \/ exit'
  <2>1. CASE Solved(t)
    BY <2>1 DEF Solved
  <2>2. CASE ~Solved(t)
    <3>1. found' = found
      BY <2>2 DEF CheckStates, Loop, Pop, PopNew, Keep, KeepOld, LookOld, LookNew, LookSame,
                  LookStore, Look, Insert, InsertNew, workVars
    <3> QED BY <3>1
  <2> QED BY <2>1, <2>2
<1>5. Ends(t)
  BY <1>1, <1>2, <1>4 DEF Ends, Checking
<1> QED BY <1>3, <1>5

LEMMA PlainMoves ==
  ASSUME TypeOK, NEW f \in Front, f \in Thread, Plain(f)
  PROVE  Labels(f) /\ Ends(f)
<1>0. /\ pc \in [Thread -> FrontLabel \cup HelperLabel] /\ exit \in BOOLEAN
      /\ fresh \in [Front -> BOOLEAN] /\ setup \in Setups
  BY DEF TypeOK, ControlType, DataType
<1>n. Helped <=> Helper # {}
  BY <1>0, Threads
<1> USE DEF Goto, listVars, ringVars, frontVars, idleVars, workVars, endVars, Labels, Ends,
            Waiting, Between, Ended, Checking
<1>1. CASE Again(f)
  <2>1. /\ pc[f] = "again" /\ idle' = idle
        /\ UNCHANGED <<exit, running, found>>
        /\ pc'[f] = IF exit THEN "end" ELSE IF NumFronts > 1 THEN "mayBegin" ELSE "link"
    BY <1>0, <1>1 DEF Again
  <2>2. AfterAgain(f)
    BY <2>1, Zenon DEF AfterAgain
  <2>3. pc'[f] \in {"end", "mayBegin", "link"} /\ (pc'[f] = "end" => exit)
    BY <2>1
  <2> QED BY <2>1, <2>2, <2>3
<1>2. CASE MayBegin(f)
  BY <1>0, <1>2 DEF MayBegin, MayGoOn
<1>3. CASE Link(f)
  BY <1>0, <1>3 DEF Link, LinkFor
<1>4. CASE Run(f)
  BY <1>0, <1>4 DEF Run
<1>5. CASE Drained(f)
  BY <1>0, <1>5 DEF Drained
<1>6. CASE Quit(f)
  BY <1>0, <1>6 DEF Quit
<1>7. CASE Extend(f)
  BY <1>0, <1>7 DEF Extend
<1>8. CASE MayAdvance(f)
  BY <1>0, <1>8 DEF MayAdvance, MayGoOn
<1>9. CASE Finish(f)
  BY <1>0, <1>9 DEF Finish
<1>10. CASE Advance(f)
  BY <1>0, <1>10 DEF Advance, AdvanceKeeping
<1>11. CASE Post(f)
  BY <1>0, <1>11 DEF Post
<1>12. CASE Deinit(f)
  BY <1>0, <1>12 DEF Deinit
<1>13. CASE HandOver(f)
  BY <1>0, <1>13 DEF HandOver
<1> QED
  BY <1>1, <1>2, <1>3, <1>4, <1>5, <1>6, <1>7, <1>8, <1>9, <1>10, <1>11, <1>12, <1>13
  DEF Plain

LEMMA WakerMoves ==
  ASSUME TypeOK, NEW t \in Thread, Waker(t)
  PROVE  Labels(t) /\ Ends(t)
<1>1. WakerStep(t)
  BY WakerFacts
<1>2. /\ UNCHANGED <<workVars, endVars>> /\ todo'[t] \subseteq todo[t]
      /\ \/ pc[t] = "startFirst" /\ pc'[t] = "initCheck"
         \/ pc[t] = "startFronts" /\ pc'[t] \in {"startFronts", "begin"}
         \/ pc[t] = "drawWake" /\ pc'[t] = "draw"
         \/ pc[t] = "tell" /\ pc'[t] \in {"tell", "loop"}
         \/ pc[t] = "dismiss" /\ pc'[t] \in {"dismiss", "terminate"}
  BY <1>1 DEF WakerStep
<1> QED BY <1>2 DEF Labels, Ends, Checking, Waiting, Between, Ended, workVars, endVars

LEMMA AloneMoves ==
  ASSUME TypeOK, NEW t \in Thread, Alone(t)
  PROVE  Labels(t) /\ Ends(t)
<1>0. /\ pc \in [Thread -> FrontLabel \cup HelperLabel] /\ idle \in [Thread -> BOOLEAN]
      /\ todo \in [Thread -> SUBSET Thread]
  BY DEF TypeOK, ControlType, DataType
<1>n. /\ \A u \in Thread : u \in Helper <=> u \notin Front
      /\ Front \subseteq Thread /\ Helper \subseteq Thread /\ 0 \in Thread
  BY Threads DEF TypeOK, ControlType
<1>e. /\ UNCHANGED <<exit, found>>
  BY AloneFacts DEF workVars
<1> USE DEF Goto, listVars, ringVars, frontVars, idleVars, workVars, endVars, Labels, Ends,
            Waiting, Between, Ended, Checking
<1>1. CASE Initialise(t)
  BY <1>0, <1>n, <1>1 DEF Initialise
<1>2. CASE InitCheck(t)
  <2>1. /\ pc[t] = "initCheck" /\ UNCHANGED <<exit, running, found>>
        /\ pc'[t] = IF idle[t] /\ ~exit THEN "initAsleep" ELSE IF t = 0 THEN "startFronts"
                    ELSE IF t \in Front THEN "begin" ELSE "outer"
        /\ t = 0 => todo'[0] = Front \ {0}
    BY <1>0, <1>n, <1>2 DEF InitCheck
  <2>2. pc'[t] \in {"initAsleep", "startFronts", "begin", "outer"}
    BY <2>1
  <2> QED BY <2>1, <2>2
<1>3. CASE Terminate(t)
  BY <1>0, <1>n, <1>3 DEF Terminate
<1>4. CASE Return(t)
  BY <1>0, <1>n, <1>4 DEF Return
<1>5. CASE t \in Front /\ Begin(t)
  BY <1>0, <1>n, <1>5 DEF Begin
<1>6. CASE t \in Front /\ Busy(t)
  BY <1>0, <1>n, <1>6 DEF Busy
<1>7. CASE t \in Front /\ Draw(t)
  BY <1>0, <1>n, <1>7 DEF Draw
<1>8. CASE t \in Front /\ Drain(t)
  BY <1>0, <1>n, <1>8 DEF Drain
<1>9. CASE t \in Front /\ End(t)
  BY <1>0, <1>n, <1>9 DEF End
<1>10. CASE t \in Helper /\ Outer(t)
  BY <1>0, <1>n, <1>10 DEF Outer
<1>11. CASE t \in Helper /\ Inner(t)
  BY <1>0, <1>n, <1>11 DEF Inner
<1>12. CASE t \in Helper /\ (Glance(t) \/ JoinFront(t))
  <2>1. /\ pc[t] \in {"glance", "join"} /\ pc'[t] \in {"read", "inner", "join", "work"}
        /\ UNCHANGED <<exit, running, found>>
    BY <1>0, <1>n, <1>12 DEF Glance, JoinFront, MoveOn
  <2> QED BY <2>1
<1>14. CASE t \in Helper /\ Work(t)
  BY <1>0, <1>n, <1>14 DEF Work
<1>15. CASE t \in Helper /\ Release(t)
  BY <1>0, <1>n, <1>15 DEF Release
<1>16. CASE t \in Helper /\ Back(t)
  BY <1>0, <1>n, <1>16 DEF Back
<1>17. CASE t \in Helper /\ Read(t)
  BY <1>0, <1>n, <1>17 DEF Read
<1>18. CASE t \in Helper /\ Nap(t)
  BY <1>0, <1>n, <1>18 DEF Nap, SleepOrGoOn
<1>19. CASE t \in Helper /\ Awake(t)
  BY <1>0, <1>n, <1>19 DEF Awake, SleepOrGoOn
<1> QED
  BY <1>1, <1>2, <1>3, <1>4, <1>5, <1>6, <1>7, <1>8, <1>9, <1>10, <1>11, <1>12, <1>14, <1>15, <1>16, <1>17, <1>18, <1>19
  DEF Alone

LEMMA Moves ==
  ASSUME TypeOK, NEW t \in Thread, Step(t)
  PROVE  Labels(t) /\ Ends(t)
<1>1. t \in Front => t \in Thread
  OBVIOUS
<1> QED BY <1>1, Kinds, CheckMoves, PlainMoves, WakerMoves, AloneMoves

(* How helpers come to a front and leave it, ...                           *)
AtWork == Checking \cup {"work", "release"}

Stays(t) ==
  /\ UNCHANGED helpers
  /\ t \in Helper => /\ pc[t] \in AtWork <=> pc'[t] \in AtWork
                     /\ pc[t] \in AtWork => frontptr'[t] = frontptr[t]
Joins(t) ==
  /\ t \in Helper /\ pc[t] = "join" /\ pc'[t] = "work" /\ ~idle[frontptr[t]]
  /\ helpers' = [helpers EXCEPT ![frontptr[t]] = @ + 1] /\ UNCHANGED frontptr
Leaves(t) ==
  /\ t \in Helper /\ pc[t] = "release" /\ pc'[t] = "back"
  /\ helpers' = [helpers EXCEPT ![frontptr[t]] = @ - 1] /\ UNCHANGED frontptr

(* ... who is said to be idle ...                                          *)
Idling(t) ==
  /\ \A u \in Thread \ {t} : (idle'[u] <=> idle[u]) \/ (Target(t, u) /\ pc[t] # "dismiss")
  /\ pc[t] \in Waiting => (idle'[t] <=> idle[t]) \/ Target(t, t)
  /\ \A u \in Thread \ {t} : todo'[u] = todo[u]
  /\ t \in Front /\ pc'[t] \in Quiet =>
       \/ pc[t] \in Quiet /\ (idle'[t] <=> idle[t])
       \/ idle'[t] \/ Helper = {}

(* ... and who changes what of the data.                                   *)
Changes(t) ==
  /\ first' # first => pc[t] \in Live
  /\ \A f \in Front : store'[f] # store[f] \/ samevalue'[f] # samevalue[f] =>
       f = frontptr[t] /\ pc[t] \in Checking \cup {"advance", "deinit"}
  /\ pc[t] = "deinit" => store'[t] = EmptyRing /\ samevalue'[t] = {}
  /\ sem' # sem \/ frontrunner' # frontrunner =>
       pc[t] \in Live \cup {"end"} \/ (pc[t] = "mayBegin" /\ ~frontrunner[t])
  /\ \A f \in Front : link'[f] # link[f] \/ active'[f] # active[f] =>
       f = t /\ (pc[t] = "advance" \/ (pc[t] = "link" /\ ~exit))

LEMMA CheckChanges ==
  ASSUME TypeOK, NEW t \in Thread, CheckStates(t)
  PROVE  Stays(t) /\ Idling(t) /\ Changes(t)
<1>0. /\ pc \in [Thread -> FrontLabel \cup HelperLabel]
      /\ store \in [Front -> [0 .. Size - 1 -> SUBSET Marking]]
      /\ samevalue \in [Front -> SUBSET Marking]
      /\ frontptr \in [Thread -> Front] /\ setup \in Setups
  BY DEF TypeOK, ControlType, DataType
<1>1. /\ pc[t] \in Checking
      /\ pc'[t] \in Checking \cup {Checked(t)}
      /\ UNCHANGED <<first, active, link, frontVars, idleVars>>
  BY CheckFacts
<1>2. /\ t \in Helper => Checked(t) = "release"
      /\ t \in Front => Checked(t) = "drain" \/ (Checked(t) = "quit" /\ Helper = {})
  BY <1>0, Threads DEF Checked
<1>3. Stays(t)
  BY <1>1, <1>2 DEF Stays, AtWork, idleVars
<1>4. Idling(t)
  BY <1>1, <1>2 DEF Idling, Quiet, Between, Checking, Waiting, idleVars
<1>5. ASSUME NEW f \in Front, f # frontptr[t]
      PROVE  store'[f] = store[f] /\ samevalue'[f] = samevalue[f]
  <2>1. store' = store \/ \E i, M : store' = [store EXCEPT ![frontptr[t]][i] = M]
    BY DEF CheckStates, Loop, Pop, PopNew, Keep, KeepOld, LookOld, LookNew, LookSame, LookStore,
           Look, Insert, InsertNew, Solved, ringVars
  <2>2. samevalue' = samevalue \/ \E M : samevalue' = [samevalue EXCEPT ![frontptr[t]] = M]
    BY DEF CheckStates, Loop, Pop, PopNew, Keep, KeepOld, LookOld, LookNew, LookSame, LookStore,
           Look, Insert, InsertNew, Solved, ringVars
  <2> QED BY <1>0, <1>5, <2>1, <2>2
<1>6. Changes(t)
  BY <1>1, <1>5 DEF Changes, Checking, frontVars
<1> QED BY <1>3, <1>4, <1>6

LEMMA PlainChanges ==
  ASSUME TypeOK, NEW f \in Front, f \in Thread, Plain(f)
  PROVE  Stays(f) /\ Idling(f) /\ Changes(f)
<1>0. /\ pc \in [Thread -> FrontLabel \cup HelperLabel] /\ frontptr[f] = f
      /\ store \in [Front -> [0 .. Size - 1 -> SUBSET Marking]]
      /\ samevalue \in [Front -> SUBSET Marking]
      /\ link \in [Front -> [0 .. Size - 1 -> Int] \cup {<<>>}]
      /\ active \in [Front -> 0 .. Size - 1]
  BY DEF TypeOK, ControlType, DataType
<1>n. f \notin Helper /\ (Helped <=> Helper # {})
  BY Threads DEF TypeOK, ControlType
<1>1. UNCHANGED idleVars
  BY PlainFacts
<1>2. Stays(f)
  BY <1>n, <1>1 DEF Stays, idleVars
<1>3. Idling(f)
  <2>1. pc'[f] \in Quiet => pc[f] \in Quiet \cup {"drained"} \/ Helper = {}
    BY <1>0, <1>n DEF Plain, Again, MayBegin, MayAdvance, MayGoOn, Link, LinkFor, Run, Drained,
          Quit, Extend, Finish, Advance, AdvanceKeeping, Post, Deinit, HandOver, Goto,
          Quiet, Between
  <2>2. "drained" \in Quiet
    BY DEF Quiet
  <2> QED BY <1>1, <2>1, <2>2 DEF Idling, idleVars
<1>4. ASSUME NEW g \in Front, g # f
      PROVE  /\ store'[g] = store[g] /\ samevalue'[g] = samevalue[g]
             /\ link'[g] = link[g] /\ active'[g] = active[g]
  BY <1>0, <1>4 DEF Plain, Again, MayBegin, MayAdvance, MayGoOn, Link, LinkFor, Run, Drained,
          Quit, Extend, Finish, Advance, AdvanceKeeping, Post, Deinit, HandOver, ringVars
<1>5. /\ first' # first => pc[f] \in Live
      /\ store' # store \/ samevalue' # samevalue => pc[f] \in {"advance", "deinit"}
      /\ pc[f] = "deinit" => store'[f] = EmptyRing /\ samevalue'[f] = {}
      /\ sem' # sem \/ frontrunner' # frontrunner =>
           pc[f] \in Live \/ (pc[f] = "mayBegin" /\ ~frontrunner[f])
      /\ link' # link \/ active' # active => pc[f] = "advance" \/ (pc[f] = "link" /\ ~exit)
  <2> USE DEF ringVars, listVars, Live, Sweeping, frontVars
  <2>1. CASE Again(f) \/ Run(f) \/ Drained(f) \/ Quit(f)
    BY <1>0, <2>1 DEF Again, Run, Drained, Quit
  <2>2. CASE MayBegin(f) \/ MayAdvance(f)
    BY <1>0, <2>2 DEF MayBegin, MayAdvance, MayGoOn
  <2>3. CASE Link(f)
    BY <1>0, <2>3 DEF Link, LinkFor
  <2>4. CASE Extend(f)
    BY <1>0, <2>4 DEF Extend
  <2>5. CASE Finish(f)
    BY <1>0, <2>5 DEF Finish
  <2>6. CASE Advance(f)
    BY <1>0, <2>6 DEF Advance, AdvanceKeeping
  <2>7. CASE Post(f)
    BY <1>0, <2>7 DEF Post
  <2>8. CASE Deinit(f)
    BY <1>0, <2>8 DEF Deinit
  <2>9. CASE HandOver(f)
    BY <1>0, <2>9 DEF HandOver
  <2> QED
    BY <2>1, <2>2, <2>3, <2>4, <2>5, <2>6, <2>7, <2>8, <2>9 DEF Plain
<1>6. Changes(f)
  <2>1. ASSUME NEW g \in Front, store'[g] # store[g] \/ samevalue'[g] # samevalue[g]
        PROVE  g = frontptr[f] /\ pc[f] \in Checking \cup {"advance", "deinit"}
    BY <1>0, <1>4, <1>5, <2>1
  <2>2. ASSUME NEW g \in Front, link'[g] # link[g] \/ active'[g] # active[g]
        PROVE  g = f /\ (pc[f] = "advance" \/ (pc[f] = "link" /\ ~exit))
    BY <1>4, <1>5, <2>2
  <2> QED BY <1>5, <2>1, <2>2 DEF Changes
<1> QED BY <1>2, <1>3, <1>6

LEMMA WakerChanges ==
  ASSUME TypeOK, NEW t \in Thread, Waker(t)
  PROVE  Stays(t) /\ Idling(t) /\ Changes(t)
<1>0. /\ \A u \in Thread : u \in Helper <=> u \notin Front
  BY Threads DEF TypeOK, ControlType
<1>1. /\ UNCHANGED <<listVars, ringVars, frontVars, helpers, frontptr>>
      /\ \A u \in Thread : (idle'[u] <=> idle[u]) \/ (Target(t, u) /\ pc[t] # "dismiss")
      /\ \A u \in Thread \ {t} : todo'[u] = todo[u]
      /\ \/ pc[t] = "startFirst" /\ pc'[t] = "initCheck"
         \/ /\ t \in Front
            /\ \/ pc[t] = "startFronts" /\ pc'[t] \in {"startFronts", "begin"}
               \/ pc[t] = "drawWake" /\ pc'[t] = "draw"
               \/ pc[t] = "tell" /\ pc'[t] \in {"tell", "loop"}
               \/ pc[t] = "dismiss" /\ pc'[t] \in {"dismiss", "terminate"}
  BY WakerFacts DEF WakerStep
<1>2. Stays(t)
  BY <1>0, <1>1 DEF Stays, AtWork, Checking
<1>3. Idling(t)
  BY <1>1 DEF Idling, Quiet, Between, Waiting
<1>4. Changes(t)
  BY <1>1 DEF Changes, listVars, ringVars, frontVars
<1> QED BY <1>2, <1>3, <1>4

LEMMA AloneChanges ==
  ASSUME TypeOK, NEW t \in Thread, Alone(t)
  PROVE  (Stays(t) \/ Joins(t) \/ Leaves(t)) /\ Idling(t) /\ Changes(t)
<1>0. /\ pc \in [Thread -> FrontLabel \cup HelperLabel] /\ idle \in [Thread -> BOOLEAN]
      /\ frontptr \in [Thread -> Front]
  BY DEF TypeOK, ControlType
<1>n. /\ \A u \in Thread : u \in Helper <=> u \notin Front
      /\ Front \subseteq Thread /\ Helper \subseteq Thread /\ 0 \in Thread
  BY Threads DEF TypeOK, ControlType
<1>e. /\ UNCHANGED <<listVars, ringVars, frontrunner>>
      /\ \A u \in Thread \ {t} : (idle'[u] <=> idle[u])
      /\ \A u \in Thread \ {t} : todo'[u] = todo[u]
  BY AloneFacts
<1> USE DEF Goto, idleVars, frontVars, Quiet, Between, Waiting
<1>1. Stays(t) \/ Joins(t) \/ Leaves(t)
  <2> USE DEF AtWork, Checking
  <2>1. CASE \/ Initialise(t) \/ InitCheck(t) \/ Terminate(t) \/ Return(t)
             \/ t \in Front /\ (Begin(t) \/ Busy(t) \/ Draw(t) \/ Drain(t) \/ End(t))
    BY <1>0, <1>n, <2>1 DEF Initialise, InitCheck, Terminate, Return, Begin, Busy, Draw, Drain,
                            End, Stays
  <2>2. CASE t \in Helper /\ (\/ Outer(t) \/ Inner(t) \/ Glance(t) \/ Work(t) \/ Back(t)
                              \/ Read(t) \/ Nap(t) \/ Awake(t))
    BY <1>0, <1>n, <2>2 DEF Outer, Inner, Glance, MoveOn, Work, Back, Read, Nap, Awake,
                            SleepOrGoOn, Stays
  <2>3. CASE t \in Helper /\ JoinFront(t)
    BY <1>0, <1>n, <2>3 DEF JoinFront, MoveOn, Stays, Joins
  <2>4. CASE t \in Helper /\ Release(t)
    BY <1>0, <1>n, <2>4 DEF Release, Leaves
  <2> QED BY <2>1, <2>2, <2>3, <2>4 DEF Alone
<1>2. Idling(t)
  <2>1. CASE \/ Initialise(t) \/ InitCheck(t) \/ Terminate(t) \/ Return(t)
    BY <1>0, <1>n, <1>e, <2>1 DEF Initialise, InitCheck, Terminate, Return, Idling
  <2>2. CASE t \in Front /\ (Begin(t) \/ Busy(t) \/ Draw(t) \/ Drain(t) \/ End(t))
    BY <1>0, <1>n, <1>e, <2>2 DEF Begin, Busy, Draw, Drain, End, Idling
  <2>3. CASE t \in Helper /\ (\/ Outer(t) \/ Inner(t) \/ Glance(t) \/ JoinFront(t) \/ Work(t)
                              \/ Release(t) \/ Back(t) \/ Read(t) \/ Nap(t) \/ Awake(t))
    BY <1>0, <1>n, <1>e, <2>3 DEF Outer, Inner, Glance, JoinFront, MoveOn, Work, Release, Back,
                            Read, Nap, Awake, Idling
  <2> QED BY <2>1, <2>2, <2>3 DEF Alone
<1>3. Changes(t)
  <2>1. sem' # sem => pc[t] = "end"
    BY DEF Alone, Initialise, InitCheck, Terminate, Return, Begin, Busy, Draw, Drain, End, Outer,
           Inner, Glance, JoinFront, MoveOn, Work, Release, Back, Read, Nap, Awake
  <2>2. pc[t] # "deinit"
    BY DEF Alone, Initialise, InitCheck, Terminate, Return, Begin, Busy, Draw, Drain, End, Outer,
           Inner, Glance, JoinFront, MoveOn, Work, Release, Back, Read, Nap, Awake
  <2> QED BY <1>e, <2>1, <2>2 DEF Changes, listVars, ringVars
<1> QED BY <1>1, <1>2, <1>3

LEMMA Effects ==
  ASSUME TypeOK, NEW t \in Thread, Step(t)
  PROVE  (Stays(t) \/ Joins(t) \/ Leaves(t)) /\ Idling(t) /\ Changes(t)
<1>1. t \in Front => t \in Thread
  OBVIOUS
<1> QED BY <1>1, Kinds, CheckChanges, PlainChanges, WakerChanges, AloneChanges
-----------------------------------------------------------------------------
(* Only an end of the search ends a thread.                                *)
LEMMA EndsStep ==
  ASSUME TypeOK, EndsKnown, NEW t \in Thread, Step(t)
  PROVE  EndsKnown'
<1>1. Thread' = Thread
  BY SameThreads DEF TypeOK, ControlType, Step
<1>2. /\ \A u \in Thread \ {t} : pc'[u] = pc[u] \/ Roused(pc[u], pc'[u])
      /\ \A u \in Thread \ {t} : found'[u] <=> found[u]
  BY ControlStep DEF Others
<1>3. /\ found'[t] => found[t] \/ exit'
      /\ exit => exit'
      /\ pc'[t] \in Ended => pc[t] \in Ended \/ exit
  BY Moves DEF Labels, Ends
<1>4. ASSUME NEW u \in Thread, found'[u] \/ pc'[u] \in Ended
      PROVE  exit'
  <2>1. CASE u = t
    BY <1>3, <1>4, <2>1 DEF EndsKnown
  <2>2. CASE u # t
    <3>1. pc'[u] \in Ended => pc[u] \in Ended
      BY <1>2, <2>2 DEF Roused, Ended
    <3> QED BY <1>2, <1>3, <1>4, <2>2, <3>1 DEF EndsKnown
  <2> QED BY <2>1, <2>2
<1> QED BY <1>1, <1>4 DEF EndsKnown

(* A thread that waits to be started stays where it is while its flag is   *)
(* set, and its flag stays set while nobody tells it to start.             *)
LEMMA Sleeping ==
  ASSUME TypeOK, NEW t \in Thread, Step(t), NEW u \in Thread,
         ~exit, pc[u] \in Waiting, idle[u]
  PROVE  /\ pc'[u] \in Waiting
         /\ idle'[u] \/ Target(t, u)
         /\ pc'[u] = "init" => pc[u] = "init" /\ u # t
         /\ pc'[u] = "startFirst" =>
              \/ pc[u] = "startFirst" /\ u # t
              \/ pc[u] = "init" /\ u = t /\ running' = 0
<1>1. /\ \A v \in Thread \ {t} : pc'[v] = pc[v] \/ Roused(pc[v], pc'[v])
  BY ControlStep DEF Others
<1>2. Labels(t) /\ Idling(t)
  BY Moves, Effects
<1>3. CASE u = t
  <2>1. /\ pc[t] = "init" => /\ running' = running - 1
                             /\ pc'[t] = IF running' = 0 THEN "startFirst" ELSE "initCheck"
        /\ pc[t] = "startFirst" => pc'[t] = "initCheck"
        /\ pc[t] = "initCheck" => pc'[t] = "initAsleep"
        /\ pc[t] # "initAsleep"
        /\ pc[t] \in Waiting => (idle'[t] <=> idle[t]) \/ Target(t, t)
    BY <1>2, <1>3 DEF Labels, Idling
  <2> QED BY <1>3, <2>1 DEF Waiting
<1>4. CASE u # t
  BY <1>1, <1>2, <1>4 DEF Idling, Waiting, Roused
<1> QED BY <1>3, <1>4

(* The threads gather before the first front is started.                   *)
LEMMA GatheringStep ==
  ASSUME TypeOK, Gathering, OpeningKnown, NEW t \in Thread, Step(t)
  PROVE  Gathering'
<1>0. /\ Thread' = Thread /\ Front' = Front
      /\ 0 \in Front /\ 0 \in Thread /\ Front \subseteq Thread /\ IsFiniteSet(Thread)
      /\ \A u \in Thread : u \in Helper <=> u \notin Front
  BY SameThreads, Threads DEF TypeOK, ControlType, Step
<1>1. /\ \A u \in Thread \ {t} : pc'[u] = pc[u] \/ Roused(pc[u], pc'[u])
  BY ControlStep DEF Others
<1>2. Labels(t) /\ Idling(t)
  BY Moves, Effects
<1>3. pc[0] \in Waiting \cup {"startFronts"} =>
        /\ ~exit
        /\ \A f \in Front \ {0} : pc[f] \in Waiting \cup {"begin", "again", "mayBegin"}
        /\ \A h \in Helper : pc[h] \in Waiting /\ idle[h]
  BY DEF OpeningKnown, Opening
<1>4. /\ \A u \in Thread : pc[u] = "init" => \A v \in Thread : pc[v] \in Waiting \ {"startFirst"}
      /\ \A u \in Thread : pc[u] = "startFirst" =>
            \A v \in Thread \ {u} : pc[v] \in {"initCheck", "initAsleep"}
      /\ \A u \in Thread : pc[u] \in {"init", "startFirst"} => \A v \in Thread : idle[v]
      /\ pc[0] \in Waiting => \A f \in Front \ {0} : pc[f] \in Waiting /\ idle[f]
      /\ pc[0] = "startFronts" => \A f \in todo[0] : pc[f] \in Waiting /\ idle[f]
      /\ pc[0] = "startFronts" => todo[0] \subseteq Front \ {0}
      /\ \A f \in Front : pc[f] = "startFronts" => f = 0
  BY <1>0 DEF Gathering, TypeOK, ControlType
<1>5. running' = Cardinality({u \in Thread : pc'[u] = "init"})
  <2>1. running = Cardinality({u \in Thread : pc[u] = "init"})
        /\ IsFiniteSet({u \in Thread : pc[u] = "init"})
    BY <1>0, FS_Subset DEF Gathering
  <2>2. \A u \in Thread \ {t} : pc'[u] = "init" <=> pc[u] = "init"
    BY <1>1 DEF Roused
  <2>3. pc'[t] # "init"
    BY <1>2 DEF Labels
  <2>4. CASE pc[t] = "init"
    <3>1. {u \in Thread : pc'[u] = "init"} = {u \in Thread : pc[u] = "init"} \ {t}
      BY <2>2, <2>3
    <3>2. running' = running - 1
      BY <1>2, <2>4 DEF Labels
    <3>3. t \in {u \in Thread : pc[u] = "init"}
      BY <2>4
    <3> QED BY <2>1, <3>1, <3>2, <3>3, FS_RemoveElement
  <2>5. CASE pc[t] # "init"
    <3>1. {u \in Thread : pc'[u] = "init"} = {u \in Thread : pc[u] = "init"}
      BY <2>2, <2>3, <2>5
    <3>2. running' = running
      BY <1>2, <2>5 DEF Labels
    <3> QED BY <2>1, <3>1, <3>2
  <2> QED BY <2>4, <2>5
(* As long as somebody gathers, all are asleep or about to sleep.          *)
<1>6. ASSUME NEW v \in Thread, pc[v] \in {"init", "startFirst"}
      PROVE  /\ ~exit
             /\ \A u \in Thread : pc[u] \in Waiting /\ idle[u]
             /\ pc[t] = "startFirst" => t = v
             /\ \A u \in Thread : idle'[u] \/ pc[t] = "startFirst"
  <2>1. \A u \in Thread : pc[u] \in Waiting /\ idle[u]
    BY <1>4, <1>6 DEF Waiting
  <2>2. ~exit
    BY <1>0, <1>3, <2>1
  <2>3. pc[t] = "startFirst" => t = v
    BY <1>4, <1>6
  <2>4. \A u \in Thread : idle'[u] \/ Target(t, u)
    BY <2>1, <2>2, Sleeping
  <2> QED BY <2>1, <2>2, <2>3, <2>4 DEF Target, Waiting
<1>7. ASSUME NEW v \in Thread, pc'[v] \in {"init", "startFirst"}
      PROVE  /\ v = t => pc[t] = "init" /\ running' = 0 /\ pc'[t] = "startFirst"
             /\ v # t => pc[v] = pc'[v]
             /\ pc[t] # "startFirst"
  <2>1. v = t => pc[t] = "init" /\ running' = 0 /\ pc'[t] = "startFirst"
    BY <1>2, <1>7 DEF Labels
  <2>2. v # t => pc[v] = pc'[v]
    BY <1>1, <1>7 DEF Roused
  <2>3. pc[t] # "startFirst"
    BY <1>4, <1>7, <2>1, <2>2
  <2> QED BY <2>1, <2>2, <2>3
<1>8. ASSUME NEW v \in Thread, pc'[v] = "init"
      PROVE  \A u \in Thread : pc'[u] \in Waiting \ {"startFirst"}
  <2>1. pc[v] = "init" /\ v # t
    BY <1>7, <1>8
  <2>2. \A u \in Thread : pc'[u] \in Waiting
    BY <1>6, <2>1, Sleeping
  <2>3. \A u \in Thread : pc[u] # "startFirst"
    BY <1>4, <2>1
  <2>4. running' # 0
    <3> DEFINE I == {u \in Thread : pc'[u] = "init"}
    <3>1. I \subseteq Thread /\ v \in I
      BY <1>8
    <3>2. IsFiniteSet(I) /\ running' = Cardinality(I)
      BY <1>0, <1>5, <3>1, FS_Subset
    <3> HIDE DEF I
    <3> QED BY <3>1, <3>2, FS_EmptySet
  <2>5. ASSUME NEW u \in Thread
        PROVE  pc'[u] # "startFirst"
    BY <1>6, <2>1, <2>3, <2>4, Sleeping
  <2> QED BY <2>2, <2>5
<1>9. ASSUME NEW v \in Thread, pc'[v] = "startFirst"
      PROVE  \A u \in Thread \ {v} : pc'[u] \in {"initCheck", "initAsleep"}
  <2>1. pc[v] \in {"init", "startFirst"}
    BY <1>7, <1>9
  <2>2. \A u \in Thread : pc'[u] \in Waiting
    BY <1>6, <2>1, Sleeping
  <2>3. ASSUME NEW u \in Thread \ {v}, pc'[u] = "init"
        PROVE  FALSE
    BY <1>8, <1>9, <2>3
  <2>4. ASSUME NEW u \in Thread \ {v}, pc'[u] = "startFirst"
        PROVE  FALSE
    <3>1. CASE u = t \/ v = t
      BY <1>4, <1>7, <1>9, <2>4, <3>1 DEF Waiting
    <3>2. CASE u # t /\ v # t
      BY <1>4, <1>7, <1>9, <2>4, <3>2 DEF Waiting
    <3> QED BY <3>1, <3>2
  <2> QED BY <2>2, <2>3, <2>4 DEF Waiting
<1>10. ASSUME NEW v \in Thread, pc'[v] \in {"init", "startFirst"}
       PROVE  \A u \in Thread : idle'[u]
  BY <1>6, <1>7, <1>10
<1>11. ASSUME pc'[0] \in Waiting, NEW f \in Front \ {0}
       PROVE  pc'[f] \in Waiting /\ idle'[f]
  <2>1. pc[0] \in Waiting
    BY <1>0, <1>1, <1>2, <1>11 DEF Labels, Roused, Waiting
  <2>2. pc[f] \in Waiting /\ idle[f] /\ ~exit
    BY <1>3, <1>4, <2>1
  <2>3. \A u \in Thread : pc[u] \in Waiting
    BY <1>0, <1>3, <1>4, <2>1
  <2>4. ~Target(t, f)
    BY <1>0, <2>3 DEF Target, Waiting
  <2> QED BY <1>0, <2>2, <2>4, Sleeping
<1>12. ASSUME pc'[0] = "startFronts", NEW f \in todo'[0]
       PROVE  pc'[f] \in Waiting /\ idle'[f]
  <2>1. CASE t = 0 /\ pc[0] = "initCheck"
    <3>1. todo'[0] = Front \ {0}
      BY <1>2, <2>1 DEF Labels
    <3>2. f \in Front \ {0} /\ pc[f] \in Waiting /\ idle[f] /\ ~exit
      BY <1>3, <1>4, <1>12, <2>1, <3>1 DEF Waiting
    <3>3. ~Target(t, f)
      BY <2>1 DEF Target
    <3> QED BY <1>0, <3>2, <3>3, Sleeping
  <2>2. CASE pc[0] = "startFronts"
    <3>1. todo'[0] \subseteq todo[0]
      BY <1>0, <1>2, <2>2 DEF Labels, Idling
    <3>2. f \in Front \ {0} /\ pc[f] \in Waiting /\ idle[f] /\ ~exit
      BY <1>3, <1>4, <1>12, <2>2, <3>1
    <3>3. ~Target(t, f)
      <4>1. pc[t] # "startFirst"
        BY <1>0, <1>4, <2>2
      <4>2. pc[t] = "startFronts" => t = 0 \/ t \in Helper
        BY <1>0, <1>4
      <4>3. t \in Helper => pc[t] \in Waiting
        BY <1>3, <2>2
      <4> QED BY <1>0, <1>12, <3>2, <4>1, <4>2, <4>3 DEF Target, Waiting
    <3> QED BY <1>0, <3>2, <3>3, Sleeping
  <2>3. pc[0] = "startFronts" \/ (t = 0 /\ pc[0] = "initCheck")
    BY <1>0, <1>1, <1>2, <1>12 DEF Labels, Roused
  <2> QED BY <2>1, <2>2, <2>3
<1> QED BY <1>0, <1>5, <1>8, <1>9, <1>10, <1>11, <1>12 DEF Gathering

(* The helpers at a front are counted: one comes only while the front is   *)
(* not said to be idle.                                                    *)
LEMMA Counted ==
  ASSUME TypeOK, HelpersGone, NEW t \in Thread, Step(t), NEW f \in Front
  PROVE  /\ helpers'[f] = Cardinality(HelpersAt(f)')
         /\ t \in Front => helpers'[f] = helpers[f]
         /\ helpers[f] = 0 => HelpersAt(f) = {}
         /\ helpers[f] = 0 /\ (idle[f] \/ Helper = {}) => helpers'[f] = 0
         /\ pc[t] # "join" /\ helpers[f] = 0 => helpers'[f] = 0
<1>0. /\ Thread' = Thread /\ Helper' = Helper
      /\ IsFiniteSet(Helper) /\ Helper \subseteq Thread
      /\ \A u \in Thread : u \in Helper <=> u \notin Front
      /\ helpers \in [Front -> Int]
  BY SameThreads, Threads DEF TypeOK, ControlType, Step
<1>1. /\ HelpersAt(f) = {h \in Helper : frontptr[h] = f /\ pc[h] \in AtWork}
      /\ HelpersAt(f)' = {h \in Helper : frontptr'[h] = f /\ pc'[h] \in AtWork}
  BY <1>0 DEF HelpersAt, AtWork
<1>2. /\ IsFiniteSet(HelpersAt(f)) /\ helpers[f] = Cardinality(HelpersAt(f))
  BY <1>0, <1>1, FS_Subset DEF HelpersGone
<1>3. helpers[f] = 0 => HelpersAt(f) = {}
  <2>1. Cardinality(HelpersAt(f)) = 0 => HelpersAt(f) = {}
    BY <1>2, FS_EmptySet
  <2> QED BY <1>2, <2>1
<1>4. \A u \in Thread \ {t} : /\ frontptr'[u] = frontptr[u]
                              /\ pc'[u] \in AtWork <=> pc[u] \in AtWork
  <2>1. \A u \in Thread \ {t} : /\ frontptr'[u] = frontptr[u]
                                /\ pc'[u] = pc[u] \/ Roused(pc[u], pc'[u])
    BY ControlStep DEF Others
  <2> QED BY <2>1 DEF Roused, AtWork, Checking
<1>5. CASE Stays(t)
  <2>1. HelpersAt(f)' = HelpersAt(f)
    BY <1>0, <1>1, <1>4, <1>5 DEF Stays
  <2> QED BY <1>2, <1>3, <1>5, <2>1 DEF Stays
<1>6. CASE Joins(t)
  <2>1. /\ t \in Helper /\ pc[t] = "join" /\ pc'[t] = "work" /\ ~idle[frontptr[t]]
        /\ helpers' = [helpers EXCEPT ![frontptr[t]] = @ + 1] /\ frontptr' = frontptr
    BY <1>6 DEF Joins
  <2>2. CASE frontptr[t] = f
    <3>1. HelpersAt(f)' = HelpersAt(f) \cup {t} /\ t \notin HelpersAt(f)
      BY <1>0, <1>1, <1>4, <2>1, <2>2 DEF AtWork, Checking
    <3>2. helpers'[f] = helpers[f] + 1
      BY <1>0, <2>1, <2>2
    <3>3. Cardinality(HelpersAt(f)') = Cardinality(HelpersAt(f)) + 1
      BY <1>2, <3>1, FS_AddElement
    <3> QED BY <1>0, <1>2, <1>3, <2>1, <2>2, <3>2, <3>3
  <2>3. CASE frontptr[t] # f
    <3>1. HelpersAt(f)' = HelpersAt(f)
      BY <1>0, <1>1, <1>4, <2>1, <2>3
    <3>2. helpers'[f] = helpers[f]
      BY <1>0, <2>1, <2>3
    <3> QED BY <1>2, <1>3, <3>1, <3>2
  <2> QED BY <2>2, <2>3
<1>7. CASE Leaves(t)
  <2>1. /\ t \in Helper /\ pc[t] = "release" /\ pc'[t] = "back"
        /\ helpers' = [helpers EXCEPT ![frontptr[t]] = @ - 1] /\ frontptr' = frontptr
    BY <1>7 DEF Leaves
  <2>2. CASE frontptr[t] = f
    <3>1. HelpersAt(f)' = HelpersAt(f) \ {t} /\ t \in HelpersAt(f)
      BY <1>0, <1>1, <1>4, <2>1, <2>2 DEF AtWork, Checking
    <3>2. helpers'[f] = helpers[f] - 1 /\ helpers[f] # 0
      BY <1>0, <1>3, <2>1, <2>2, <3>1
    <3>3. Cardinality(HelpersAt(f)') = Cardinality(HelpersAt(f)) - 1
      BY <1>2, <3>1, FS_RemoveElement
    <3> QED BY <1>0, <1>2, <2>1, <3>2, <3>3
  <2>3. CASE frontptr[t] # f
    <3>1. HelpersAt(f)' = HelpersAt(f)
      BY <1>0, <1>1, <1>4, <2>1, <2>3
    <3>2. helpers'[f] = helpers[f]
      BY <1>0, <2>1, <2>3
    <3> QED BY <1>2, <1>3, <3>1, <3>2
  <2> QED BY <2>2, <2>3
<1> QED BY <1>5, <1>6, <1>7, Effects

(* What the first front finds in its store is still there.                 *)
LEMMA StoreKept ==
  ASSUME TypeOK, HelpersGone, NEW t \in Thread, Step(t), t # 0, helpers[0] = 0
  PROVE  store'[0] = store[0] /\ samevalue'[0] = samevalue[0]
<1>0. /\ 0 \in Front /\ \A u \in Thread : u \in Helper <=> u \notin Front
      /\ \A f \in Front : frontptr[f] = f
  BY Threads DEF TypeOK, ControlType
<1>1. HelpersAt(0) = {}
  BY <1>0, Counted
<1>2. t \in Helper => ~(frontptr[t] = 0 /\ pc[t] \in Checking)
  BY <1>1 DEF HelpersAt
<1>3. store'[0] # store[0] \/ samevalue'[0] # samevalue[0] =>
        0 = frontptr[t] /\ pc[t] \in Checking \cup {"advance", "deinit"}
  BY <1>0, Effects DEF Changes
<1>4. t \in Helper => pc[t] \notin {"advance", "deinit"}
  BY DEF TypeOK, ControlType, HelperLabel, Waiting, Checking
<1> QED BY <1>0, <1>2, <1>3, <1>4

LEMMA EmptiedStep ==
  ASSUME TypeOK, HelpersKnown, Emptied, NEW t \in Thread, Step(t)
  PROVE  Emptied'
<1>0. 0 \in Front
  BY Threads DEF TypeOK, ControlType
<1>1. SUFFICES ASSUME pc'[0] = "handOver"
               PROVE  store'[0] = EmptyRing
  BY DEF Emptied, EmptyRing
<1>2. CASE t = 0
  <2>1. pc[t] = "deinit"
    BY <1>1, <1>2, Moves DEF Ends
  <2> QED BY <1>2, <2>1, Effects DEF Changes
<1>3. CASE t # 0
  <2>1. pc[0] = "handOver"
    BY <1>0, <1>1, <1>3, ControlStep, Threads DEF Others, Roused, TypeOK, ControlType
  <2>2. helpers[0] = 0
    BY <1>0, <2>1 DEF HelpersKnown, HelpersGone
  <2> QED BY <1>3, <2>1, <2>2, StoreKept DEF Emptied, HelpersKnown
<1> QED BY <1>2, <1>3

(* Until the first front has linked its buckets nothing has happened.      *)
LEMMA OpeningStep ==
  ASSUME TypeOK, OpeningKnown, HelpersKnown, Emptied, NEW t \in Thread, Step(t)
  PROVE  OpeningKnown'
<1>0. /\ Thread' = Thread /\ Front' = Front /\ Helper' = Helper /\ Initial' = Initial
      /\ NumFronts' = NumFronts
      /\ 0 \in Front /\ 0 \in Thread /\ Front \subseteq Thread
      /\ \A u \in Thread : u \in Helper <=> u \notin Front
      /\ \A f \in Front : pc[f] = "startFronts" => f = 0
      /\ frontrunner \in [Front -> BOOLEAN] /\ setup \in Setups
  BY SameThreads, Threads DEF TypeOK, ControlType, DataType, Step
<1>1. /\ \A u \in Thread \ {t} : pc'[u] = pc[u] \/ Roused(pc[u], pc'[u])
  BY ControlStep DEF Others
<1>2. Labels(t) /\ Ends(t) /\ Idling(t) /\ Changes(t)
  BY Moves, Effects
<1>3. Opening' => Opening
  <2>1. ASSUME pc'[0] \in Waiting \cup {"startFronts", "begin"} PROVE Opening
    <3>1. CASE t = 0
      BY <1>2, <2>1, <3>1 DEF Labels, Opening, Waiting
    <3>2. CASE t # 0
      BY <1>0, <1>1, <2>1, <3>2 DEF Opening, Waiting, Roused
    <3> QED BY <3>1, <3>2
  <2>2. ASSUME pc'[0] \in Between, store'[0] # EmptyRing PROVE Opening
    <3>1. CASE t = 0
      <4>1. pc[0] \in Between \cup {"begin", "deinit", "handOver"}
        BY <1>2, <2>2, <3>1 DEF Labels
      <4>2. pc[0] # "deinit"
        BY <1>2, <2>2, <3>1 DEF Changes
      <4>3. store'[0] = store[0]
        BY <1>0, <1>2, <3>1, <4>1, <4>2 DEF Changes, Between, Checking
      <4>4. pc[0] # "handOver"
        BY <2>2, <4>3 DEF Emptied
      <4> QED BY <2>2, <4>1, <4>2, <4>3, <4>4 DEF Opening
    <3>2. CASE t # 0
      <4>1. pc[0] \in Between
        BY <1>0, <1>1, <2>2, <3>2 DEF Roused, Between
      <4>2. helpers[0] = 0
        BY <1>0, <4>1 DEF HelpersKnown
      <4>3. store'[0] = store[0]
        BY <3>2, <4>2, StoreKept DEF HelpersKnown
      <4> QED BY <2>2, <4>1, <4>3 DEF Opening
    <3> QED BY <3>1, <3>2
  <2> QED BY <2>1, <2>2 DEF Opening, EmptyRing
<1> SUFFICES ASSUME Opening
             PROVE  OpeningKnown'
  BY <1>3 DEF OpeningKnown
<1>4. /\ ~exit /\ first = -BackOffset
      /\ store[0] = [EmptyRing EXCEPT ![BackOffset] = {Initial}]
      /\ samevalue[0] = {}
      /\ \A f \in Front : helpers[f] = 0 /\ sem[f] = 0 /\ (frontrunner[f] <=> f = 0)
      /\ \A f \in Front \ {0} : pc[f] \in Waiting \cup {"begin", "again", "mayBegin"}
      /\ \A h \in Helper : pc[h] \in Waiting /\ idle[h]
      /\ pc[0] \in Waiting \cup {"startFronts", "begin"} \cup Between
  BY DEF OpeningKnown, Opening
<1>5. /\ pc[t] \in Waiting \cup {"startFronts", "begin"} \cup Between
      /\ pc[t] \in {"link", "startFronts"} => t = 0
      /\ t # 0 => pc[t] # "mayBegin"
  <2>1. pc[t] \in Waiting \cup {"startFronts", "begin"} \cup Between
    BY <1>0, <1>4 DEF Between
  <2>2. pc[t] \in {"link", "startFronts"} => t = 0
    BY <1>0, <1>4 DEF Waiting
  <2>3. t # 0 /\ t \in Front => pc[t] # "mayBegin"
    <3>1. pc[t] = "mayBegin" => frontrunner[t] \/ sem[Pred(t)] > 0
      BY <1>2 DEF Labels
    <3>2. t \in Front => Pred(t) \in Front
      BY <1>0, FrontsRing
    <3> QED BY <1>4, <3>1, <3>2
  <2>4. t \in Helper => pc[t] # "mayBegin"
    BY <1>4 DEF Waiting
  <2> QED BY <1>0, <2>1, <2>2, <2>3, <2>4
<1>6. /\ exit' = exit
      /\ \A f \in Front : store'[f] = store[f] /\ samevalue'[f] = samevalue[f]
      /\ first' = first /\ sem' = sem /\ frontrunner' = frontrunner
  <2>1. pc[t] \notin Live \cup Checking \cup {"end", "solved", "advance", "deinit"}
    BY <1>5 DEF Live, Sweeping, Checking, Waiting, Between
  <2>2. pc[t] = "mayBegin" => frontrunner[t]
    BY <1>0, <1>4, <1>5
  <2>3. first' = first /\ sem' = sem /\ frontrunner' = frontrunner
    BY <1>2, <2>1, <2>2 DEF Changes
  <2>4. \A f \in Front : store'[f] = store[f] /\ samevalue'[f] = samevalue[f]
    BY <1>2, <2>1 DEF Changes
  <2>5. exit' = exit
    BY <1>2, <2>1 DEF Ends, Live
  <2> QED BY <2>3, <2>4, <2>5
<1>7. \A f \in Front : helpers'[f] = 0
  <2>1. pc[t] # "join"
    BY <1>5 DEF Waiting, Between
  <2> QED BY <1>4, <2>1, Counted DEF HelpersKnown
<1>8. ASSUME NEW f \in Front \ {0}
      PROVE  pc'[f] \in Waiting \cup {"begin", "again", "mayBegin"}
  <2>1. CASE f = t
    <3>1. pc[f] \in Waiting \cup {"begin", "again"}
      BY <1>4, <1>5, <2>1
    <3>2. pc[f] = "again" => pc'[f] = "mayBegin"
      <4>1. NumFronts > 1
        BY <1>0, Threads DEF Front
      <4> QED BY <1>2, <1>4, <2>1, <4>1 DEF Labels, AfterAgain
    <3>3. pc[f] \in {"init", "startFirst", "initCheck"} => pc'[f] \in Waiting \cup {"begin"}
      BY <1>2, <2>1 DEF Labels, Waiting
    <3>4. pc[f] # "initAsleep" /\ (pc[f] = "begin" => pc'[f] = "again")
      BY <1>2, <2>1 DEF Labels
    <3> QED BY <3>1, <3>2, <3>3, <3>4 DEF Waiting
  <2>2. CASE f # t
    BY <1>0, <1>1, <1>4, <2>2 DEF Roused, Waiting
  <2> QED BY <2>1, <2>2
<1>9. ASSUME NEW h \in Helper
      PROVE  pc'[h] \in Waiting /\ idle'[h]
  <2>1. h \in Thread /\ pc[h] \in Waiting /\ idle[h] /\ h \notin Front
    BY <1>0, <1>4, <1>9 DEF Helper
  <2>2. ~Target(t, h)
    BY <1>0, <1>5, <2>1 DEF Target, Waiting, Between
  <2> QED BY <1>4, <2>1, <2>2, Sleeping
<1> QED BY <1>0, <1>4, <1>6, <1>7, <1>8, <1>9 DEF OpeningKnown, EmptyRing

(* A helper joins a front that works, and no other: where the front moves  *)
(* on, its flag says that it is idle.                                      *)
LEMMA HelpersStep ==
  ASSUME TypeOK, Gathering, OpeningKnown, HelpersKnown, NEW t \in Thread, Step(t)
  PROVE  HelpersKnown'
<1>0. /\ Thread' = Thread /\ Front' = Front /\ Helper' = Helper
      /\ 0 \in Front /\ 0 \in Thread /\ Front \subseteq Thread
      /\ \A u \in Thread : u \in Helper <=> u \notin Front
      /\ \A f \in Front : pc[f] \in FrontLabel
      /\ \A f \in Front : pc[f] = "startFronts" => f = 0 /\ todo[0] \subseteq Front \ {0}
      /\ \A h \in Helper : pc[h] \in HelperLabel
  BY SameThreads, Threads DEF TypeOK, ControlType, Step
<1>1. /\ \A u \in Thread \ {t} : pc'[u] = pc[u] \/ Roused(pc[u], pc'[u])
  BY ControlStep DEF Others
<1>2. Labels(t) /\ Ends(t) /\ Idling(t) /\ Changes(t)
  BY Moves, Effects
<1>3. \A f \in Front :
        /\ helpers'[f] = Cardinality(HelpersAt(f)')
        /\ t \in Front => helpers'[f] = helpers[f]
        /\ helpers[f] = 0 /\ (idle[f] \/ Helper = {}) => helpers'[f] = 0
  BY Counted DEF HelpersKnown
<1>4. /\ \A f \in Front : pc[f] \in {"quit", "extend", "mayAdvance", "advance", "post"} =>
                            helpers[f] = 0
      /\ \A f \in Front : pc[f] \in {"deinit", "handOver"} => helpers[f] = 0 \/ (exit /\ f # 0)
      /\ \A f \in Front : pc[f] \in Quiet => idle[f] \/ Helper = {}
      /\ \A f \in Front : pc[f] \in Between =>
           helpers[f] = 0 \/ (f # 0 /\ (exit \/ link[f] = <<>>))
      /\ pc[0] \in {"run", "busy"} => helpers[0] = 0
      /\ \A f \in Front \ {0} : pc[f] \in Waiting \cup {"begin"} => link[f] = <<>>
  BY DEF HelpersKnown, HelpersGone
<1>5. exit => exit'
  BY <1>2 DEF Ends
(* A front that does not move stays quiet.                                 *)
<1>6. ASSUME NEW f \in Front, f # t, pc'[f] \in Quiet
      PROVE  /\ pc[f] = pc'[f] /\ (idle'[f] <=> idle[f])
             /\ helpers[f] = 0 => helpers'[f] = 0
             /\ link'[f] = link[f]
  <2>1. pc[f] = pc'[f]
    BY <1>0, <1>1, <1>6 DEF Quiet, Between, Roused
  <2>2. ~Target(t, f)
    <3>1. pc[t] = "startFirst" => pc[f] \in {"initCheck", "initAsleep"}
      BY <1>0, <1>6 DEF Gathering
    <3>2. pc[t] = "startFronts" => t = 0
      <4>1. t \in Helper => pc[t] # "startFronts"
        BY <1>0 DEF HelperLabel, Waiting, Checking
      <4> QED BY <1>0, <4>1
    <3>3. pc[0] = "startFronts" /\ f \in todo[0] => pc[f] \in Waiting
      BY DEF Gathering
    <3>4. pc[f] \notin Waiting
      BY <1>6, <2>1 DEF Quiet, Between, Waiting
    <3> QED BY <1>0, <3>1, <3>2, <3>3, <3>4 DEF Target, Waiting
  <2>3. idle'[f] <=> idle[f]
    BY <1>0, <1>2, <1>6, <2>2 DEF Idling
  <2>4. idle[f] \/ Helper = {}
    BY <1>4, <1>6, <2>1
  <2>5. link'[f] = link[f]
    BY <1>2, <1>6 DEF Changes
  <2> QED BY <1>3, <2>1, <2>3, <2>4, <2>5
<1>7. ASSUME NEW f \in Front, pc'[f] \in {"quit", "extend", "mayAdvance", "advance", "post"}
      PROVE  helpers'[f] = 0
  <2>1. CASE f = t
    <3>1. helpers[f] = 0 \/ Helper = {}
      BY <1>2, <1>4, <1>7, <2>1 DEF Ends
    <3>2. CASE helpers[f] = 0
      BY <1>3, <2>1, <3>2
    <3>3. CASE Helper = {}
      <4>1. HelpersAt(f)' = {}
        BY <1>0, <3>3 DEF HelpersAt
      <4> QED BY <1>3, <4>1, FS_EmptySet
    <3> QED BY <3>1, <3>2, <3>3
  <2>2. CASE f # t
    BY <1>4, <1>6, <1>7, <2>2 DEF Quiet
  <2> QED BY <2>1, <2>2
<1>8. ASSUME NEW f \in Front, pc'[f] \in {"deinit", "handOver"}
      PROVE  helpers'[f] = 0 \/ (exit' /\ f # 0)
  <2>1. CASE f = t
    <3>1. \/ pc[f] \in {"quit", "advance", "deinit"}
          \/ pc[f] = "run" /\ exit
      BY <1>2, <1>8, <2>1 DEF Ends
    <3>2. helpers[f] = 0 \/ (exit /\ f # 0)
      BY <1>4, <3>1
    <3> QED BY <1>3, <1>5, <2>1, <3>2
  <2>2. CASE f # t
    <3>1. pc[f] = pc'[f] /\ (helpers[f] = 0 => helpers'[f] = 0)
      BY <1>6, <1>8, <2>2 DEF Quiet
    <3> QED BY <1>4, <1>5, <1>8, <3>1
  <2> QED BY <2>1, <2>2
<1>9. ASSUME NEW f \in Front, pc'[f] \in Quiet
      PROVE  idle'[f] \/ Helper = {}
  <2>1. CASE f = t
    BY <1>2, <1>4, <1>9, <2>1 DEF Idling
  <2>2. CASE f # t
    BY <1>4, <1>6, <1>9, <2>2
  <2> QED BY <2>1, <2>2
<1>10. ASSUME NEW f \in Front, pc'[f] \in Between
       PROVE  helpers'[f] = 0 \/ (f # 0 /\ (exit' \/ link'[f] = <<>>))
  <2>1. CASE f = t
    <3>1. pc[f] \in Between \cup {"begin", "deinit", "handOver"}
      BY <1>2, <1>10, <2>1 DEF Labels
    <3>2. pc[f] # "link"
      BY <1>2, <1>10, <2>1 DEF Labels, Between
    <3>3. link'[f] = link[f]
      BY <1>2, <2>1, <3>1, <3>2 DEF Changes, Between
    <3>4. pc[f] = "begin" => helpers[f] = 0 \/ (f # 0 /\ link[f] = <<>>)
      <4>1. pc[0] = "begin" => helpers[0] = 0
        BY <1>0 DEF OpeningKnown, Opening
      <4> QED BY <1>4, <4>1
    <3>5. helpers[f] = 0 \/ (f # 0 /\ (exit \/ link[f] = <<>>))
      BY <1>4, <3>1, <3>4
    <3> QED BY <1>3, <1>5, <2>1, <3>3, <3>5
  <2>2. CASE f # t
    <3>1. pc[f] = pc'[f] /\ (helpers[f] = 0 => helpers'[f] = 0) /\ link'[f] = link[f]
      BY <1>6, <1>10, <2>2 DEF Quiet
    <3> QED BY <1>4, <1>5, <1>10, <3>1
  <2> QED BY <2>1, <2>2
<1>11. ASSUME pc'[0] \in {"run", "busy"}
       PROVE  helpers'[0] = 0
  <2>1. CASE t = 0
    <3>1. pc[0] \in {"link", "advance", "post", "run"}
      BY <1>2, <1>11, <2>1 DEF Ends
    <3>2. helpers[0] = 0
      BY <1>0, <1>4, <3>1 DEF Between
    <3> QED BY <1>0, <1>3, <2>1, <3>2
  <2>2. CASE t # 0
    BY <1>0, <1>4, <1>6, <1>11, <2>2 DEF Quiet
  <2> QED BY <2>1, <2>2
<1>12. ASSUME NEW f \in Front \ {0}, pc'[f] \in Waiting \cup {"begin"}
       PROVE  link'[f] = <<>>
  <2>1. CASE f = t
    <3>1. pc[f] \in Waiting \cup {"startFronts"}
      BY <1>2, <1>12, <2>1 DEF Labels, Waiting
    <3>2. pc[f] \in Waiting
      BY <1>0, <3>1
    <3> QED BY <1>2, <1>4, <2>1, <3>2 DEF Changes, Waiting
  <2>2. CASE f # t
    <3>1. pc[f] \in Waiting \cup {"begin"}
      BY <1>0, <1>1, <1>12, <2>2 DEF Roused, Waiting
    <3> QED BY <1>2, <1>4, <2>2, <3>1 DEF Changes
  <2> QED BY <2>1, <2>2
<1> QED
  BY <1>0, <1>3, <1>7, <1>8, <1>9, <1>10, <1>11, <1>12 DEF HelpersKnown, HelpersGone

LEMMA SweepInit ==
  Init => EndsKnown /\ Gathering /\ OpeningKnown /\ Emptied /\ HelpersKnown
<1> SUFFICES ASSUME Init
             PROVE  EndsKnown /\ Gathering /\ OpeningKnown /\ Emptied /\ HelpersKnown
  OBVIOUS
<1>0. /\ setup \in Setups /\ NumThreads \in Nat /\ Helper \subseteq Thread
      /\ 0 \in Front /\ 0 \in Thread /\ Front \subseteq Thread
  BY Threads DEF Init
<1>1. /\ \A t \in Thread : pc[t] = "init" /\ idle[t] /\ ~found[t]
      /\ exit = FALSE /\ running = NumThreads /\ first = -BackOffset
      /\ \A f \in Front : helpers[f] = 0 /\ sem[f] = 0 /\ (frontrunner[f] <=> f = 0)
      /\ \A f \in Front \ {0} : link[f] = <<>>
      /\ samevalue[0] = {} /\ store[0] = [EmptyRing EXCEPT ![BackOffset] = {Initial}]
  BY <1>0 DEF Init
<1>2. EndsKnown
  BY <1>1 DEF EndsKnown, Ended
<1>3. Gathering
  <2>1. {t \in Thread : pc[t] = "init"} = 0 .. NumThreads - 1
    BY <1>1 DEF Thread
  <2>2. Cardinality(0 .. NumThreads - 1) = NumThreads
    BY <1>0, FS_Interval
  <2> QED BY <1>0, <1>1, <2>1, <2>2 DEF Gathering, Waiting
<1>4. OpeningKnown
  BY <1>0, <1>1 DEF OpeningKnown, Waiting
<1>5. Emptied
  BY <1>0, <1>1 DEF Emptied
<1>6. HelpersKnown
  <2>1. \A f \in Front : HelpersAt(f) = {}
    BY <1>0, <1>1 DEF HelpersAt, Checking
  <2>2. HelpersGone
    BY <1>0, <1>1, <2>1, FS_EmptySet DEF HelpersGone
  <2> QED BY <1>0, <1>1, <2>2 DEF HelpersKnown, Quiet, Between, Waiting
<1> QED BY <1>2, <1>3, <1>4, <1>5, <1>6

LEMMA SweepSame ==
  TypeOK /\ EndsKnown /\ Gathering /\ OpeningKnown /\ Emptied /\ HelpersKnown
    /\ UNCHANGED <<setup, listVars, ringVars, frontVars, idleVars, workVars, exit, running,
                   terminating, pc>> =>
    (EndsKnown /\ Gathering /\ OpeningKnown /\ Emptied /\ HelpersKnown)'
<1> SUFFICES ASSUME TypeOK, EndsKnown, Gathering, OpeningKnown, Emptied, HelpersKnown,
                    UNCHANGED <<setup, listVars, ringVars, frontVars, idleVars, workVars,
                                exit, running, terminating, pc>>
             PROVE  (EndsKnown /\ Gathering /\ OpeningKnown /\ Emptied /\ HelpersKnown)'
  OBVIOUS
<1> USE DEF listVars, ringVars, frontVars, idleVars, workVars
<1>1. /\ Thread' = Thread /\ Front' = Front /\ Helper' = Helper /\ Initial' = Initial
  BY SameThreads DEF TypeOK, ControlType
<1>2. EndsKnown' /\ Gathering'
  BY <1>1 DEF EndsKnown, Gathering
<1>3. OpeningKnown' /\ Emptied'
  BY <1>1 DEF OpeningKnown, Opening, Emptied, EmptyRing
<1>4. HelpersKnown'
  <2>1. \A f : HelpersAt(f)' = HelpersAt(f)
    BY <1>1 DEF HelpersAt
  <2> QED BY <1>1, <2>1 DEF HelpersKnown, HelpersGone
<1> QED BY <1>2, <1>3, <1>4

(* The inductive invariant.                                                *)
ControlKnown == /\ TypeOK /\ RingsKnown
                /\ EndsKnown /\ Gathering /\ OpeningKnown /\ Emptied /\ HelpersKnown

LEMMA ControlInvariant == Spec => []ControlKnown
<1>1. Init => ControlKnown
  BY TypeInit, SweepInit DEF ControlKnown
<1>2. ControlKnown /\ [Next]_vars => ControlKnown'
  <2> SUFFICES ASSUME ControlKnown, [Next]_vars PROVE ControlKnown'
    OBVIOUS
  <2>1. ASSUME NEW t \in Thread, Step(t) PROVE ControlKnown'
    BY <2>1, TypeStep, RingsStep, EndsStep, GatheringStep, OpeningStep, EmptiedStep, HelpersStep
    DEF ControlKnown
  <2>2. CASE Join \/ Stop \/ UNCHANGED vars
    <3>1. UNCHANGED <<setup, listVars, ringVars, frontVars, idleVars, workVars,
                      exit, running, terminating, pc>>
      BY <2>2 DEF Join, Stop, vars, endVars
    <3> QED BY <3>1, TypeSame, SweepSame DEF ControlKnown
  <2> QED BY <2>1, <2>2 DEF Next
<1> QED BY <1>1, <1>2, PTL DEF Spec

(* A front neither moves on nor clears its buckets while a helper works    *)
(* with them.                                                              *)
THEOREM HelpersAreGone == Spec => []HelpersGone
<1>1. ControlKnown => HelpersGone
  BY DEF ControlKnown, HelpersKnown
<1> QED BY <1>1, ControlInvariant, PTL

-----------------------------------------------------------------------------
(* Who finds what is in a bucket.                                          *)
LEMMA AttendsOn ==
  ASSUME TypeOK, NEW t \in Thread, CheckStates(t), ~exit', NEW m,
         m \in store[frontptr[t]][active[frontptr[t]]], Hash[m] \in Buckets, Attends(t, m)
  PROVE  Attends(t, m)'
<1>0. /\ pc \in [Thread -> FrontLabel \cup HelperLabel]
      /\ tried \in [Thread -> SUBSET Buckets]
  BY DEF TypeOK, ControlType, DataType
<1>k. /\ {"keep", "keepOld", "solved", "lookOld", "lookNew", "lookSame", "lookStore", "insert",
          "insertNew"} = Past
  BY DEF Past, Checking
<1> USE DEF Goto, listVars, ringVars, frontVars, idleVars, workVars, endVars
<1>1. CASE Loop(t)
  <2>1. pc[t] = "loop" /\ exit' = exit
    BY <1>1 DEF Loop
  <2>2. pc'[t] = "pop" /\ tried'[t] = {}
    BY <1>0, <1>1, <2>1 DEF Loop
  <2> QED BY <2>2 DEF Attends
<1>2. CASE Pop(t)
  <2>1. pc[t] = "pop" /\ Hash[m] \notin tried[t]
    BY <1>2, <1>k DEF Pop, Attends
  <2>2. CASE pc' = [pc EXCEPT ![t] = "keep"]
    BY <1>0, <1>k, <2>2 DEF Attends
  <2>3. CASE TryNext(t, store[frontptr[t]][active[frontptr[t]]], "popNew")
    <3>1. PICK b \in Buckets \ tried[t] :
            /\ Hash[m] # b
            /\ tried' = [tried EXCEPT ![t] = IF @ \cup {b} = Buckets THEN {} ELSE @ \cup {b}]
            /\ pc' = [pc EXCEPT ![t] = IF tried[t] \cup {b} = Buckets THEN "popNew" ELSE pc[t]]
      BY <2>3 DEF TryNext
    <3>2. tried[t] \cup {b} # Buckets
      BY <2>1, <3>1
    <3>3. tried'[t] = tried[t] \cup {b} /\ pc'[t] = "pop"
      BY <1>0, <2>1, <3>1, <3>2
    <3> QED BY <2>1, <3>1, <3>3 DEF Attends
  <2> QED BY <1>2, <2>2, <2>3 DEF Pop
<1>3. CASE PopNew(t)
  BY <1>3, <1>k DEF PopNew, Attends
<1>4. CASE Solved(t)
  BY <1>4 DEF Solved
<1>5. CASE \/ Keep(t) \/ KeepOld(t) \/ LookOld(t) \/ LookNew(t) \/ LookSame(t)
           \/ LookStore(t) \/ Insert(t) \/ InsertNew(t)
  <2>1. pc'[t] \in Past \cup {"loop"}
    BY <1>0, <1>5, <1>k DEF Keep, KeepOld, Expand, LookOld, LookNew, LookSame, LookStore, Look,
                          Insert, InsertNew, NextEntry
  <2> QED BY <2>1 DEF Attends
<1> QED BY <1>1, <1>2, <1>3, <1>4, <1>5 DEF CheckStates

(* Who works at a front changes its buckets.                               *)
LEMMA Checks ==
  ASSUME TypeOK, NEW t \in Thread, Step(t), pc[t] \in Checking
  PROVE  CheckStates(t)
<1>1. ASSUME t \in Front, Plain(t) PROVE FALSE
  BY <1>1 DEF Plain, Again, MayBegin, MayAdvance, MayGoOn, Link, LinkFor, Run, Drained,
          Quit, Extend, Finish, Advance, AdvanceKeeping, Post, Deinit, HandOver, Checking
<1>2. ASSUME Alone(t) PROVE FALSE
  BY <1>2 DEF Alone, Initialise, InitCheck, Terminate, Return, Begin, Busy, Draw, Drain, End,
          Outer, Inner, Glance, JoinFront, Work, Release, Back, Read, Nap, Awake, Checking
<1>3. ASSUME Waker(t) PROVE FALSE
  BY <1>3, WakerFacts DEF WakerStep, Checking
<1> QED BY <1>1, <1>2, <1>3, Kinds

LEMMA StoreGrows ==
  ASSUME TypeOK, NEW t \in Thread, CheckStates(t), NEW m,
         m \in store'[frontptr[t]][active[frontptr[t]]],
         m \notin store[frontptr[t]][active[frontptr[t]]]
  PROVE  Attends(t, m)'
<1>0. /\ pc \in [Thread -> FrontLabel \cup HelperLabel]
      /\ store \in [Front -> [0 .. Size - 1 -> SUBSET Marking]]
      /\ active \in [Front -> 0 .. Size - 1] /\ frontptr[t] \in Front
  BY DEF TypeOK, ControlType, DataType
<1> USE DEF Goto, listVars, ringVars, frontVars, idleVars, workVars, endVars
<1>1. CASE Pop(t)
  <2>1. \/ store' = store
        \/ \E x : store' = [store EXCEPT ![frontptr[t]][active[frontptr[t]]] = @ \ {x}]
    BY <1>1 DEF Pop
  <2>2. ASSUME NEW x, store' = [store EXCEPT ![frontptr[t]][active[frontptr[t]]] = @ \ {x}]
        PROVE  FALSE
    <3>1. store'[frontptr[t]] = [store[frontptr[t]] EXCEPT ![active[frontptr[t]]] = @ \ {x}]
      BY <1>0, <2>2
    <3>2. /\ store[frontptr[t]] \in [0 .. Size - 1 -> SUBSET Marking]
          /\ active[frontptr[t]] \in 0 .. Size - 1
      BY <1>0
    <3>3. store'[frontptr[t]][active[frontptr[t]]] = store[frontptr[t]][active[frontptr[t]]] \ {x}
      BY <3>1, <3>2
    <3> QED BY <3>3
  <2>3. store' # store
    OBVIOUS
  <2> QED BY <2>1, <2>2, <2>3
<1>2. CASE Insert(t)
  <2>1. pc'[t] \in {"loop", "lookOld"}
    BY <1>0, <1>2 DEF Insert, NextEntry
  <2> QED BY <2>1 DEF Attends, Past, Checking
<1>3. CASE ~Pop(t) /\ ~Insert(t)
  <2>1. store' = store
    BY <1>3 DEF CheckStates, Loop, PopNew, Keep, KeepOld, LookOld, LookNew, LookSame,
                  LookStore, Look, InsertNew, Solved
  <2> QED BY <2>1
<1> QED BY <1>1, <1>2, <1>3

LEMMA BucketStep ==
  ASSUME TypeOK, HelpersKnown, BucketAttended, NEW t \in Thread, Step(t)
  PROVE  BucketAttended'
<1>0. /\ Thread' = Thread /\ Front' = Front /\ Front \subseteq Thread
      /\ \A u \in Thread : u \in Helper <=> u \notin Front
      /\ \A f \in Front : frontptr[f] = f /\ frontptr'[f] = f
  BY SameThreads, Threads, ControlStep DEF TypeOK, ControlType, Step
<1>1. \A u \in Thread \ {t} : /\ pc'[u] = pc[u] \/ Roused(pc[u], pc'[u])
                              /\ frontptr'[u] = frontptr[u] /\ tried'[u] = tried[u]
  BY ControlStep DEF Others
<1>2. Ends(t) /\ Changes(t)
  BY Moves, Effects
<1>3. ASSUME NEW f \in Front, NEW m \in store[f][active[f]] PROVE Hash[m] \in Buckets
  <2>1. /\ store \in [Front -> [0 .. Size - 1 -> SUBSET Marking]]
        /\ active \in [Front -> 0 .. Size - 1]
    BY DEF TypeOK, DataType
  <2>2. store[f][active[f]] \in SUBSET Marking
    BY <2>1
  <2> QED BY <2>2 DEF Buckets
<1>4. ASSUME NEW f \in Front, pc[f] \in {"quit", "extend", "mayAdvance", "advance"}
      PROVE  \A u \in Thread : frontptr[u] = f => u = f \/ pc[u] \notin Checking
  <2>1. HelpersAt(f) = {}
    BY <1>4, Counted DEF HelpersKnown, HelpersGone
  <2> QED BY <1>0, <2>1 DEF HelpersAt
<1>5. ASSUME NEW f \in Front, pc[f] \notin {"link", "advance"} \/ f # t
      PROVE  active'[f] = active[f]
  BY <1>2, <1>5 DEF Changes
<1>6. ASSUME ~exit', NEW f \in Front, pc'[f] \in Checking \cup {"drain", "drained", "quit"},
             NEW m \in store'[f][active'[f]]
      PROVE  \E u \in Thread : frontptr'[u] = f /\ Attends(u, m)'
  <2>0. ~exit
    BY <1>2, <1>6 DEF Ends
  <2>1. CASE f = t /\ pc'[f] = "loop"
    <3>1. Attends(f, m)'
      BY <2>1 DEF Attends
    <3> QED BY <1>0, <3>1
  <2>2. CASE pc[f] \in Checking \cup {"drain", "drained", "quit"}
    <3>1. active'[f] = active[f]
      BY <1>5, <2>2 DEF Checking
    <3>2. ASSUME m \in store[f][active[f]]
          PROVE  \E u \in Thread : frontptr'[u] = f /\ Attends(u, m)'
      <4>1. PICK u \in Thread : frontptr[u] = f /\ Attends(u, m)
        BY <2>0, <2>2, <3>2 DEF BucketAttended
      <4>2. CASE u # t
        <5>1. frontptr'[u] = frontptr[u] /\ tried'[u] = tried[u] /\ pc'[u] = pc[u]
          BY <1>1, <4>1, <4>2 DEF Attends, Roused, Past, Checking
        <5> QED BY <4>1, <5>1 DEF Attends
      <4>3. CASE u = t
        <5>1. CheckStates(t)
          BY <4>1, <4>3, Checks DEF Attends, Past, Checking
        <5>2. frontptr' = frontptr
          BY <5>1, CheckFacts DEF idleVars
        <5>3. Attends(t, m)'
          BY <1>3, <1>6, <3>2, <4>1, <4>3, <5>1, AttendsOn
        <5> QED BY <4>1, <4>3, <5>2, <5>3
      <4> QED BY <4>2, <4>3
    <3>3. ASSUME m \notin store[f][active[f]]
          PROVE  \E u \in Thread : frontptr'[u] = f /\ Attends(u, m)'
      <4>1. store'[f] # store[f]
        BY <1>6, <3>1, <3>3
      <4>2. f = frontptr[t] /\ pc[t] \in Checking \cup {"advance", "deinit"}
        BY <1>2, <4>1 DEF Changes
      <4>3. pc[t] \in Checking
        <5>1. t \in Helper => pc[t] \notin {"advance", "deinit"}
          BY DEF TypeOK, ControlType, HelperLabel, Waiting, Checking
        <5>2. t \in Front => t = f
          BY <1>0, <4>2
        <5> QED BY <1>0, <2>2, <4>2, <5>1, <5>2 DEF Checking
      <4>4. CheckStates(t)
        BY <4>3, Checks
      <4>5. frontptr' = frontptr
        BY <4>4, CheckFacts DEF idleVars
      <4>6. Attends(t, m)'
        BY <1>6, <3>1, <3>3, <4>2, <4>4, StoreGrows
      <4> QED BY <4>2, <4>5, <4>6
    <3> QED BY <3>2, <3>3
  <2>3. \/ f = t /\ pc'[f] = "loop"
        \/ pc[f] \in Checking \cup {"drain", "drained", "quit"}
    <3>1. CASE f = t
      BY <1>2, <1>6, <3>1 DEF Ends
    <3>2. CASE f # t
      BY <1>0, <1>1, <1>6, <3>2 DEF Roused, Checking
    <3> QED BY <3>1, <3>2
  <2> QED BY <2>1, <2>2, <2>3
<1>7. ASSUME NEW f \in Front, pc'[f] \in {"extend", "mayAdvance", "advance"}
      PROVE  store'[f][active'[f]] = {}
  <2>1. \/ pc[f] \in {"extend", "mayAdvance"} \/ (pc[f] = "advance" /\ f # t)
        \/ pc[f] = "quit" /\ ~exit
    <3>1. CASE f = t
      BY <1>2, <1>7, <3>1 DEF Ends
    <3>2. CASE f # t
      BY <1>0, <1>1, <1>7, <3>2 DEF Roused
    <3> QED BY <3>1, <3>2
  <2>2. active'[f] = active[f]
    BY <1>5, <2>1
  <2>3. store'[f] = store[f]
    <3>1. SUFFICES ASSUME f = frontptr[t], pc[t] \in Checking \cup {"advance", "deinit"}
                   PROVE  FALSE
      BY <1>2 DEF Changes
    <3>2. t = f \/ pc[t] \notin Checking
      BY <1>4, <2>1, <3>1
    <3>3. t \in Helper => pc[t] \notin {"advance", "deinit"}
      BY DEF TypeOK, ControlType, HelperLabel, Waiting, Checking
    <3>4. t \in Front => t = f
      BY <1>0, <3>1
    <3>5. t = f
      BY <1>0, <3>1, <3>2, <3>3, <3>4
    <3> QED BY <2>1, <3>1, <3>5 DEF Checking
  <2>4. store[f][active[f]] = {}
    <3>1. CASE pc[f] \in {"extend", "mayAdvance", "advance"}
      BY <3>1 DEF BucketAttended
    <3>2. CASE pc[f] = "quit" /\ ~exit
      <4>1. ASSUME NEW m \in store[f][active[f]] PROVE FALSE
        <5>1. PICK u \in Thread : frontptr[u] = f /\ Attends(u, m)
          BY <3>2, <4>1 DEF BucketAttended
        <5>2. pc[u] \in Checking
          BY <5>1 DEF Attends, Past, Checking
        <5> QED BY <1>4, <3>2, <5>1, <5>2 DEF Checking
      <4> QED BY <4>1
    <3> QED BY <2>1, <3>1, <3>2
  <2> QED BY <2>2, <2>3, <2>4
<1> QED BY <1>0, <1>6, <1>7 DEF BucketAttended
-----------------------------------------------------------------------------
(* Where the successor of a marking belongs.                               *)
LEMMA Fired ==
  ASSUME TypeOK, RingsKnown, NEW t \in Thread, WorkPlaced(t), pc[t] \in Firing
  PROVE  LET f == frontptr[t]
         IN /\ f \in Front /\ link[f] # <<>> /\ Offset(t) \in Offsets
            /\ Slot(t) = SlotAt(f, Offset(t)) /\ Listed(t) = Pos(f) + Offset(t)
            /\ Listed(t) \in DOMAIN newP
            /\ Reached(t) \in Marking /\ Progress[Reached(t)] = Pos(f) + Offset(t)
<1> DEFINE f == frontptr[t]
<1>0. /\ f \in Front /\ ns[t] \in Marking /\ entry[t] \in 1 .. Len(Firelist[ns[t]])
  BY DEF TypeOK, ControlType, DataType
<1>1. link[f] # <<>> /\ Progress[ns[t]] = Pos(f)
  BY DEF WorkPlaced, Firing
<1>2. /\ Firelist[ns[t]] \in Seq(Transition)
  BY <1>0, SweepAssumption
<1>3. /\ entry[t] \in DOMAIN Firelist[ns[t]] /\ Firelist[ns[t]][entry[t]] \in Transition
  BY <1>0, <1>2
<1>4. Offset(t) \in Offsets
  BY <1>3, Bounds DEF Offset
<1>5. Reached(t) \in Marking
  BY <1>0, <1>3, SweepAssumption DEF Reached
<1>6. Progress[Reached(t)] = Progress[ns[t]] + Offset(t)
  BY <1>0, <1>3, ProgressAssumption DEF Reached, Offset
<1>7. Slot(t) = SlotAt(f, Offset(t))
  BY DEF Slot, SlotAt
<1>8. /\ link[f][SlotAt(f, Offset(t))] = Pos(f) + Offset(t)
      /\ Pos(f) + Offset(t) \in DOMAIN oldP /\ DOMAIN newP = DOMAIN oldP
  BY <1>0, <1>1, <1>4, PlaceListed
<1> QED BY <1>0, <1>1, <1>4, <1>5, <1>6, <1>7, <1>8 DEF Listed

(* Only threads that check states work with markings.                      *)
LEMMA PastChecks ==
  ASSUME TypeOK, NEW t \in Thread, Step(t), pc'[t] \in Past
  PROVE  CheckStates(t)
<1>0. pc \in [Thread -> FrontLabel \cup HelperLabel]
  BY DEF TypeOK, ControlType
<1>1. ASSUME t \in Front, Plain(t) PROVE FALSE
  BY <1>1, PlainFacts DEF Past, Checking, Between
<1>2. ASSUME Alone(t) PROVE FALSE
  BY <1>0, <1>2 DEF Alone, Initialise, InitCheck, Terminate, Return, Begin, Busy, Draw,
          Drain, End, Outer, Inner, Glance, JoinFront, Work, Release, Back, Read, Nap,
          Awake, Goto, MoveOn, SleepOrGoOn, Past, Checking
<1>3. ASSUME Waker(t) PROVE FALSE
  BY <1>3, WakerFacts DEF WakerStep, Past, Checking
<1> QED BY <1>1, <1>2, <1>3, Kinds

(* What may be put into the ring of a front.                               *)
Fitting(f) ==
  /\ \A d \in Offsets : \A m \in store'[f][SlotAt(f, d)] :
        m \in store[f][SlotAt(f, d)] \/ (Progress[m] = Pos(f) + d /\ d >= -Delay)
  /\ \A m \in samevalue'[f] : m \in samevalue[f] \/ Progress[m] = Pos(f)

LEMMA ContentsKept ==
  ASSUME NEW f, ContentsKnown(f), link'[f] = link[f], active'[f] = active[f], Fitting(f)
  PROVE  ContentsKnown(f)'
<1>1. Pos(f)' = Pos(f) /\ \A d : SlotAt(f, d)' = SlotAt(f, d)
  BY DEF Pos, SlotAt
<1>2. \A d \in Offsets : d < -Delay => ~(d >= -Delay)
  BY Bounds DEF Offsets
<1> QED BY <1>1, <1>2 DEF ContentsKnown, Fitting

LEMMA Untouched ==
  ASSUME TypeOK, NEW f \in Front, store'[f] = store[f], samevalue'[f] = samevalue[f]
  PROVE  Fitting(f)
  BY DEF Fitting

Placed(t) ==
  /\ ListsPlaced'
  /\ IF link[frontptr[t]] # <<>> THEN Fitting(frontptr[t])
     ELSE store' = store /\ samevalue' = samevalue
  /\ WorkPlaced(t)'

LEMMA CheckPlaced ==
  ASSUME TypeOK, RingsKnown, MarkingsKnown, NEW t \in Thread, CheckStates(t)
  PROVE  Placed(t)
<1> DEFINE f == frontptr[t]
<1>0. /\ pc \in [Thread -> FrontLabel \cup HelperLabel]
      /\ DOMAIN newP = DOMAIN oldP
      /\ newP \in [DOMAIN newP -> SUBSET Marking] /\ oldP \in [DOMAIN oldP -> SUBSET Marking]
      /\ store \in [Front -> [0 .. Size - 1 -> SUBSET Marking]]
      /\ active \in [Front -> 0 .. Size - 1]
      /\ samevalue \in [Front -> SUBSET Marking]
      /\ ns \in [Thread -> Marking] /\ entry \in [Thread -> Nat] /\ f \in Front
  BY DEF TypeOK, ControlType, DataType
<1>1. /\ ListsPlaced /\ RingPlaced(f) /\ WorkPlaced(t)
  BY <1>0 DEF MarkingsKnown
<1>2. UNCHANGED <<first, active, link, frontptr>>
  BY CheckFacts DEF idleVars
<1>s. /\ active[f] \in 0 .. Size - 1 /\ SlotAt(f, 0) = active[f] /\ 0 \in Offsets
      /\ \A d \in Offsets : SlotAt(f, d) \in 0 .. Size - 1
      /\ \A d, e \in Offsets : SlotAt(f, d) = SlotAt(f, e) => d = e
  BY <1>0, RingSlots, Bounds DEF SlotFrom, SlotAt
<1>p. Pos(f)' = Pos(f)
  BY <1>2 DEF Pos
<1>k. /\ {"keep", "keepOld", "solved", "lookOld", "lookNew", "lookSame", "lookStore", "insert",
          "insertNew"} = Past
      /\ {"lookOld", "lookNew", "lookSame", "lookStore", "insert", "insertNew"} = Firing
      /\ \A l \in Firing : l \in Past
  BY DEF Past, Firing, Checking
<1>l. ASSUME newP' = newP, oldP' = oldP PROVE ListsPlaced'
  BY <1>1, <1>l DEF ListsPlaced
<1>r. ASSUME store' = store, samevalue' = samevalue
      PROVE  IF link[f] # <<>> THEN Fitting(f) ELSE store' = store /\ samevalue' = samevalue
  BY <1>0, <1>r, Untouched
<1> USE DEF Goto, listVars, ringVars, frontVars, idleVars, workVars, endVars
<1>3. CASE Loop(t) \/ Solved(t)
  <2>1. /\ UNCHANGED <<newP, oldP, store, samevalue>>
        /\ pc'[t] \in {"pop", "release", "drain", "quit"}
    BY <1>0, <1>3 DEF Loop, Solved, Checked
  <2>2. WorkPlaced(t)'
    BY <1>k, <2>1 DEF WorkPlaced
  <2> QED BY <1>l, <1>r, <2>1, <2>2 DEF Placed
<1>4. CASE Pop(t)
  <2> DEFINE slot == store[f][active[f]]
  <2>0. pc[t] = "pop" /\ UNCHANGED <<newP, oldP, samevalue>>
    BY <1>4 DEF Pop
  <2>1. CASE TryNext(t, slot, "popNew") /\ UNCHANGED <<ns, store>>
    <3>1. pc'[t] \in {"popNew", "pop"}
      BY <1>0, <2>0, <2>1 DEF TryNext
    <3>2. WorkPlaced(t)'
      BY <1>k, <3>1 DEF WorkPlaced
    <3> QED BY <1>l, <1>r, <2>0, <2>1, <3>2 DEF Placed
  <2>2. CASE \E m \in Hits(t, slot) :
               /\ ns' = [ns EXCEPT ![t] = m]
               /\ store' = [store EXCEPT ![f][active[f]] = @ \ {m}]
               /\ pc' = [pc EXCEPT ![t] = "keep"]
    <3>1. PICK m \in slot : /\ ns' = [ns EXCEPT ![t] = m]
                            /\ store' = [store EXCEPT ![f][active[f]] = slot \ {m}]
                            /\ pc' = [pc EXCEPT ![t] = "keep"]
      BY <2>2 DEF Hits
    <3>2. link[f] # <<>>
      <4>1. store[f] = EmptyRing => slot = {}
        BY <1>s DEF EmptyRing
      <4> QED BY <1>1, <3>1, <4>1 DEF RingPlaced
    <3>3. ContentsKnown(f)
      BY <1>1, <3>2 DEF RingPlaced
    <3>4. Progress[m] = Pos(f)
      <4>1. Progress[m] = Pos(f) + 0
        BY <1>s, <3>1, <3>3 DEF ContentsKnown
      <4>2. Pos(f) \in Int
        BY <1>0, <3>2, PlaceListed
      <4> QED BY <4>1, <4>2
    <3>5. WorkPlaced(t)'
      <4>1. pc'[t] = "keep" /\ ns'[t] = m
        BY <1>0, <3>1
      <4> QED BY <1>2, <1>p, <3>2, <3>4, <4>1 DEF WorkPlaced
    <3>6. Fitting(f)
      <4>1. /\ store'[f][active[f]] = slot \ {m}
            /\ \A j \in 0 .. Size - 1 : j # active[f] => store'[f][j] = store[f][j]
        <5>1. store'[f] = [store[f] EXCEPT ![active[f]] = slot \ {m}]
          BY <1>0, <3>1
        <5>2. store[f] \in [0 .. Size - 1 -> SUBSET Marking]
          BY <1>0
        <5> QED BY <1>s, <5>1, <5>2
      <4>2. \A j \in 0 .. Size - 1 : store'[f][j] \subseteq store[f][j]
        BY <4>1
      <4> QED BY <1>s, <2>0, <4>2 DEF Fitting
    <3> QED BY <1>l, <2>0, <3>2, <3>5, <3>6 DEF Placed
  <2>3. \/ TryNext(t, slot, "popNew") /\ UNCHANGED <<ns, store>>
        \/ \E m \in Hits(t, slot) :
               /\ ns' = [ns EXCEPT ![t] = m]
               /\ store' = [store EXCEPT ![f][active[f]] = @ \ {m}]
               /\ pc' = [pc EXCEPT ![t] = "keep"]
    BY <1>4 DEF Pop
  <2> QED BY <2>1, <2>2, <2>3
<1>5. CASE PopNew(t)
  <2> DEFINE at == link[f][active[f]]
  <2>0. pc[t] = "popNew" /\ link[f] # <<>> /\ UNCHANGED <<oldP, store, samevalue>>
    BY <1>5 DEF PopNew
  <2>1. CASE TryNext(t, newP[at], Checked(t)) /\ UNCHANGED <<ns, newP>>
    <3>1. pc'[t] \in {"popNew", "release", "drain", "quit"}
      BY <1>0, <2>0, <2>1 DEF TryNext, Checked
    <3>2. WorkPlaced(t)'
      BY <1>k, <3>1 DEF WorkPlaced
    <3> QED BY <1>l, <1>r, <2>0, <2>1, <3>2 DEF Placed
  <2>2. CASE \E m \in Hits(t, newP[at]) :
               /\ ns' = [ns EXCEPT ![t] = m]
               /\ newP' = [newP EXCEPT ![at] = @ \ {m}]
               /\ pc' = [pc EXCEPT ![t] = "keepOld"]
    <3>1. PICK m \in newP[at] : /\ ns' = [ns EXCEPT ![t] = m]
                                /\ newP' = [newP EXCEPT ![at] = @ \ {m}]
                                /\ pc' = [pc EXCEPT ![t] = "keepOld"]
      BY <2>2 DEF Hits
    <3>2. Progress[m] = Pos(f)
      <4>1. at \in DOMAIN newP /\ at = Pos(f)
        BY <1>0, <2>0, PlaceListed DEF Pos
      <4> QED BY <1>1, <3>1, <4>1 DEF ListsPlaced
    <3>3. WorkPlaced(t)'
      <4>1. pc'[t] = "keepOld" /\ ns'[t] = m
        BY <1>0, <3>1
      <4> QED BY <1>2, <1>p, <2>0, <3>2, <4>1 DEF WorkPlaced
    <3>4. ListsPlaced'
      <4>1. /\ DOMAIN newP' = DOMAIN newP
            /\ \A i \in DOMAIN newP : newP'[i] \subseteq newP[i]
        BY <1>0, <3>1
      <4> QED BY <1>1, <2>0, <4>1 DEF ListsPlaced
    <3> QED BY <1>r, <2>0, <3>3, <3>4 DEF Placed
  <2> QED BY <1>5, <2>1, <2>2 DEF PopNew
<1>6. CASE Keep(t) \/ KeepOld(t)
  <2>1. /\ pc[t] \in {"keep", "keepOld"} /\ UNCHANGED <<newP, store, ns>>
        /\ pc'[t] \in {"solved", "loop", "lookOld"}
    BY <1>0, <1>6 DEF Keep, KeepOld, Expand
  <2>2. link[f] # <<>> /\ Progress[ns[t]] = Pos(f)
    BY <1>1, <1>k, <2>1 DEF WorkPlaced
  <2>3. WorkPlaced(t)'
    BY <1>2, <1>p, <2>1, <2>2 DEF WorkPlaced
  <2>4. CASE Keep(t)
    <3>1. samevalue' = [samevalue EXCEPT ![f] = @ \cup {ns[t]}] /\ UNCHANGED oldP
      BY <2>4 DEF Keep
    <3>2. samevalue'[f] = samevalue[f] \cup {ns[t]}
      BY <1>0, <3>1
    <3>3. Fitting(f)
      BY <2>1, <2>2, <3>2 DEF Fitting
    <3> QED BY <1>l, <2>1, <2>2, <2>3, <3>1, <3>3 DEF Placed
  <2>5. CASE KeepOld(t)
    <3>1. oldP' = [oldP EXCEPT ![Pos(f)] = @ \cup {ns[t]}] /\ UNCHANGED samevalue
      BY <2>5 DEF KeepOld, Pos
    <3>2. Pos(f) \in DOMAIN oldP
      BY <1>0, <2>2, PlaceListed
    <3>3. /\ oldP'[Pos(f)] = oldP[Pos(f)] \cup {ns[t]}
          /\ \A i \in DOMAIN oldP : i # Pos(f) => oldP'[i] = oldP[i]
      <4> DEFINE at == Pos(f)
      <4>1. at \in DOMAIN oldP /\ oldP' = [oldP EXCEPT ![at] = @ \cup {ns[t]}]
        BY <3>1, <3>2
      <4> HIDE DEF at
      <4>2. /\ oldP'[at] = oldP[at] \cup {ns[t]}
            /\ \A i \in DOMAIN oldP : i # at => oldP'[i] = oldP[i]
        BY <1>0, <4>1
      <4> QED BY <4>2 DEF at
    <3>4. ListsPlaced'
      BY SMTT(30), <1>0, <1>1, <2>1, <2>2, <3>3 DEF ListsPlaced
    <3> QED BY <1>r, <2>1, <2>3, <3>1, <3>4 DEF Placed
  <2> QED BY <1>6, <2>4, <2>5
<1>7. ASSUME pc[t] \in Firing, ns' = ns, NextEntry(t)
      PROVE  WorkPlaced(t)'
  <2>1. pc'[t] \in {"loop", "lookOld"}
    BY <1>0, <1>7 DEF NextEntry
  <2>2. link[f] # <<>> /\ Progress[ns[t]] = Pos(f)
    BY <1>1, <1>7, <1>k DEF WorkPlaced
  <2> QED BY <1>2, <1>7, <1>p, <2>1, <2>2 DEF WorkPlaced
<1>8. CASE LookOld(t) \/ LookNew(t) \/ LookSame(t) \/ LookStore(t)
  <2>1. /\ pc[t] \in {"lookOld", "lookNew", "lookSame", "lookStore"}
        /\ UNCHANGED <<newP, oldP, store, samevalue, ns>>
        /\ \/ NextEntry(t)
           \/ /\ entry' = entry
              /\ \/ pc'[t] \in {"lookStore", "insertNew"}
                 \/ pc'[t] = "lookNew" /\ ~(Offset(t) < 0)
                 \/ pc'[t] \in {"lookSame", "insert"} /\ pc[t] \in {"lookNew", "lookSame"}
    BY <1>0, <1>8 DEF LookOld, LookNew, LookSame, LookStore, Look
  <2>2. pc[t] \in Firing
    BY <1>k, <2>1
  <2>3. WorkPlaced(t)'
    <3>1. CASE NextEntry(t)
      BY <1>7, <2>1, <2>2, <3>1
    <3>2. CASE entry' = entry /\ ~NextEntry(t)
      <4>1. link[f] # <<>> /\ Progress[ns[t]] = Pos(f)
        BY <1>1, <1>k, <2>2 DEF WorkPlaced
      <4>2. Offset(t)' = Offset(t)
        BY <2>1, <3>2 DEF Offset
      <4>3. Offset(t) \in Int
        BY <1>1, <2>2, Fired, Bounds DEF Offsets
      <4>4. pc'[t] \in {"lookNew", "lookSame", "insert"} => Offset(t) >= 0
        BY <1>1, <2>1, <3>2, <4>3 DEF WorkPlaced
      <4> QED BY <1>2, <1>p, <2>1, <4>1, <4>2, <4>4 DEF WorkPlaced
    <3> QED BY <2>1, <3>1, <3>2
  <2> QED BY <1>l, <1>r, <2>1, <2>3 DEF Placed
<1>9. CASE Insert(t)
  <2>1. /\ pc[t] = "insert" /\ UNCHANGED <<newP, oldP, samevalue, ns>> /\ NextEntry(t)
        /\ store' = [store EXCEPT ![f][Slot(t)] = store[f][Slot(t)] \cup {Reached(t)}]
    BY <1>9 DEF Insert
  <2>2. pc[t] \in Firing /\ Offset(t) >= 0
    BY <1>1, <1>k, <2>1 DEF WorkPlaced
  <2>3. /\ link[f] # <<>> /\ Offset(t) \in Offsets
        /\ Slot(t) = SlotAt(f, Offset(t)) /\ Progress[Reached(t)] = Pos(f) + Offset(t)
    BY <1>1, <2>2, Fired
  <2>4. /\ store'[f][Slot(t)] = store[f][Slot(t)] \cup {Reached(t)}
        /\ \A j \in 0 .. Size - 1 : j # Slot(t) => store'[f][j] = store[f][j]
    <3>1. Slot(t) \in 0 .. Size - 1
      BY <1>s, <2>3
    <3> DEFINE i == Slot(t)
               M == store[f][i] \cup {Reached(t)}
    <3>2. i \in 0 .. Size - 1 /\ store' = [store EXCEPT ![f][i] = M]
      BY <2>1, <3>1
    <3> HIDE DEF i, M
    <3>3. store'[f] = [store[f] EXCEPT ![i] = M] /\ store[f] \in [0 .. Size - 1 -> SUBSET Marking]
      BY <1>0, <3>2
    <3>4. store'[f][i] = M /\ \A j \in 0 .. Size - 1 : j # i => store'[f][j] = store[f][j]
      BY <3>2, <3>3
    <3> QED BY <3>4 DEF i, M
  <2>5. Offset(t) >= -Delay
    BY <2>2, <2>3, Bounds DEF Offsets
  <2>6. Fitting(f)
    <3>1. ASSUME NEW d \in Offsets, NEW m \in store'[f][SlotAt(f, d)]
          PROVE  m \in store[f][SlotAt(f, d)] \/ (Progress[m] = Pos(f) + d /\ d >= -Delay)
      <4>1. CASE d = Offset(t)
        BY <2>3, <2>4, <2>5, <3>1, <4>1
      <4>2. CASE d # Offset(t)
        <5>1. SlotAt(f, d) # Slot(t) /\ SlotAt(f, d) \in 0 .. Size - 1
          BY <1>s, <2>3, <4>2
        <5> QED BY <2>4, <3>1, <5>1
      <4> QED BY <4>1, <4>2
    <3> QED BY <2>1, <3>1 DEF Fitting
  <2>7. WorkPlaced(t)'
    BY <1>7, <2>1, <2>2
  <2> QED BY <1>l, <2>1, <2>3, <2>6, <2>7 DEF Placed
<1>10. CASE InsertNew(t)
  <2>1. /\ pc[t] = "insertNew" /\ UNCHANGED <<oldP, store, samevalue, ns>> /\ NextEntry(t)
        /\ newP' = [newP EXCEPT ![Listed(t)] = @ \cup {Reached(t)}]
    BY <1>10 DEF InsertNew
  <2>2. pc[t] \in Firing
    BY <1>k, <2>1
  <2>3. /\ Listed(t) \in DOMAIN newP /\ Progress[Reached(t)] = Listed(t)
    BY <1>1, <2>2, Fired
  <2>4. ListsPlaced'
    <3> DEFINE i == Listed(t)
               m == Reached(t)
    <3>1. i \in DOMAIN newP /\ Progress[m] = i /\ newP' = [newP EXCEPT ![i] = @ \cup {m}]
      BY <2>1, <2>3
    <3> HIDE DEF i, m
    <3>2. /\ DOMAIN newP' = DOMAIN newP
          /\ newP'[i] = newP[i] \cup {m}
          /\ \A j \in DOMAIN newP : j # i => newP'[j] = newP[j]
      BY <1>0, <3>1
    <3> QED BY <1>1, <2>1, <3>1, <3>2 DEF ListsPlaced
  <2>5. WorkPlaced(t)'
    BY <1>7, <2>1, <2>2
  <2> QED BY <1>r, <2>1, <2>4, <2>5 DEF Placed
<1> QED
  BY <1>3, <1>4, <1>5, <1>6, <1>8, <1>9, <1>10 DEF CheckStates

(* An empty ring fits everywhere.                                          *)
LEMMA EmptyFits ==
  ASSUME NEW f, store'[f] = EmptyRing, samevalue'[f] = {},
         \A d \in Offsets : SlotAt(f, d)' \in 0 .. Size - 1
  PROVE  RingPlaced(f)'
BY DEF RingPlaced, ContentsKnown, EmptyRing

(* The lists get empty buckets only.                                       *)
LEMMA ListsStayPlaced ==
  ASSUME DataType, ListsPlaced, NEW places \in SUBSET Int,
         newP' = Extended(newP, places), oldP' = Extended(oldP, places)
  PROVE  ListsPlaced'
<1>1. \A i \in DOMAIN newP' : \/ i \in DOMAIN newP /\ newP'[i] = newP[i] /\ oldP'[i] = oldP[i]
                              \/ newP'[i] = {} /\ oldP'[i] = {}
  BY ListsExtended
<1> QED BY <1>1 DEF ListsPlaced

(* A front that begins.                                                    *)
LEMMA LinkPlaced ==
  ASSUME TypeOK, RingsKnown, OpeningKnown, MarkingsKnown, NEW f \in Front, Link(f)
  PROVE  ListsPlaced' /\ RingPlaced(f)'
<1>0. /\ link \in [Front -> [0 .. Size - 1 -> Int] \cup {<<>>}]
      /\ active \in [Front -> 0 .. Size - 1] /\ first \in Int /\ setup \in Setups
  BY DEF TypeOK, ControlType, DataType
<1>1. /\ pc[f] = "link" /\ UNCHANGED <<listVars, store, samevalue>>
      /\ exit => UNCHANGED <<link, active>>
      /\ ~exit => /\ link' = [link EXCEPT ![f] = [i \in 0 .. Size - 1 |-> first + i]]
                  /\ active' = [active EXCEPT ![f] = BackOffset]
  BY DEF Link, LinkFor
<1>2. ListsPlaced'
  BY <1>1 DEF MarkingsKnown, ListsPlaced, listVars
<1>3. CASE exit
  BY <1>1, <1>2, <1>3 DEF MarkingsKnown, RingPlaced, ContentsKnown, Pos, SlotAt
<1>4. CASE ~exit
  <2>1. /\ Pos(f)' = first + BackOffset
        /\ \A d \in Offsets : SlotAt(f, d)' = BackOffset + d
    BY <1>1, <1>4, RingLinked
  <2>2. \A d \in Offsets : SlotAt(f, d)' \in 0 .. Size - 1
    BY <2>1, Bounds DEF Offsets
  <2>3. \/ f = 0 /\ Opening
        \/ store[f] = EmptyRing /\ samevalue[f] = {}
    BY <1>1, <1>4 DEF MarkingsKnown, Vacated, Between
  <2>4. CASE store[f] = EmptyRing /\ samevalue[f] = {}
    BY <1>1, <1>2, <2>2, <2>4, EmptyFits
  <2>5. CASE f = 0 /\ Opening
    <3>1. /\ first = -BackOffset /\ samevalue[f] = {}
          /\ store[f] = [EmptyRing EXCEPT ![BackOffset] = {Initial}]
      BY <2>5 DEF OpeningKnown
    <3>2. Progress[Initial] = 0
      BY <1>0, ProgressAssumption DEF Initial
    <3>3. Pos(f)' = 0
      BY <2>1, <3>1, Bounds
    <3>4. BackOffset \in 0 .. Size - 1
      BY Bounds
    <3>5. ASSUME NEW d \in Offsets
          PROVE  store'[f][SlotAt(f, d)'] = IF d = 0 THEN {Initial} ELSE {}
      <4>1. d = 0 <=> BackOffset + d = BackOffset
        BY Bounds DEF Offsets
      <4>2. store'[f][BackOffset + d] = IF d = 0 THEN {Initial} ELSE {}
        BY <1>1, <2>1, <2>2, <3>1, <3>4, <4>1 DEF EmptyRing
      <4> QED BY <2>1, <4>2
    <3>6. \A d \in Offsets : d = 0 => Progress[Initial] = Pos(f)' + d /\ ~(d < -Delay)
      BY <3>2, <3>3, Bounds
    <3>7. ContentsKnown(f)'
      <4>1. \A d \in Offsets : \A m \in store'[f][SlotAt(f, d)'] :
               Progress[m] = Pos(f)' + d /\ ~(d < -Delay)
        BY <3>5, <3>6
      <4>2. \A d \in Offsets : d < -Delay => store'[f][SlotAt(f, d)'] = {}
        BY <3>5, <3>6
      <4>3. samevalue'[f] = {}
        BY <1>1, <3>1
      <4> QED BY <4>1, <4>2, <4>3 DEF ContentsKnown
    <3>8. link'[f] # <<>>
      <4>1. link'[f] = [i \in 0 .. Size - 1 |-> first + i]
        BY <1>0, <1>1, <1>4
      <4>2. link'[f] \in [0 .. Size - 1 -> Int]
        BY <1>0, <4>1
      <4> QED BY <4>2, RingNotEmpty
    <3> QED BY <1>2, <3>7, <3>8 DEF RingPlaced
  <2> QED BY <2>3, <2>4, <2>5
<1> QED BY <1>2, <1>3, <1>4

(* A front that advances forgets what is too far behind, and puts what it  *)
(* has found at the current progress back into its bucket.                 *)
LEMMA AdvancePlaced ==
  ASSUME TypeOK, RingsKnown, BucketAttended, MarkingsKnown, NEW f \in Front, Advance(f)
  PROVE  ListsPlaced' /\ RingPlaced(f)'
<1> DEFINE old(d) == store[f][SlotAt(f, d)]
           new(d) == store'[f][SlotAt(f, d)]
<1>1. /\ pc[f] = "advance" /\ link[f] # <<>> /\ ContentsKnown(f) /\ ListsPlaced
      /\ store[f][active[f]] = {}
  <2>1. pc[f] = "advance"
    BY DEF Advance, AdvanceKeeping
  <2>2. link[f] # <<>>
    BY <2>1 DEF RingsKnown, Live, Sweeping
  <2> QED BY <2>1, <2>2 DEF MarkingsKnown, RingPlaced, BucketAttended
<1>2. /\ store' = IF Delay > 0
                  THEN [store EXCEPT ![f] = [@ EXCEPT ![SlotAt(f, -Delay)] = {},
                                                      ![active[f]] = samevalue[f]]]
                  ELSE store
      /\ samevalue' = [samevalue EXCEPT ![f] = {}]
      /\ newP' = Extended(newP, {Ahead(f)}) /\ oldP' = Extended(oldP, {Ahead(f)})
      /\ link' = [link EXCEPT ![f] = [@ EXCEPT ![SlotAt(f, -BackOffset)] = Ahead(f)]]
      /\ Ahead(f) \in Int
  BY <1>1, AdvanceFacts
<1>3. /\ Pos(f)' = Pos(f) + 1
      /\ \A d \in Offsets :
           d # FrontOffset => d + 1 \in Offsets /\ SlotAt(f, d)' = SlotAt(f, d + 1)
      /\ SlotAt(f, FrontOffset)' = SlotAt(f, -BackOffset)
  BY <1>1, RingAdvanced
<1>4. ListsPlaced'
  <2>1. {Ahead(f)} \in SUBSET Int
    BY <1>2
  <2> QED BY <1>1, <1>2, <2>1, ListsStayPlaced DEF TypeOK
<1>5. link'[f] # <<>>
  <2>1. /\ link[f] \in [0 .. Size - 1 -> Int] /\ f \in DOMAIN link
    BY <1>1, PlaceListed DEF TypeOK, DataType
  <2>2. link'[f] \in [0 .. Size - 1 -> Int]
    BY <1>2, <2>1
  <2> QED BY <2>2, RingNotEmpty
<1>6. /\ Pos(f) \in Int /\ SlotAt(f, 0) = active[f] /\ active[f] \in 0 .. Size - 1
      /\ \A d \in Offsets : SlotAt(f, d) \in 0 .. Size - 1
      /\ \A d, e \in Offsets : SlotAt(f, d) = SlotAt(f, e) => d = e
      /\ f \in DOMAIN store /\ store[f] \in [0 .. Size - 1 -> SUBSET Marking]
      /\ f \in DOMAIN samevalue
  <2>1. active[f] \in 0 .. Size - 1
    BY DEF TypeOK, DataType
  <2>2. /\ SlotAt(f, 0) = active[f]
        /\ \A d \in Offsets : SlotAt(f, d) \in 0 .. Size - 1
        /\ \A d, e \in Offsets : SlotAt(f, d) = SlotAt(f, e) => d = e
    BY <2>1, RingSlots DEF SlotFrom, SlotAt
  <2>3. /\ f \in DOMAIN store /\ store[f] \in [0 .. Size - 1 -> SUBSET Marking]
        /\ f \in DOMAIN samevalue
    BY DEF TypeOK, DataType
  <2> QED BY <1>1, <2>1, <2>2, <2>3, PlaceListed
<1>b. /\ FrontOffset \in Nat /\ BackOffset \in Nat /\ 0 \in Offsets
      /\ -BackOffset \in Offsets /\ FrontOffset \in Offsets /\ -Delay \in Offsets
      /\ \A d \in Offsets : d \in Int /\ d >= -BackOffset
      /\ Delay \in 0 .. BackOffset
  BY Bounds DEF Offsets
(* What is in the slots after the step.                                    *)
<1>7. ASSUME NEW d \in Offsets
      PROVE  /\ Delay = 0 => new(d) = old(d)
             /\ Delay > 0 /\ d = 0 => new(d) = samevalue[f]
             /\ Delay > 0 /\ d = -Delay => new(d) = {}
             /\ d # 0 /\ d # -Delay => new(d) = old(d)
  <2>1. CASE Delay = 0
    BY <1>2, <2>1
  <2>2. CASE Delay > 0
    <3>1. store'[f] = [store[f] EXCEPT ![SlotAt(f, -Delay)] = {}, ![active[f]] = samevalue[f]]
      BY <1>2, <1>6, <2>2
    <3>2. SlotAt(f, -Delay) # active[f]
      BY <1>6, <1>b, <2>2
    <3>3. d # 0 => SlotAt(f, d) # active[f]
      BY <1>6, <1>b
    <3>4. d # -Delay => SlotAt(f, d) # SlotAt(f, -Delay)
      BY <1>6, <1>b
    <3>5. /\ store'[f][active[f]] = samevalue[f]
          /\ store'[f][SlotAt(f, -Delay)] = {}
          /\ \A s \in 0 .. Size - 1 : s # active[f] /\ s # SlotAt(f, -Delay) =>
                store'[f][s] = store[f][s]
      BY <1>6, <1>b, <3>1, <3>2
    <3> QED BY <1>6, <1>b, <2>2, <3>3, <3>4, <3>5
  <2> QED BY <1>b, <2>1, <2>2
<1>8. ASSUME NEW d \in Offsets
      PROVE  /\ \A m \in new(d) : Progress[m] = Pos(f) + d
             /\ d <= -Delay => new(d) = {}
  <2>1. /\ \A m \in old(d) : Progress[m] = Pos(f) + d
        /\ d < -Delay => old(d) = {}
        /\ \A m \in samevalue[f] : Progress[m] = Pos(f)
        /\ d = 0 => old(d) = {}
    BY <1>1, <1>6 DEF ContentsKnown
  <2>2. CASE Delay = 0
    BY <1>7, <1>b, <2>1, <2>2
  <2>3. CASE Delay > 0
    BY <1>6, <1>7, <1>b, <2>1, <2>3
  <2> QED BY <1>b, <2>2, <2>3
<1>9. ASSUME NEW d \in Offsets
      PROVE  /\ \A m \in store'[f][SlotAt(f, d)'] : Progress[m] = Pos(f)' + d
             /\ d < -Delay => store'[f][SlotAt(f, d)'] = {}
  <2>1. CASE d = FrontOffset
    <3>1. store'[f][SlotAt(f, d)'] = new(-BackOffset)
      BY <1>3, <2>1
    <3>2. new(-BackOffset) = {}
      BY <1>8, <1>b
    <3> QED BY <3>1, <3>2
  <2>2. CASE d # FrontOffset
    <3>1. d + 1 \in Offsets /\ store'[f][SlotAt(f, d)'] = new(d + 1)
      BY <1>3, <2>2
    <3>2. /\ \A m \in new(d + 1) : Progress[m] = Pos(f) + (d + 1)
          /\ d + 1 <= -Delay => new(d + 1) = {}
      BY <1>8, <3>1
    <3>3. Pos(f) + (d + 1) = Pos(f)' + d /\ (d < -Delay => d + 1 <= -Delay)
      BY <1>3, <1>6, <1>b
    <3> QED BY <3>1, <3>2, <3>3
  <2> QED BY <2>1, <2>2
<1>10. samevalue'[f] = {}
  BY <1>2, <1>6
<1> QED BY <1>4, <1>5, <1>9, <1>10 DEF RingPlaced, ContentsKnown

(* A step of a front that is not about to check states.                    *)
LEMMA FrontPlaced ==
  ASSUME TypeOK, RingsKnown, OpeningKnown, BucketAttended, MarkingsKnown,
         NEW f \in Front, f \in Thread, Plain(f)
  PROVE  ListsPlaced' /\ RingPlaced(f)'
<1>0. /\ ListsPlaced /\ RingPlaced(f) /\ DataType
      /\ active \in [Front -> 0 .. Size - 1]
      /\ store \in [Front -> [0 .. Size - 1 -> SUBSET Marking]]
      /\ samevalue \in [Front -> SUBSET Marking]
  BY DEF MarkingsKnown, TypeOK, DataType
<1>1. CASE Link(f)
  BY <1>1, LinkPlaced
<1>2. CASE Advance(f)
  BY <1>2, AdvancePlaced
<1>3. ASSUME UNCHANGED ringVars
      PROVE  RingPlaced(f)'
  BY <1>0, <1>3 DEF ringVars, RingPlaced, ContentsKnown, Pos, SlotAt, EmptyRing
<1>4. ASSUME UNCHANGED listVars
      PROVE  ListsPlaced'
  BY <1>0, <1>4 DEF listVars, ListsPlaced
<1>5. CASE Extend(f) \/ Finish(f)
  <2>1. /\ UNCHANGED listVars \/ \E n \in Nat : ExtendLeft(n)
        /\ UNCHANGED ringVars
    BY <1>5, LeftExtended
  <2>2. ASSUME NEW n \in Nat, ExtendLeft(n)
        PROVE  ListsPlaced'
    <3>1. /\ newP' = Extended(newP, first' .. first - 1)
          /\ oldP' = Extended(oldP, first' .. first - 1)
      BY <2>2 DEF ExtendLeft
    <3>2. first' .. first - 1 \in SUBSET Int
      OBVIOUS
    <3> QED BY <1>0, <3>1, <3>2, ListsStayPlaced
  <2> QED BY <1>3, <1>4, <2>1, <2>2
<1>6. CASE Deinit(f)
  <2>1. /\ UNCHANGED <<listVars, active, link>>
        /\ store'[f] = EmptyRing /\ samevalue'[f] = {}
    BY <1>0, <1>6 DEF Deinit
  <2>2. \A d \in Offsets : SlotAt(f, d)' \in 0 .. Size - 1
    BY <1>0, <2>1, RingSlots DEF SlotAt, SlotFrom
  <2> QED BY <1>4, <2>1, <2>2, EmptyFits
<1>7. CASE \/ Again(f) \/ MayBegin(f) \/ Run(f) \/ Drained(f) \/ Quit(f) \/ MayAdvance(f)
           \/ Post(f) \/ HandOver(f)
  <2>1. UNCHANGED listVars /\ UNCHANGED ringVars
    BY <1>7 DEF Again, MayBegin, Run, Drained, Quit, MayAdvance, MayGoOn, Post, HandOver
  <2> QED BY <1>3, <1>4, <2>1
<1> QED BY <1>1, <1>2, <1>5, <1>6, <1>7 DEF Plain

LEMMA RingSame ==
  ASSUME NEW g, RingPlaced(g), store'[g] = store[g], samevalue'[g] = samevalue[g],
         link'[g] = link[g], active'[g] = active[g]
  PROVE  RingPlaced(g)'
BY DEF RingPlaced, ContentsKnown, Pos, SlotAt, EmptyRing

LEMMA MarkingsStep ==
  ASSUME TypeOK, RingsKnown, OpeningKnown, HelpersKnown, BucketAttended, MarkingsKnown,
         NEW t \in Thread, Step(t)
  PROVE  MarkingsKnown'
<1>0. /\ Thread' = Thread /\ Front' = Front /\ 0 \in Front /\ Front \subseteq Thread
      /\ \A u \in Thread : u \in Helper <=> u \notin Front
      /\ \A f \in Front : frontptr[f] = f
      /\ \A u \in Thread : frontptr[u] \in Front
  BY SameThreads, Threads DEF TypeOK, ControlType, Step
<1>1. \A u \in Thread \ {t} :
        /\ pc'[u] = pc[u] \/ Roused(pc[u], pc'[u])
        /\ frontptr'[u] = frontptr[u] /\ ns'[u] = ns[u] /\ entry'[u] = entry[u]
  BY ControlStep DEF Others
<1>2. Labels(t) /\ Ends(t) /\ Changes(t)
  BY Moves, Effects
<1>3. CheckStates(t) => Placed(t) /\ UNCHANGED <<link, active>>
  BY CheckPlaced, CheckFacts
<1>4. ASSUME t \in Front, Plain(t) PROVE ListsPlaced' /\ RingPlaced(t)'
  BY <1>4, FrontPlaced
<1>5. ASSUME Alone(t) \/ Waker(t) PROVE UNCHANGED listVars /\ UNCHANGED ringVars
  BY <1>5, AloneFacts, WakerFacts DEF WakerStep
<1>6. ASSUME NEW h \in Thread, pc[h] \in Checking, frontptr[h] # h
      PROVE  helpers[frontptr[h]] # 0
  <2>1. h \in HelpersAt(frontptr[h])
    BY <1>0, <1>6 DEF HelpersAt
  <2> QED BY <1>0, <2>1, Counted DEF HelpersKnown
<1>7. t \notin Front => pc[t] \notin {"advance", "deinit", "link"}
  BY <1>0 DEF TypeOK, ControlType, HelperLabel, Waiting, Checking
<1>8. ListsPlaced'
  <2>1. UNCHANGED listVars => ListsPlaced'
    BY DEF MarkingsKnown, ListsPlaced, listVars
  <2> QED BY <1>3, <1>4, <1>5, <2>1, Kinds DEF Placed
<1>9. ASSUME NEW g \in Front
      PROVE  RingPlaced(g)'
  <2>1. RingPlaced(g)
    BY DEF MarkingsKnown
  <2>2. CASE g # t /\ g # frontptr[t]
    BY <1>2, <2>1, <2>2, RingSame DEF Changes
  <2>3. CASE CheckStates(t) /\ g = frontptr[t]
    <3>1. CASE link[g] = <<>>
      BY <1>3, <2>1, <2>3, <3>1, RingSame DEF Placed
    <3>2. CASE link[g] # <<>>
      <4>1. ContentsKnown(g)'
        BY <1>3, <2>1, <2>3, <3>2, ContentsKept DEF Placed, RingPlaced
      <4> QED BY <1>3, <2>3, <3>2, <4>1 DEF RingPlaced
    <3> QED BY <3>1, <3>2
  <2>4. CASE CheckStates(t) /\ g = t /\ g # frontptr[t]
    BY <1>0, <2>4
  <2>5. CASE t \in Front /\ Plain(t) /\ (g = t \/ g = frontptr[t])
    BY <1>0, <1>4, <2>5
  <2>6. CASE Alone(t) \/ Waker(t)
    BY <1>5, <2>1, <2>6, RingSame DEF ringVars
  <2> QED BY <2>2, <2>3, <2>4, <2>5, <2>6, Kinds
<1>10. ASSUME NEW f \in Front, pc'[f] \in Between \cup {"handOver"}
       PROVE  Vacated(f)'
  <2>0. \/ pc[f] \notin Checking \cup {"advance", "deinit"} /\ f = t
        \/ frontptr[t] # f
        => store'[f] = store[f] /\ samevalue'[f] = samevalue[f]
    BY <1>0, <1>2 DEF Changes
  <2>s. ASSUME store'[f] = store[f], samevalue'[f] = samevalue[f], Vacated(f),
               f = 0 /\ pc[0] \in Between => pc'[0] \in Between,
               f = 0 => pc[0] \in Between \cup {"handOver"}
        PROVE  Vacated(f)'
    <3>1. f # 0 /\ exit => f # 0 /\ exit'
      BY <1>2 DEF Ends
    <3>2. f = 0 /\ Opening => f = 0 /\ Opening'
      BY <2>s DEF Opening, Between, Waiting, EmptyRing
    <3> QED BY <2>s, <3>1, <3>2 DEF Vacated, EmptyRing
  <2>1. CASE f = t
    <3>1. /\ pc[f] \in Between \cup {"begin", "deinit", "handOver"}
          /\ pc[f] = "begin" => pc'[f] = "again"
          /\ pc'[f] = "handOver" => pc[f] = "deinit"
      BY <1>2, <1>10, <2>1 DEF Labels, Ends
    <3>2. CASE pc[f] = "deinit"
      BY <1>2, <2>1, <3>2 DEF Changes, Vacated, EmptyRing
    <3>3. (store'[f] = store[f] /\ samevalue'[f] = samevalue[f]) \/ pc[f] = "deinit"
      BY <2>0, <2>1, <3>1 DEF Between, Checking
    <3>4. CASE pc[f] = "begin" /\ f = 0
      <4>1. /\ store[0] = [EmptyRing EXCEPT ![BackOffset] = {Initial}]
        BY <3>4 DEF OpeningKnown, Opening
      <4>2. store[0][BackOffset] # {} /\ EmptyRing[BackOffset] = {}
        <5>1. BackOffset \in 0 .. Size - 1
          BY Bounds
        <5>2. EmptyRing[BackOffset] = {} /\ BackOffset \in DOMAIN EmptyRing
          BY <5>1 DEF EmptyRing
        <5> QED BY <4>1, <5>2
      <4>3. pc'[0] \in Between
        BY <3>1, <3>4 DEF Between
      <4>4. store'[0] = store[0]
        BY <3>3, <3>4
      <4>5. store'[0] # EmptyRing
        BY <4>2, <4>4
      <4>6. EmptyRing' = EmptyRing
        BY DEF EmptyRing
      <4>7. Opening'
        BY <4>3, <4>5, <4>6 DEF Opening
      <4> QED BY <3>4, <4>7 DEF Vacated
    <3>5. CASE pc[f] = "begin" /\ f # 0
      <4>1. link[f] = <<>>
        BY <3>5 DEF HelpersKnown
      <4>2. store[f] = EmptyRing /\ samevalue[f] = {}
        BY <4>1 DEF MarkingsKnown, RingPlaced
      <4> QED BY <3>3, <3>5, <4>2 DEF Vacated, EmptyRing
    <3>6. CASE pc[f] \in Between \cup {"handOver"}
      <4>1. Vacated(f)
        BY <3>6 DEF MarkingsKnown
      <4>2. pc'[f] \in Between
        BY <1>10, <3>1, <3>6 DEF Between
      <4>3. store'[f] = store[f] /\ samevalue'[f] = samevalue[f]
        BY <3>3, <3>6 DEF Between
      <4> QED BY <2>s, <3>6, <4>1, <4>2, <4>3
    <3> QED BY <3>1, <3>2, <3>4, <3>5, <3>6
  <2>2. CASE f # t
    <3>1. pc'[f] = pc[f]
      BY <1>0, <1>1, <1>10, <2>2 DEF Roused, Between
    <3>2. Vacated(f)
      BY <1>10, <3>1 DEF MarkingsKnown
    <3>3. CASE store'[f] = store[f] /\ samevalue'[f] = samevalue[f]
      BY <1>10, <2>s, <3>1, <3>2, <3>3
    <3>4. CASE ~(store'[f] = store[f] /\ samevalue'[f] = samevalue[f])
      <4>1. f = frontptr[t] /\ pc[t] \in Checking \cup {"advance", "deinit"}
        BY <1>2, <3>4 DEF Changes
      <4>2. t \notin Front /\ pc[t] \in Checking
        BY <1>0, <1>7, <2>2, <4>1
      <4>3. helpers[f] # 0
        BY <1>6, <2>2, <4>1, <4>2, <1>0
      <4>4. f # 0 /\ (exit \/ link[f] = <<>>)
        BY <1>10, <3>1, <4>3 DEF HelpersKnown, HelpersGone
      <4>5. link[f] # <<>>
        <5>1. CheckStates(t)
          BY <4>2, Checks
        <5> QED BY <1>3, <3>4, <4>1, <5>1 DEF Placed
      <4>6. exit'
        BY <1>2, <4>4, <4>5 DEF Ends
      <4> QED BY <4>4, <4>6 DEF Vacated
    <3> QED BY <3>3, <3>4
  <2> QED BY <2>1, <2>2
<1>11. ASSUME NEW u \in Thread
       PROVE  WorkPlaced(u)'
  <2>1. "lookNew" \in Past /\ "lookSame" \in Past /\ "insert" \in Past
    BY DEF Past, Checking
  <2>2. CASE pc'[u] \notin Past
    BY <2>1, <2>2 DEF WorkPlaced
  <2>3. CASE u = t /\ pc'[t] \in Past
    BY <1>3, <2>3, PastChecks DEF Placed
  <2>4. CASE u # t /\ pc'[u] \in Past
    <3>1. /\ pc'[u] = pc[u] /\ frontptr'[u] = frontptr[u]
          /\ ns'[u] = ns[u] /\ entry'[u] = entry[u]
      BY <1>1, <2>4 DEF Roused, Past, Checking
    <3>2. WorkPlaced(u) /\ link[frontptr[u]] # <<>> /\ Progress[ns[u]] = Pos(frontptr[u])
      BY <2>4, <3>1 DEF MarkingsKnown, WorkPlaced
    <3>3. link'[frontptr[u]] = link[frontptr[u]] /\ active'[frontptr[u]] = active[frontptr[u]]
      <4>1. SUFFICES ASSUME ~(/\ link'[frontptr[u]] = link[frontptr[u]]
                              /\ active'[frontptr[u]] = active[frontptr[u]])
                     PROVE  FALSE
        OBVIOUS
      <4>2. frontptr[u] = t /\ (pc[t] = "advance" \/ (pc[t] = "link" /\ ~exit))
        BY <1>0, <1>2, <4>1 DEF Changes
      <4>3. helpers[t] # 0
        BY <1>6, <2>4, <3>1, <4>2 DEF Past
      <4>4. t \in Front
        BY <1>0, <4>2
      <4> QED BY <3>2, <4>2, <4>3, <4>4 DEF HelpersKnown, HelpersGone, Between
    <3>4. Offset(u)' = Offset(u)
      BY <3>1 DEF Offset
    <3>5. Pos(frontptr[u])' = Pos(frontptr[u])
      BY <3>1, <3>3 DEF Pos
    <3> QED BY <3>1, <3>2, <3>3, <3>4, <3>5 DEF WorkPlaced
  <2> QED BY <2>2, <2>3, <2>4
<1> QED BY <1>0, <1>8, <1>9, <1>10, <1>11 DEF MarkingsKnown

LEMMA MarkingsInit ==
  Init => BucketAttended /\ MarkingsKnown
<1> SUFFICES ASSUME Init PROVE BucketAttended /\ MarkingsKnown
  OBVIOUS
<1>0. /\ setup \in Setups /\ 0 \in Front /\ 0 \in Thread /\ Front \subseteq Thread
  BY Threads DEF Init
<1>1. /\ TypeOK /\ RingsKnown /\ active \in [Front -> 0 .. Size - 1]
  BY TypeInit DEF TypeOK, DataType
<1>2. /\ first = -BackOffset /\ link[0] = [i \in 0 .. Size - 1 |-> first + i]
      /\ active[0] = BackOffset /\ store[0] = [EmptyRing EXCEPT ![BackOffset] = {Initial}]
      /\ \A f \in Front : samevalue[f] = {}
      /\ \A f \in Front \ {0} : link[f] = <<>> /\ store[f] = EmptyRing
      /\ \A t \in Thread : pc[t] = "init"
  BY <1>0 DEF Init
<1>3. BucketAttended
  BY <1>0, <1>2 DEF BucketAttended, Checking
<1>4. ListsPlaced
  <2>1. /\ newP = [i \in first .. first + Size |-> {}]
        /\ oldP = [i \in first .. first + Size |-> {}]
    BY DEF Init
  <2> QED BY <2>1 DEF ListsPlaced
<1>5. ContentsKnown(0)
  <2>1. /\ BackOffset \in 0 .. Size - 1 /\ Delay >= 0 /\ Delay \in Int /\ BackOffset \in Int
    BY Bounds
  <2>2. Pos(0) = 0 /\ Progress[Initial] = 0
    <3>1. first + BackOffset = 0
      BY <1>2, <2>1
    <3> QED BY <1>0, <1>2, <2>1, <3>1, ProgressAssumption DEF Pos, Initial
  <2>3. ASSUME NEW d \in Offsets
        PROVE  store[0][SlotAt(0, d)] = IF d = 0 THEN {Initial} ELSE {}
    <3>1. d \in Int
      BY Bounds DEF Offsets
    <3>2. SlotAt(0, d) \in 0 .. Size - 1
      BY <1>0, <1>1, RingSlots DEF SlotAt, SlotFrom
    <3>3. SlotAt(0, 0) = BackOffset /\ (SlotAt(0, d) = SlotAt(0, 0) => d = 0)
      <4>1. 0 \in Offsets /\ active[0] \in 0 .. Size - 1
        BY <1>0, <1>1, Bounds DEF Offsets
      <4> QED BY <1>2, <4>1, RingSlots DEF SlotAt, SlotFrom
    <3>4. store[0][SlotAt(0, d)] = IF SlotAt(0, d) = BackOffset THEN {Initial} ELSE {}
      BY <1>2, <3>2 DEF EmptyRing
    <3> QED BY <3>3, <3>4
  <2>4. \A d \in Offsets : d = 0 => 0 + d = 0 /\ ~(d < -Delay)
    BY <2>1
  <2>5. \A d \in Offsets : \A m \in store[0][SlotAt(0, d)] : Progress[m] = Pos(0) + d
    BY <2>2, <2>3, <2>4
  <2>6. \A d \in Offsets : d < -Delay => store[0][SlotAt(0, d)] = {}
    BY <2>3, <2>4
  <2> QED BY <1>0, <1>2, <2>5, <2>6 DEF ContentsKnown
<1>6. \A f \in Front : RingPlaced(f)
  <2>1. link[0] # <<>>
    <3>1. link[0] \in [0 .. Size - 1 -> Int]
      BY <1>2, Bounds
    <3> QED BY <3>1, RingNotEmpty
  <2> QED BY <1>2, <1>5, <2>1 DEF RingPlaced
<1> QED BY <1>0, <1>2, <1>3, <1>4, <1>6 DEF MarkingsKnown, WorkPlaced, Past, Checking, Between

LEMMA MarkingsSame ==
  TypeOK /\ BucketAttended /\ MarkingsKnown
    /\ UNCHANGED <<setup, listVars, ringVars, frontVars, idleVars, workVars, exit, running,
                   terminating, pc>> =>
    BucketAttended' /\ MarkingsKnown'
<1> SUFFICES ASSUME TypeOK, BucketAttended, MarkingsKnown,
                    UNCHANGED <<setup, listVars, ringVars, frontVars, idleVars, workVars,
                                exit, running, terminating, pc>>
             PROVE  BucketAttended' /\ MarkingsKnown'
  OBVIOUS
<1> USE DEF listVars, ringVars, frontVars, idleVars, workVars
<1>1. /\ Thread' = Thread /\ Front' = Front
  BY SameThreads DEF TypeOK, ControlType
<1>2. BucketAttended'
  <2>1. \A t, m : Attends(t, m)' <=> Attends(t, m)
    BY DEF Attends
  <2> QED BY <1>1, <2>1 DEF BucketAttended
<1>3. MarkingsKnown'
  <2>1. ListsPlaced'
    BY DEF MarkingsKnown, ListsPlaced
  <2>2. \A f \in Front : RingPlaced(f)'
    BY RingSame DEF MarkingsKnown
  <2>3. \A f : Vacated(f) => Vacated(f)'
    BY DEF Vacated, Opening, EmptyRing
  <2>4. \A t : WorkPlaced(t) => WorkPlaced(t)'
    BY DEF WorkPlaced, Pos, Offset
  <2> QED BY <1>1, <2>1, <2>2, <2>3, <2>4 DEF MarkingsKnown
<1> QED BY <1>2, <1>3

LEMMA SweepInvariant == Spec => [](ControlKnown /\ BucketAttended /\ MarkingsKnown)
<1>1. Init => BucketAttended /\ MarkingsKnown
  BY MarkingsInit
<1>2. ControlKnown /\ BucketAttended /\ MarkingsKnown /\ [Next]_vars =>
        BucketAttended' /\ MarkingsKnown'
  <2> SUFFICES ASSUME ControlKnown, BucketAttended, MarkingsKnown, [Next]_vars
               PROVE  BucketAttended' /\ MarkingsKnown'
    OBVIOUS
  <2>1. ASSUME NEW t \in Thread, Step(t) PROVE BucketAttended' /\ MarkingsKnown'
    BY <2>1, BucketStep, MarkingsStep DEF ControlKnown
  <2>2. CASE Join \/ Stop \/ UNCHANGED vars
    <3>1. UNCHANGED <<setup, listVars, ringVars, frontVars, idleVars, workVars,
                      exit, running, terminating, pc>>
      BY <2>2 DEF Join, Stop, vars, endVars
    <3> QED BY <3>1, MarkingsSame DEF ControlKnown
  <2> QED BY <2>1, <2>2 DEF Next
<1> QED BY <1>1, <1>2, ControlInvariant, PTL DEF Spec

(* The slots of the ring keep pace with the lists: every marking is in a   *)
(* bucket of its own progress value, and whoever works at a front works    *)
(* with a marking of the value the front has reached.  A front clears the  *)
(* slot that it moves to its other end only when what is in it lies        *)
(* behind, and it leaves a bucket only when nobody can find anything in    *)
(* it: this is where the helpers must have gone.                           *)
THEOREM MarkingsInPlace == Spec => []InPlace
<1>1. ControlKnown /\ BucketAttended /\ MarkingsKnown => InPlace
  <2> SUFFICES ASSUME ControlKnown, MarkingsKnown PROVE InPlace
    OBVIOUS
  <2>1. \A i \in DOMAIN newP : \A m \in newP[i] \cup oldP[i] : Progress[m] = i
    BY DEF MarkingsKnown, ListsPlaced
  <2>2. ASSUME NEW f \in Front, pc[f] \in Sweeping
        PROVE  /\ \A d \in -BackOffset .. FrontOffset :
                    LET slot == (active[f] + Size + d) % Size
                    IN /\ link[f][slot] = link[f][active[f]] + d
                       /\ \A m \in store[f][slot] : Progress[m] = link[f][slot]
               /\ \A m \in samevalue[f] : Progress[m] = link[f][active[f]]
    <3>1. link[f] # <<>> /\ RingKnown(f) /\ ContentsKnown(f)
      BY <2>2 DEF ControlKnown, RingsKnown, MarkingsKnown, RingPlaced, Live
    <3> QED BY <3>1 DEF RingKnown, ContentsKnown, Offsets, SlotAt, Pos
  <2>3. \A t \in Thread : pc[t] \in Past =>
          Progress[ns[t]] = link[frontptr[t]][active[frontptr[t]]]
    BY DEF MarkingsKnown, WorkPlaced, Pos
  <2> QED BY <2>1, <2>2, <2>3 DEF InPlace, Past
<1> QED BY <1>1, SweepInvariant, PTL
-----------------------------------------------------------------------------
(* The numbers by which the fronts keep their distance.                    *)
LEMMA PlaceTyped ==
  ASSUME TypeOK, RingsKnown, NEW f \in Front
  PROVE  /\ countdown[f] \in 0 .. Size - 1 /\ sem[f] \in Nat /\ Posted(f) \in Nat
         /\ first \in Int /\ BackOffset \in Nat /\ Size \in Nat \ {0}
         /\ pc[f] \in Live => link[f] # <<>> /\ Pos(f) \in Int
<1>1. /\ countdown[f] \in 0 .. Size - 1 /\ sem[f] \in Nat /\ first \in Int
  BY DEF TypeOK, DataType
<1>2. Posted(f) \in Nat
  BY <1>1 DEF Posted
<1>3. pc[f] \in Live => link[f] # <<>> /\ Pos(f) \in Int
  BY PlaceListed DEF RingsKnown
<1> QED BY <1>1, <1>2, <1>3, Bounds

(* A front on whose distance to the next one, or to the one before it,     *)
(* nothing has changed.                                                    *)
SameLead(f) ==
  /\ pc'[f] \in Live <=> pc[f] \in Live
  /\ Pos(f)' = Pos(f) /\ Posted(f)' = Posted(f) /\ countdown'[f] = countdown[f]

SameTail(g, runner) ==
  g # runner => /\ pc'[g] \in Live <=> pc[g] \in Live
                /\ pc'[g] = "link" <=> pc[g] = "link"
                /\ pc'[g] = "advance" <=> pc[g] = "advance"
                /\ Pos(g)' = Pos(g)

LEMMA SpacedSame ==
  ASSUME TypeOK, RingsKnown, NEW f \in Front, NEW g \in Front, NEW r,
         SameLead(f), SameTail(g, r), first' \in Int, first' <= first, Spaced(f, g, r)
  PROVE  Spaced(f, g, r)'
<1>1. /\ pc[f] \in Live => Pos(f) \in Int
      /\ pc[g] \in Live => Pos(g) \in Int
      /\ Posted(f) \in Nat /\ countdown[f] \in Int /\ first \in Int
      /\ BackOffset \in Nat /\ Size \in Nat
  BY PlaceTyped
<1>2. CASE g # r /\ pc[g] \in Live \cup {"link"}
  <2>1. pc[f] \in Live /\ Pos(f) >= Claim(g) + Size + Posted(f)
    BY <1>2 DEF Spaced
  <2>2. Claim(g)' <= Claim(g) /\ Claim(g)' \in Int /\ Claim(g) \in Int
    <3>1. CASE pc[g] = "link"
      BY <1>1, <1>2, <3>1 DEF SameTail, Claim
    <3>2. CASE pc[g] # "link"
      BY <1>1, <1>2, <3>2 DEF SameTail, Claim
    <3> QED BY <3>1, <3>2
  <2>3. Pos(f)' >= Claim(g)' + Size + Posted(f)'
    BY <1>1, <2>1, <2>2 DEF SameLead
  <2> QED BY <1>2, <2>1, <2>3 DEF Spaced, SameLead, SameTail
<1>3. CASE ~(g # r /\ pc[g] \in Live \cup {"link"})
  <2>1. ~(g # r /\ pc'[g] \in Live \cup {"link"})
    BY <1>3 DEF SameTail
  <2>2. pc[f] \in Live =>
          Pos(f)' >= first' + BackOffset + Size - 1 - countdown'[f] + Posted(f)'
    BY <1>1, <1>3 DEF Spaced, SameLead
  <2> QED BY <2>1, <2>2 DEF Spaced, SameLead
<1> QED BY <1>2, <1>3

(* The chain stays as it is.                                               *)
LEMMA ChainSame ==
  ASSUME TypeOK, RingsKnown, setup' = setup, NEW r \in Front, ChainOf(r),
         first' \in Int, first' <= first,
         \A f \in Front : /\ SameLead(f) /\ SameTail(f, r)
                          /\ frontrunner'[f] <=> f = r /\ pc'[f] # "handOver"
                          /\ f # r => pc'[f] \notin {"deinit", "handOver"}
                          /\ pc'[f] \notin Live => sem'[f] = 0
  PROVE  ChainOf(r)'
<1>1. Front' = Front /\ \A f : NextFront(f)' = NextFront(f)
  BY SameThreads DEF TypeOK, ControlType, NextFront
<1>2. \A f, g \in Front : g = NextFront(f) => Spaced(f, g, r)'
  BY SpacedSame DEF ChainOf
<1>3. \A f \in Front : pc'[f] \in Live /\ countdown'[f] > 0 => Posted(f)' = 0
  BY DEF ChainOf, SameLead
<1> QED BY <1>1, <1>2, <1>3 DEF ChainOf

(* Most steps leave a front at a label of the same kind.                   *)
Special == {"link", "advance", "post", "deinit", "handOver"}

Calm(g) == /\ pc'[g] \in Live <=> pc[g] \in Live
           /\ \A l \in Special : pc'[g] = l <=> pc[g] = l

LEMMA Unmoved ==
  ASSUME NEW g, NEW r, Calm(g), link'[g] = link[g], active'[g] = active[g],
         countdown'[g] = countdown[g]
  PROVE  SameTail(g, r) /\ (sem'[g] = sem[g] => SameLead(g))
<1>1. \A l \in Special : pc'[g] = l <=> pc[g] = l
  BY DEF Calm
<1>2. /\ pc'[g] = "link" <=> pc[g] = "link"
      /\ pc'[g] = "advance" <=> pc[g] = "advance"
      /\ pc'[g] = "post" <=> pc[g] = "post"
  BY <1>1 DEF Special
<1> QED BY <1>2 DEF SameTail, SameLead, Calm, Pos, Posted

LEMMA ChainCalm ==
  ASSUME TypeOK, RingsKnown, setup' = setup, NEW r \in Front, ChainOf(r),
         UNCHANGED <<first, link, active, sem, countdown, frontrunner>>,
         \A f \in Front : Calm(f)
  PROVE  ChainOf(r)'
<1>1. first \in Int
  BY DEF TypeOK, DataType
<1>2. \A f \in Front : SameLead(f) /\ SameTail(f, r)
  BY Unmoved
<1>3. \A f \in Front : /\ pc'[f] \in Live <=> pc[f] \in Live
                       /\ pc'[f] = "deinit" <=> pc[f] = "deinit"
                       /\ pc'[f] = "handOver" <=> pc[f] = "handOver"
  BY DEF Calm, Special
<1>4. \A f \in Front : /\ frontrunner'[f] <=> f = r /\ pc'[f] # "handOver"
                       /\ f # r => pc'[f] \notin {"deinit", "handOver"}
                       /\ pc'[f] \notin Live => sem'[f] = 0
  BY <1>3 DEF ChainOf
<1> QED BY <1>1, <1>2, <1>4, ChainSame

LEMMA ChainOthers ==
  ASSUME TypeOK, RingsKnown, EndsKnown, NEW t \in Thread, Step(t), ~exit,
         CheckStates(t) \/ Alone(t) \/ Waker(t), NEW r \in Front, ChainOf(r)
  PROVE  ChainOf(r)'
<1>0. /\ setup' = setup /\ pc \in [Thread -> FrontLabel \cup HelperLabel]
      /\ Front \subseteq Thread /\ \A u \in Thread : u \in Helper <=> u \notin Front
  BY Threads DEF TypeOK, ControlType, Step
<1>1. pc[t] # "end"
  BY DEF EndsKnown, Ended
<1>2. UNCHANGED <<first, link, active, sem, countdown, frontrunner>>
  <2>1. CASE CheckStates(t)
    BY <2>1, CheckFacts DEF frontVars
  <2>2. CASE Alone(t)
    BY <1>1, <2>2 DEF Alone, Initialise, InitCheck, Terminate, Return, Begin, Busy, Draw,
          Drain, End, Outer, Inner, Glance, JoinFront, MoveOn, Work, Release, Back, Read, Nap,
          Awake, listVars, ringVars, frontVars
  <2>3. CASE Waker(t)
    BY <2>3, WakerFacts DEF WakerStep, listVars, ringVars, frontVars
  <2> QED BY <2>1, <2>2, <2>3
<1>3. t \in Front => Calm(t)
  <2> USE DEF Calm, Special, Live, Sweeping, Checking
  <2>1. CASE CheckStates(t)
    BY <1>0, <2>1, CheckFacts DEF Checked
  <2>2. CASE Alone(t) /\ t \in Front
    BY <1>0, <1>1, <2>2 DEF Alone, Initialise, InitCheck, Terminate, Return, Begin, Busy, Draw,
          Drain, End, Goto
  <2>3. CASE Waker(t)
    BY <2>3, WakerFacts DEF WakerStep
  <2> QED BY <2>1, <2>2, <2>3
<1>4. ASSUME NEW f \in Front, f # t
      PROVE  Calm(f)
  <2>1. pc'[f] = pc[f] \/ Roused(pc[f], pc'[f])
    BY <1>0, <1>4, ControlStep DEF Others
  <2> QED BY <2>1 DEF Roused, Calm, Special, Live, Sweeping, Checking
<1> QED BY <1>0, <1>2, <1>3, <1>4, ChainCalm

LEMMA PlainView ==
  ASSUME TypeOK, NEW f \in Front, f \in Thread, Plain(f), NEW r, NEW g \in Front, g # f
  PROVE  /\ pc'[g] = pc[g] /\ Pos(g)' = Pos(g) /\ countdown'[g] = countdown[g]
         /\ SameTail(g, r) /\ (sem'[g] = sem[g] => SameLead(g))
<1>0. /\ countdown \in [Front -> 0 .. Size - 1] /\ pc \in [Thread -> FrontLabel \cup HelperLabel]
      /\ Front \subseteq Thread
  BY Threads DEF TypeOK, ControlType, DataType
<1>1. pc'[g] = pc[g]
  BY <1>0, PlainFacts
<1>2. link'[g] = link[g] /\ active'[g] = active[g]
  BY PlainChanges DEF Changes
<1>3. countdown'[g] = countdown[g]
  BY <1>0 DEF Plain, Again, MayBegin, MayAdvance, MayGoOn, Link, LinkFor, Run, Drained,
          Quit, Extend, Finish, Advance, AdvanceKeeping, Post, Deinit, HandOver, frontVars
<1>4. Calm(g)
  BY <1>1 DEF Calm
<1>5. Pos(g)' = Pos(g)
  BY <1>2 DEF Pos
<1> QED BY <1>1, <1>2, <1>3, <1>4, <1>5, Unmoved

(* Steps by which no front comes nearer to another.                        *)
LEMMA ChainQuiet ==
  ASSUME TypeOK, RingsKnown, EndsKnown, setup' = setup, ~exit, ~exit', NumFronts > 1,
         NEW f \in Front, f \in Thread, NEW r \in Front, ChainOf(r),
         Again(f) \/ Run(f) \/ Drained(f) \/ Quit(f)
  PROVE  ChainOf(r)'
<1>0. /\ pc \in [Thread -> FrontLabel \cup HelperLabel]
  BY DEF TypeOK, ControlType
<1>1. ~found[f]
  BY DEF EndsKnown
<1>2. UNCHANGED <<first, link, active, sem, countdown, frontrunner>>
  BY DEF Again, Run, Drained, Quit, listVars, ringVars, frontVars
<1>3. Calm(f)
  BY <1>0, <1>1 DEF Again, Run, Drained, Quit, Goto, Calm, Special, Live, Sweeping, Checking
<1>4. Plain(f)
  BY DEF Plain
<1>5. \A g \in Front \ {f} : pc'[g] = pc[g]
  BY <1>4, PlainView
<1>6. \A g \in Front \ {f} : Calm(g)
  BY <1>5 DEF Calm
<1> QED BY <1>2, <1>3, <1>6, ChainCalm

LEMMA ChainStays ==
  ASSUME TypeOK, RingsKnown, EndsKnown, setup' = setup, NumFronts > 1,
         NEW f \in Front, f \in Thread, NEW r \in Front, ChainOf(r),
         Plain(f), SameLead(f), SameTail(f, r),
         first' \in Int, first' <= first,
         \A g \in Front \ {f} : sem'[g] = sem[g] /\ (frontrunner'[g] <=> frontrunner[g]),
         frontrunner'[f] <=> f = r /\ pc'[f] # "handOver",
         f # r => pc'[f] \notin {"deinit", "handOver"},
         pc'[f] \in Live \/ sem'[f] = sem[f]
  PROVE  ChainOf(r)'
<1>1. \A g \in Front \ {f} : pc'[g] = pc[g] /\ SameLead(g) /\ SameTail(g, r)
  BY PlainView
<1>2. \A g \in Front : SameLead(g) /\ SameTail(g, r)
  BY <1>1
<1>3. \A g \in Front : frontrunner'[g] <=> g = r /\ pc'[g] # "handOver"
  BY <1>1 DEF ChainOf
<1>4. \A g \in Front : g # r => pc'[g] \notin {"deinit", "handOver"}
  BY <1>1 DEF ChainOf
<1>5. \A g \in Front : pc'[g] \notin Live => sem'[g] = 0
  BY <1>1 DEF ChainOf, SameLead
<1> QED BY <1>2, <1>3, <1>4, <1>5, ChainSame

LEMMA ChainExtend ==
  ASSUME TypeOK, RingsKnown, EndsKnown, setup' = setup, ~exit, ~exit', NumFronts > 1,
         NEW f \in Front, f \in Thread, NEW r \in Front, ChainOf(r),
         Extend(f) \/ Finish(f)
  PROVE  ChainOf(r)'
<1>0. /\ pc \in [Thread -> FrontLabel \cup HelperLabel]
      /\ Pred(f) \in Front /\ NextFront(Pred(f)) = f
  BY FrontsRing DEF TypeOK, ControlType
<1>1. /\ UNCHANGED listVars \/ \E n \in Nat : ExtendLeft(n)
      /\ UNCHANGED ringVars /\ UNCHANGED <<frontrunner, sem, countdown>>
  BY LeftExtended
<1>2. first \in Int
  BY DEF TypeOK, DataType
<1>3. first' \in Int /\ first' <= first
  <2>1. UNCHANGED listVars => first' = first
    BY DEF listVars
  <2>2. \A n \in Nat : ExtendLeft(n) => first' = first - n
    BY DEF ExtendLeft
  <2> QED BY <1>1, <1>2, <2>1, <2>2
<1>4. Pos(f)' = Pos(f)
  BY <1>1 DEF Pos, ringVars
<1>5. CASE Extend(f)
  <2>1. pc[f] = "extend" /\ pc'[f] = "mayAdvance"
    BY <1>0, <1>5 DEF Extend, Goto
  <2>2. SameLead(f) /\ SameTail(f, r)
    BY <1>1, <1>4, <2>1 DEF SameLead, SameTail, Posted, Live, Sweeping
  <2>3. Plain(f)
    BY <1>5 DEF Plain
  <2>4. frontrunner'[f] <=> f = r /\ pc'[f] # "handOver"
    BY <1>1, <2>1 DEF ChainOf
  <2> QED BY <1>1, <1>3, <2>1, <2>2, <2>3, <2>4, ChainStays
<1>6. CASE Finish(f)
  <2>1. pc[f] = "advance" /\ pc'[f] = "deinit" /\ AtEnd(f)
    BY <1>0, <1>6 DEF Finish, Goto
(* Only the first front may come to the end of the lists. *)
  <2>2. f = r
    <3>1. SUFFICES ASSUME f # r PROVE FALSE
      OBVIOUS
    <3>2. pc[f] \in Live
      BY <2>1 DEF Live, Sweeping
    <3> DEFINE p == Pred(f)
    <3>3. pc[p] \in Live /\ Pos(p) >= Pos(f) + 1 + Size + Posted(p)
      BY <1>0, <2>1, <3>1, <3>2 DEF ChainOf, Spaced, Claim
    <3>4. /\ Pos(f) \in Int /\ Pos(p) \in Int /\ Posted(p) \in Nat /\ link[f] # <<>>
          /\ link[p] # <<>> /\ Size \in Nat /\ BackOffset \in Nat /\ FrontOffset \in Nat
      BY <1>0, <3>2, <3>3, PlaceTyped, Bounds
    <3>5. link[f][After(active[f], FrontOffset)] = Pos(f) + FrontOffset
      <4>1. active[f] \in 0 .. Size - 1 /\ FrontOffset \in Offsets
        BY SMTT(30), Bounds DEF TypeOK, DataType, Offsets
      <4>2. After(active[f], FrontOffset) = SlotAt(f, FrontOffset)
        <5>1. FrontOffset \in 0 .. FrontOffset
          BY <3>4
        <5> QED BY <4>1, <5>1, RingSlots DEF SlotAt, SlotFrom
      <4> QED BY <3>4, <4>1, <4>2, PlaceListed
    <3>6. Pos(f) - BackOffset >= first /\ first .. Pos(p) + FrontOffset \subseteq DOMAIN oldP
      BY <1>0, <3>4 DEF RingsKnown, RingKnown
    <3>7. Pos(f) + FrontOffset + 1 \in first .. Pos(p) + FrontOffset
      BY <1>2, <3>3, <3>4, <3>6
    <3> QED BY <2>1, <3>5, <3>6, <3>7 DEF AtEnd
  <2>3. SameLead(f) /\ SameTail(f, r)
    BY <1>1, <1>4, <2>1, <2>2 DEF SameLead, SameTail, Posted, Live, Sweeping
  <2>4. Plain(f)
    BY <1>6 DEF Plain
  <2>5. frontrunner'[f] <=> f = r /\ pc'[f] # "handOver"
    BY <1>1, <2>1 DEF ChainOf
  <2> QED BY <1>1, <1>3, <2>1, <2>2, <2>3, <2>4, <2>5, ChainStays
<1> QED BY <1>5, <1>6

LEMMA ChainPost ==
  ASSUME TypeOK, RingsKnown, EndsKnown, setup' = setup, NumFronts > 1,
         NEW f \in Front, f \in Thread, NEW r \in Front, ChainOf(r),
         Post(f) \/ Deinit(f)
  PROVE  ChainOf(r)'
<1>0. /\ pc \in [Thread -> FrontLabel \cup HelperLabel] /\ sem \in [Front -> Nat]
      /\ first \in Int /\ frontrunner \in [Front -> BOOLEAN]
  BY DEF TypeOK, ControlType, DataType
<1>1. Plain(f) /\ first' = first
  BY DEF Plain, Post, Deinit, listVars
<1>2. Pos(f)' = Pos(f)
  BY DEF Post, Deinit, ringVars, Pos
<1>3. CASE Post(f)
  <2>1. /\ pc[f] = "post" /\ pc'[f] = "run" /\ sem' = [sem EXCEPT ![f] = @ + 1]
        /\ UNCHANGED <<frontrunner, countdown>>
    BY <1>0, <1>3 DEF Post, Goto
  <2>2. sem'[f] = sem[f] + 1 /\ \A g \in Front \ {f} : sem'[g] = sem[g]
    BY <1>0, <2>1
  <2>3. SameLead(f) /\ SameTail(f, r)
    BY <1>2, <2>1, <2>2 DEF SameLead, SameTail, Posted, Live, Sweeping
  <2>4. pc'[f] \in Live
    BY <2>1 DEF Live, Sweeping
  <2>5. frontrunner'[f] <=> f = r /\ pc'[f] # "handOver"
    BY <2>1 DEF ChainOf
  <2> QED BY <1>0, <1>1, <2>1, <2>2, <2>3, <2>4, <2>5, ChainStays
<1>4. CASE Deinit(f)
  <2>1. /\ pc[f] = "deinit" /\ pc'[f] = "handOver"
        /\ frontrunner' = [frontrunner EXCEPT ![f] = FALSE]
        /\ UNCHANGED <<sem, countdown>>
    BY <1>0, <1>4 DEF Deinit, Goto
  <2>2. f = r
    BY <2>1 DEF ChainOf
  <2>3. ~frontrunner'[f] /\ \A g \in Front \ {f} : (frontrunner'[g] <=> frontrunner[g])
    BY <1>0, <2>1
  <2>4. SameLead(f) /\ SameTail(f, r)
    BY <1>2, <2>1, <2>2 DEF SameLead, SameTail, Posted, Live
  <2> QED BY <1>0, <1>1, <2>1, <2>2, <2>3, <2>4, ChainStays
<1> QED BY <1>3, <1>4

(* A front that has been granted a step is that much nearer to the one     *)
(* before it, and has used up what that one had posted.                    *)
LEMMA ChainGrant ==
  ASSUME TypeOK, RingsKnown, EndsKnown, setup' = setup, NumFronts > 1,
         NEW f \in Front, f \in Thread, NEW r \in Front, ChainOf(r),
         MayBegin(f) \/ MayAdvance(f)
  PROVE  ChainOf(r)'
<1>p. PICK p \in Front : p = Pred(f)
  BY FrontsRing DEF TypeOK, ControlType
<1>0. /\ pc \in [Thread -> FrontLabel \cup HelperLabel] /\ sem \in [Front -> Nat]
      /\ first \in Int /\ setup \in Setups
      /\ p # f /\ NextFront(p) = f
      /\ \A g \in Front : NextFront(g) = f => g = p
      /\ Front' = Front /\ \A g \in Front : NextFront(g)' = NextFront(g)
  BY <1>p, FrontsRing, SameThreads DEF TypeOK, ControlType, DataType, NextFront
<1>1. Plain(f) /\ first' = first /\ Pos(f)' = Pos(f)
      /\ UNCHANGED <<frontrunner, countdown>>
  BY DEF Plain, MayBegin, MayAdvance, MayGoOn, listVars, ringVars, Pos
<1>2. \/ pc[f] = "mayBegin" /\ pc'[f] = "link"
      \/ pc[f] = "mayAdvance" /\ pc'[f] = "advance"
  BY <1>0 DEF MayBegin, MayAdvance, MayGoOn, Goto
<1>3. frontrunner[f] <=> f = r
  BY <1>2 DEF ChainOf
<1>4. CASE frontrunner[f]
  <2>1. sem' = sem
    BY <1>4 DEF MayBegin, MayAdvance, MayGoOn
  <2>2. SameLead(f) /\ SameTail(f, r)
    BY <1>1, <1>2, <1>3, <1>4, <2>1 DEF SameLead, SameTail, Posted, Live, Sweeping, Checking
  <2>3. frontrunner'[f] <=> f = r /\ pc'[f] # "handOver"
    BY <1>1, <1>2, <1>3
  <2> QED BY <1>0, <1>1, <1>2, <1>3, <1>4, <2>1, <2>2, <2>3, ChainStays
<1>5. CASE ~frontrunner[f]
  <2>1. sem[p] > 0 /\ sem' = [sem EXCEPT ![p] = @ - 1]
    BY <1>p, <1>5 DEF MayBegin, MayAdvance, MayGoOn
  <2>2. sem'[p] = sem[p] - 1 /\ \A g \in Front \ {p} : sem'[g] = sem[g]
    BY <1>0, <2>1
  <2>3. pc[p] \in Live
    BY <1>0, <2>1 DEF ChainOf
  <2>4. \A g \in Front \ {f} :
           /\ pc'[g] = pc[g] /\ Pos(g)' = Pos(g) /\ countdown'[g] = countdown[g]
           /\ SameTail(g, r) /\ (g # p => SameLead(g))
    BY <1>1, <2>2, PlainView
  <2>5. SameLead(f)
    BY <1>0, <1>1, <1>2, <2>2 DEF SameLead, Posted, Live, Sweeping, Checking
  <2>6. /\ Pos(p) \in Int /\ Posted(p) \in Nat /\ Size \in Nat /\ BackOffset \in Nat
        /\ countdown[p] \in Nat /\ sem[p] \in Nat
        /\ pc[f] \in Live => Pos(f) \in Int
    BY <1>0, <2>3, PlaceTyped
  <2>7. Posted(p)' = Posted(p) - 1 /\ Posted(p) > 0
    BY <1>0, <2>1, <2>2, <2>4, <2>6 DEF Posted
  <2>8. countdown[p] = 0
    BY <1>0, <2>3, <2>6, <2>7 DEF ChainOf
  <2>9. Spaced(p, f, r)
    BY <1>0 DEF ChainOf
  <2>10. Spaced(p, f, r)'
    <3>1. pc'[p] \in Live /\ Pos(p)' = Pos(p)
      BY <1>0, <2>3, <2>4
    <3>2. CASE pc[f] = "mayBegin"
      <4>1. Pos(p) >= first + BackOffset + Size - 1 - countdown[p] + Posted(p)
        BY <2>3, <2>9, <3>2 DEF Spaced, Live, Sweeping, Checking
      <4>2. Claim(f)' = first + BackOffset
        BY <1>1, <1>2, <3>2 DEF Claim
      <4>3. Pos(p)' >= Claim(f)' + Size + Posted(p)'
        BY <1>0, <2>6, <2>7, <2>8, <3>1, <4>1, <4>2
      <4>4. pc'[f] = "link"
        BY <1>2, <3>2
      <4> QED BY <1>3, <1>5, <3>1, <4>3, <4>4 DEF Spaced
    <3>3. CASE pc[f] = "mayAdvance"
      <4>1. Pos(p) >= Pos(f) + Size + Posted(p) /\ Pos(f) \in Int
        BY <1>3, <1>5, <2>6, <2>9, <3>3 DEF Spaced, Claim, Live, Sweeping
      <4>2. Claim(f)' = Pos(f) + 1
        BY <1>1, <1>2, <3>3 DEF Claim
      <4>3. Pos(p)' >= Claim(f)' + Size + Posted(p)'
        BY <2>6, <2>7, <3>1, <4>1, <4>2
      <4>4. pc'[f] \in Live
        BY <1>2, <3>3 DEF Live, Sweeping
      <4> QED BY <1>3, <1>5, <3>1, <4>3, <4>4 DEF Spaced
    <3> QED BY <1>2, <3>2, <3>3
  <2>11. ASSUME NEW g \in Front, NEW h \in Front, h = NextFront(g)
         PROVE  Spaced(g, h, r)'
    <3>1. CASE h = f
      BY <1>0, <2>10, <2>11, <3>1
    <3>2. CASE h # f
      <4>1. g # p
        BY <1>0, <2>11, <3>2
      <4>2. SameLead(g) /\ SameTail(h, r)
        BY <2>4, <2>5, <3>2, <4>1
      <4>3. Spaced(g, h, r)
        BY <2>11 DEF ChainOf
      <4> QED BY <1>0, <1>1, <4>2, <4>3, SpacedSame
    <3> QED BY <3>1, <3>2
  <2>12. \A g \in Front : pc'[g] \in Live /\ countdown'[g] > 0 => Posted(g)' = 0
    <3>1. countdown'[p] = 0
      BY <1>0, <2>4, <2>8
    <3>2. \A g \in Front \ {p} : SameLead(g)
      BY <2>4, <2>5
    <3> QED BY <3>1, <3>2 DEF ChainOf, SameLead
  <2>13. \A g \in Front : pc'[g] \notin Live => sem'[g] = 0
    <3>1. pc'[p] \in Live
      BY <1>0, <2>3, <2>4
    <3>2. \A g \in Front \ {p} : pc[g] \in Live <=> pc'[g] \in Live
      BY <2>4, <2>5 DEF SameLead
    <3> QED BY <2>2, <3>1, <3>2 DEF ChainOf
  <2>14. \A g \in Front : /\ frontrunner'[g] <=> g = r /\ pc'[g] # "handOver"
                          /\ g # r => pc'[g] \notin {"deinit", "handOver"}
    BY <1>1, <1>2, <2>4 DEF ChainOf
  <2> QED BY <1>0, <2>11, <2>12, <2>13, <2>14 DEF ChainOf
<1> QED BY <1>4, <1>5

(* A front that begins is where it had claimed to begin, and has to sweep  *)
(* a ring before the next one begins.                                      *)
LEMMA ChainLink ==
  ASSUME TypeOK, RingsKnown, EndsKnown, setup' = setup, ~exit, NumFronts > 1,
         NEW f \in Front, f \in Thread, NEW r \in Front, ChainOf(r), Link(f)
  PROVE  ChainOf(r)'
<1>0. /\ pc \in [Thread -> FrontLabel \cup HelperLabel]
      /\ countdown \in [Front -> 0 .. Size - 1]
      /\ first \in Int /\ \A g \in Front : NextFront(g) # g
      /\ Front' = Front /\ \A g \in Front : NextFront(g)' = NextFront(g)
      /\ BackOffset \in Nat /\ Size \in Nat
  BY FrontsRing, SameThreads, Bounds DEF TypeOK, ControlType, DataType, NextFront
<1>1. /\ pc[f] = "link" /\ pc'[f] = "run" /\ UNCHANGED <<listVars, sem, frontrunner>>
      /\ link' = [link EXCEPT ![f] = [i \in 0 .. Size - 1 |-> first + i]]
      /\ active' = [active EXCEPT ![f] = BackOffset]
      /\ countdown'[f] = Size - 1
  BY <1>0 DEF Link, LinkFor, Goto
<1>2. Plain(f) /\ first' = first
  BY <1>1 DEF Plain, listVars
<1>3. Pos(f)' = first + BackOffset
  BY <1>1, RingLinked
<1>4. \A g \in Front \ {f} : pc'[g] = pc[g] /\ SameLead(g) /\ SameTail(g, r)
  BY <1>1, <1>2, PlainView
<1>5. pc[f] \notin Live /\ pc'[f] \in Live
  BY <1>1 DEF Live, Sweeping, Checking
<1>6. sem[f] = 0 /\ Posted(f)' = 0
  BY <1>1, <1>5 DEF ChainOf, Posted
<1>7. ASSUME NEW g \in Front, NEW h \in Front, h = NextFront(g)
      PROVE  Spaced(g, h, r)'
  <2>0. Spaced(g, h, r) /\ h # g
    BY <1>0, <1>7 DEF ChainOf
  <2>1. CASE g = f
    <3>1. ~(h # r /\ pc[h] \in Live \cup {"link"})
      BY <1>5, <2>0, <2>1 DEF Spaced
    <3>2. ~(h # r /\ pc'[h] \in Live \cup {"link"})
      BY <1>4, <2>0, <2>1, <3>1
    <3>3. Pos(f)' >= first' + BackOffset + Size - 1 - countdown'[f] + Posted(f)'
      BY <1>0, <1>1, <1>2, <1>3, <1>6
    <3> QED BY <2>1, <3>2, <3>3 DEF Spaced
  <2>2. CASE h = f
    <3>0. SameLead(g)
      BY <1>4, <2>0, <2>2
    <3>1. CASE f = r
      <4>1. SameTail(f, r)
        BY <3>1 DEF SameTail
      <4> QED BY <1>0, <1>2, <2>0, <2>2, <3>0, <4>1, SpacedSame
    <3>2. CASE f # r
      <4>1. pc[g] \in Live /\ Pos(g) >= first + BackOffset + Size + Posted(g)
        BY <1>1, <2>0, <2>2, <3>2 DEF Spaced, Claim
      <4>2. Claim(f)' = first + BackOffset
        BY <1>1, <1>3 DEF Claim
      <4> QED BY <1>5, <2>2, <3>0, <3>2, <4>1, <4>2 DEF Spaced, SameLead
    <3> QED BY <3>1, <3>2
  <2>3. CASE g # f /\ h # f
    BY <1>0, <1>2, <1>4, <2>0, <2>3, SpacedSame
  <2> QED BY <2>1, <2>2, <2>3
<1>8. \A g \in Front : pc'[g] \in Live /\ countdown'[g] > 0 => Posted(g)' = 0
  BY <1>4, <1>6 DEF ChainOf, SameLead
<1>9. \A g \in Front : pc'[g] \notin Live => sem'[g] = 0
  BY <1>1, <1>4, <1>5 DEF ChainOf
<1>10. \A g \in Front : /\ frontrunner'[g] <=> g = r /\ pc'[g] # "handOver"
                        /\ g # r => pc'[g] \notin {"deinit", "handOver"}
  BY <1>1, <1>4 DEF ChainOf
<1> QED BY <1>0, <1>7, <1>8, <1>9, <1>10 DEF ChainOf

(* A front that advances gains the step that it is going to post.          *)
LEMMA ChainAdvance ==
  ASSUME TypeOK, RingsKnown, EndsKnown, setup' = setup, NumFronts > 1,
         NEW f \in Front, f \in Thread, NEW r \in Front, ChainOf(r), Advance(f)
  PROVE  ChainOf(r)'
<1>0. /\ pc \in [Thread -> FrontLabel \cup HelperLabel]
      /\ countdown \in [Front -> 0 .. Size - 1]
      /\ first \in Int /\ \A g \in Front : NextFront(g) # g
      /\ Front' = Front /\ \A g \in Front : NextFront(g)' = NextFront(g)
      /\ BackOffset \in Nat /\ Size \in Nat
  BY FrontsRing, SameThreads, Bounds DEF TypeOK, ControlType, DataType, NextFront
<1>1. /\ pc[f] = "advance" /\ UNCHANGED <<first, sem, frontrunner>>
      /\ pc'[f] = IF countdown[f] = 0 THEN "post" ELSE "run"
      /\ countdown'[f] = IF countdown[f] > 0 THEN countdown[f] - 1 ELSE 0
  BY <1>0 DEF Advance, AdvanceKeeping, Goto
<1>2. Plain(f) /\ pc[f] \in Live /\ pc'[f] \in Live
  BY <1>1 DEF Plain, Live, Sweeping
<1>3. /\ link[f] # <<>> /\ Pos(f) \in Int /\ Posted(f) \in Nat /\ sem[f] \in Nat
      /\ countdown[f] \in Nat
  BY <1>0, <1>2, PlaceTyped
<1>4. Pos(f)' = Pos(f) + 1
  BY <1>3, RingAdvanced
<1>5. \A g \in Front \ {f} : pc'[g] = pc[g] /\ SameLead(g) /\ SameTail(g, r)
                             /\ Pos(g)' = Pos(g)
  BY <1>1, <1>2, PlainView
<1>6. /\ Posted(f)' = IF countdown[f] = 0 THEN Posted(f) + 1 ELSE 0
      /\ countdown[f] > 0 => Posted(f) = 0
  <2>1. Posted(f) = sem[f]
    BY <1>1 DEF Posted
  <2>2. countdown[f] > 0 => Posted(f) = 0
    BY <1>2 DEF ChainOf
  <2>3. CASE countdown[f] = 0
    BY <1>1, <2>1, <2>3 DEF Posted
  <2>4. CASE countdown[f] # 0
    <3>1. countdown[f] > 0
      BY <1>3, <2>4
    <3> QED BY <1>1, <2>1, <2>2, <2>4, <3>1 DEF Posted
  <2> QED BY <2>2, <2>3, <2>4
<1>7. ASSUME NEW g \in Front, NEW h \in Front, h = NextFront(g)
      PROVE  Spaced(g, h, r)'
  <2>0. Spaced(g, h, r) /\ h # g
    BY <1>0, <1>7 DEF ChainOf
  <2>1. CASE g = f
    <3>0. SameTail(h, r)
      BY <1>5, <2>0, <2>1
    <3>1. CASE h # r /\ pc[h] \in Live \cup {"link"}
      <4>1. Pos(f) >= Claim(h) + Size + Posted(f)
        BY <2>0, <2>1, <3>1 DEF Spaced
      <4>2. Claim(h)' = Claim(h) /\ Claim(h) \in Int
        <5>1. /\ pc'[h] = pc[h] /\ Pos(h)' = Pos(h) /\ first' = first
              /\ pc[h] \in Live => Pos(h) \in Int
          BY <1>1, <1>5, <2>0, <2>1, PlaceTyped
        <5>2. pc[h] = "link" => Claim(h)' = Claim(h) /\ Claim(h) \in Int
          BY <1>0, <5>1 DEF Claim
        <5>3. pc[h] = "advance" => Claim(h)' = Claim(h) /\ Claim(h) \in Int
          BY <5>1 DEF Claim, Live, Sweeping
        <5>4. pc[h] \in Live \ {"link", "advance"} => Claim(h)' = Claim(h) /\ Claim(h) \in Int
          BY <5>1 DEF Claim
        <5> QED BY <3>1, <5>2, <5>3, <5>4
      <4>3. Pos(f)' >= Claim(h)' + Size + Posted(f)'
        BY <1>0, <1>3, <1>4, <1>6, <4>1, <4>2
      <4> QED BY <1>2, <2>1, <3>0, <3>1, <4>3 DEF Spaced, SameTail
    <3>2. CASE ~(h # r /\ pc[h] \in Live \cup {"link"})
      <4>1. Pos(f) >= first + BackOffset + Size - 1 - countdown[f] + Posted(f)
        BY <1>2, <2>0, <2>1, <3>2 DEF Spaced
      <4>2. Pos(f)' >= first' + BackOffset + Size - 1 - countdown'[f] + Posted(f)'
        BY SMTT(30), <1>0, <1>1, <1>3, <1>4, <1>6, <4>1
      <4>3. ~(h # r /\ pc'[h] \in Live \cup {"link"})
        BY <3>0, <3>2 DEF SameTail
      <4> QED BY <2>1, <4>2, <4>3 DEF Spaced
    <3> QED BY <3>1, <3>2
  <2>2. CASE h = f
    <3>0. SameLead(g)
      BY <1>5, <2>0, <2>2
    <3>1. CASE f = r
      <4>1. SameTail(f, r)
        BY <3>1 DEF SameTail
      <4> QED BY <1>0, <1>1, <2>0, <2>2, <3>0, <4>1, SpacedSame
    <3>2. CASE f # r
      <4>1. pc[g] \in Live /\ Pos(g) >= (Pos(f) + 1) + Size + Posted(g)
        BY <1>1, <1>2, <2>0, <2>2, <3>2 DEF Spaced, Claim
      <4>2. Claim(f)' = Pos(f) + 1
        BY <1>1, <1>4 DEF Claim
      <4> QED BY <1>2, <2>2, <3>0, <3>2, <4>1, <4>2 DEF Spaced, SameLead
    <3> QED BY <3>1, <3>2
  <2>3. CASE g # f /\ h # f
    BY <1>0, <1>1, <1>5, <2>0, <2>3, SpacedSame
  <2> QED BY <2>1, <2>2, <2>3
<1>8. \A g \in Front : pc'[g] \in Live /\ countdown'[g] > 0 => Posted(g)' = 0
  <2>1. countdown'[f] > 0 => Posted(f)' = 0
    BY <1>1, <1>3, <1>6
  <2> QED BY <1>5, <2>1 DEF ChainOf, SameLead
<1>9. \A g \in Front : pc'[g] \notin Live => sem'[g] = 0
  BY <1>1, <1>2, <1>5 DEF ChainOf
<1>10. \A g \in Front : /\ frontrunner'[g] <=> g = r /\ pc'[g] # "handOver"
                        /\ g # r => pc'[g] \notin {"deinit", "handOver"}
  BY <1>1, <1>5 DEF ChainOf
<1> QED BY <1>0, <1>7, <1>8, <1>9, <1>10 DEF ChainOf

(* The next front becomes the foremost one.                                *)
LEMMA ChainHandOver ==
  ASSUME TypeOK, RingsKnown, EndsKnown, setup' = setup, NumFronts > 1,
         NEW f \in Front, f \in Thread, NEW r \in Front, ChainOf(r), HandOver(f)
  PROVE  \E s \in Front : ChainOf(s)'
<1>s. PICK s \in Front : s = NextFront(f)
  BY FrontsRing DEF TypeOK, ControlType
<1>0. /\ pc \in [Thread -> FrontLabel \cup HelperLabel] /\ sem \in [Front -> Nat]
      /\ frontrunner \in [Front -> BOOLEAN]
      /\ first \in Int /\ s # f
      /\ \A g \in Front : NextFront(g) # g /\ (NextFront(g) = s => g = f)
      /\ Front' = Front /\ \A g \in Front : NextFront(g)' = NextFront(g)
  BY <1>s, FrontsRing, SameThreads DEF TypeOK, ControlType, DataType, NextFront
<1>1. /\ pc[f] = "handOver" /\ pc'[f] = "again" /\ UNCHANGED <<listVars, countdown>>
      /\ frontrunner' = [frontrunner EXCEPT ![s] = TRUE]
      /\ sem' = [sem EXCEPT ![f] = 0]
  BY <1>s, <1>0 DEF HandOver, Goto
<1>2. Plain(f) /\ first' = first /\ pc'[f] \notin Live \cup {"link"} /\ pc[f] \in Live
  BY <1>1 DEF Plain, listVars, Live, Sweeping, Checking
<1>3. f = r
  BY <1>1 DEF ChainOf
<1>4. \A g \in Front \ {f} : /\ pc'[g] = pc[g] /\ sem'[g] = sem[g] /\ SameLead(g)
                             /\ Pos(g)' = Pos(g) /\ SameTail(g, s) /\ SameTail(g, r)
  BY <1>0, <1>1, <1>2, PlainView
<1>5. ASSUME NEW g \in Front, NEW h \in Front, h = NextFront(g)
      PROVE  Spaced(g, h, s)'
  <2>0. Spaced(g, h, r) /\ h # g
    BY <1>0, <1>5 DEF ChainOf
  <2>1. CASE g = f
    BY <1>s, <1>2, <1>5, <2>1 DEF Spaced
  <2>2. CASE h = f
    <3>2. pc[g] \in Live =>
            Pos(g) >= first + BackOffset + Size - 1 - countdown[g] + Posted(g)
      BY <1>3, <2>0, <2>2 DEF Spaced
    <3>3. SameLead(g)
      BY <1>4, <2>0, <2>2
    <3> QED BY <1>2, <2>2, <3>2, <3>3 DEF Spaced, SameLead
  <2>3. CASE g # f /\ h # f
    <3>1. h # s
      BY <1>0, <1>5, <2>3
    <3>2. Spaced(g, h, s)
      BY <1>3, <2>0, <2>3, <3>1 DEF Spaced
    <3> QED BY <1>0, <1>2, <1>4, <2>3, <3>2, SpacedSame
  <2> QED BY <2>1, <2>2, <2>3
<1>6. \A g \in Front : pc'[g] \in Live /\ countdown'[g] > 0 => Posted(g)' = 0
  BY <1>2, <1>4 DEF ChainOf, SameLead
<1>7. \A g \in Front : pc'[g] \notin Live => sem'[g] = 0
  <2>1. sem'[f] = 0
    BY <1>0, <1>1
  <2> QED BY <1>4, <2>1 DEF ChainOf
<1>8. \A g \in Front : /\ frontrunner'[g] <=> g = s /\ pc'[g] # "handOver"
                       /\ g # s => pc'[g] \notin {"deinit", "handOver"}
  <2>1. /\ frontrunner'[s] /\ \A g \in Front \ {s} : (frontrunner'[g] <=> frontrunner[g])
    BY <1>0, <1>1
  <2>2. \A g \in Front : ~frontrunner[g]
    BY <1>1, <1>3 DEF ChainOf
  <2>3. \A g \in Front : pc'[g] \notin {"deinit", "handOver"}
    BY <1>1, <1>3, <1>4 DEF ChainOf
  <2> QED BY <2>1, <2>2, <2>3
<1>9. ChainOf(s)'
  BY <1>0, <1>5, <1>6, <1>7, <1>8 DEF ChainOf
<1> QED BY <1>9

LEMMA ChainStep ==
  ASSUME TypeOK, RingsKnown, EndsKnown, ChainKnown, NEW t \in Thread, Step(t)
  PROVE  ChainKnown'
<1>0. /\ setup' = setup /\ NumFronts' = NumFronts /\ Front' = Front
      /\ NumFronts \in Nat \ {0}
      /\ exit => exit'
  BY SameThreads, Threads, Moves DEF TypeOK, ControlType, Step, Ends
<1>1. SUFFICES ASSUME ~exit, ~exit', NumFronts > 1
               PROVE  \E s \in Front : ChainOf(s)'
  BY <1>0 DEF ChainKnown
<1>2. PICK r \in Front : ChainOf(r)
  BY <1>1 DEF ChainKnown
<1>3. CASE CheckStates(t) \/ Alone(t) \/ Waker(t)
  BY <1>1, <1>2, <1>3, ChainOthers
<1>4. CASE t \in Front /\ Plain(t)
  <2>1. CASE Again(t) \/ Run(t) \/ Drained(t) \/ Quit(t)
    BY <1>0, <1>1, <1>2, <1>4, <2>1, ChainQuiet
  <2>2. CASE Extend(t) \/ Finish(t)
    BY <1>0, <1>1, <1>2, <1>4, <2>2, ChainExtend
  <2>3. CASE Post(t) \/ Deinit(t)
    BY <1>0, <1>1, <1>2, <1>4, <2>3, ChainPost
  <2>4. CASE MayBegin(t) \/ MayAdvance(t)
    BY <1>0, <1>1, <1>2, <1>4, <2>4, ChainGrant
  <2>5. CASE Link(t)
    BY <1>0, <1>1, <1>2, <1>4, <2>5, ChainLink
  <2>6. CASE Advance(t)
    BY <1>0, <1>1, <1>2, <1>4, <2>6, ChainAdvance
  <2>7. CASE HandOver(t)
    BY <1>0, <1>1, <1>2, <1>4, <2>7, ChainHandOver
  <2> QED BY <1>4, <2>1, <2>2, <2>3, <2>4, <2>5, <2>6, <2>7 DEF Plain
<1> QED BY <1>3, <1>4, Kinds

LEMMA ChainInit ==
  Init => ChainKnown
<1> SUFFICES ASSUME Init PROVE ChainKnown
  OBVIOUS
<1>1. 0 \in Front /\ Front \subseteq Thread
  BY Threads DEF Init
<1>2. /\ \A f \in Front : pc[f] = "init" /\ sem[f] = 0 /\ (frontrunner[f] <=> f = 0)
  BY <1>1 DEF Init
<1>3. ChainOf(0)
  BY <1>2 DEF ChainOf, Spaced, Live, Sweeping, Checking
<1> QED BY <1>1, <1>3 DEF ChainKnown

(* The places of the fronts in the chain: the foremost one has place 0.    *)
Rank(r, f) == IF f >= r THEN f - r ELSE f - r + NumFronts

LEMMA ChainOrder ==
  ASSUME TypeOK, RingsKnown, NumFronts > 1, NEW r \in Front, ChainOf(r),
         NEW f \in Front, NEW g \in Front, pc[f] \in Live, pc[g] \in Live, f # g
  PROVE  Pos(f) >= Pos(g) + Size \/ Pos(g) >= Pos(f) + Size
<1> DEFINE Near(a, b) == ~(Pos(a) >= Pos(b) + Size)
           S == {d \in 1 .. NumFronts - 1 :
                   \E a, b \in Front : /\ pc[a] \in Live /\ pc[b] \in Live
                                       /\ Rank(r, b) = Rank(r, a) + d /\ Near(a, b)}
<1>0. /\ NumFronts \in Nat \ {0} /\ \A a \in Front : Pred(a) \in Front /\ NextFront(Pred(a)) = a
      /\ \A a \in Front : pc[a] \in Live => Pos(a) \in Int /\ Posted(a) \in Nat
      /\ Size \in Nat
  BY Threads, FrontsRing, PlaceTyped, Bounds DEF TypeOK, ControlType
<1>1. /\ \A a \in Front : Rank(r, a) \in 0 .. NumFronts - 1
      /\ \A a, b \in Front : Rank(r, a) = Rank(r, b) => a = b
      /\ Rank(r, r) = 0
      /\ \A a \in Front : a # r => Rank(r, Pred(a)) = Rank(r, a) - 1
  <2>1. \A a \in Front : Pred(a) = IF a = 0 THEN NumFronts - 1 ELSE a - 1
    BY FrontsRing DEF TypeOK, ControlType
  <2> QED BY <1>0, <2>1 DEF Rank, Front
<1>2. S = {}
  <2>1. SUFFICES ASSUME S # {} PROVE FALSE
    OBVIOUS
  <2>2. S \subseteq 1 .. NumFronts - 1 /\ 1 .. NumFronts - 1 \subseteq Int
    OBVIOUS
  <2>3. IsFiniteSet(S) /\ S \subseteq Int
    <3> HIDE DEF S
    <3>1. IsFiniteSet(1 .. NumFronts - 1)
      BY <1>0, FS_Interval
    <3> QED BY <2>2, <3>1, FS_Subset
  <2> DEFINE d == Min(S)
  <2>4. d \in S /\ \A x \in S : d <= x
    <3> HIDE DEF S
    <3> QED BY <2>1, <2>3, Extremes
  <2>5. PICK a \in Front, b \in Front :
          /\ pc[a] \in Live /\ pc[b] \in Live
          /\ Rank(r, b) = Rank(r, a) + d /\ Near(a, b)
    BY <2>4
  <2>6. d \in 1 .. NumFronts - 1
    BY <2>2, <2>4
  <2> HIDE DEF d, Near
  <2>7. PICK p \in Front : p = Pred(b) /\ NextFront(p) = b
    BY <1>0
  <2>8. b # r
    BY <1>1, <2>5, <2>6
  <2>9. Rank(r, p) = Rank(r, a) + (d - 1)
    BY <1>1, <2>5, <2>6, <2>7, <2>8
  <2>10. pc[p] \in Live /\ Pos(p) >= Pos(b) + Size
    <3>1. pc[p] \in Live /\ Pos(p) >= Claim(b) + Size + Posted(p)
      BY <2>5, <2>7, <2>8 DEF ChainOf, Spaced
    <3>2. Claim(b) = Pos(b) \/ Claim(b) = Pos(b) + 1
      BY <2>5 DEF Claim, Live, Sweeping, Checking
    <3> QED BY <1>0, <2>5, <3>1, <3>2
  <2>11. CASE d = 1
    <3>1. p = a
      BY <1>1, <2>9, <2>11
    <3> QED BY <2>5, <2>10, <3>1 DEF Near
  <2>12. CASE d # 1
    <3>1. d - 1 \in 1 .. NumFronts - 1 /\ ~(d <= d - 1)
      BY <1>0, <2>6, <2>12
    <3>2. d - 1 \notin S
      BY <2>4, <3>1
    <3>3. ~Near(a, p)
      BY <2>5, <2>9, <2>10, <3>1, <3>2
    <3>4. Pos(a) >= Pos(p) + Size
      BY <3>3 DEF Near
    <3>5. Pos(a) >= Pos(b) + Size
      BY <1>0, <2>5, <2>10, <3>4
    <3> QED BY <2>5, <3>5 DEF Near
  <2> QED BY <2>11, <2>12
<1>3. CASE Rank(r, f) < Rank(r, g)
  <2>1. Rank(r, g) - Rank(r, f) \in 1 .. NumFronts - 1
    BY <1>0, <1>1, <1>3
  <2>2. Rank(r, g) = Rank(r, f) + (Rank(r, g) - Rank(r, f))
    BY <1>1
  <2> QED BY <1>2, <2>1, <2>2
<1>4. CASE Rank(r, g) < Rank(r, f)
  <2>1. Rank(r, f) - Rank(r, g) \in 1 .. NumFronts - 1
    BY <1>0, <1>1, <1>4
  <2>2. Rank(r, f) = Rank(r, g) + (Rank(r, f) - Rank(r, g))
    BY <1>1
  <2> QED BY <1>2, <2>1, <2>2
<1>5. Rank(r, f) < Rank(r, g) \/ Rank(r, g) < Rank(r, f)
  BY <1>1
<1> QED BY <1>3, <1>4, <1>5

LEMMA ChainInvariant == Spec => [](ControlKnown /\ ChainKnown)
<1>1. Init => ChainKnown
  BY ChainInit
<1>2. ControlKnown /\ ChainKnown /\ [Next]_vars => ChainKnown'
  <2> SUFFICES ASSUME ControlKnown, ChainKnown, [Next]_vars
               PROVE  ChainKnown'
    OBVIOUS
  <2>1. ASSUME NEW t \in Thread, Step(t) PROVE ChainKnown'
    BY <2>1, ChainStep DEF ControlKnown
  <2>2. CASE Join \/ Stop \/ UNCHANGED vars
    <3>1. UNCHANGED <<setup, listVars, ringVars, frontVars, exit, pc>>
      BY <2>2 DEF Join, Stop, vars, endVars
    <3>2. Front' = Front /\ NumFronts' = NumFronts /\ setup' = setup
      BY <3>1, SameThreads DEF ControlKnown, TypeOK, ControlType
    <3>3. \A f : Calm(f)
      BY <3>1 DEF Calm
    <3>4. ASSUME NEW r \in Front, ChainOf(r) PROVE ChainOf(r)'
      BY <3>1, <3>2, <3>3, <3>4, ChainCalm DEF ControlKnown, listVars, ringVars, frontVars
    <3> QED BY <3>1, <3>2, <3>4 DEF ChainKnown
  <2> QED BY <2>1, <2>2 DEF Next
<1> QED BY <1>1, <1>2, ControlInvariant, PTL DEF Spec

(* The fronts share the lists of persistent markings without any lock: no  *)
(* bucket is within reach of two fronts at the same time, and the one that *)
(* is behind has not yet come to what the other leaves for it.  What the   *)
(* semaphores still hold is part of the distance between two fronts.       *)
THEOREM FrontsKeepApart == Spec => []WindowsApart
<1>1. ControlKnown /\ ChainKnown => WindowsApart
  <2> SUFFICES ASSUME ControlKnown, ChainKnown, ~exit, NEW f \in Front, NEW g \in Front,
                      f # g, pc[f] \in Sweeping, pc[g] \in Sweeping
               PROVE  Window(f) \cap Window(g) = {}
    BY DEF WindowsApart
  <2>0. TypeOK /\ RingsKnown /\ pc[f] \in Live /\ pc[g] \in Live
    BY DEF ControlKnown, Live
  <2>1. NumFronts > 1
    <3>1. NumFronts = 1 => f = 0 /\ g = 0
      BY <2>0, FrontsRing DEF TypeOK, ControlType
    <3>2. NumFronts \in Nat \ {0}
      BY <2>0, Threads DEF TypeOK, ControlType
    <3> QED BY <3>1, <3>2
  <2>2. PICK r \in Front : ChainOf(r)
    BY <2>1 DEF ChainKnown
  <2>3. Pos(f) >= Pos(g) + Size \/ Pos(g) >= Pos(f) + Size
    BY <2>0, <2>1, <2>2, ChainOrder
  <2>4. ASSUME NEW h \in Front, pc[h] \in Live
        PROVE  Pos(h) \in Int /\ Window(h) \subseteq Pos(h) - BackOffset .. Pos(h) + FrontOffset
    <3>1. /\ link[h] \in [0 .. Size - 1 -> Int] /\ Pos(h) \in Int /\ active[h] \in 0 .. Size - 1
          /\ \A d \in Offsets : link[h][SlotAt(h, d)] = Pos(h) + d
      BY <2>0, <2>4, PlaceTyped, PlaceListed
    <3>2. \A s \in 0 .. Size - 1 : \E d \in Offsets : SlotAt(h, d) = s
      BY <3>1, RingSlots DEF SlotAt, SlotFrom
    <3>3. \A s \in 0 .. Size - 1 : link[h][s] \in Pos(h) - BackOffset .. Pos(h) + FrontOffset
      <4>1. \A d \in Offsets : Pos(h) + d \in Pos(h) - BackOffset .. Pos(h) + FrontOffset
        BY <3>1, Bounds DEF Offsets
      <4> QED BY <3>1, <3>2, <4>1
    <3> QED BY <3>1, <3>3 DEF Window
  <2>5. \A x : x \notin Pos(f) - BackOffset .. Pos(f) + FrontOffset
               \/ x \notin Pos(g) - BackOffset .. Pos(g) + FrontOffset
    <3>1. Pos(f) \in Int /\ Pos(g) \in Int
      BY <2>0, <2>4
    <3> QED BY <2>3, <3>1, Bounds
  <2> QED BY <2>0, <2>4, <2>5
<1> QED BY <1>1, ChainInvariant, PTL
-----------------------------------------------------------------------------
(* Everything that is known about the control and the buckets.             *)
SweepKnown == ControlKnown /\ BucketAttended /\ MarkingsKnown /\ Apart

LEMMA ApartInvariant == Spec => []Apart
<1>1. ControlKnown /\ ChainKnown => Apart
  <2> SUFFICES ASSUME ControlKnown, ChainKnown, ~exit, NEW f \in Front, NEW g \in Front,
                      f # g, pc[f] \in Live, pc[g] \in Live
               PROVE  Pos(f) >= Pos(g) + Size \/ Pos(g) >= Pos(f) + Size
    BY DEF Apart
  <2>0. TypeOK /\ RingsKnown
    BY DEF ControlKnown
  <2>1. NumFronts > 1
    <3>1. NumFronts = 1 => f = 0 /\ g = 0
      BY <2>0, FrontsRing DEF TypeOK, ControlType
    <3>2. NumFronts \in Nat \ {0}
      BY <2>0, Threads DEF TypeOK, ControlType
    <3> QED BY <3>1, <3>2
  <2>2. PICK r \in Front : ChainOf(r)
    BY <2>1 DEF ChainKnown
  <2> QED BY <2>0, <2>1, <2>2, ChainOrder
<1> QED BY <1>1, ChainInvariant, PTL

LEMMA KnownInvariant == Spec => []SweepKnown
<1>1. ControlKnown /\ BucketAttended /\ MarkingsKnown /\ Apart => SweepKnown
  BY DEF SweepKnown
<1> QED BY <1>1, SweepInvariant, ApartInvariant, PTL

(* Where a front is while a thread works with its buckets.                 *)
Served == Sweeping \ {"quit", "extend", "mayAdvance", "advance", "post"}

LEMMA WorkerFront ==
  ASSUME SweepKnown, ~exit, NEW t \in Thread, pc[t] \in Checking,
         pc[t] \in Past \/ link[frontptr[t]] # <<>>
  PROVE  /\ frontptr[t] \in Front /\ link[frontptr[t]] # <<>>
         /\ pc[frontptr[t]] \in Served
<1>0. /\ TypeOK /\ HelpersKnown /\ OpeningKnown /\ EndsKnown /\ MarkingsKnown
      /\ setup \in Setups
  BY DEF SweepKnown, ControlKnown, TypeOK, ControlType
<1>1. /\ frontptr[t] \in Front /\ helpers \in [Front -> Int]
      /\ t \in Front => frontptr[t] = t
      /\ \A g \in Front : pc[g] \in FrontLabel /\ g \in Thread
  BY <1>0, Threads DEF TypeOK, ControlType
<1>2. link[frontptr[t]] # <<>>
  <2>1. WorkPlaced(t)
    BY <1>0 DEF MarkingsKnown
  <2> QED BY <2>1 DEF WorkPlaced
<1>3. CASE t \in Front
  <2>1. frontptr[t] = t
    BY <1>1, <1>3
  <2>2. pc[t] \in Served
    BY DEF Served, Sweeping, Checking
  <2> QED BY <1>2, <1>3, <2>1, <2>2
<1>4. CASE t \notin Front
  <2>0. PICK f \in Front : f = frontptr[t]
    BY <1>1
  <2>1. t \in Helper /\ t \in HelpersAt(f)
    BY <1>0, <1>4, <2>0, Threads DEF HelpersAt
  <2>2. helpers[f] = Cardinality(HelpersAt(f)) /\ IsFiniteSet(HelpersAt(f))
    <3>1. HelpersAt(f) \subseteq Helper /\ IsFiniteSet(Helper)
      BY <1>0, Threads DEF HelpersAt
    <3> QED BY <1>0, <3>1, FS_Subset DEF HelpersKnown, HelpersGone
  <2>3. helpers[f] # 0
    BY <2>1, <2>2, FS_EmptySet
  <2>4. pc[f] \notin {"quit", "extend", "mayAdvance", "advance", "post", "deinit", "handOver"}
    BY <1>0, <2>3 DEF HelpersKnown, HelpersGone
  <2>5. pc[f] \notin Between
    BY <1>0, <1>2, <2>0, <2>3 DEF HelpersKnown
  <2>6. pc[f] \notin Ended
    BY <1>0, <1>1 DEF EndsKnown
  <2>7. f # 0 => pc[f] \notin Waiting \cup {"begin", "startFronts"}
    BY <1>0, <1>2, <2>0 DEF HelpersKnown, TypeOK, ControlType
  <2>8. f = 0 => pc[f] \notin Waiting \cup {"begin", "startFronts"}
    <3>1. Opening => helpers[f] = 0
      BY <1>0 DEF OpeningKnown
    <3> QED BY <2>3, <3>1 DEF Opening
  <2>9. pc[f] \in Served
    BY <1>1, <2>4, <2>5, <2>6, <2>7, <2>8 DEF FrontLabel, Live, Served
  <2> QED BY <1>2, <2>0, <2>9
<1> QED BY <1>3, <1>4

LEMMA ServedLive ==
  Served \subseteq Sweeping /\ Served \subseteq Live
BY DEF Served, Live

(* The labels at which nothing can happen but that a thread is awakened.   *)
Asleep == {"initAsleep", "initCheck", "asleep", "awake"}

LEMMA OthersStay ==
  ASSUME TypeOK, NEW t \in Thread, Step(t), NEW u \in Thread, u # t
  PROVE  /\ pc'[u] = pc[u] \/ (pc[u] \in Asleep /\ pc'[u] \in Asleep)
         /\ \A L : L \cap Asleep = {} => (pc'[u] \in L <=> pc[u] \in L)
         /\ frontptr'[u] = frontptr[u] /\ ns'[u] = ns[u] /\ entry'[u] = entry[u]
         /\ tried'[u] = tried[u] /\ (found'[u] <=> found[u])
<1>1. /\ pc'[u] = pc[u] \/ Roused(pc[u], pc'[u])
      /\ frontptr'[u] = frontptr[u] /\ ns'[u] = ns[u] /\ entry'[u] = entry[u]
      /\ tried'[u] = tried[u] /\ (found'[u] <=> found[u])
  BY ControlStep DEF Others
<1>2. pc'[u] = pc[u] \/ (pc[u] \in Asleep /\ pc'[u] \in Asleep)
  BY <1>1 DEF Roused, Asleep
<1>3. ASSUME NEW L, L \cap Asleep = {} PROVE pc'[u] \in L <=> pc[u] \in L
  BY <1>2, <1>3
<1> QED BY <1>1, <1>2, <1>3

LEMMA AwakeLabels ==
  /\ Checking \cap Asleep = {} /\ Past \cap Asleep = {} /\ Firing \cap Asleep = {}
  /\ Sweeping \cap Asleep = {} /\ Live \cap Asleep = {} /\ Looked \cap Asleep = {}
  /\ {"mayAdvance", "advance"} \cap Asleep = {} /\ {"deinit", "handOver"} \cap Asleep = {}
  /\ {"popNew"} \cap Asleep = {} /\ {"lookStore", "insertNew"} \cap Asleep = {}
  /\ {"deinit"} \cap Asleep = {} /\ {"solved"} \cap Asleep = {}
  /\ Past \subseteq Checking /\ Firing \subseteq Past
BY DEF Checking, Past, Firing, Sweeping, Live, Looked, Asleep

(* The steps that leave the buckets alone and end nothing.                 *)
Calmly(t) ==
  /\ UNCHANGED <<listVars, ringVars, back, workVars, exit>>
  /\ pc[t] \notin Checking /\ pc'[t] \notin Checking \ {"loop"}
  /\ \A f \in Front : frontptr'[f] = frontptr[f]
  /\ t \in Front =>
       /\ pc'[t] \in Sweeping => pc[t] \in Sweeping
       /\ pc'[t] \in {"deinit", "handOver"} => exit
       /\ pc[t] \in Sweeping => pc'[t] \in Sweeping \/ exit
       /\ pc'[t] \in Looked => pc[t] \in Looked \/ exit
       /\ pc'[t] \in {"mayAdvance", "advance"} <=> pc[t] \in {"mayAdvance", "advance"}

(* The others of a front.                                                  *)
Moving(f) ==
  \/ Link(f) /\ ~exit
  \/ Extend(f) \/ Finish(f)
  \/ Advance(f)
  \/ Deinit(f)

LEMMA CalmPlain ==
  ASSUME TypeOK, EndsKnown, NEW f \in Front, f \in Thread, Plain(f)
  PROVE  Moving(f) \/ Calmly(f)
<1>0. pc \in [Thread -> FrontLabel \cup HelperLabel]
  BY DEF TypeOK, ControlType
<1>1. UNCHANGED idleVars /\ UNCHANGED workVars
  BY PlainFacts
<1>2. \A g \in Front : frontptr'[g] = frontptr[g]
  BY <1>1 DEF idleVars
<1>3. found[f] => exit
  BY DEF EndsKnown
<1>4. CASE Again(f) \/ MayBegin(f) \/ Run(f) \/ Drained(f) \/ Quit(f) \/ MayAdvance(f)
           \/ Post(f) \/ HandOver(f) \/ (Link(f) /\ exit)
  <2>1. UNCHANGED <<listVars, ringVars, back, exit>>
    BY <1>4 DEF Again, MayBegin, MayGoOn, Run, Drained, Quit, MayAdvance, Post, HandOver, Link,
            LinkFor, frontVars, endVars, ringVars
  <2>2. /\ pc[f] \in {"again", "mayBegin", "run", "drained", "quit", "mayAdvance", "post",
                      "handOver", "link"}
        /\ pc'[f] = CASE pc[f] = "again" -> (IF exit THEN "end" ELSE IF NumFronts > 1 THEN "mayBegin" ELSE "link")
                      [] pc[f] = "mayBegin" -> "link"
                      [] pc[f] = "run" -> (IF exit THEN "deinit" ELSE IF Helped THEN "busy" ELSE "loop")
                      [] pc[f] = "drained" -> "quit"
                      [] pc[f] = "quit" -> (IF found[f] \/ exit THEN "deinit" ELSE "extend")
                      [] pc[f] = "mayAdvance" -> "advance"
                      [] pc[f] = "post" -> "run"
                      [] pc[f] = "handOver" -> "again"
                      [] pc[f] = "link" -> "end"
        /\ pc[f] = "link" => exit
    BY <1>0, <1>4 DEF Again, MayBegin, MayGoOn, Run, Drained, Quit, MayAdvance, Post, HandOver,
            Link, LinkFor, Goto
  <2>3. /\ pc[f] \notin Checking /\ pc'[f] \notin Checking \ {"loop"}
        /\ pc'[f] \in Sweeping => pc[f] \in Sweeping
        /\ pc'[f] \in {"deinit", "handOver"} => exit
        /\ pc[f] \in Sweeping => pc'[f] \in Sweeping \/ exit
        /\ pc'[f] \in Looked => pc[f] \in Looked \/ exit
        /\ pc'[f] \in {"mayAdvance", "advance"} <=> pc[f] \in {"mayAdvance", "advance"}
    BY <1>3, <2>2 DEF Checking, Sweeping, Looked
  <2> QED BY <1>1, <1>2, <2>1, <2>3 DEF Calmly
<1> QED BY <1>4 DEF Plain, Moving

LEMMA CalmAlone ==
  ASSUME TypeOK, NEW t \in Thread, Alone(t)
  PROVE  Calmly(t)
<1>0. /\ pc \in [Thread -> FrontLabel \cup HelperLabel]
      /\ t \in Front => t \notin Helper
  BY DEF TypeOK, ControlType, Helper
<1>1. /\ UNCHANGED <<listVars, ringVars, back, workVars, exit>>
      /\ \A f \in Thread : frontptr'[f] = frontptr[f] \/ (f = t /\ t \in Helper)
  BY AloneFacts
<1>2. \A f \in Front : frontptr'[f] = frontptr[f]
  <2>1. Front \subseteq Thread
    BY Threads DEF TypeOK, ControlType
  <2> QED BY <1>0, <1>1, <2>1
<1>3. CASE t \in Helper
  <2>1. /\ pc[t] \notin Checking /\ pc'[t] \notin Checking \ {"loop"}
    BY <1>0, <1>3 DEF Alone, Initialise, InitCheck, Terminate, Return, Begin, Busy, Draw,
          Drain, End, Outer, Inner, Glance, JoinFront, Work, Release, Back, Read, Nap,
          Awake, Goto, MoveOn, SleepOrGoOn, Checking
  <2> QED BY <1>0, <1>1, <1>2, <1>3, <2>1 DEF Calmly
<1>4. CASE t \notin Helper
  <2>1. \/ pc[t] \in {"init", "initCheck", "terminate", "barrier", "begin", "end"}
           /\ pc'[t] \in Waiting \cup {"startFronts", "begin", "outer", "barrier", "done", "again", "dismiss"}
        \/ pc[t] = "busy" /\ pc'[t] = "draw"
        \/ pc[t] = "draw" /\ pc'[t] \in {"drawWake", "tell"}
        \/ pc[t] = "drain" /\ pc'[t] = "drained"
    BY <1>0, <1>4 DEF Alone, Initialise, InitCheck, Terminate, Return, Begin, Busy, Draw,
          Drain, End, Goto, Waiting
  <2>2. /\ pc[t] \notin Checking /\ pc'[t] \notin Checking \ {"loop"}
        /\ pc'[t] \in Sweeping => pc[t] \in Sweeping
        /\ pc'[t] \in {"deinit", "handOver"} => exit
        /\ pc[t] \in Sweeping => pc'[t] \in Sweeping \/ exit
        /\ pc'[t] \in Looked => pc[t] \in Looked \/ exit
        /\ pc'[t] \in {"mayAdvance", "advance"} <=> pc[t] \in {"mayAdvance", "advance"}
    BY <2>1 DEF Checking, Sweeping, Looked, Waiting
  <2> QED BY <1>1, <1>2, <2>2 DEF Calmly
<1> QED BY <1>3, <1>4

LEMMA CalmWaker ==
  ASSUME TypeOK, NEW t \in Thread, Waker(t)
  PROVE  Calmly(t)
<1>1. WakerStep(t)
  BY WakerFacts
<1>2. /\ UNCHANGED <<listVars, ringVars, back, workVars, exit>>
      /\ \A f \in Front : frontptr'[f] = frontptr[f]
  BY <1>1 DEF WakerStep, frontVars, endVars
<1>3. \/ pc[t] = "startFirst" /\ pc'[t] = "initCheck"
      \/ pc[t] = "startFronts" /\ pc'[t] \in {"startFronts", "begin"}
      \/ pc[t] = "drawWake" /\ pc'[t] = "draw"
      \/ pc[t] = "tell" /\ pc'[t] \in {"tell", "loop"}
      \/ pc[t] = "dismiss" /\ pc'[t] \in {"dismiss", "terminate"}
  BY <1>1 DEF WakerStep
<1>4. /\ pc[t] \notin Checking /\ pc'[t] \notin Checking \ {"loop"}
      /\ pc'[t] \in Sweeping => pc[t] \in Sweeping
      /\ pc'[t] \in {"deinit", "handOver"} => exit
      /\ pc[t] \in Sweeping => pc'[t] \in Sweeping \/ exit
      /\ pc'[t] \in Looked => pc[t] \in Looked \/ exit
      /\ pc'[t] \in {"mayAdvance", "advance"} <=> pc[t] \in {"mayAdvance", "advance"}
  BY <1>3 DEF Checking, Sweeping, Looked
<1> QED BY <1>2, <1>4 DEF Calmly

LEMMA Sorts ==
  ASSUME TypeOK, EndsKnown, NEW t \in Thread, Step(t)
  PROVE  CheckStates(t) \/ (t \in Front /\ Moving(t)) \/ Calmly(t)
BY Kinds, CalmPlain, CalmAlone, CalmWaker

(* What a step of checkStates does: nothing but to look for work, ...      *)
Rests(t) ==
  /\ pc[t] \in {"loop", "pop", "popNew", "solved"} /\ pc'[t] \notin Past
  /\ UNCHANGED <<newP, oldP, store, samevalue, fresh, ns, entry>>

(* ... to take a marking from the ring or from the lists, ...              *)
TakesOut(t) ==
  /\ pc[t] = "pop" /\ pc'[t] = "keep" /\ UNCHANGED <<newP, oldP, samevalue, fresh>>
  /\ ns'[t] \in store[frontptr[t]][active[frontptr[t]]]
  /\ \A g \in Front, s \in 0 .. Size - 1 :
        store'[g][s] = IF g = frontptr[t] /\ s = active[g] THEN store[g][s] \ {ns'[t]}
                       ELSE store[g][s]

TakesNew(t) ==
  /\ pc[t] = "popNew" /\ pc'[t] = "keepOld" /\ UNCHANGED <<oldP, store, samevalue, fresh>>
  /\ link[frontptr[t]] # <<>> /\ ns'[t] \in newP[Pos(frontptr[t])]
  /\ \A i \in DOMAIN newP : newP'[i] = IF i = Pos(frontptr[t]) THEN newP[i] \ {ns'[t]}
                                       ELSE newP[i]

(* ... to keep it, and to begin with its transitions if it has some, ...   *)
Expands(t) ==
  /\ pc[t] \in {"keep", "keepOld"} /\ UNCHANGED <<newP, store, fresh, ns>>
  /\ entry'[t] = Len(Firelist[ns[t]])
  /\ pc'[t] = IF ns[t] \in prop THEN "solved"
              ELSE IF Firelist[ns[t]] = <<>> THEN "loop" ELSE "lookOld"
  /\ \A g \in Front : samevalue'[g] \subseteq samevalue[g] \cup {ns[t]}
  /\ \A i \in DOMAIN oldP : oldP'[i] \subseteq oldP[i] \cup {ns[t]}

(* ... to look the marking it reaches up, ...                              *)
Goes(t) ==
  /\ pc[t] \in Firing /\ UNCHANGED <<oldP, samevalue, ns>>
  /\ entry'[t] = entry[t] - 1 /\ pc'[t] = IF entry[t] = 1 THEN "loop" ELSE "lookOld"

Misses(t) ==
  /\ pc[t] \in Firing /\ pc'[t] \in Firing
  /\ UNCHANGED <<newP, oldP, store, samevalue, fresh, ns, entry>>
  /\ pc'[t] \in {"lookStore", "insertNew"} => Offset(t) < 0 \/ pc[t] \in {"lookStore", "insertNew"}

Finds(t) ==
  /\ Goes(t) /\ UNCHANGED <<newP, store, fresh>>
  /\ \/ \E i \in DOMAIN newP : Reached(t) \in newP[i] \cup oldP[i]
     \/ Reached(t) \in samevalue[frontptr[t]]
     \/ \E s \in 0 .. Size - 1 : Reached(t) \in store[frontptr[t]][s]

(* ... and to put it ahead into the ring, or behind into the lists.        *)
Puts(t) ==
  /\ Goes(t) /\ UNCHANGED <<newP, fresh>>
  /\ Offset(t) \in 0 .. FrontOffset
  /\ \A g \in Front, s \in 0 .. Size - 1 :
        store'[g][s] = IF g = frontptr[t] /\ s = SlotAt(g, Offset(t))
                       THEN store[g][s] \cup {Reached(t)} ELSE store[g][s]

PutsBehind(t) ==
  /\ Goes(t) /\ pc[t] = "insertNew" /\ UNCHANGED store
  /\ \A i \in DOMAIN newP : newP'[i] = IF i = Pos(frontptr[t]) + Offset(t)
                                       THEN newP[i] \cup {Reached(t)} ELSE newP[i]
  /\ \A g \in Front : fresh'[g] <=>
        fresh[g] /\ (g = frontptr[t] => Reached(t) \in newP[Pos(g) + Offset(t)])

(* The rings with something else in a slot of a front.                     *)
Replaced(f, i, M) == [store EXCEPT ![f][i] = M]

OneSlot(f, i, M) == \A g \in Front, s \in 0 .. Size - 1 :
                       store'[g][s] = IF g = f /\ s = i THEN M ELSE store[g][s]

LEMMA SlotAlone ==
  ASSUME TypeOK, NEW f \in Front, NEW i \in 0 .. Size - 1, NEW M, store' = Replaced(f, i, M)
  PROVE  OneSlot(f, i, M)
<1>1. store \in [Front -> [0 .. Size - 1 -> SUBSET Marking]]
  BY DEF TypeOK, DataType
<1>2. /\ store'[f] = [store[f] EXCEPT ![i] = M] /\ store[f] \in [0 .. Size - 1 -> SUBSET Marking]
      /\ \A g \in Front : g # f => store'[g] = store[g]
  BY <1>1 DEF Replaced
<1>3. store'[f][i] = M /\ \A s \in 0 .. Size - 1 : s # i => store'[f][s] = store[f][s]
  BY <1>2
<1> QED BY <1>2, <1>3 DEF OneSlot

LEMMA CheckEffects ==
  ASSUME TypeOK, RingsKnown, MarkingsKnown, NEW t \in Thread, CheckStates(t)
  PROVE  \/ Rests(t) \/ TakesOut(t) \/ TakesNew(t) \/ Expands(t)
         \/ Misses(t) \/ Finds(t) \/ Puts(t) \/ PutsBehind(t)
<1> DEFINE f == frontptr[t]
<1>0. /\ pc \in [Thread -> FrontLabel \cup HelperLabel]
      /\ DOMAIN newP = DOMAIN oldP
      /\ newP \in [DOMAIN newP -> SUBSET Marking] /\ oldP \in [DOMAIN oldP -> SUBSET Marking]
      /\ store \in [Front -> [0 .. Size - 1 -> SUBSET Marking]]
      /\ active \in [Front -> 0 .. Size - 1]
      /\ samevalue \in [Front -> SUBSET Marking] /\ fresh \in [Front -> BOOLEAN]
      /\ ns \in [Thread -> Marking] /\ entry \in [Thread -> Nat] /\ f \in Front
  BY DEF TypeOK, ControlType, DataType
<1>1. WorkPlaced(t)
  BY DEF MarkingsKnown
<1>s. /\ active[f] \in 0 .. Size - 1
      /\ \A d \in Offsets : SlotAt(f, d) \in 0 .. Size - 1
  BY <1>0, RingSlots, Bounds DEF SlotFrom, SlotAt
<1>k. /\ {"keep", "keepOld", "solved", "lookOld", "lookNew", "lookSame", "lookStore", "insert",
          "insertNew"} = Past
      /\ {"lookOld", "lookNew", "lookSame", "lookStore", "insert", "insertNew"} = Firing
  BY DEF Past, Firing, Checking
<1>f. ASSUME pc[t] \in Firing
      PROVE  /\ link[f] # <<>> /\ Offset(t) \in Offsets
             /\ Slot(t) = SlotAt(f, Offset(t)) /\ Listed(t) = Pos(f) + Offset(t)
             /\ Listed(t) \in DOMAIN newP /\ Slot(t) \in 0 .. Size - 1
  <2>1. /\ link[f] # <<>> /\ Offset(t) \in Offsets
        /\ Slot(t) = SlotAt(f, Offset(t)) /\ Listed(t) = Pos(f) + Offset(t)
        /\ Listed(t) \in DOMAIN newP
    BY <1>1, <1>f, Fired
  <2> QED BY <1>s, <2>1
<1> USE DEF Goto, listVars, ringVars, frontVars, idleVars, workVars, endVars
<1>3. CASE Loop(t) \/ Solved(t)
  <2>1. /\ pc[t] \in {"loop", "solved"}
        /\ UNCHANGED <<newP, oldP, store, samevalue, fresh, ns, entry>>
        /\ pc'[t] \in {"pop", "release", "drain", "quit"}
    BY <1>0, <1>3 DEF Loop, Solved, Checked
  <2> QED BY <1>k, <2>1 DEF Rests
<1>4. CASE Pop(t)
  <2> DEFINE slot == store[f][active[f]]
  <2>0. pc[t] = "pop" /\ UNCHANGED <<newP, oldP, samevalue, fresh, entry>>
    BY <1>4 DEF Pop
  <2>1. CASE TryNext(t, slot, "popNew") /\ UNCHANGED <<ns, store>>
    <3>1. pc'[t] \in {"popNew", "pop"}
      BY <1>0, <2>0, <2>1 DEF TryNext
    <3> QED BY <1>k, <2>0, <2>1, <3>1 DEF Rests
  <2>2. CASE \E m \in Hits(t, slot) :
               /\ ns' = [ns EXCEPT ![t] = m]
               /\ store' = [store EXCEPT ![f][active[f]] = @ \ {m}]
               /\ pc' = [pc EXCEPT ![t] = "keep"]
    <3>1. PICK m \in slot : /\ ns' = [ns EXCEPT ![t] = m]
                            /\ store' = [store EXCEPT ![f][active[f]] = slot \ {m}]
                            /\ pc' = [pc EXCEPT ![t] = "keep"]
      BY <2>2 DEF Hits
    <3>2. ns'[t] = m /\ pc'[t] = "keep"
      BY <1>0, <3>1
    <3>3. \A g \in Front, s \in 0 .. Size - 1 :
             store'[g][s] = IF g = f /\ s = active[f] THEN slot \ {m} ELSE store[g][s]
      <4>0. PICK M : M = slot \ {m}
        OBVIOUS
      <4>1. PICK e \in Front, i \in 0 .. Size - 1 : e = f /\ i = active[f] /\ M = slot \ {m}
        BY <1>0, <1>s, <4>0
      <4>2. store' = Replaced(e, i, M)
        BY <3>1, <4>1 DEF Replaced
      <4>3. OneSlot(e, i, M)
        BY <4>1, <4>2, SlotAlone
      <4> QED BY <4>1, <4>3 DEF OneSlot
    <3>4. ASSUME NEW g \in Front, NEW s \in 0 .. Size - 1
          PROVE  store'[g][s] = IF g = f /\ s = active[g] THEN store[g][s] \ {ns'[t]}
                                ELSE store[g][s]
      <4>1. CASE g = f /\ s = active[g]
        <5>1. store'[g][s] = slot \ {m} /\ slot = store[g][s]
          BY <3>3, <4>1
        <5> QED BY <3>2, <4>1, <5>1
      <4>2. CASE ~ (g = f /\ s = active[g])
        <5>1. ~ (g = f /\ s = active[f])
          BY <4>2
        <5>2. store'[g][s] = store[g][s]
          BY <3>3, <5>1
        <5> QED BY <4>2, <5>2
      <4> QED BY <4>1, <4>2
    <3> QED BY <2>0, <3>1, <3>2, <3>4 DEF TakesOut
  <2>3. \/ TryNext(t, slot, "popNew") /\ UNCHANGED <<ns, store>>
        \/ \E m \in Hits(t, slot) :
               /\ ns' = [ns EXCEPT ![t] = m]
               /\ store' = [store EXCEPT ![f][active[f]] = @ \ {m}]
               /\ pc' = [pc EXCEPT ![t] = "keep"]
    BY <1>4 DEF Pop
  <2> QED BY <2>1, <2>2, <2>3
<1>5. CASE PopNew(t)
  <2> DEFINE at == link[f][active[f]]
  <2>0. pc[t] = "popNew" /\ link[f] # <<>> /\ UNCHANGED <<oldP, store, samevalue, fresh, entry>>
    BY <1>5 DEF PopNew
  <2>1. CASE TryNext(t, newP[at], Checked(t)) /\ UNCHANGED <<ns, newP>>
    <3>1. pc'[t] \in {"popNew", "release", "drain", "quit"}
      BY <1>0, <2>0, <2>1 DEF TryNext, Checked
    <3> QED BY <1>k, <2>0, <2>1, <3>1 DEF Rests
  <2>2. CASE \E m \in Hits(t, newP[at]) :
               /\ ns' = [ns EXCEPT ![t] = m]
               /\ newP' = [newP EXCEPT ![at] = @ \ {m}]
               /\ pc' = [pc EXCEPT ![t] = "keepOld"]
    <3>1. PICK m \in newP[at] : /\ ns' = [ns EXCEPT ![t] = m]
                                /\ newP' = [newP EXCEPT ![at] = @ \ {m}]
                                /\ pc' = [pc EXCEPT ![t] = "keepOld"]
      BY <2>2 DEF Hits
    <3>2. ns'[t] = m /\ pc'[t] = "keepOld"
      BY <1>0, <3>1
    <3>3. at \in DOMAIN newP /\ at = Pos(f)
      BY <1>0, <2>0, PlaceListed DEF Pos
    <3> HIDE DEF at
    <3>4. \A i \in DOMAIN newP : newP'[i] = IF i = at THEN newP[i] \ {m} ELSE newP[i]
      BY <1>0, <3>1, <3>3
    <3> QED BY <2>0, <3>1, <3>2, <3>3, <3>4 DEF TakesNew
  <2> QED BY <1>5, <2>1, <2>2 DEF PopNew
<1>6. CASE Keep(t) \/ KeepOld(t)
  <2>1. /\ pc[t] \in {"keep", "keepOld"} /\ UNCHANGED <<newP, store, fresh, ns>> /\ Expand(t)
    BY <1>6 DEF Keep, KeepOld
  <2>2. /\ entry'[t] = Len(Firelist[ns[t]])
        /\ pc'[t] = IF ns[t] \in prop THEN "solved"
                    ELSE IF Firelist[ns[t]] = <<>> THEN "loop" ELSE "lookOld"
    BY <1>0, <2>1 DEF Expand
  <2>3. CASE Keep(t)
    <3>1. samevalue' = [samevalue EXCEPT ![f] = @ \cup {ns[t]}] /\ UNCHANGED oldP
      BY <2>3 DEF Keep
    <3>2. \A g \in Front : samevalue'[g] \subseteq samevalue[g] \cup {ns[t]}
      BY <1>0, <3>1
    <3> QED BY <2>1, <2>2, <3>1, <3>2 DEF Expands
  <2>4. CASE KeepOld(t)
    <3> DEFINE at == link[f][active[f]]
    <3>1. oldP' = [oldP EXCEPT ![at] = @ \cup {ns[t]}] /\ UNCHANGED samevalue
      BY <2>4 DEF KeepOld
    <3> HIDE DEF at
    <3>2. \A i \in DOMAIN oldP : oldP'[i] \subseteq oldP[i] \cup {ns[t]}
      BY <1>0, <3>1
    <3> QED BY <2>1, <2>2, <3>1, <3>2 DEF Expands
  <2> QED BY <1>6, <2>3, <2>4
<1>7. ASSUME NextEntry(t)
      PROVE  entry'[t] = entry[t] - 1 /\ pc'[t] = IF entry[t] = 1 THEN "loop" ELSE "lookOld"
  BY <1>0, <1>7 DEF NextEntry
<1>8. CASE LookOld(t) \/ LookNew(t) \/ LookSame(t) \/ LookStore(t)
  <2>1. /\ pc[t] \in {"lookOld", "lookNew", "lookSame", "lookStore"}
        /\ UNCHANGED <<newP, oldP, store, samevalue, fresh, ns>>
        /\ \/ /\ NextEntry(t)
              /\ \/ Reached(t) \in oldP[Listed(t)] \/ Reached(t) \in newP[Listed(t)]
                 \/ Reached(t) \in samevalue[f] \/ Reached(t) \in store[f][Slot(t)]
           \/ /\ entry' = entry
              /\ pc'[t] \in {"lookNew", "lookSame", "lookStore", "insert", "insertNew"}
              /\ pc'[t] \in {"lookStore", "insertNew"} => Offset(t) < 0 \/ pc[t] = "lookStore"
    BY <1>0, <1>8 DEF LookOld, LookNew, LookSame, LookStore, Look
  <2>2. pc[t] \in Firing
    BY <1>k, <2>1
  <2>3. CASE NextEntry(t) /\ \/ Reached(t) \in oldP[Listed(t)] \/ Reached(t) \in newP[Listed(t)]
                             \/ Reached(t) \in samevalue[f] \/ Reached(t) \in store[f][Slot(t)]
    <3>1. /\ entry'[t] = entry[t] - 1 /\ pc'[t] = IF entry[t] = 1 THEN "loop" ELSE "lookOld"
      BY <1>7, <2>3
    <3>2. /\ Listed(t) \in DOMAIN newP /\ Slot(t) \in 0 .. Size - 1
      BY <1>f, <2>2
    <3> QED BY <2>1, <2>2, <2>3, <3>1, <3>2 DEF Finds, Goes
  <2>4. CASE /\ entry' = entry
             /\ pc'[t] \in {"lookNew", "lookSame", "lookStore", "insert", "insertNew"}
             /\ pc'[t] \in {"lookStore", "insertNew"} => Offset(t) < 0 \/ pc[t] = "lookStore"
    <3>1. pc'[t] \in Firing
      BY <1>k, <2>4
    <3>2. pc'[t] \in {"lookStore", "insertNew"} => Offset(t) < 0 \/ pc[t] \in {"lookStore", "insertNew"}
      BY <2>4
    <3> QED BY <2>1, <2>2, <2>4, <3>1, <3>2 DEF Misses
  <2> QED BY <2>1, <2>3, <2>4
<1>9. CASE Insert(t)
  <2>1. /\ pc[t] = "insert" /\ UNCHANGED <<newP, oldP, samevalue, fresh, ns>> /\ NextEntry(t)
        /\ store' = [store EXCEPT ![f][Slot(t)] = store[f][Slot(t)] \cup {Reached(t)}]
    BY <1>9 DEF Insert
  <2>2. pc[t] \in Firing /\ Offset(t) >= 0
    BY <1>1, <1>k, <2>1 DEF WorkPlaced
  <2>3. /\ Offset(t) \in Offsets /\ Slot(t) = SlotAt(f, Offset(t)) /\ Slot(t) \in 0 .. Size - 1
    BY <1>f, <2>2
  <2>4. Offset(t) \in 0 .. FrontOffset
    BY <2>2, <2>3, Bounds DEF Offsets
  <2>5. \A g \in Front, s \in 0 .. Size - 1 :
           store'[g][s] = IF g = f /\ s = Slot(t) THEN store[f][Slot(t)] \cup {Reached(t)}
                          ELSE store[g][s]
    <3>0. PICK M : M = store[f][Slot(t)] \cup {Reached(t)}
      OBVIOUS
    <3>1. PICK e \in Front, i \in 0 .. Size - 1 :
             e = f /\ i = Slot(t) /\ M = store[f][Slot(t)] \cup {Reached(t)}
      BY <1>0, <2>3, <3>0
    <3>2. store' = Replaced(e, i, M)
      BY <2>1, <3>1 DEF Replaced
    <3>3. OneSlot(e, i, M)
      BY <3>1, <3>2, SlotAlone
    <3> QED BY <3>1, <3>3 DEF OneSlot
  <2>6. Goes(t)
    BY <1>7, <2>1, <2>2 DEF Goes
  <2>7. ASSUME NEW g \in Front, NEW s \in 0 .. Size - 1
        PROVE  store'[g][s] = IF g = f /\ s = SlotAt(g, Offset(t))
                              THEN store[g][s] \cup {Reached(t)} ELSE store[g][s]
    <3>1. CASE g = f /\ s = SlotAt(g, Offset(t))
      <4>1. s = Slot(t)
        BY <2>3, <3>1
      <4> QED BY <2>5, <3>1, <4>1
    <3>2. CASE ~ (g = f /\ s = SlotAt(g, Offset(t)))
      <4>1. ~ (g = f /\ s = Slot(t))
        BY <2>3, <3>2
      <4> QED BY <2>5, <3>2, <4>1
    <3> QED BY <3>1, <3>2
  <2> QED BY <2>1, <2>4, <2>6, <2>7 DEF Puts
<1>10. CASE InsertNew(t)
  <2>1. /\ pc[t] = "insertNew" /\ UNCHANGED <<oldP, store, samevalue, ns>> /\ NextEntry(t)
        /\ newP' = [newP EXCEPT ![Listed(t)] = @ \cup {Reached(t)}]
        /\ fresh' = [fresh EXCEPT ![f] = @ /\ Reached(t) \in newP[Listed(t)]]
    BY <1>10 DEF InsertNew
  <2>2. pc[t] \in Firing
    BY <1>k, <2>1
  <2>3. Goes(t)
    BY <1>7, <2>1, <2>2 DEF Goes
  <2>4. Listed(t) \in DOMAIN newP /\ Listed(t) = Pos(f) + Offset(t)
    BY <1>f, <2>2
  <2>5. \A i \in DOMAIN newP : newP'[i] = IF i = Listed(t) THEN newP[i] \cup {Reached(t)} ELSE newP[i]
    <3> DEFINE j == Listed(t)
               x == Reached(t)
    <3>1. j \in DOMAIN newP /\ newP' = [newP EXCEPT ![j] = @ \cup {x}]
      BY <2>1, <2>4
    <3> HIDE DEF j, x
    <3>2. \A i \in DOMAIN newP : newP'[i] = IF i = j THEN newP[i] \cup {x} ELSE newP[i]
      BY <1>0, <3>1
    <3> QED BY <3>2 DEF j, x
  <2>6. \A g \in Front : fresh'[g] <=> fresh[g] /\ (g = f => Reached(t) \in newP[Listed(t)])
    <3>1. PICK b \in BOOLEAN : b <=> Reached(t) \in newP[Listed(t)]
      OBVIOUS
    <3>2. fresh' = [fresh EXCEPT ![f] = fresh[f] /\ Reached(t) \in newP[Listed(t)]]
      BY <2>1
    <3> QED BY Zenon, <1>0, <3>2
  <2> QED BY <2>1, <2>3, <2>4, <2>5, <2>6 DEF PutsBehind
<1> QED
  BY <1>3, <1>4, <1>5, <1>6, <1>8, <1>9, <1>10 DEF CheckStates

(* The lists get empty buckets only, and the rings no new markings.        *)
Grown ==
  /\ DOMAIN newP \subseteq DOMAIN newP'
  /\ \A i \in DOMAIN newP : newP'[i] = newP[i] /\ oldP'[i] = oldP[i]
  /\ \A i \in DOMAIN newP' : i \notin DOMAIN newP => newP'[i] = {} /\ oldP'[i] = {}

Stored ==
  \A g \in Front : /\ samevalue'[g] \subseteq samevalue[g]
                   /\ \A s \in 0 .. Size - 1 : store'[g][s] \subseteq store[g][s] \cup samevalue[g]

LEMMA GrownLeft ==
  ASSUME TypeOK, NEW f \in Front, Extend(f) \/ Finish(f)
  PROVE  /\ Grown /\ first' \in Int /\ first' <= first
         /\ DOMAIN newP' = DOMAIN newP \cup (first' .. first - 1)
         /\ back' \in [Front -> 0 .. BackOffset]
         /\ UNCHANGED <<ringVars, frontrunner, sem, countdown, idleVars, workVars, endVars>>
<1>0. first \in Int /\ DOMAIN newP = DOMAIN oldP /\ DataType
  BY DEF TypeOK, DataType
<1>1. /\ \/ UNCHANGED listVars
         \/ \E n \in Nat : ExtendLeft(n)
      /\ back' \in [Front -> 0 .. BackOffset]
      /\ UNCHANGED <<ringVars, frontrunner, sem, countdown, idleVars, workVars, endVars>>
  BY LeftExtended
<1>2. CASE UNCHANGED listVars
  <2>1. first' = first /\ newP' = newP /\ oldP' = oldP
    BY <1>2 DEF listVars
  <2>2. first .. first - 1 = {}
    BY <1>0
  <2> QED BY <1>0, <1>1, <2>1, <2>2 DEF Grown
<1>3. CASE \E n \in Nat : ExtendLeft(n)
  <2>1. PICK n \in Nat : ExtendLeft(n)
    BY <1>3
  <2>2. /\ first' = first - n
        /\ newP' = Extended(newP, first' .. first - 1) /\ oldP' = Extended(oldP, first' .. first - 1)
    BY <2>1 DEF ExtendLeft
  <2>3. first' \in Int /\ first' <= first /\ first' .. first - 1 \in SUBSET Int
    BY <1>0, <2>2
  <2>4. /\ DOMAIN newP' = DOMAIN newP \cup (first' .. first - 1)
        /\ \A i \in DOMAIN newP : newP'[i] = newP[i] /\ oldP'[i] = oldP[i]
        /\ \A i \in DOMAIN newP' : i \notin DOMAIN newP => newP'[i] = {} /\ oldP'[i] = {}
    BY <1>0, <2>2, <2>3, ListsExtended
  <2> QED BY <1>1, <2>3, <2>4 DEF Grown
<1> QED BY <1>1, <1>2, <1>3

LEMMA GrownAhead ==
  ASSUME TypeOK, RingsKnown, NEW f \in Front, Advance(f)
  PROVE  /\ link[f] # <<>> /\ Grown /\ Ahead(f) \in Int
         /\ DOMAIN newP' = DOMAIN newP \cup {Ahead(f)}
<1>0. DOMAIN newP = DOMAIN oldP /\ DataType
  BY DEF TypeOK, DataType
<1>1. link[f] # <<>>
  BY DEF Advance, AdvanceKeeping, RingsKnown, Live, Sweeping
<1>2. newP' = Extended(newP, {Ahead(f)}) /\ oldP' = Extended(oldP, {Ahead(f)}) /\ Ahead(f) \in Int
  BY <1>1, AdvanceFacts
<1>3. {Ahead(f)} \in SUBSET Int
  BY <1>2
<1>4. /\ DOMAIN newP' = DOMAIN newP \cup {Ahead(f)}
      /\ \A i \in DOMAIN newP : newP'[i] = newP[i] /\ oldP'[i] = oldP[i]
      /\ \A i \in DOMAIN newP' : i \notin DOMAIN newP => newP'[i] = {} /\ oldP'[i] = {}
  BY <1>0, <1>2, <1>3, ListsExtended
<1> QED BY <1>1, <1>2, <1>4 DEF Grown

(* The rings when a front advances.                                        *)
LEMMA AdvanceStore ==
  ASSUME TypeOK, RingsKnown, NEW f \in Front, Advance(f)
  PROVE  /\ \A g \in Front : g # f => store'[g] = store[g] /\ samevalue'[g] = samevalue[g]
         /\ samevalue'[f] = {}
         /\ \A s \in 0 .. Size - 1 :
               store'[f][s] = IF Delay = 0 THEN store[f][s]
                              ELSE IF s = active[f] THEN samevalue[f]
                              ELSE IF s = SlotAt(f, -Delay) THEN {} ELSE store[f][s]
<1>0. /\ store \in [Front -> [0 .. Size - 1 -> SUBSET Marking]]
      /\ samevalue \in [Front -> SUBSET Marking] /\ active[f] \in 0 .. Size - 1
  BY DEF TypeOK, DataType
<1>1. link[f] # <<>>
  BY GrownAhead
<1>2. /\ store' = IF Delay > 0
                  THEN [store EXCEPT ![f] = [@ EXCEPT ![SlotAt(f, -Delay)] = {},
                                                      ![active[f]] = samevalue[f]]]
                  ELSE store
      /\ samevalue' = [samevalue EXCEPT ![f] = {}]
  BY <1>1, AdvanceFacts
<1>3. Delay \in Nat
  BY Bounds
<1>4. /\ \A g \in Front : g # f => store'[g] = store[g] /\ samevalue'[g] = samevalue[g]
      /\ samevalue'[f] = {}
  BY <1>0, <1>2
<1>5. CASE Delay = 0
  BY <1>2, <1>4, <1>5
<1>6. CASE Delay # 0
  <2>1. PICK j, M : j = SlotAt(f, -Delay) /\ M = samevalue[f]
    OBVIOUS
  <2>2. store'[f] = [store[f] EXCEPT ![j] = {}, ![active[f]] = M]
    BY <1>0, <1>2, <1>3, <1>6, <2>1
  <2>3. PICK A : A = active[f] /\ A \in 0 .. Size - 1
    BY <1>0
  <2>4. PICK R : R = store[f] /\ R \in [0 .. Size - 1 -> SUBSET Marking]
    BY <1>0
  <2>5. store'[f] = [R EXCEPT ![j] = {}, ![A] = M]
    BY <2>2, <2>3, <2>4
  <2>6. \A s \in 0 .. Size - 1 :
           store'[f][s] = IF s = A THEN M ELSE IF s = j THEN {} ELSE R[s]
    BY <2>3, <2>4, <2>5
  <2> QED BY <1>4, <1>6, <2>1, <2>3, <2>4, <2>6
<1> QED BY <1>5, <1>6

(* What a front leaves alone when it moves.                                *)
LEMMA MovingFacts ==
  ASSUME TypeOK, RingsKnown, NEW f \in Front, f \in Thread, Moving(f)
  PROVE  /\ Grown /\ Stored
         /\ UNCHANGED <<workVars, frontptr, verdict>>
         /\ pc[f] \in {"link", "extend", "advance", "deinit"}
         /\ pc'[f] \in {"run", "mayAdvance", "advance", "deinit", "post", "handOver", "again"}
         /\ \A g \in Front : g # f => /\ store'[g] = store[g] /\ back'[g] = back[g]
                                      /\ link'[g] = link[g] /\ active'[g] = active[g]
                                      /\ Pos(g)' = Pos(g) /\ (fresh'[g] <=> fresh[g])
                                      /\ \A d : SlotAt(g, d)' = SlotAt(g, d)
         /\ exit' # exit => Deinit(f)
<1>0. /\ pc \in [Thread -> FrontLabel \cup HelperLabel]
      /\ store \in [Front -> [0 .. Size - 1 -> SUBSET Marking]]
      /\ samevalue \in [Front -> SUBSET Marking] /\ back \in [Front -> 0 .. BackOffset]
      /\ active \in [Front -> 0 .. Size - 1] /\ fresh \in [Front -> BOOLEAN]
      /\ link \in [Front -> [0 .. Size - 1 -> Int] \cup {<<>>}]
      /\ DOMAIN newP = DOMAIN oldP
  BY DEF TypeOK, ControlType, DataType
<1>1. UNCHANGED <<workVars, frontptr, verdict>>
  BY PlainFacts DEF Plain, Moving, idleVars
<1>p. ASSUME NEW g, link'[g] = link[g], active'[g] = active[g]
      PROVE  Pos(g)' = Pos(g) /\ \A d : SlotAt(g, d)' = SlotAt(g, d)
  BY <1>p DEF Pos, SlotAt
<1>2. CASE Link(f) /\ ~exit
  <2>1. /\ pc[f] = "link" /\ pc'[f] = "run"
        /\ UNCHANGED <<newP, oldP, store, samevalue, exit>>
        /\ \A g \in Front : g # f => /\ back'[g] = back[g] /\ link'[g] = link[g]
                                     /\ active'[g] = active[g] /\ fresh'[g] = fresh[g]
    BY <1>0, <1>2 DEF Link, LinkFor, Goto, listVars, endVars
  <2>2. Grown /\ Stored
    BY <2>1 DEF Grown, Stored
  <2> QED BY <1>1, <1>p, <2>1, <2>2
<1>3. CASE Extend(f) \/ Finish(f)
  <2>1. Grown /\ UNCHANGED <<store, samevalue, link, active, fresh, exit>>
    BY <1>3, GrownLeft DEF ringVars, endVars
  <2>2. Stored
    BY <2>1 DEF Stored
  <2>3. /\ pc[f] \in {"extend", "advance"} /\ pc'[f] \in {"mayAdvance", "advance", "deinit"}
        /\ \A g \in Front : g # f => back'[g] = back[g]
    BY <1>0, <1>3 DEF Extend, Finish, Goto
  <2> QED BY <1>1, <1>p, <2>1, <2>2, <2>3
<1>4. CASE Advance(f)
  <2>1. link[f] # <<>> /\ Grown
    BY <1>4, GrownAhead
  <2>2. /\ link' = [link EXCEPT ![f] = [@ EXCEPT ![SlotAt(f, -BackOffset)] = Ahead(f)]]
        /\ active' = [active EXCEPT ![f] = After(@, 1)]
        /\ UNCHANGED <<fresh, back, exit>>
    BY <1>4, <2>1, AdvanceFacts DEF endVars
  <2>3. \A g \in Front : g # f => link'[g] = link[g] /\ active'[g] = active[g]
    BY <1>0, <2>2
  <2>4. /\ \A g \in Front : g # f => store'[g] = store[g] /\ samevalue'[g] = samevalue[g]
        /\ samevalue'[f] = {}
        /\ \A s \in 0 .. Size - 1 :
              store'[f][s] = IF Delay = 0 THEN store[f][s]
                             ELSE IF s = active[f] THEN samevalue[f]
                             ELSE IF s = SlotAt(f, -Delay) THEN {} ELSE store[f][s]
    BY <1>4, AdvanceStore
  <2>5. Stored
    <3>1. \A s \in 0 .. Size - 1 : store'[f][s] \subseteq store[f][s] \cup samevalue[f]
      BY <2>4
    <3> QED BY <2>4, <3>1 DEF Stored
  <2>6. pc[f] = "advance" /\ pc'[f] \in {"post", "run"}
    BY <1>0, <1>4 DEF Advance, AdvanceKeeping, Goto
  <2> QED BY <1>1, <1>p, <2>1, <2>2, <2>3, <2>4, <2>5, <2>6
<1>5. CASE Deinit(f)
  <2>1. /\ pc[f] = "deinit" /\ pc'[f] \in {"handOver", "again"}
        /\ store' = [store EXCEPT ![f] = EmptyRing] /\ samevalue' = [samevalue EXCEPT ![f] = {}]
        /\ UNCHANGED <<newP, oldP, link, active, fresh, back>>
    BY <1>0, <1>5 DEF Deinit, Goto, listVars
  <2>2. \A g \in Front : /\ store'[g] = IF g = f THEN EmptyRing ELSE store[g]
                         /\ samevalue'[g] = IF g = f THEN {} ELSE samevalue[g]
    BY <1>0, <2>1
  <2>3. \A s \in 0 .. Size - 1 : EmptyRing[s] = {}
    BY DEF EmptyRing
  <2>4. Grown /\ Stored
    BY <2>1, <2>2, <2>3 DEF Grown, Stored
  <2> QED BY <1>1, <1>5, <1>p, <2>1, <2>2, <2>4
<1> QED BY <1>2, <1>3, <1>4, <1>5 DEF Moving

(* What can be reached.                                                    *)
LEMMA ReachedFacts ==
  ASSUME TypeOK, RingsKnown, MarkingsKnown, NEW t \in Thread, NEW R, R = Reachable[Initial],
         ns[t] \in R, pc[t] \in Firing
  PROVE  Reached(t) \in R /\ Initial \in R /\ R \subseteq Marking
<1>1. setup \in Setups /\ entry[t] \in 1 .. Len(Firelist[ns[t]]) /\ ns[t] \in Marking
  BY DEF TypeOK, ControlType, DataType
<1>2. entry[t] \in DOMAIN Firelist[ns[t]]
  BY <1>1, SweepAssumption
<1>3. Initial \in R /\ R \subseteq Marking /\ Closed(R)
  BY <1>1, ReachableAssumption DEF Initial
<1> QED BY <1>2, <1>3 DEF Closed, Reached

LEMMA FoundOnly ==
  ASSUME TypeOK, NEW t \in Thread, CheckStates(t)
  PROVE  (found'[t] <=> found[t]) \/ pc[t] = "solved"
<1>1. CASE Solved(t)
  BY <1>1 DEF Solved
<1>2. CASE ~Solved(t)
  <2>1. found' = found
    BY <1>2 DEF CheckStates, Loop, Pop, PopNew, Keep, KeepOld, LookOld, LookNew, LookSame,
            LookStore, Look, Insert, InsertNew, workVars
  <2> QED BY <2>1
<1> QED BY <1>1, <1>2

LEMMA ReachableStep ==
  ASSUME SweepKnown, AllReachable, NEW t \in Thread, Step(t)
  PROVE  AllReachable'
<1>0. /\ TypeOK /\ RingsKnown /\ EndsKnown /\ MarkingsKnown /\ setup \in Setups
      /\ setup' = setup /\ prop' = prop
      /\ DOMAIN newP = DOMAIN oldP
      /\ newP \in [DOMAIN newP -> SUBSET Marking] /\ oldP \in [DOMAIN oldP -> SUBSET Marking]
      /\ ns \in [Thread -> Marking]
      /\ frontptr[t] \in Front
  BY DEF SweepKnown, ControlKnown, TypeOK, ControlType, DataType, Step
<1>1. Thread' = Thread /\ Front' = Front /\ Initial' = Initial
  BY <1>0, SameThreads
<1>2. PICK R : R = Reachable[Initial]
  OBVIOUS
<1>3. R' = R /\ R = Reachable[Initial']
  BY <1>1, <1>2
<1>4. /\ \A i \in DOMAIN newP : newP[i] \subseteq R /\ oldP[i] \subseteq R
      /\ \A f \in Front : /\ samevalue[f] \subseteq R
                          /\ \A s \in 0 .. Size - 1 : store[f][s] \subseteq R
      /\ \A u \in Thread : ns[u] \in R /\ (pc[u] = "solved" => ns[u] \in prop)
      /\ \A u \in Thread : found[u] => R \cap prop # {}
  <2>1. \A i \in DOMAIN newP : newP[i] \cup oldP[i] \subseteq R
    BY <1>2 DEF AllReachable
  <2>2. /\ \A f \in Front : /\ samevalue[f] \subseteq R
                            /\ \A s \in 0 .. Size - 1 : store[f][s] \subseteq R
        /\ \A u \in Thread : ns[u] \in R /\ (pc[u] = "solved" => ns[u] \in prop)
        /\ \A u \in Thread : found[u] => R \cap prop # {}
    BY <1>2 DEF AllReachable
  <2> QED BY <2>1, <2>2
<1>5. \A u \in Thread : u # t => /\ ns'[u] = ns[u] /\ (pc'[u] = "solved" => pc[u] = "solved")
                                 /\ (found'[u] <=> found[u])
  <2> SUFFICES ASSUME NEW u \in Thread, u # t
               PROVE  /\ ns'[u] = ns[u] /\ (pc'[u] = "solved" => pc[u] = "solved")
                      /\ (found'[u] <=> found[u])
    OBVIOUS
  <2>1. /\ \A L : L \cap Asleep = {} => (pc'[u] \in L <=> pc[u] \in L)
        /\ ns'[u] = ns[u] /\ (found'[u] <=> found[u])
    BY <1>0, OthersStay
  <2>2. pc'[u] \in {"solved"} <=> pc[u] \in {"solved"}
    BY <2>1, AwakeLabels
  <2> QED BY <2>1, <2>2
<1>6. ASSUME \A i \in DOMAIN newP' : newP'[i] \subseteq R /\ oldP'[i] \subseteq R,
             \A f \in Front : /\ samevalue'[f] \subseteq R
                              /\ \A s \in 0 .. Size - 1 : store'[f][s] \subseteq R,
             ns'[t] \in R, pc'[t] = "solved" => ns'[t] \in prop,
             found'[t] => found[t] \/ (pc[t] = "solved" /\ t \in Thread)
      PROVE  AllReachable'
  <2>1. \A u \in Thread : ns'[u] \in R /\ (pc'[u] = "solved" => ns'[u] \in prop)
    BY <1>4, <1>5, <1>6
  <2>2. \A u \in Thread : found'[u] => R \cap prop # {}
    BY <1>4, <1>5, <1>6
  <2>3. \A i \in DOMAIN newP' : newP'[i] \cup oldP'[i] \subseteq R
    BY <1>6
  <2> QED BY <1>0, <1>1, <1>3, <1>6, <2>1, <2>2, <2>3 DEF AllReachable
<1>7. CASE CheckStates(t)
  <2>0. DOMAIN newP' = DOMAIN newP /\ DOMAIN oldP' = DOMAIN oldP
    BY <1>0, <1>7, CheckLists
  <2>1. found'[t] => found[t] \/ (pc[t] = "solved" /\ t \in Thread)
    BY <1>0, <1>7, FoundOnly
  <2>2. CASE Rests(t) \/ Misses(t)
    <3>1. UNCHANGED <<newP, oldP, store, samevalue, ns>> /\ pc'[t] # "solved"
      BY <2>2 DEF Rests, Misses, Past, Firing, Checking
    <3> QED BY <1>4, <1>6, <2>1, <3>1
  <2>3. CASE TakesOut(t)
    <3>1. /\ UNCHANGED <<newP, oldP, samevalue>> /\ pc'[t] # "solved"
          /\ ns'[t] \in store[frontptr[t]][active[frontptr[t]]]
          /\ \A g \in Front, s \in 0 .. Size - 1 : store'[g][s] \subseteq store[g][s]
          /\ active[frontptr[t]] \in 0 .. Size - 1
      BY <1>0, <2>3 DEF TakesOut, TypeOK, DataType
    <3> QED BY <1>0, <1>4, <1>6, <2>1, <3>1
  <2>4. CASE TakesNew(t)
    <3>1. /\ UNCHANGED <<oldP, samevalue, store>> /\ pc'[t] # "solved"
          /\ link[frontptr[t]] # <<>> /\ ns'[t] \in newP[Pos(frontptr[t])]
          /\ \A i \in DOMAIN newP : newP'[i] \subseteq newP[i]
      BY <2>4 DEF TakesNew
    <3>2. Pos(frontptr[t]) \in DOMAIN newP
      BY <1>0, <3>1, PlaceListed
    <3> QED BY <1>0, <1>4, <1>6, <2>0, <2>1, <3>1, <3>2
  <2>5. CASE Expands(t)
    <3>1. /\ UNCHANGED <<newP, store, ns>> /\ (pc'[t] = "solved" => ns[t] \in prop)
          /\ \A g \in Front : samevalue'[g] \subseteq samevalue[g] \cup {ns[t]}
          /\ \A i \in DOMAIN oldP : oldP'[i] \subseteq oldP[i] \cup {ns[t]}
      BY <2>5 DEF Expands
    <3> QED BY <1>0, <1>4, <1>6, <2>0, <2>1, <3>1
  <2>6. ASSUME Goes(t) PROVE /\ UNCHANGED <<oldP, samevalue, ns>> /\ pc'[t] # "solved"
                             /\ Reached(t) \in R
    <3>1. UNCHANGED <<oldP, samevalue, ns>> /\ pc'[t] # "solved" /\ pc[t] \in Firing
      BY <2>6 DEF Goes
    <3> QED BY <1>0, <1>2, <1>4, <3>1, ReachedFacts
  <2>7. CASE Finds(t)
    <3>1. Goes(t) /\ UNCHANGED <<newP, store>>
      BY <2>7 DEF Finds
    <3> QED BY <1>4, <1>6, <2>1, <2>6, <3>1
  <2>8. CASE Puts(t)
    <3>1. /\ Goes(t) /\ UNCHANGED newP
          /\ \A g \in Front, s \in 0 .. Size - 1 : store'[g][s] \subseteq store[g][s] \cup {Reached(t)}
      BY <2>8 DEF Puts
    <3> QED BY <1>4, <1>6, <2>1, <2>6, <3>1
  <2>9. CASE PutsBehind(t)
    <3>1. /\ Goes(t) /\ UNCHANGED store
          /\ \A i \in DOMAIN newP : newP'[i] \subseteq newP[i] \cup {Reached(t)}
      BY <2>9 DEF PutsBehind
    <3> QED BY <1>0, <1>4, <1>6, <2>0, <2>1, <2>6, <3>1
  <2> QED BY <1>0, <1>7, <2>2, <2>3, <2>4, <2>5, <2>7, <2>8, <2>9, CheckEffects
<1>8. CASE t \in Front /\ Moving(t)
  <2>1. /\ Grown /\ Stored /\ UNCHANGED workVars /\ pc'[t] # "solved"
    BY <1>0, <1>8, MovingFacts
  <2>2. \A i \in DOMAIN newP' : newP'[i] \subseteq R /\ oldP'[i] \subseteq R
    BY <1>4, <2>1 DEF Grown
  <2>3. \A f \in Front : /\ samevalue'[f] \subseteq R
                         /\ \A s \in 0 .. Size - 1 : store'[f][s] \subseteq R
    BY <1>4, <2>1 DEF Stored
  <2> QED BY <1>4, <1>6, <2>1, <2>2, <2>3 DEF workVars
<1>9. CASE Calmly(t)
  <2>1. UNCHANGED <<newP, oldP, store, samevalue, ns, found>> /\ pc'[t] # "solved"
    BY <1>9 DEF Calmly, listVars, ringVars, workVars, Checking
  <2> QED BY <1>4, <1>6, <2>1
<1> QED BY <1>0, <1>7, <1>8, <1>9, Sorts

(* The parts of the lists.                                                 *)
LEMMA WholeStep ==
  ASSUME SweepKnown, ListsWhole, NEW t \in Thread, Step(t)
  PROVE  ListsWhole'
<1>0. /\ TypeOK /\ RingsKnown /\ EndsKnown /\ MarkingsKnown /\ setup \in Setups
      /\ setup' = setup
      /\ DOMAIN newP = DOMAIN oldP /\ DOMAIN newP \subseteq Int /\ first \in Int
      /\ frontptr[t] \in Front
      /\ FrontOffset \in Nat /\ BackOffset \in Nat
  BY Bounds DEF SweepKnown, ControlKnown, TypeOK, ControlType, DataType, Step
<1>1. Thread' = Thread
  BY <1>0, SameThreads
<1>2. /\ \A i \in DOMAIN newP : first .. i \subseteq DOMAIN newP /\ first <= i
      /\ \A i \in DOMAIN newP : newP[i] # {} => i + FrontOffset + 1 \in DOMAIN newP
      /\ \A u \in Thread : pc[u] \in {"lookStore", "insertNew"} => Offset(u) < 0
  BY DEF ListsWhole
<1>3. \A u \in Thread : u # t => /\ Offset(u)' = Offset(u)
                                 /\ pc'[u] \in {"lookStore", "insertNew"} =>
                                      pc[u] \in {"lookStore", "insertNew"}
  <2> SUFFICES ASSUME NEW u \in Thread, u # t
               PROVE  /\ Offset(u)' = Offset(u)
                      /\ pc'[u] \in {"lookStore", "insertNew"} =>
                           pc[u] \in {"lookStore", "insertNew"}
    OBVIOUS
  <2>1. /\ \A L : L \cap Asleep = {} => (pc'[u] \in L <=> pc[u] \in L)
        /\ ns'[u] = ns[u] /\ entry'[u] = entry[u]
    BY <1>0, OthersStay
  <2>2. pc'[u] \in {"lookStore", "insertNew"} <=> pc[u] \in {"lookStore", "insertNew"}
    BY <2>1, AwakeLabels
  <2> QED BY <2>1, <2>2 DEF Offset
<1>4. ASSUME \A i \in DOMAIN newP' : first' .. i \subseteq DOMAIN newP' /\ first' <= i,
             \A i \in DOMAIN newP' : newP'[i] # {} => i + FrontOffset + 1 \in DOMAIN newP',
             pc'[t] \in {"lookStore", "insertNew"} => Offset(t)' < 0
      PROVE  ListsWhole'
  <2>1. \A u \in Thread : pc'[u] \in {"lookStore", "insertNew"} => Offset(u)' < 0
    BY <1>2, <1>3, <1>4
  <2> QED BY <1>1, <1>4, <2>1 DEF ListsWhole
<1>5. CASE CheckStates(t)
  <2>0. DOMAIN newP' = DOMAIN newP /\ first' = first
    BY <1>0, <1>5, CheckLists
  <2>1. ASSUME \A i \in DOMAIN newP : newP'[i] # {} => newP[i] # {} \/ i + FrontOffset + 1 \in DOMAIN newP,
               pc'[t] \in {"lookStore", "insertNew"} => Offset(t)' < 0
        PROVE  ListsWhole'
    BY <1>2, <1>4, <2>0, <2>1
  <2>2. CASE Rests(t) \/ TakesOut(t) \/ Expands(t) \/ Finds(t) \/ Puts(t)
    <3>1. newP' = newP /\ pc'[t] \notin {"lookStore", "insertNew"}
      BY <2>2 DEF Rests, TakesOut, Expands, Finds, Puts, Goes, Past, Firing, Checking
    <3> QED BY <2>1, <3>1
  <2>3. CASE TakesNew(t)
    <3>1. /\ pc'[t] \notin {"lookStore", "insertNew"}
          /\ \A i \in DOMAIN newP : newP'[i] \subseteq newP[i]
      BY <2>3 DEF TakesNew
    <3> QED BY <2>1, <3>1
  <2>4. CASE Misses(t)
    <3>1. /\ UNCHANGED <<newP, ns, entry>>
          /\ pc'[t] \in {"lookStore", "insertNew"} => Offset(t) < 0 \/ pc[t] \in {"lookStore", "insertNew"}
      BY <2>4 DEF Misses
    <3>2. Offset(t)' = Offset(t)
      BY <3>1 DEF Offset
    <3> QED BY <1>2, <2>1, <3>1, <3>2
  <2>5. CASE PutsBehind(t)
    <3>1. /\ pc'[t] \notin {"lookStore", "insertNew"} /\ pc[t] \in Firing
          /\ pc[t] = "insertNew"
          /\ \A i \in DOMAIN newP : i # Pos(frontptr[t]) + Offset(t) => newP'[i] = newP[i]
      BY <2>5 DEF PutsBehind, Goes
    <3>2. /\ link[frontptr[t]] # <<>> /\ Offset(t) \in Offsets /\ Offset(t) < 0
      BY <1>0, <1>2, <3>1, Fired DEF MarkingsKnown
    <3>3. /\ Pos(frontptr[t]) - BackOffset >= first
          /\ first .. Pos(frontptr[t]) + FrontOffset \subseteq DOMAIN newP
      BY <1>0, <3>2 DEF RingsKnown, RingKnown
    <3>4. Pos(frontptr[t]) \in Int
      BY <1>0, <3>2, PlaceListed
    <3>5. Pos(frontptr[t]) + Offset(t) + FrontOffset + 1 \in first .. Pos(frontptr[t]) + FrontOffset
      BY <1>0, <3>2, <3>3, <3>4 DEF Offsets
    <3> QED BY <2>1, <3>1, <3>3, <3>5
  <2> QED BY <1>0, <1>5, <2>2, <2>3, <2>4, <2>5, CheckEffects
<1>6. CASE t \in Front /\ Moving(t)
  <2>1. /\ Grown /\ UNCHANGED workVars /\ pc'[t] \notin {"lookStore", "insertNew"}
    BY <1>0, <1>6, MovingFacts
  <2>2. ASSUME NEW i \in DOMAIN newP', newP'[i] # {} PROVE i + FrontOffset + 1 \in DOMAIN newP'
    BY <1>2, <2>1, <2>2 DEF Grown
  <2>3. CASE Link(t) \/ Deinit(t)
    <3>1. newP' = newP /\ first' = first
      BY <2>3 DEF Link, LinkFor, Deinit, listVars
    <3> QED BY <1>2, <1>4, <2>1, <3>1
  <2>4. CASE Extend(t) \/ Finish(t)
    <3>1. /\ first' \in Int /\ first' <= first
          /\ DOMAIN newP' = DOMAIN newP \cup (first' .. first - 1)
      BY <1>0, <1>6, <2>4, GrownLeft
    <3>2. ASSUME NEW i \in DOMAIN newP' PROVE first' .. i \subseteq DOMAIN newP' /\ first' <= i
      <4>1. CASE i \in DOMAIN newP
        <5>1. first .. i \subseteq DOMAIN newP /\ first <= i /\ i \in Int
          BY <1>0, <1>2, <4>1
        <5>2. first' .. i \subseteq (first' .. first - 1) \cup (first .. i)
          BY <1>0, <3>1, <5>1
        <5> QED BY <1>0, <3>1, <5>1, <5>2
      <4>2. CASE i \in first' .. first - 1
        BY <1>0, <3>1, <4>2
      <4> QED BY <3>1, <3>2, <4>1, <4>2
    <3> QED BY <1>4, <2>1, <2>2, <3>2
  <2>5. CASE Advance(t)
    <3>1. /\ link[t] # <<>> /\ Ahead(t) \in Int /\ DOMAIN newP' = DOMAIN newP \cup {Ahead(t)}
      BY <1>0, <1>6, <2>5, GrownAhead
    <3>2. first' = first
      BY <1>0, <1>6, <2>5, <3>1, AdvanceFacts
    <3>3. /\ Pos(t) - BackOffset >= first
          /\ first .. Pos(t) + FrontOffset \subseteq DOMAIN newP /\ Pos(t) \in Int
      BY <1>0, <1>6, <3>1, PlaceListed DEF RingsKnown, RingKnown
    <3>4. first .. Ahead(t) \subseteq DOMAIN newP' /\ first <= Ahead(t)
      <4>1. first .. Ahead(t) \subseteq (first .. Pos(t) + FrontOffset) \cup {Ahead(t)}
        BY <1>0, <3>3 DEF Ahead
      <4>2. first <= Ahead(t)
        BY <1>0, <3>3 DEF Ahead
      <4> QED BY <3>1, <3>3, <4>1, <4>2
    <3>5. ASSUME NEW i \in DOMAIN newP' PROVE first' .. i \subseteq DOMAIN newP' /\ first' <= i
      BY <1>2, <3>1, <3>2, <3>4, <3>5
    <3> QED BY <1>4, <2>1, <2>2, <3>5
  <2> QED BY <1>6, <2>3, <2>4, <2>5 DEF Moving
<1>7. CASE Calmly(t)
  <2>1. UNCHANGED <<newP, first>> /\ pc'[t] \notin {"lookStore", "insertNew"}
    BY <1>7 DEF Calmly, listVars, Checking
  <2> QED BY <1>2, <1>4, <2>1
<1> QED BY <1>0, <1>5, <1>6, <1>7, Sorts

(* A front that stays where it is.                                         *)
Steady(g) ==
  /\ pc'[g] \in Sweeping <=> pc[g] \in Sweeping
  /\ pc'[g] \in {"deinit", "handOver"} => pc[g] \in {"deinit", "handOver"}
  /\ Pos(g)' = Pos(g) /\ back'[g] = back[g] /\ Late(g)' = Late(g)

LEMMA SteadyChecks ==
  ASSUME TypeOK, NEW t \in Thread, Step(t), ~exit, CheckStates(t) \/ Calmly(t), NEW g \in Front
  PROVE  Steady(g)
<1>0. /\ g \in Thread /\ link'[g] = link[g] /\ active'[g] = active[g] /\ back'[g] = back[g]
  <2>1. g \in Thread
    BY Threads DEF TypeOK, ControlType
  <2>2. CASE CheckStates(t)
    <3>1. UNCHANGED <<link, active, back>>
      BY <2>2, CheckFacts DEF frontVars
    <3> QED BY <2>1, <3>1
  <2>3. CASE Calmly(t)
    <3>1. UNCHANGED <<link, active, back>>
      BY <2>3 DEF Calmly, ringVars
    <3> QED BY <2>1, <3>1
  <2> QED BY <2>2, <2>3
<1>1. Pos(g)' = Pos(g)
  BY <1>0 DEF Pos
<1>2. CASE g # t
  <2>1. /\ \A L : L \cap Asleep = {} => (pc'[g] \in L <=> pc[g] \in L)
    BY <1>0, <1>2, OthersStay
  <2>2. /\ pc'[g] \in Sweeping <=> pc[g] \in Sweeping
        /\ pc'[g] \in {"deinit", "handOver"} <=> pc[g] \in {"deinit", "handOver"}
        /\ pc'[g] \in {"mayAdvance", "advance"} <=> pc[g] \in {"mayAdvance", "advance"}
    BY <2>1, AwakeLabels
  <2>3. Late(g)' = Late(g)
    BY <2>2 DEF Late
  <2> QED BY <1>0, <1>1, <2>2, <2>3 DEF Steady
<1>3. CASE g = t /\ CheckStates(t)
  <2>1. pc[g] \in Checking /\ pc'[g] \in Checking \cup {"drain", "quit"}
    <3>1. pc[g] \in Checking /\ pc'[g] \in Checking \cup {Checked(g)}
      BY <1>3, CheckFacts
    <3>2. Checked(g) \in {"drain", "quit"}
      BY DEF Checked, Helper
    <3> QED BY <3>1, <3>2
  <2>2. Late(g)' = Late(g)
    BY <2>1 DEF Late, Checking
  <2> QED BY <1>0, <1>1, <2>1, <2>2 DEF Steady, Sweeping, Checking
<1>4. CASE g = t /\ Calmly(t)
  <2>1. /\ pc'[g] \in Sweeping <=> pc[g] \in Sweeping
        /\ pc'[g] \notin {"deinit", "handOver"}
        /\ pc'[g] \in {"mayAdvance", "advance"} <=> pc[g] \in {"mayAdvance", "advance"}
    BY <1>4 DEF Calmly
  <2>2. Late(g)' = Late(g)
    BY <2>1 DEF Late
  <2> QED BY <1>0, <1>1, <2>1, <2>2 DEF Steady
<1> QED BY <1>2, <1>3, <1>4

LEMMA SteadyMoving ==
  ASSUME TypeOK, RingsKnown, NEW f \in Front, f \in Thread, Step(f), Moving(f),
         NEW g \in Front, g # f
  PROVE  Steady(g)
<1>0. g \in Thread
  BY Threads DEF TypeOK, ControlType
<1>1. Pos(g)' = Pos(g) /\ back'[g] = back[g]
  BY MovingFacts
<1>2. \A L : L \cap Asleep = {} => (pc'[g] \in L <=> pc[g] \in L)
  BY <1>0, OthersStay
<1>3. /\ pc'[g] \in Sweeping <=> pc[g] \in Sweeping
      /\ pc'[g] \in {"deinit", "handOver"} <=> pc[g] \in {"deinit", "handOver"}
      /\ pc'[g] \in {"mayAdvance", "advance"} <=> pc[g] \in {"mayAdvance", "advance"}
  BY <1>2, AwakeLabels
<1>4. Late(g)' = Late(g)
  BY <1>3 DEF Late
<1> QED BY <1>1, <1>3, <1>4 DEF Steady

LEMMA PlacesTyped ==
  ASSUME TypeOK, RingsKnown
  PROVE  /\ first \in Int /\ DOMAIN newP \subseteq Int
         /\ FrontOffset \in Nat /\ BackOffset \in Nat /\ Size = FrontOffset + BackOffset + 1
         /\ \A f \in Front : /\ back[f] \in 0 .. BackOffset /\ back[f] \in Int
                             /\ Late(f) \in {0, 1} /\ Late(f) \in Int
                             /\ pc[f] \in Live => Pos(f) \in Int /\ link[f] # <<>>
<1>1. /\ first \in Int /\ DOMAIN newP \subseteq Int /\ \A f \in Front : back[f] \in 0 .. BackOffset
  BY DEF TypeOK, DataType
<1>2. /\ FrontOffset \in Nat /\ BackOffset \in Nat /\ Size = FrontOffset + BackOffset + 1
  BY Bounds
<1>3. \A f \in Front : pc[f] \in Live => Pos(f) \in Int /\ link[f] # <<>>
  BY PlaceTyped
<1>4. \A f \in Front : Late(f) \in {0, 1}
  BY DEF Late
<1> QED BY <1>1, <1>2, <1>3, <1>4

(* The places at which a marking is left behind are those of one front.    *)
LEMMA OneBack ==
  ASSUME TypeOK, RingsKnown, Apart, BeginningKnown, ~exit,
         NEW f \in Front, NEW g \in Front, pc[f] \in Sweeping, pc[g] \in Sweeping,
         back[f] > 0, back[g] > 0
  PROVE  f = g
<1> SUFFICES ASSUME f # g PROVE FALSE
  OBVIOUS
<1>1. pc[f] \in Live /\ pc[g] \in Live
  BY DEF Live
<1>2. Pos(f) >= Pos(g) + Size \/ Pos(g) >= Pos(f) + Size
  BY <1>1 DEF Apart
<1>3. /\ Pos(f) + back[f] + Late(f) = first + 2 * BackOffset
      /\ Pos(g) + back[g] + Late(g) = first + 2 * BackOffset
  BY DEF BeginningKnown
<1>4. /\ first \in Int /\ FrontOffset \in Nat /\ BackOffset \in Nat
      /\ Size = FrontOffset + BackOffset + 1
      /\ back[f] \in 0 .. BackOffset /\ back[g] \in 0 .. BackOffset
      /\ Late(f) \in {0, 1} /\ Late(g) \in {0, 1} /\ Pos(f) \in Int /\ Pos(g) \in Int
  BY <1>1, PlacesTyped
<1> QED BY <1>2, <1>3, <1>4

LEMMA BeginningStep ==
  ASSUME SweepKnown, BeginningKnown, NEW t \in Thread, Step(t), SweepKnown'
  PROVE  BeginningKnown'
<1> SUFFICES ASSUME ~exit' PROVE BeginningKnown'
  BY DEF BeginningKnown
<1>0. /\ TypeOK /\ RingsKnown /\ EndsKnown /\ MarkingsKnown /\ Apart /\ setup \in Setups
      /\ setup' = setup /\ TypeOK' /\ RingsKnown'
      /\ frontptr[t] \in Front
  BY DEF SweepKnown, ControlKnown, TypeOK, ControlType, Step
<1>1. Front' = Front /\ BackOffset' = BackOffset /\ Front \subseteq Thread
  BY <1>0, SameThreads, Threads
<1>2. ~exit
  <2>1. exit => exit'
    BY <1>0, Moves DEF Ends
  <2> QED BY <2>1
<1>3. /\ \A f \in Front : pc[f] \in Sweeping =>
            /\ Pos(f) + back[f] + Late(f) >= first + 2 * BackOffset
            /\ back[f] > 0 => Pos(f) + back[f] + Late(f) = first + 2 * BackOffset
      /\ \A f \in Front : pc[f] \in {"deinit", "handOver"} => back[f] = 0
      /\ \A i \in DOMAIN newP : newP[i] # {} /\ i < first + BackOffset =>
            \E f \in Front : /\ pc[f] \in Sweeping /\ back[f] > 0
                             /\ i >= Pos(f) + Late(f) - BackOffset
  BY <1>2 DEF BeginningKnown
<1>n. /\ first \in Int /\ DOMAIN newP \subseteq Int
      /\ FrontOffset \in Nat /\ BackOffset \in Nat /\ Size = FrontOffset + BackOffset + 1
      /\ \A f \in Front : /\ back[f] \in 0 .. BackOffset /\ back[f] \in Int
                          /\ Late(f) \in {0, 1} /\ Late(f) \in Int
                          /\ pc[f] \in Live => Pos(f) \in Int /\ link[f] # <<>>
  BY <1>0, PlacesTyped
<1>l. Sweeping \subseteq Live
  BY DEF Live
<1>u. ASSUME NEW f \in Front, NEW g \in Front, pc[f] \in Sweeping, pc[g] \in Sweeping,
             back[f] > 0, back[g] > 0
      PROVE  f = g
  BY <1>0, <1>2, <1>u, OneBack
<1>4. ASSUME \A f \in Front : pc'[f] \in Sweeping =>
               /\ Pos(f)' + back'[f] + Late(f)' >= first' + 2 * BackOffset
               /\ back'[f] > 0 => Pos(f)' + back'[f] + Late(f)' = first' + 2 * BackOffset,
             \A f \in Front : pc'[f] \in {"deinit", "handOver"} => back'[f] = 0,
             \A i \in DOMAIN newP' : newP'[i] # {} /\ i < first' + BackOffset =>
               \E f \in Front : /\ pc'[f] \in Sweeping /\ back'[f] > 0
                                /\ i >= Pos(f)' + Late(f)' - BackOffset
      PROVE  BeginningKnown'
  BY <1>1, <1>4 DEF BeginningKnown
<1>5. ASSUME \A g \in Front : Steady(g), first' = first,
             \A i \in DOMAIN newP' : newP'[i] # {} =>
               i \in DOMAIN newP /\ (newP[i] # {} \/
                 \E f \in Front : /\ pc[f] \in Sweeping
                                  /\ i < first + BackOffset => back[f] > 0
                                  /\ i >= Pos(f) + Late(f) - BackOffset)
      PROVE  BeginningKnown'
  <2>1. \A f \in Front : pc'[f] \in Sweeping =>
          /\ Pos(f)' + back'[f] + Late(f)' >= first' + 2 * BackOffset
          /\ back'[f] > 0 => Pos(f)' + back'[f] + Late(f)' = first' + 2 * BackOffset
    BY <1>3, <1>5 DEF Steady
  <2>2. \A f \in Front : pc'[f] \in {"deinit", "handOver"} => back'[f] = 0
    BY <1>3, <1>5 DEF Steady
  <2>3. ASSUME NEW i \in DOMAIN newP', newP'[i] # {}, i < first' + BackOffset
        PROVE  \E f \in Front : /\ pc'[f] \in Sweeping /\ back'[f] > 0
                                /\ i >= Pos(f)' + Late(f)' - BackOffset
    <3>1. PICK f \in Front : /\ pc[f] \in Sweeping /\ back[f] > 0
                             /\ i >= Pos(f) + Late(f) - BackOffset
      BY <1>3, <1>5, <2>3
    <3> QED BY <1>5, <3>1 DEF Steady
  <2> QED BY <1>4, <2>1, <2>2, <2>3
<1>6. CASE CheckStates(t)
  <2>1. \A g \in Front : Steady(g)
    BY <1>0, <1>2, <1>6, SteadyChecks
  <2>2. DOMAIN newP' = DOMAIN newP /\ first' = first
    BY <1>0, <1>6, CheckLists
  <2>3. CASE Rests(t) \/ TakesOut(t) \/ Expands(t) \/ Finds(t) \/ Puts(t) \/ Misses(t) \/ TakesNew(t)
    <3>1. \A i \in DOMAIN newP : newP'[i] # {} => newP[i] # {}
      BY <2>3 DEF Rests, TakesOut, Expands, Finds, Puts, Misses, TakesNew
    <3> QED BY <1>5, <2>1, <2>2, <3>1
  <2>4. CASE PutsBehind(t)
    <3>1. PICK f \in Front : f = frontptr[t]
      BY <1>0
    <3>2. /\ pc[t] \in Firing
          /\ \A i \in DOMAIN newP : i # Pos(f) + Offset(t) => newP'[i] = newP[i]
      BY <2>4, <3>1 DEF PutsBehind, Goes
    <3>3. Offset(t) \in Offsets
      BY <1>0, <3>2, Fired DEF MarkingsKnown
    <3>4. pc[f] \in Served
      BY <1>2, <3>1, <3>2, WorkerFront, AwakeLabels
    <3>5. pc[f] \in Sweeping /\ Late(f) = 0
      BY <3>4 DEF Served, Late
    <3>6. Pos(f) \in Int /\ back[f] \in Int
      BY <1>n, <1>l, <3>5
    <3>7. Pos(f) + back[f] >= first + 2 * BackOffset
      BY <1>3, <1>n, <3>5, <3>6
    <3>8. /\ Pos(f) + Offset(t) >= Pos(f) + Late(f) - BackOffset
          /\ Pos(f) + Offset(t) < first + BackOffset => back[f] > 0
      BY <1>n, <3>3, <3>5, <3>6, <3>7 DEF Offsets
    <3>9. ASSUME NEW i \in DOMAIN newP', newP'[i] # {}
          PROVE  i \in DOMAIN newP /\ (newP[i] # {} \/
                   \E e \in Front : /\ pc[e] \in Sweeping
                                    /\ i < first + BackOffset => back[e] > 0
                                    /\ i >= Pos(e) + Late(e) - BackOffset)
      BY <2>2, <3>2, <3>5, <3>8, <3>9
    <3> QED BY <1>5, <2>1, <2>2, <3>9
  <2> QED BY <1>0, <1>6, <2>3, <2>4, CheckEffects
<1>7. CASE Calmly(t)
  <2>1. \A g \in Front : Steady(g)
    BY <1>0, <1>2, <1>7, SteadyChecks
  <2>2. UNCHANGED <<newP, first>>
    BY <1>7 DEF Calmly, listVars
  <2> QED BY <1>5, <2>1, <2>2
<1>8. CASE t \in Front /\ Moving(t)
  <2>0. PICK f \in Front : f = t
    BY <1>8
  <2>1. \A g \in Front : g # f => Steady(g)
    BY <1>0, <1>8, <2>0, SteadyMoving
  <2>2. Grown
    BY <1>0, <1>8, MovingFacts
  <2>t. /\ back \in [Front -> 0 .. BackOffset]
        /\ pc \in [Thread -> FrontLabel \cup HelperLabel]
    BY <1>0 DEF TypeOK, ControlType, DataType
  <2>3. CASE Link(f) /\ ~exit
    <3>1. /\ UNCHANGED listVars /\ pc[f] = "link" /\ pc'[f] = "run" /\ back'[f] = BackOffset
          /\ link' = [link EXCEPT ![f] = [i \in 0 .. Size - 1 |-> first + i]]
          /\ active' = [active EXCEPT ![f] = BackOffset]
      BY <1>1, <2>3, <2>t DEF Link, LinkFor, Goto
    <3>2. Pos(f)' = first + BackOffset
      BY <1>0, <3>1, RingLinked
    <3>3. Late(f)' = 0
      BY <3>1 DEF Late
    <3>4. first' = first /\ newP' = newP
      BY <3>1 DEF listVars
    <3>5. \A g \in Front : pc'[g] \in Sweeping =>
            /\ Pos(g)' + back'[g] + Late(g)' >= first' + 2 * BackOffset
            /\ back'[g] > 0 => Pos(g)' + back'[g] + Late(g)' = first' + 2 * BackOffset
      <4>1. Pos(f)' + back'[f] + Late(f)' = first' + 2 * BackOffset
        BY <1>n, <3>1, <3>2, <3>3, <3>4
      <4>2. first + 2 * BackOffset >= first + 2 * BackOffset
        BY <1>n
      <4> QED BY <1>3, <2>1, <3>4, <4>1, <4>2 DEF Steady
    <3>6. \A g \in Front : pc'[g] \in {"deinit", "handOver"} => back'[g] = 0
      BY <1>3, <2>1, <3>1 DEF Steady
    <3>7. ASSUME NEW i \in DOMAIN newP', newP'[i] # {}, i < first' + BackOffset
          PROVE  \E g \in Front : /\ pc'[g] \in Sweeping /\ back'[g] > 0
                                  /\ i >= Pos(g)' + Late(g)' - BackOffset
      <4>1. PICK g \in Front : /\ pc[g] \in Sweeping /\ back[g] > 0
                               /\ i >= Pos(g) + Late(g) - BackOffset
        BY <1>3, <3>4, <3>7
      <4>2. g # f
        BY <3>1, <4>1 DEF Sweeping, Checking
      <4> QED BY <2>1, <4>1, <4>2 DEF Steady
    <3> QED BY <1>4, <3>5, <3>6, <3>7
  <2>4. CASE Deinit(f)
    <3>1. UNCHANGED <<newP, first>> /\ UNCHANGED <<link, active, back>> /\ pc[f] = "deinit"
          /\ pc'[f] \in {"handOver", "again"}
      BY <1>1, <2>4, <2>t DEF Deinit, Goto, listVars
    <3>2. Steady(f)
      BY <3>1 DEF Steady, Pos, Late, Sweeping, Checking
    <3> QED BY <1>5, <2>1, <3>1, <3>2
  <2>5. CASE Advance(f)
    <3>1. link[f] # <<>> /\ first' = first /\ back' = back
      BY <1>0, <2>5, GrownAhead, AdvanceFacts
    <3>2. Pos(f)' = Pos(f) + 1
      BY <1>0, <2>5, <3>1, RingAdvanced
    <3>3. pc[f] = "advance" /\ pc'[f] \in {"post", "run"}
      BY <1>1, <2>5, <2>t DEF Advance, AdvanceKeeping, Goto
    <3>4. Late(f) = 1 /\ Late(f)' = 0 /\ pc[f] \in Sweeping /\ pc'[f] \in Sweeping
      BY <3>3 DEF Late, Sweeping
    <3>5. Pos(f)' + Late(f)' = Pos(f) + Late(f)
          /\ Pos(f)' + back'[f] + Late(f)' = Pos(f) + back[f] + Late(f)
      BY <1>n, <1>l, <3>1, <3>2, <3>4
    <3>6. \A g \in Front : pc'[g] \in Sweeping =>
            /\ Pos(g)' + back'[g] + Late(g)' >= first' + 2 * BackOffset
            /\ back'[g] > 0 => Pos(g)' + back'[g] + Late(g)' = first' + 2 * BackOffset
      BY <1>3, <2>1, <3>1, <3>4, <3>5 DEF Steady
    <3>7. \A g \in Front : pc'[g] \in {"deinit", "handOver"} => back'[g] = 0
      BY <1>3, <2>1, <3>3 DEF Steady
    <3>8. ASSUME NEW i \in DOMAIN newP', newP'[i] # {}, i < first' + BackOffset
          PROVE  \E g \in Front : /\ pc'[g] \in Sweeping /\ back'[g] > 0
                                  /\ i >= Pos(g)' + Late(g)' - BackOffset
      <4>1. i \in DOMAIN newP /\ newP[i] # {} /\ i < first + BackOffset
        BY <2>2, <3>1, <3>8 DEF Grown
      <4>2. PICK g \in Front : /\ pc[g] \in Sweeping /\ back[g] > 0
                               /\ i >= Pos(g) + Late(g) - BackOffset
        BY <1>3, <4>1
      <4>3. CASE g = f
        <5>1. i >= Pos(f) + Late(f) - BackOffset /\ back[f] > 0
          BY <4>2, <4>3
        <5>2. Pos(f) \in Int /\ Late(f) = 1 /\ Late(f)' = 0 /\ i \in Int
          BY <1>n, <1>l, <3>4, <4>1
        <5>3. i >= Pos(f)' + Late(f)' - BackOffset
          BY <1>n, <3>2, <5>1, <5>2
        <5> QED BY <3>1, <3>4, <5>1, <5>3
      <4>4. CASE g # f
        BY <2>1, <4>2, <4>4 DEF Steady
      <4> QED BY <4>3, <4>4
    <3> QED BY <1>4, <3>6, <3>7, <3>8
  <2>6. CASE Extend(f)
    <3> DEFINE slot == (active[f] + FrontOffset + 1) % Size
    <3>1. /\ pc[f] = "extend" /\ pc'[f] \in {"mayAdvance", "advance"} /\ UNCHANGED ringVars
          /\ \/ /\ back[f] > 0 /\ newP[link[f][slot]] # {}
                /\ ExtendLeft(back[f]) /\ back'[f] = 0
             \/ /\ back[f] = 0 \/ newP[link[f][slot]] = {}
                /\ UNCHANGED listVars
                /\ back'[f] = IF back[f] > 0 THEN back[f] - 1 ELSE 0
      BY <1>1, <1>n, <2>6, <2>t DEF Extend, Goto
    <3>2. Late(f) = 0 /\ Late(f)' = 1 /\ pc[f] \in Sweeping /\ pc'[f] \in Sweeping
      BY <3>1 DEF Late, Sweeping, Checking
    <3>3. Pos(f)' = Pos(f) /\ Pos(f) \in Int /\ pc[f] \in Live
      <4>1. Pos(f)' = Pos(f)
        BY <3>1 DEF ringVars, Pos
      <4> QED BY <1>n, <1>l, <3>2, <4>1
    <3>4. link[f][slot] = Pos(f) - BackOffset
      <4>0. /\ FrontOffset \in Int /\ BackOffset \in Nat /\ FrontOffset >= 0
            /\ Size \in Int
        BY <1>n
      <4>a. -BackOffset \in Offsets
        BY <4>0 DEF Offsets
      <4>b. active[f] \in 0 .. Size - 1
        BY <1>0 DEF TypeOK, DataType
      <4>c. active[f] \in Int
        BY <4>0, <4>b
      <4>1. -BackOffset \in Offsets /\ active[f] \in 0 .. Size - 1
        BY <4>a, <4>b
      <4>2. /\ link[f][SlotAt(f, -BackOffset)] = Pos(f) + (-BackOffset)
        BY <1>0, <1>n, <3>3, <4>1, PlaceListed
      <4>3. After(active[f], FrontOffset + 1) = SlotAt(f, -BackOffset)
        BY <4>1, RingSlots DEF SlotAt, SlotFrom
      <4>4. slot = After(active[f], FrontOffset + 1)
        <5>1. active[f] + FrontOffset + 1 = active[f] + (FrontOffset + 1)
          BY <4>0, <4>c
        <5> QED BY <5>1 DEF After
      <4>5. Pos(f) + (-BackOffset) = Pos(f) - BackOffset
        BY <1>n, <3>3
      <4> QED BY <4>2, <4>3, <4>4, <4>5
    <3> HIDE DEF slot
    <3>5. CASE /\ back[f] > 0 /\ newP[link[f][slot]] # {}
               /\ ExtendLeft(back[f]) /\ back'[f] = 0
      <4>1. first' = first - back[f]
        BY <3>5 DEF ExtendLeft
      <4>2. Pos(f) + back[f] = first + 2 * BackOffset
        BY <1>3, <1>n, <3>2, <3>3, <3>5
      <4>3. ASSUME NEW g \in Front, g # f, pc'[g] \in Sweeping
            PROVE  /\ Pos(g)' + back'[g] + Late(g)' >= first' + 2 * BackOffset
                   /\ ~(back'[g] > 0)
        <5>1. pc[g] \in Sweeping /\ Pos(g)' = Pos(g) /\ back'[g] = back[g] /\ Late(g)' = Late(g)
          BY <2>1, <4>3 DEF Steady
        <5>2. ~(back[g] > 0)
          BY <1>u, <3>2, <3>5, <4>3, <5>1
        <5>3. Pos(g) + back[g] + Late(g) >= first + 2 * BackOffset
          BY <1>3, <5>1
        <5>4. Pos(g) \in Int /\ back[g] \in Int /\ Late(g) \in Int
          BY <1>n, <1>l, <5>1
        <5>5. first' <= first /\ first' \in Int
          BY <1>n, <3>5, <4>1
        <5>6. Pos(g) + back[g] + Late(g) >= first' + 2 * BackOffset
          BY <1>n, <5>3, <5>4, <5>5
        <5> QED BY <5>1, <5>2, <5>6
      <4>4. Pos(f)' + back'[f] + Late(f)' >= first' + 2 * BackOffset
        BY <1>n, <3>2, <3>3, <3>5, <4>1, <4>2
      <4>5. \A g \in Front : pc'[g] \in Sweeping =>
              /\ Pos(g)' + back'[g] + Late(g)' >= first' + 2 * BackOffset
              /\ back'[g] > 0 => Pos(g)' + back'[g] + Late(g)' = first' + 2 * BackOffset
        BY <3>5, <4>3, <4>4
      <4>6. \A g \in Front : pc'[g] \in {"deinit", "handOver"} => back'[g] = 0
        BY <1>3, <2>1, <3>1 DEF Steady
      <4>7. ASSUME NEW i \in DOMAIN newP', newP'[i] # {}, i < first' + BackOffset
            PROVE  FALSE
        <5>1. i \in DOMAIN newP /\ newP[i] # {}
          BY <2>2, <4>7 DEF Grown
        <5>2. i \in Int /\ i < Pos(f) - BackOffset /\ i < first + BackOffset
          BY <1>n, <3>3, <3>5, <4>1, <4>2, <4>7, <5>1
        <5>3. PICK g \in Front : /\ pc[g] \in Sweeping /\ back[g] > 0
                                 /\ i >= Pos(g) + Late(g) - BackOffset
          BY <1>3, <5>1, <5>2
        <5>4. g = f
          BY <1>u, <3>2, <3>5, <5>3
        <5> QED BY <1>n, <3>2, <3>3, <5>2, <5>3, <5>4
      <4> QED BY <1>4, <4>5, <4>6, <4>7
    <3>6. CASE /\ back[f] = 0 \/ newP[link[f][slot]] = {}
               /\ UNCHANGED listVars
               /\ back'[f] = IF back[f] > 0 THEN back[f] - 1 ELSE 0
      <4>1. first' = first /\ newP' = newP
        BY <3>6 DEF listVars
      <4>2. /\ Pos(f)' + back'[f] + Late(f)' >= first' + 2 * BackOffset
            /\ back'[f] > 0 => Pos(f)' + back'[f] + Late(f)' = first' + 2 * BackOffset
        <5>1. /\ Pos(f) + back[f] >= first + 2 * BackOffset
              /\ back[f] > 0 => Pos(f) + back[f] = first + 2 * BackOffset
          BY <1>3, <1>n, <3>2, <3>3
        <5> QED BY <1>n, <3>2, <3>3, <3>6, <4>1, <5>1
      <4>3. \A g \in Front : pc'[g] \in Sweeping =>
              /\ Pos(g)' + back'[g] + Late(g)' >= first' + 2 * BackOffset
              /\ back'[g] > 0 => Pos(g)' + back'[g] + Late(g)' = first' + 2 * BackOffset
        BY <1>3, <2>1, <4>1, <4>2 DEF Steady
      <4>4. \A g \in Front : pc'[g] \in {"deinit", "handOver"} => back'[g] = 0
        BY <1>3, <2>1, <3>1 DEF Steady
      <4>5. ASSUME NEW i \in DOMAIN newP', newP'[i] # {}, i < first' + BackOffset
            PROVE  \E g \in Front : /\ pc'[g] \in Sweeping /\ back'[g] > 0
                                    /\ i >= Pos(g)' + Late(g)' - BackOffset
        <5>1. i \in DOMAIN newP /\ newP[i] # {} /\ i < first + BackOffset /\ i \in Int
          BY <1>n, <4>1, <4>5
        <5>2. PICK g \in Front : /\ pc[g] \in Sweeping /\ back[g] > 0
                                 /\ i >= Pos(g) + Late(g) - BackOffset
          BY <1>3, <5>1
        <5>3. CASE g # f
          BY <2>1, <5>2, <5>3 DEF Steady
        <5>4. CASE g = f
          <6>1. back[f] > 0 /\ i >= Pos(f) - BackOffset /\ newP[Pos(f) - BackOffset] = {}
            BY <1>n, <3>2, <3>3, <3>4, <3>6, <5>2, <5>4
          <6>2. i # Pos(f) - BackOffset
            BY <5>1, <6>1
          <6>t. /\ Pos(f) \in Int /\ back[f] \in Int /\ first \in Int /\ BackOffset \in Int
                /\ i \in Int
            BY <1>n, <3>3, <5>1
          <6>3. i >= Pos(f) + 1 - BackOffset
            BY <6>1, <6>2, <6>t
          <6>4. Pos(f) + back[f] = first + 2 * BackOffset
            BY <1>3, <1>n, <3>2, <3>3, <6>1
          <6>5. back'[f] = back[f] - 1
            BY <3>6, <6>1
          <6>6. i < first + BackOffset
            BY <5>1
          <6>7. back[f] - 1 > 0
            BY <6>3, <6>4, <6>6, <6>t
          <6> QED BY <3>2, <3>3, <6>3, <6>5, <6>7
        <5> QED BY <5>3, <5>4
      <4> QED BY <1>4, <4>3, <4>4, <4>5
    <3> QED BY <3>1, <3>5, <3>6
  <2>7. CASE Finish(f)
    <3> DEFINE behind == {i \in 0 .. back[f] - 1 :
                            newP[link[f][After(active[f], FrontOffset + i + 2)]] # {}}
    <3>1. /\ pc[f] = "advance" /\ pc'[f] = "deinit" /\ back'[f] = 0
          /\ IF behind = {} THEN UNCHANGED listVars ELSE ExtendLeft(back[f] - Min(behind))
          /\ UNCHANGED ringVars
      BY <1>1, <2>7, <2>t DEF Finish, Goto
    <3>2. Late(f) = 1 /\ pc[f] \in Sweeping /\ pc'[f] \notin Sweeping
      BY <3>1 DEF Late, Sweeping, Checking
    <3>3. Pos(f) \in Int /\ link[f] # <<>>
      BY <1>n, <1>l, <3>2
    <3>4. \A i \in 0 .. back[f] - 1 :
             link[f][After(active[f], FrontOffset + i + 2)] = Pos(f) - BackOffset + 1 + i
      <4> SUFFICES ASSUME NEW i \in 0 .. back[f] - 1
                   PROVE  link[f][After(active[f], FrontOffset + i + 2)] = Pos(f) - BackOffset + 1 + i
        OBVIOUS
      <4>1. i + 1 - BackOffset \in Offsets /\ active[f] \in 0 .. Size - 1
        <5>1. active[f] \in 0 .. Size - 1
          BY <1>0 DEF TypeOK, DataType
        <5>2. back[f] \in 0 .. BackOffset /\ i \in 0 .. back[f] - 1
          BY <1>n
        <5>3. i + 1 - BackOffset \in -BackOffset .. FrontOffset
          BY <1>n, <5>2
        <5> QED BY <5>1, <5>3 DEF Offsets
      <4>2. link[f][SlotAt(f, i + 1 - BackOffset)] = Pos(f) + (i + 1 - BackOffset)
        BY <1>0, <3>3, <4>1, PlaceListed
      <4>3. After(active[f], FrontOffset + i + 2) = SlotAt(f, i + 1 - BackOffset)
        <5>1. active[f] + (FrontOffset + i + 2) = active[f] + Size + (i + 1 - BackOffset)
          BY <1>n, <4>1
        <5> QED BY <5>1 DEF After, SlotAt
      <4>4. Pos(f) + (i + 1 - BackOffset) = Pos(f) - BackOffset + 1 + i
        BY <1>n, <3>3
      <4> QED BY <4>2, <4>3, <4>4
    <3>5. \A g \in Front : pc'[g] \in {"deinit", "handOver"} => back'[g] = 0
      BY <1>3, <2>1, <3>1 DEF Steady
    <3>6. ASSUME NEW i \in DOMAIN newP, newP[i] # {}, i < first + BackOffset, back[f] > 0
          PROVE  i - (Pos(f) - BackOffset + 1) \in behind
      <4>1. PICK g \in Front : /\ pc[g] \in Sweeping /\ back[g] > 0
                               /\ i >= Pos(g) + Late(g) - BackOffset
        BY <1>3, <3>6
      <4>2. g = f
        BY <1>u, <3>2, <3>6, <4>1
      <4>3. Pos(f) + back[f] + 1 = first + 2 * BackOffset
        BY <1>3, <3>2, <3>6
      <4>4. i \in Int /\ i >= Pos(f) + 1 - BackOffset
        BY <1>n, <3>2, <4>1, <4>2
      <4>5. PICK j : j = i - (Pos(f) - BackOffset + 1)
        OBVIOUS
      <4>t. Pos(f) \in Int /\ back[f] \in Int /\ first \in Int /\ BackOffset \in Int
        BY <1>n, <3>3
      <4>6. j \in 0 .. back[f] - 1 /\ Pos(f) - BackOffset + 1 + j = i
        <5>1. i < first + BackOffset
          BY <3>6
        <5> QED BY <4>3, <4>4, <4>5, <4>t, <5>1
      <4> QED BY <3>4, <3>6, <4>5, <4>6
    <3>7. behind # {} => /\ Min(behind) \in behind /\ \A x \in behind : Min(behind) <= x
                         /\ Min(behind) \in 0 .. back[f] - 1
      <4>1. behind \subseteq 0 .. back[f] - 1 /\ 0 .. back[f] - 1 \subseteq Int
        OBVIOUS
      <4>2. IsFiniteSet(0 .. back[f] - 1)
        BY <1>n, FS_Interval
      <4>3. IsFiniteSet(behind) /\ behind \subseteq Int
        BY <4>1, <4>2, FS_Subset
      <4> HIDE DEF behind
      <4>4. behind # {} => Min(behind) \in behind /\ \A x \in behind : Min(behind) <= x
        BY <4>3, Extremes
      <4> QED BY <4>1, <4>4
    <3> HIDE DEF behind
    <3>8. CASE behind = {}
      <4>1. first' = first /\ newP' = newP
        BY <3>1, <3>8 DEF listVars
      <4>2. \A g \in Front : pc'[g] \in Sweeping =>
              /\ Pos(g)' + back'[g] + Late(g)' >= first' + 2 * BackOffset
              /\ back'[g] > 0 => Pos(g)' + back'[g] + Late(g)' = first' + 2 * BackOffset
        BY <1>3, <2>1, <3>2, <4>1 DEF Steady
      <4>3. ASSUME NEW i \in DOMAIN newP', newP'[i] # {}, i < first' + BackOffset
            PROVE  \E g \in Front : /\ pc'[g] \in Sweeping /\ back'[g] > 0
                                    /\ i >= Pos(g)' + Late(g)' - BackOffset
        <5>1. PICK g \in Front : /\ pc[g] \in Sweeping /\ back[g] > 0
                                 /\ i >= Pos(g) + Late(g) - BackOffset
          BY <1>3, <4>1, <4>3
        <5>2. g # f
          BY <3>6, <3>8, <4>1, <4>3, <5>1
        <5> QED BY <2>1, <5>1, <5>2 DEF Steady
      <4> QED BY <1>4, <3>5, <4>2, <4>3
    <3>9. CASE behind # {}
      <4>0. PICK k : k = Min(behind)
        OBVIOUS
      <4>1. first' = first - (back[f] - k) /\ k \in 0 .. back[f] - 1
        BY <3>1, <3>7, <3>9, <4>0 DEF ExtendLeft
      <4>2. back[f] > 0 /\ Pos(f) + back[f] + 1 = first + 2 * BackOffset
        <5>1. back[f] > 0
          BY <1>n, <4>1
        <5> QED BY <1>3, <3>2, <5>1
      <4>3. ASSUME NEW g \in Front, pc'[g] \in Sweeping
            PROVE  /\ Pos(g)' + back'[g] + Late(g)' >= first' + 2 * BackOffset
                   /\ ~(back'[g] > 0)
        <5>0. g # f
          BY <3>2, <4>3
        <5>1. pc[g] \in Sweeping /\ Pos(g)' = Pos(g) /\ back'[g] = back[g] /\ Late(g)' = Late(g)
          BY <2>1, <4>3, <5>0 DEF Steady
        <5>2. ~(back[g] > 0)
          BY <1>u, <3>2, <4>2, <5>0, <5>1
        <5>3. Pos(g) + back[g] + Late(g) >= first + 2 * BackOffset
          BY <1>3, <5>1
        <5>4. Pos(g) \in Int /\ back[g] \in Int /\ Late(g) \in Int
          BY <1>n, <1>l, <5>1
        <5>5. first' <= first /\ first' \in Int
          BY <1>n, <4>1
        <5>6. Pos(g) + back[g] + Late(g) >= first' + 2 * BackOffset
          BY <1>n, <5>3, <5>4, <5>5
        <5> QED BY <5>1, <5>2, <5>6
      <4>4. ASSUME NEW i \in DOMAIN newP', newP'[i] # {}, i < first' + BackOffset
            PROVE  FALSE
        <5>1. i \in DOMAIN newP /\ newP[i] # {} /\ i \in Int
          BY <1>n, <2>2, <4>4 DEF Grown
        <5>2. i < first + BackOffset
          BY <1>n, <4>1, <4>4, <5>1
        <5>3. i - (Pos(f) - BackOffset + 1) \in behind
          BY <3>6, <4>2, <5>1, <5>2
        <5>4. k <= i - (Pos(f) - BackOffset + 1)
          BY <3>7, <3>9, <4>0, <5>3
        <5>t. /\ Pos(f) \in Int /\ back[f] \in Int /\ first \in Int /\ BackOffset \in Int
              /\ i \in Int /\ k \in Int
          BY <1>n, <3>3, <4>1, <5>1
        <5>5. i < first - (back[f] - k) + BackOffset
          BY <4>1, <4>4
        <5>6. Pos(f) + back[f] + 1 = first + 2 * BackOffset
          BY <4>2
        <5> QED BY <5>4, <5>5, <5>6, <5>t
      <4> QED BY <1>4, <3>5, <4>3, <4>4
    <3> QED BY <3>8, <3>9
  <2> QED BY <1>8, <2>0, <2>3, <2>4, <2>5, <2>6, <2>7 DEF Moving
<1> QED BY <1>0, <1>6, <1>7, <1>8, Sorts

(* What popVector finds out about the new persistent markings.             *)
Missed(t, b) ==
  /\ pc[t] = "popNew" /\ link[frontptr[t]] # <<>>
  /\ \A m \in newP[Pos(frontptr[t])] : Hash[m] # b

LEMMA NewLooked ==
  ASSUME TypeOK, NEW t \in Thread, CheckStates(t), ~exit'
  PROVE  /\ pc'[t] = "popNew" =>
              tried'[t] = {} \/ \E b : tried'[t] = tried[t] \cup {b} /\ Missed(t, b)
         /\ pc'[t] = Checked(t) => \E b : tried[t] \cup {b} = Buckets /\ Missed(t, b)
<1>0. /\ pc \in [Thread -> FrontLabel \cup HelperLabel] /\ tried \in [Thread -> SUBSET Buckets]
      /\ Checked(t) \in {"release", "drain", "quit"}
  BY DEF TypeOK, ControlType, DataType, Checked
<1> USE DEF Goto
<1>1. CASE Loop(t)
  <2>1. ~exit
    BY <1>1 DEF Loop, endVars
  <2>2. pc'[t] = "pop"
    BY <1>0, <1>1, <2>1 DEF Loop
  <2> QED BY <1>0, <2>2
<1>2. CASE Pop(t)
  <2>1. pc[t] = "pop" /\ (pc'[t] = "keep" \/ (pc'[t] = "popNew" /\ tried'[t] = {}) \/ pc'[t] = "pop")
    BY <1>0, <1>2 DEF Pop, TryNext
  <2> QED BY <1>0, <2>1
<1>3. CASE PopNew(t)
  <2> DEFINE at == link[frontptr[t]][active[frontptr[t]]]
  <2>1. at = Pos(frontptr[t]) /\ pc[t] = "popNew" /\ link[frontptr[t]] # <<>>
    BY <1>3 DEF Pos, PopNew
  <2>2. \/ pc'[t] = "keepOld"
        \/ TryNext(t, newP[at], Checked(t))
    BY <1>0, <1>3 DEF PopNew
  <2> HIDE DEF at
  <2>3. CASE pc'[t] = "keepOld"
    BY <1>0, <2>3
  <2>4. CASE TryNext(t, newP[at], Checked(t))
    <3>1. PICK b \in Buckets \ tried[t] :
            /\ \A m \in newP[at] : Hash[m] # b
            /\ tried' = [tried EXCEPT ![t] = IF @ \cup {b} = Buckets THEN {} ELSE @ \cup {b}]
            /\ pc' = [pc EXCEPT ![t] = IF tried[t] \cup {b} = Buckets THEN Checked(t) ELSE pc[t]]
      BY <2>4 DEF TryNext
    <3>2. Missed(t, b)
      BY <2>1, <3>1 DEF Missed
    <3>3. CASE tried[t] \cup {b} = Buckets
      <4>1. pc'[t] = Checked(t)
        BY <1>0, <3>1, <3>3
      <4> QED BY <1>0, <3>2, <3>3, <4>1
    <3>4. CASE tried[t] \cup {b} # Buckets
      <4>1. pc'[t] = "popNew" /\ tried'[t] = tried[t] \cup {b}
        BY <1>0, <2>1, <3>1, <3>4
      <4> QED BY <1>0, <3>2, <4>1
    <3> QED BY <3>3, <3>4
  <2> QED BY <2>2, <2>3, <2>4
<1>4. CASE Keep(t) \/ KeepOld(t)
  <2>1. pc'[t] \in {"solved", "loop", "lookOld"}
    BY <1>0, <1>4 DEF Keep, KeepOld, Expand
  <2> QED BY <1>0, <2>1
<1>5. CASE LookOld(t) \/ LookNew(t) \/ LookSame(t) \/ LookStore(t)
  <2>1. pc'[t] \in {"loop", "lookOld", "lookStore", "lookNew", "lookSame", "insert", "insertNew"}
    BY <1>0, <1>5 DEF LookOld, LookNew, LookSame, LookStore, Look, NextEntry
  <2> QED BY <1>0, <2>1
<1>6. CASE Insert(t) \/ InsertNew(t)
  <2>1. pc'[t] \in {"loop", "lookOld"}
    BY <1>0, <1>6 DEF Insert, InsertNew, NextEntry
  <2> QED BY <1>0, <2>1
<1>7. ~Solved(t)
  BY DEF Solved
<1> QED BY <1>1, <1>2, <1>3, <1>4, <1>5, <1>6, <1>7 DEF CheckStates

(* Nobody leaves a marking where another front is, and nobody moves a      *)
(* front but itself.                                                       *)
Held(g) == /\ link'[g] = link[g] /\ Pos(g)' = Pos(g) /\ (\A d : SlotAt(g, d)' = SlotAt(g, d))
           /\ newP'[Pos(g)] \subseteq newP[Pos(g)]

LEMMA HeldStep ==
  ASSUME SweepKnown, ListsWhole, ~exit, NEW t \in Thread, Step(t),
         NEW g \in Front, pc[g] \in Live, ~(g = t /\ Moving(t))
  PROVE  Held(g)
<1>0. /\ TypeOK /\ RingsKnown /\ EndsKnown /\ MarkingsKnown /\ Apart /\ frontptr[t] \in Front
  BY DEF SweepKnown, ControlKnown, TypeOK, ControlType
<1>1. link[g] # <<>> /\ Pos(g) \in DOMAIN newP /\ Pos(g) \in Int
  <2>1. link[g] # <<>>
    BY <1>0 DEF RingsKnown
  <2> QED BY <1>0, <2>1, PlaceListed
<1>2. ASSUME link' = link, active' = active
      PROVE  link'[g] = link[g] /\ Pos(g)' = Pos(g) /\ \A d : SlotAt(g, d)' = SlotAt(g, d)
  BY <1>2 DEF Pos, SlotAt
<1>3. CASE CheckStates(t)
  <2>0. link' = link /\ active' = active
    BY <1>0, <1>3, CheckLists
  <2>1. CASE ~PutsBehind(t)
    <3>1. \/ Rests(t) \/ TakesOut(t) \/ TakesNew(t) \/ Expands(t)
          \/ Misses(t) \/ Finds(t) \/ Puts(t)
      BY <1>0, <1>3, <2>1, CheckEffects
    <3>2. newP'[Pos(g)] \subseteq newP[Pos(g)]
      BY <1>1, <3>1 DEF Rests, TakesOut, TakesNew, Expands, Misses, Finds, Puts
    <3> QED BY <1>2, <2>0, <3>2 DEF Held
  <2>2. CASE PutsBehind(t)
    <3>1. PICK e \in Front : e = frontptr[t]
      BY <1>0
    <3>2. /\ pc[t] \in Firing /\ pc[t] = "insertNew"
          /\ \A i \in DOMAIN newP : i # Pos(e) + Offset(t) => newP'[i] = newP[i]
      BY <2>2, <3>1 DEF PutsBehind, Goes
    <3>3. Offset(t) \in Offsets /\ Offset(t) < 0
      BY <1>0, <3>2, Fired DEF MarkingsKnown, ListsWhole
    <3>4. pc[e] \in Live /\ link[e] # <<>>
      BY <3>1, <3>2, WorkerFront, AwakeLabels, ServedLive
    <3>5. Pos(e) \in Int
      BY <1>0, <3>4, PlaceListed
    <3>6. e = g \/ Pos(e) >= Pos(g) + Size \/ Pos(g) >= Pos(e) + Size
      BY <1>0, <3>4 DEF Apart
    <3>7. Pos(g) # Pos(e) + Offset(t)
      BY <1>1, <3>3, <3>5, <3>6, Bounds DEF Offsets
    <3>8. newP'[Pos(g)] = newP[Pos(g)]
      BY <1>1, <3>2, <3>7
    <3> QED BY <1>2, <2>0, <3>8 DEF Held
  <2> QED BY <2>1, <2>2
<1>4. CASE t \in Front /\ Moving(t)
  <2>1. g # t
    BY <1>4
  <2>2. /\ link'[g] = link[g] /\ Pos(g)' = Pos(g) /\ Grown /\ \A d : SlotAt(g, d)' = SlotAt(g, d)
    BY <1>0, <1>4, <2>1, MovingFacts
  <2>3. newP'[Pos(g)] = newP[Pos(g)]
    BY <1>1, <2>2 DEF Grown
  <2> QED BY <2>2, <2>3 DEF Held
<1>5. CASE Calmly(t)
  <2>1. newP' = newP /\ link' = link /\ active' = active
    BY <1>5 DEF Calmly, listVars, ringVars
  <2> QED BY <1>2, <2>1 DEF Held
<1> QED BY <1>0, <1>3, <1>4, <1>5, Sorts

(* The parts of what is known about the new persistent markings.           *)
Sought(u) == IF link[frontptr[u]] = <<>> THEN tried[u] = {}
             ELSE \A m \in newP[Pos(frontptr[u])] : Hash[m] \notin tried[u]

NothingAhead(f) == /\ Pos(f) + FrontOffset + 1 \notin DOMAIN newP
                   /\ \A d \in 0 .. FrontOffset : store[f][SlotAt(f, d)] = {}

LEMMA SoughtStep ==
  ASSUME SweepKnown, ListsWhole, NewAttended, ~exit', NEW t \in Thread, Step(t),
         NEW u \in Thread, pc'[u] = "popNew", ~exit
  PROVE  Sought(u)'
<1>0. /\ TypeOK /\ EndsKnown /\ RingsKnown /\ MarkingsKnown
      /\ frontptr[t] \in Front /\ frontptr[u] \in Front
      /\ (t \in Front => frontptr[t] = t)
      /\ tried \in [Thread -> SUBSET Buckets]
  BY DEF SweepKnown, ControlKnown, TypeOK, ControlType, DataType
<1>1. PICK f \in Front : f = frontptr[u]
  BY <1>0
<1>2. ASSUME tried'[u] = {}, frontptr'[u] = f PROVE Sought(u)'
  BY <1>2 DEF Sought
<1>3. CASE u # t
  <2>1. /\ pc[u] = "popNew" /\ frontptr'[u] = f /\ tried'[u] = tried[u]
    <3>1. /\ \A L : L \cap Asleep = {} => (pc'[u] \in L <=> pc[u] \in L)
          /\ frontptr'[u] = frontptr[u] /\ tried'[u] = tried[u]
      BY <1>0, <1>3, OthersStay
    <3>2. pc'[u] \in {"popNew"} <=> pc[u] \in {"popNew"}
      BY <3>1, AwakeLabels
    <3> QED BY <1>1, <3>1, <3>2
  <2>2. IF link[f] = <<>> THEN tried[u] = {} ELSE \A m \in newP[Pos(f)] : Hash[m] \notin tried[u]
    BY <1>1, <2>1 DEF NewAttended
  <2>3. CASE link[f] = <<>>
    BY <1>2, <2>1, <2>2, <2>3
  <2>4. CASE link[f] # <<>>
    <3>1. pc[f] \in Served
      BY <1>1, <2>1, <2>4, WorkerFront DEF Checking
    <3>2. ~(f = t /\ Moving(t))
      <4>1. Moving(f) => pc[f] \in {"link", "extend", "advance", "deinit"}
        BY DEF Moving, Link, LinkFor, Extend, Finish, Advance, AdvanceKeeping, Deinit
      <4> QED BY <3>1, <4>1 DEF Served, Sweeping, Checking
    <3>3. Held(f)
      BY <3>1, <3>2, HeldStep, ServedLive
    <3>4. link'[f] # <<>> /\ \A m \in newP'[Pos(f)'] : Hash[m] \notin tried'[u]
      BY <2>1, <2>2, <2>4, <3>3 DEF Held
    <3> QED BY <2>1, <3>4 DEF Sought
  <2> QED BY <2>3, <2>4
<1>4. CASE u = t
  <2>1. CheckStates(t)
    <3>1. ~Calmly(t)
      BY <1>4 DEF Calmly, Checking
    <3>2. ~(t \in Front /\ Moving(t))
      BY <1>0, <1>4, MovingFacts
    <3> QED BY <1>0, <3>1, <3>2, Sorts
  <2>2. frontptr'[t] = f
    BY <1>0, <1>1, <1>4, <2>1, CheckFacts DEF idleVars
  <2>3. CASE tried'[t] = {}
    BY <1>2, <1>4, <2>2, <2>3
  <2>4. CASE tried'[t] # {}
    <3>1. PICK b : tried'[t] = tried[t] \cup {b} /\ Missed(t, b)
      BY <1>0, <1>4, <2>1, <2>4, NewLooked
    <3>2. /\ pc[t] = "popNew" /\ link[f] # <<>>
          /\ \A m \in newP[Pos(f)] : Hash[m] # b
      BY <1>1, <1>4, <3>1 DEF Missed
    <3>3. \A m \in newP[Pos(f)] : Hash[m] \notin tried[t]
      BY <1>1, <1>4, <3>2 DEF NewAttended
    <3>4. pc[f] \in Served
      BY <1>1, <1>4, <3>2, WorkerFront DEF Checking
    <3>5. ~(f = t /\ Moving(t))
      BY <3>2 DEF Moving, Link, LinkFor, Extend, Finish, Advance, AdvanceKeeping, Deinit
    <3>6. Held(f)
      BY <3>4, <3>5, HeldStep, ServedLive
    <3>7. link'[f] # <<>> /\ \A m \in newP'[Pos(f)'] : Hash[m] \notin tried'[t]
      BY <3>1, <3>2, <3>3, <3>6 DEF Held
    <3> QED BY <1>4, <2>2, <3>7 DEF Sought
  <2> QED BY <2>3, <2>4
<1> QED BY <1>3, <1>4

(* A front has looked at everything when it goes on.                       *)
LEMMA LookedStep ==
  ASSUME SweepKnown, ListsWhole, NewAttended, ~exit', NEW t \in Thread, Step(t),
         NEW f \in Front, pc'[f] \in Looked, ~exit
  PROVE  newP'[Pos(f)'] = {}
<1>0. /\ TypeOK /\ EndsKnown /\ RingsKnown /\ f \in Thread /\ frontptr[f] = f
  BY Threads DEF SweepKnown, ControlKnown, TypeOK, ControlType
<1>1. Looked \subseteq Live
  BY DEF Looked, Live, Sweeping
<1>2. ASSUME pc[f] \in Looked, ~(f = t /\ Moving(t)) PROVE newP'[Pos(f)'] = {}
  <2>1. newP[Pos(f)] = {}
    BY <1>2 DEF NewAttended
  <2>2. Held(f)
    BY <1>1, <1>2, HeldStep
  <2> QED BY <2>1, <2>2 DEF Held
<1>3. CASE f # t
  <2>1. pc[f] \in Looked
    <3>1. \A L : L \cap Asleep = {} => (pc'[f] \in L <=> pc[f] \in L)
      BY <1>0, <1>3, OthersStay
    <3> QED BY <3>1, AwakeLabels
  <2> QED BY <1>2, <1>3, <2>1
<1>4. CASE f = t /\ Calmly(t) /\ ~Moving(t)
  <2>1. pc[f] \in Looked
    BY <1>4 DEF Calmly
  <2> QED BY <1>2, <1>4, <2>1
<1>5. CASE f = t /\ CheckStates(t)
  <2>1. pc'[t] = Checked(t)
    <3>1. pc'[t] \in Checking \cup {Checked(t)}
      BY <1>0, <1>5, CheckFacts
    <3> QED BY <1>5, <3>1 DEF Looked, Checking
  <2>2. PICK b : tried[t] \cup {b} = Buckets /\ Missed(t, b)
    BY <1>0, <1>5, <2>1, NewLooked
  <2>3. /\ pc[t] = "popNew" /\ link[f] # <<>>
        /\ \A m \in newP[Pos(f)] : Hash[m] # b
    BY <1>0, <1>5, <2>2 DEF Missed
  <2>4. \A m \in newP[Pos(f)] : Hash[m] \notin tried[t]
    BY <1>0, <1>5, <2>3 DEF NewAttended
  <2>5. newP[Pos(f)] = {}
    <3>1. Pos(f) \in DOMAIN newP /\ newP \in [DOMAIN newP -> SUBSET Marking]
      BY <1>0, <2>3, PlaceListed DEF TypeOK, DataType
    <3>2. \A m \in newP[Pos(f)] : Hash[m] \in Buckets
      BY <3>1 DEF Buckets
    <3> QED BY <2>2, <2>3, <2>4, <3>2
  <2>6. pc[f] \in Live /\ ~Moving(t)
    BY <1>5, <2>3 DEF Live, Sweeping, Checking, Moving, Link, LinkFor, Extend, Finish, Advance,
            AdvanceKeeping, Deinit
  <2>7. Held(f)
    BY <2>6, HeldStep
  <2> QED BY <2>5, <2>7 DEF Held
<1>6. CASE f = t /\ Moving(t)
  <2>1. Grown /\ pc \in [Thread -> FrontLabel \cup HelperLabel]
    BY <1>0, <1>6, MovingFacts DEF TypeOK, ControlType
  <2>2. CASE Extend(f) \/ Finish(f)
    <3>1. UNCHANGED ringVars /\ pc[f] \in {"extend", "advance"}
      BY <1>0, <2>2, GrownLeft DEF Extend, Finish
    <3>2. Pos(f)' = Pos(f)
      BY <3>1 DEF Pos, ringVars
    <3>3. newP[Pos(f)] = {} /\ link[f] # <<>>
      BY <1>0, <3>1 DEF NewAttended, Looked, RingsKnown, Live, Sweeping
    <3>4. Pos(f) \in DOMAIN newP
      BY <1>0, <3>3, PlaceListed
    <3> QED BY <2>1, <3>2, <3>3, <3>4 DEF Grown
  <2>3. CASE Link(f) \/ Advance(f) \/ Deinit(f)
    <3>1. pc'[f] \in {"run", "post", "again", "handOver", "end"}
      BY <1>0, <2>1, <2>3 DEF Link, LinkFor, Advance, AdvanceKeeping, Deinit, Goto
    <3> QED BY <3>1 DEF Looked
  <2> QED BY <1>6, <2>2, <2>3 DEF Moving
<1> QED BY <1>0, <1>3, <1>4, <1>5, <1>6, Sorts

(* Nothing gets into the buckets of a front where nobody works.            *)
LEMMA NothingPut ==
  ASSUME SweepKnown, ~exit, NEW t \in Thread, CheckStates(t),
         NEW f \in Front, link[f] # <<>>, pc[f] \notin Served
  PROVE  \A s \in 0 .. Size - 1 : store'[f][s] \subseteq store[f][s]
<1>0. TypeOK /\ RingsKnown /\ MarkingsKnown /\ frontptr[t] \in Front
  BY DEF SweepKnown, ControlKnown, TypeOK, ControlType
<1>1. CASE Puts(t)
  <2>1. pc[t] \in Firing
    BY <1>1 DEF Puts, Goes
  <2>2. frontptr[t] # f
    BY <2>1, WorkerFront, AwakeLabels
  <2> QED BY <1>1, <2>2 DEF Puts
<1>2. CASE TakesOut(t)
  BY <1>2 DEF TakesOut
<1>3. CASE Rests(t) \/ TakesNew(t) \/ Expands(t) \/ Misses(t) \/ Finds(t) \/ PutsBehind(t)
  BY <1>3 DEF Rests, TakesNew, Expands, Misses, Finds, PutsBehind
<1> QED BY <1>0, <1>1, <1>2, <1>3, CheckEffects

LEMMA AheadStep ==
  ASSUME SweepKnown, NewAttended, ListsWhole, ~exit', NEW t \in Thread, Step(t),
         NEW f \in Front, pc'[f] = "deinit", ~exit
  PROVE  NothingAhead(f)'
<1>0. /\ TypeOK /\ EndsKnown /\ RingsKnown /\ MarkingsKnown /\ Apart /\ BucketAttended
      /\ f \in Thread /\ DOMAIN newP = DOMAIN oldP
      /\ pc \in [Thread -> FrontLabel \cup HelperLabel] /\ frontptr[t] \in Front
      /\ first \in Int /\ FrontOffset \in Nat /\ BackOffset \in Nat
      /\ Size = FrontOffset + BackOffset + 1
  BY Threads, Bounds DEF SweepKnown, ControlKnown, TypeOK, ControlType, DataType
<1>d. \A d \in 0 .. FrontOffset : d \in Offsets
  BY <1>0 DEF Offsets
<1>1. ASSUME link[f] # <<>>
      PROVE  /\ Pos(f) \in Int /\ Pos(f) - BackOffset >= first
             /\ \A d \in 0 .. FrontOffset : SlotAt(f, d) \in 0 .. Size - 1
  BY <1>0, <1>1, <1>d, PlaceListed DEF RingsKnown, RingKnown
<1>2. ASSUME pc[f] = "deinit", ~(f = t /\ Moving(t)) PROVE NothingAhead(f)'
  <2>1. pc[f] \in Live /\ pc[f] \notin Served
    BY <1>2 DEF Live, Served, Sweeping, Checking
  <2>2. link[f] # <<>>
    BY <1>0, <2>1 DEF RingsKnown
  <2>3. NothingAhead(f)
    BY <1>2 DEF NewAttended, NothingAhead
  <2>4. Held(f)
    BY <1>2, <2>1, HeldStep
  <2>5. Pos(f) + FrontOffset + 1 \notin DOMAIN newP'
    <3>1. CASE CheckStates(t)
      BY <1>0, <2>3, <3>1, CheckLists DEF NothingAhead
    <3>2. CASE Calmly(t)
      BY <2>3, <3>2 DEF NothingAhead, Calmly, listVars
    <3>3. CASE t \in Front /\ Moving(t)
      <4>1. CASE Link(t) \/ Deinit(t)
        BY <2>3, <4>1 DEF NothingAhead, Link, LinkFor, Deinit, listVars
      <4>2. CASE Extend(t) \/ Finish(t)
        <5>1. DOMAIN newP' = DOMAIN newP \cup (first' .. first - 1) /\ first' \in Int
          BY <1>0, <3>3, <4>2, GrownLeft
        <5>2. Pos(f) + FrontOffset + 1 \notin first' .. first - 1
          BY <1>0, <1>1, <2>2, <5>1
        <5> QED BY <2>3, <5>1, <5>2 DEF NothingAhead
      <4>3. CASE Advance(t)
        <5>1. DOMAIN newP' = DOMAIN newP \cup {Ahead(t)} /\ link[t] # <<>>
          BY <1>0, <3>3, <4>3, GrownAhead
        <5>2. t # f /\ pc[t] \in Live
          BY <1>2, <4>3 DEF Advance, AdvanceKeeping, Live, Sweeping
        <5>3. Pos(t) >= Pos(f) + Size \/ Pos(f) >= Pos(t) + Size
          BY <1>0, <2>1, <3>3, <5>2 DEF Apart
        <5>4. Pos(t) \in Int
          BY <1>0, <3>3, <5>1, PlaceListed
        <5>5. Pos(f) + FrontOffset + 1 # Ahead(t)
          BY <1>0, <1>1, <2>2, <5>3, <5>4 DEF Ahead
        <5> QED BY <2>3, <5>1, <5>5 DEF NothingAhead
      <4> QED BY <3>3, <4>1, <4>2, <4>3 DEF Moving
    <3> QED BY <1>0, <3>1, <3>2, <3>3, Sorts
  <2>6. \A s \in 0 .. Size - 1 : store'[f][s] \subseteq store[f][s]
    <3>1. CASE CheckStates(t)
      BY <2>1, <2>2, <3>1, NothingPut
    <3>2. CASE Calmly(t)
      BY <3>2 DEF Calmly, ringVars
    <3>3. CASE t \in Front /\ Moving(t)
      BY <1>0, <1>2, <3>3, MovingFacts
    <3> QED BY <1>0, <3>1, <3>2, <3>3, Sorts
  <2>7. \A d \in 0 .. FrontOffset : store'[f][SlotAt(f, d)] = {}
    BY <1>1, <2>2, <2>3, <2>6 DEF NothingAhead
  <2>8. /\ Pos(f)' = Pos(f) /\ \A d : SlotAt(f, d)' = SlotAt(f, d)
    BY <2>4 DEF Held
  <2> QED BY <2>5, <2>7, <2>8 DEF NothingAhead
<1>3. CASE f # t
  <2>1. pc[f] = "deinit"
    <3>1. \A L : L \cap Asleep = {} => (pc'[f] \in L <=> pc[f] \in L)
      BY <1>0, <1>3, OthersStay
    <3>2. pc'[f] \in {"deinit"} <=> pc[f] \in {"deinit"}
      BY <3>1, AwakeLabels
    <3> QED BY <3>2
  <2> QED BY <1>2, <1>3, <2>1
<1>4. CASE f = t /\ Calmly(t)
  BY <1>4 DEF Calmly
<1>5. CASE f = t /\ CheckStates(t)
  <2>1. pc'[t] \in Checking \cup {Checked(t)}
    BY <1>0, <1>5, CheckFacts
  <2> QED BY <1>5, <2>1 DEF Checked, Checking
<1>6. CASE f = t /\ Moving(t)
  <2>1. Finish(f)
    BY <1>0, <1>6 DEF Moving, Link, LinkFor, Extend, Advance, AdvanceKeeping, Deinit, Goto
  <2>2. pc[f] = "advance" /\ AtEnd(f)
    BY <2>1 DEF Finish
  <2>3. /\ DOMAIN newP' = DOMAIN newP \cup (first' .. first - 1) /\ first' \in Int
        /\ UNCHANGED ringVars
    BY <1>0, <2>1, GrownLeft
  <2>4. link[f] # <<>> /\ active[f] \in 0 .. Size - 1 /\ store[f][active[f]] = {}
    BY <1>0, <2>2 DEF RingsKnown, Live, Sweeping, BucketAttended, TypeOK, DataType
  <2>5. /\ \A n \in 0 .. FrontOffset : After(active[f], n) = SlotAt(f, n)
        /\ SlotAt(f, 0) = active[f]
    BY <2>4, RingSlots DEF SlotAt, SlotFrom
  <2>6. \A d \in 0 .. FrontOffset : store[f][SlotAt(f, d)] = {}
    <3> SUFFICES ASSUME NEW d \in 0 .. FrontOffset PROVE store[f][SlotAt(f, d)] = {}
      OBVIOUS
    <3>1. CASE d = 0
      BY <2>4, <2>5, <3>1
    <3>2. CASE d # 0
      <4>1. d \in 1 .. FrontOffset
        BY <3>2
      <4>2. store[f][After(active[f], d)] = {}
        BY <2>2, <4>1 DEF AtEnd
      <4> QED BY <2>5, <4>2
    <3> QED BY <3>1, <3>2
  <2>7. Pos(f) + FrontOffset + 1 \notin DOMAIN newP
    <3>1. link[f][After(active[f], FrontOffset)] + 1 \notin DOMAIN newP
      BY <1>0, <2>2 DEF AtEnd
    <3>2. FrontOffset \in 0 .. FrontOffset /\ FrontOffset \in Offsets
      BY <1>0 DEF Offsets
    <3>3. link[f][SlotAt(f, FrontOffset)] = Pos(f) + FrontOffset
      BY <1>0, <2>4, <3>2, PlaceListed
    <3> QED BY <2>5, <3>1, <3>2, <3>3
  <2>8. Pos(f) + FrontOffset + 1 \notin first' .. first - 1
    BY <1>0, <1>1, <2>3, <2>4
  <2>9. Pos(f)' = Pos(f) /\ (\A d : SlotAt(f, d)' = SlotAt(f, d)) /\ store' = store
    BY <2>3 DEF ringVars, Pos, SlotAt
  <2> QED BY <2>3, <2>6, <2>7, <2>8, <2>9 DEF NothingAhead
<1> QED BY <1>0, <1>3, <1>4, <1>5, <1>6, Sorts

LEMMA NewAttendedStep ==
  ASSUME SweepKnown, NewAttended, ListsWhole, NEW t \in Thread, Step(t)
  PROVE  NewAttended'
<1> SUFFICES ASSUME ~exit' PROVE NewAttended'
  BY DEF NewAttended
<1>0. TypeOK /\ setup \in Setups /\ setup' = setup
  BY DEF SweepKnown, ControlKnown, TypeOK, ControlType, Step
<1>1. Thread' = Thread /\ Front' = Front
  BY <1>0, SameThreads
<1>2. ~exit
  <2>1. exit => exit'
    BY <1>0, Moves DEF Ends
  <2> QED BY <2>1
<1>3. \A u \in Thread : pc'[u] = "popNew" => Sought(u)'
  BY <1>2, SoughtStep
<1>4. \A f \in Front : pc'[f] \in Looked => newP'[Pos(f)'] = {}
  BY <1>2, LookedStep
<1>5. \A f \in Front : pc'[f] = "deinit" => NothingAhead(f)'
  BY <1>2, AheadStep
<1> QED BY <1>1, <1>3, <1>4, <1>5 DEF NewAttended, Sought, NothingAhead

(* When a front advances, the buckets ahead come nearer.                   *)
LEMMA AdvanceShift ==
  ASSUME SweepKnown, ~exit, NEW f \in Front, Advance(f)
  PROVE  /\ \A d \in 1 .. FrontOffset : store'[f][SlotAt(f, d - 1)'] = store[f][SlotAt(f, d)]
         /\ store'[f][SlotAt(f, FrontOffset)'] = {}
         /\ store[f][SlotAt(f, 0)] = {}
<1>0. /\ TypeOK /\ RingsKnown /\ MarkingsKnown /\ BucketAttended
      /\ FrontOffset \in Nat /\ BackOffset \in Nat /\ Delay \in 0 .. BackOffset
  BY Bounds DEF SweepKnown, ControlKnown
<1>1. link[f] # <<>> /\ pc[f] = "advance"
  BY <1>0, GrownAhead DEF Advance, AdvanceKeeping
<1>2. /\ active[f] \in 0 .. Size - 1
      /\ \A d \in Offsets : SlotAt(f, d) \in 0 .. Size - 1
  BY <1>0, <1>1, PlaceListed
<1>3. /\ SlotAt(f, 0) = active[f] /\ \A d, e \in Offsets : SlotAt(f, d) = SlotAt(f, e) => d = e
  BY <1>2, RingSlots DEF SlotAt, SlotFrom
<1>4. /\ \A d \in Offsets : d # FrontOffset => SlotAt(f, d)' = SlotAt(f, d + 1)
      /\ SlotAt(f, FrontOffset)' = SlotAt(f, -BackOffset)
  BY <1>0, <1>1, RingAdvanced
<1>5. \A s \in 0 .. Size - 1 :
         store'[f][s] = IF Delay = 0 THEN store[f][s]
                        ELSE IF s = active[f] THEN samevalue[f]
                        ELSE IF s = SlotAt(f, -Delay) THEN {} ELSE store[f][s]
  BY <1>0, AdvanceStore
<1>6. store[f][active[f]] = {}
  BY <1>0, <1>1 DEF BucketAttended
<1>7. \A d \in Offsets : d < -Delay => store[f][SlotAt(f, d)] = {}
  BY <1>0, <1>1 DEF MarkingsKnown, RingPlaced, ContentsKnown
<1>8. -Delay \in Offsets /\ -BackOffset \in Offsets /\ 0 \in Offsets
  BY <1>0 DEF Offsets
<1>9. ASSUME NEW d \in 1 .. FrontOffset
      PROVE  store'[f][SlotAt(f, d - 1)'] = store[f][SlotAt(f, d)]
  <2>1. d \in Offsets /\ d - 1 \in Offsets /\ d - 1 # FrontOffset /\ d - 1 + 1 = d /\ d # 0 /\ d # -Delay
    BY <1>0 DEF Offsets
  <2>2. SlotAt(f, d - 1)' = SlotAt(f, d)
    BY <1>4, <2>1
  <2>3. SlotAt(f, d) # active[f] /\ SlotAt(f, d) # SlotAt(f, -Delay) /\ SlotAt(f, d) \in 0 .. Size - 1
    BY <1>2, <1>3, <1>8, <2>1
  <2> QED BY <1>5, <2>2, <2>3
<1>10. store'[f][SlotAt(f, -BackOffset)] = {}
  <2>1. CASE Delay = BackOffset /\ Delay = 0
    <3>1. -BackOffset = 0
      <4>1. \A b \in Int : b <= 0 /\ b >= 0 => -b <= 0 /\ -b >= 0 /\ -b \in Int
        OBVIOUS
      <4>2. BackOffset \in Int /\ BackOffset <= 0 /\ BackOffset >= 0
        BY <1>0, <2>1
      <4>3. -BackOffset <= 0 /\ -BackOffset >= 0 /\ -BackOffset \in Int
        BY <4>1, <4>2
      <4> QED BY <4>3
    <3> QED BY <1>2, <1>3, <1>5, <1>6, <1>8, <2>1, <3>1
  <2>2. CASE Delay = BackOffset /\ Delay # 0
    <3>1. -BackOffset # 0 /\ -Delay = -BackOffset
      BY <1>0, <2>2
    <3>2. SlotAt(f, -BackOffset) # active[f]
      BY <1>3, <1>8, <3>1
    <3> QED BY <1>2, <1>5, <1>8, <2>2, <3>1, <3>2
  <2>3. CASE Delay # BackOffset
    <3>1. -BackOffset < -Delay /\ -BackOffset # 0
      BY <1>0, <2>3
    <3>2. SlotAt(f, -BackOffset) # active[f] /\ store[f][SlotAt(f, -BackOffset)] = {}
      BY <1>3, <1>7, <1>8, <3>1
    <3> QED BY <1>2, <1>5, <1>8, <3>2
  <2> QED BY <2>1, <2>2, <2>3
<1> QED BY <1>3, <1>4, <1>6, <1>9, <1>10

(* A front that is under way after a step was so before, but for one that  *)
(* begins.                                                                 *)
LEMMA LivesOn ==
  ASSUME SweepKnown, ~exit, NEW t \in Thread, Step(t), NEW g \in Front, pc'[g] \in Live,
         ~(g = t /\ Link(g))
  PROVE  /\ pc[g] \in Live
         /\ Pos(g)' = Pos(g) \/ (g = t /\ Advance(g) /\ Pos(g)' = Pos(g) + 1)
         /\ fresh'[g] => fresh[g]
<1>0. /\ TypeOK /\ RingsKnown /\ EndsKnown /\ MarkingsKnown /\ g \in Thread
      /\ frontptr[t] \in Front
  BY Threads DEF SweepKnown, ControlKnown, TypeOK, ControlType
<1>1. CASE CheckStates(t) \/ Calmly(t)
  <2>1. Steady(g)
    BY <1>0, <1>1, SteadyChecks
  <2>2. fresh'[g] => fresh[g]
    <3>1. CASE Calmly(t)
      BY <3>1 DEF Calmly, ringVars
    <3>2. CASE CheckStates(t)
      <4>1. fresh' = fresh \/ PutsBehind(t)
        BY <1>0, <3>2, CheckEffects DEF Rests, TakesOut, TakesNew, Expands, Misses, Finds, Puts
      <4> QED BY <4>1 DEF PutsBehind
    <3> QED BY <1>1, <3>1, <3>2
  <2> QED BY <2>1, <2>2 DEF Steady, Live
<1>2. CASE t \in Front /\ Moving(t) /\ g # t
  <2>1. \A L : L \cap Asleep = {} => (pc'[g] \in L <=> pc[g] \in L)
    BY <1>0, <1>2, OthersStay
  <2>2. pc'[g] \in Live <=> pc[g] \in Live
    BY <2>1, AwakeLabels
  <2>3. Pos(g)' = Pos(g) /\ (fresh'[g] <=> fresh[g])
    BY <1>0, <1>2, MovingFacts
  <2> QED BY <2>2, <2>3
<1>3. CASE g = t /\ Moving(t)
  <2>1. CASE Extend(g) \/ Finish(g)
    <3>1. UNCHANGED ringVars /\ pc[g] \in {"extend", "advance"}
      BY <1>0, <2>1, GrownLeft DEF Extend, Finish
    <3> QED BY <3>1 DEF ringVars, Pos, Live, Sweeping
  <2>2. CASE Deinit(g)
    <3>1. UNCHANGED <<active, link, fresh>> /\ pc[g] = "deinit"
      BY <2>2 DEF Deinit
    <3> QED BY <3>1 DEF Pos, Live
  <2>3. CASE Advance(g)
    <3>1. link[g] # <<>> /\ fresh' = fresh /\ Pos(g)' = Pos(g) + 1 /\ pc[g] = "advance"
      BY <1>0, <2>3, GrownAhead, RingAdvanced DEF Advance, AdvanceKeeping
    <3> QED BY <1>3, <2>3, <3>1 DEF Live, Sweeping
  <2> QED BY <1>3, <2>1, <2>2, <2>3 DEF Moving
<1> QED BY <1>0, <1>1, <1>2, <1>3, Sorts

(* Nothing comes to where nothing is left to be done.                      *)
LEMMA BarrenStep ==
  ASSUME SweepKnown, ~exit, NEW t \in Thread, Step(t), NEW g \in Front, pc[g] \in Live,
         Barren(g), newP[Pos(g)] = {}
  PROVE  Barren(g)'
<1>0. /\ TypeOK /\ RingsKnown /\ EndsKnown /\ MarkingsKnown /\ g \in Thread
      /\ frontptr[t] \in Front /\ setup \in Setups /\ setup' = setup
      /\ (t \in Front => frontptr[t] = t)
      /\ FrontOffset \in Nat /\ BackOffset \in Nat
  BY Threads, Bounds DEF SweepKnown, ControlKnown, TypeOK, ControlType, Step
<1>1. Thread' = Thread
  BY <1>0, SameThreads
<1>2. link[g] # <<>>
  BY <1>0 DEF RingsKnown
<1>3. /\ active[g] \in 0 .. Size - 1 /\ SlotAt(g, 0) = active[g]
      /\ \A d \in 0 .. FrontOffset : SlotAt(g, d) \in 0 .. Size - 1
  <2>1. active[g] \in 0 .. Size - 1 /\ \A d \in Offsets : SlotAt(g, d) \in 0 .. Size - 1
    BY <1>0, <1>2, PlaceListed
  <2>2. \A d \in 0 .. FrontOffset : d \in Offsets
    BY <1>0 DEF Offsets
  <2> QED BY <2>1, <2>2, RingSlots DEF SlotAt, SlotFrom
<1>4. /\ \A d \in 0 .. FrontOffset : store[g][SlotAt(g, d)] = {}
      /\ \A u \in Thread : pc[u] \in Past => frontptr[u] # g
  BY DEF Barren
<1>5. \A u \in Thread : u # t => frontptr'[u] = frontptr[u] /\ (pc'[u] \in Past <=> pc[u] \in Past)
  <2> SUFFICES ASSUME NEW u \in Thread, u # t
               PROVE  frontptr'[u] = frontptr[u] /\ (pc'[u] \in Past <=> pc[u] \in Past)
    OBVIOUS
  <2>1. /\ \A L : L \cap Asleep = {} => (pc'[u] \in L <=> pc[u] \in L)
        /\ frontptr'[u] = frontptr[u]
    BY <1>0, OthersStay
  <2> QED BY <2>1, AwakeLabels
<1>6. ASSUME \A d \in 0 .. FrontOffset : store'[g][SlotAt(g, d)'] = {},
             pc'[t] \in Past => frontptr'[t] # g
      PROVE  Barren(g)'
  <2>1. \A u \in Thread : pc'[u] \in Past => frontptr'[u] # g
    BY <1>4, <1>5, <1>6
  <2> QED BY <1>1, <1>6, <2>1 DEF Barren
<1>7. CASE CheckStates(t)
  <2>1. frontptr' = frontptr /\ \A d : SlotAt(g, d)' = SlotAt(g, d)
    BY <1>0, <1>7, CheckFacts, CheckLists DEF idleVars, SlotAt
  <2>2. CASE frontptr[t] # g
    <3>1. \A s \in 0 .. Size - 1 : store'[g][s] = store[g][s]
      BY <1>0, <1>7, <2>2, CheckEffects DEF Rests, TakesOut, TakesNew, Expands, Misses, Finds,
              Puts, PutsBehind
    <3> QED BY <1>3, <1>4, <1>6, <2>1, <2>2, <3>1
  <2>3. CASE frontptr[t] = g
    <3>1. pc[t] \notin Past
      BY <1>4, <2>3
    <3>2. ~TakesOut(t)
      <4>1. store[g][active[g]] = {}
        BY <1>0, <1>3, <1>4
      <4> QED BY <2>3, <4>1 DEF TakesOut
    <3>3. ~TakesNew(t)
      BY <2>3 DEF TakesNew
    <3>4. Rests(t)
      BY <1>0, <1>7, <3>1, <3>2, <3>3, CheckEffects, AwakeLabels
         DEF Expands, Misses, Finds, Puts, PutsBehind, Goes, Past, Checking
    <3>5. store' = store /\ pc'[t] \notin Past
      BY <3>4 DEF Rests
    <3> QED BY <1>4, <1>6, <2>1, <3>5
  <2> QED BY <2>2, <2>3
<1>8. CASE Calmly(t)
  <2>1. store' = store /\ active' = active /\ pc'[t] \notin Past
    BY <1>8 DEF Calmly, ringVars, Past, Checking
  <2> QED BY <1>4, <1>6, <2>1 DEF SlotAt
<1>9. CASE t \in Front /\ Moving(t)
  <2>1. /\ pc'[t] \notin Past
        /\ g # t => store'[g] = store[g] /\ \A d : SlotAt(g, d)' = SlotAt(g, d)
    <3>1. /\ pc'[t] \in {"run", "mayAdvance", "advance", "deinit", "post", "handOver", "again"}
          /\ g # t => store'[g] = store[g] /\ \A d : SlotAt(g, d)' = SlotAt(g, d)
      BY <1>0, <1>9, MovingFacts
    <3> QED BY <3>1 DEF Past, Checking
  <2>2. CASE g # t
    BY <1>4, <1>6, <2>1, <2>2
  <2>3. CASE g = t
    <3>1. CASE Link(g)
      BY <3>1 DEF Link, LinkFor, Live, Sweeping, Checking
    <3>2. CASE Extend(g) \/ Finish(g)
      <4>1. UNCHANGED ringVars
        BY <1>0, <3>2, GrownLeft
      <4> QED BY <1>4, <1>6, <2>1, <4>1 DEF ringVars, SlotAt
    <3>3. CASE Advance(g)
      <4>1. \A d \in 1 .. FrontOffset : store'[g][SlotAt(g, d - 1)'] = {}
        <5>1. \A d \in 1 .. FrontOffset : d \in 0 .. FrontOffset
          OBVIOUS
        <5> QED BY <1>4, <3>3, <5>1, AdvanceShift
      <4>2. store'[g][SlotAt(g, FrontOffset)'] = {}
        BY <3>3, AdvanceShift
      <4>3. ASSUME NEW d \in 0 .. FrontOffset PROVE store'[g][SlotAt(g, d)'] = {}
        <5>1. CASE d = FrontOffset
          BY <4>2, <5>1
        <5>2. CASE d # FrontOffset
          <6>1. d + 1 \in 1 .. FrontOffset /\ d + 1 - 1 = d
            BY <1>0, <5>2
          <6>2. store'[g][SlotAt(g, d + 1 - 1)'] = {}
            BY <4>1, <6>1
          <6> QED BY <6>1, <6>2
        <5> QED BY <5>1, <5>2
      <4> QED BY <1>6, <2>1, <4>3
    <3>4. CASE Deinit(g)
      <4>1. store'[g] = EmptyRing /\ active' = active
        BY <1>0, <3>4 DEF Deinit, TypeOK, DataType
      <4>2. \A d \in 0 .. FrontOffset : store'[g][SlotAt(g, d)'] = {}
        BY <1>3, <4>1 DEF EmptyRing, SlotAt
      <4> QED BY <1>6, <2>1, <4>2
    <3> QED BY <1>9, <2>3, <3>1, <3>2, <3>3, <3>4 DEF Moving
  <2> QED BY <2>2, <2>3
<1> QED BY <1>0, <1>7, <1>8, <1>9, Sorts

(* Where a front begins.                                                   *)
LEMMA LinkFacts ==
  ASSUME SweepKnown, SweepKnown', BeginningKnown, ~exit, NEW f \in Front, f \in Thread,
         Step(f), Link(f)
  PROVE  /\ UNCHANGED <<listVars, store, samevalue>> /\ Pos(f)' = first + BackOffset
         /\ \A d \in Offsets : SlotAt(f, d)' = BackOffset + d
         /\ pc[f] = "link" /\ pc'[f] = "run"
         /\ (f = 0 /\ Opening) \/ (store[f] = EmptyRing /\ samevalue[f] = {})
         /\ \A t \in Thread : pc[t] \in Past => frontptr[t] # f
<1>0. /\ TypeOK /\ RingsKnown /\ MarkingsKnown /\ exit' = exit
      /\ link \in [Front -> [0 .. Size - 1 -> Int] \cup {<<>>}]
      /\ active \in [Front -> 0 .. Size - 1]
      /\ pc \in [Thread -> FrontLabel \cup HelperLabel]
  BY DEF SweepKnown, ControlKnown, TypeOK, ControlType, DataType, Link, LinkFor, endVars
<1>1. /\ UNCHANGED <<listVars, store, samevalue>> /\ pc[f] = "link" /\ pc'[f] = "run"
      /\ link' = [link EXCEPT ![f] = [i \in 0 .. Size - 1 |-> first + i]]
      /\ active' = [active EXCEPT ![f] = BackOffset]
  BY <1>0 DEF Link, LinkFor, Goto
<1>2. Pos(f)' = first + BackOffset /\ \A d \in Offsets : SlotAt(f, d)' = BackOffset + d
  BY <1>0, <1>1, RingLinked
<1>3. Vacated(f)
  BY <1>0, <1>1 DEF MarkingsKnown, Between
<1>4. ASSUME NEW t \in Thread, pc[t] \in Past PROVE frontptr[t] # f
  <2>1. pc[frontptr[t]] \in Served
    BY <1>4, WorkerFront, AwakeLabels
  <2> QED BY <1>1, <2>1 DEF Served, Sweeping, Checking
<1> QED BY <1>1, <1>2, <1>3, <1>4 DEF Vacated

LEMMA FreshStep ==
  ASSUME SweepKnown, SweepKnown', ListsWhole, NewAttended, BeginningKnown, FreshKnown,
         NEW t \in Thread, Step(t)
  PROVE  FreshKnown'
<1> SUFFICES ASSUME ~exit' PROVE FreshKnown'
  BY DEF FreshKnown
<1>0. /\ TypeOK /\ RingsKnown /\ EndsKnown /\ MarkingsKnown /\ Apart /\ Apart' /\ RingsKnown'
      /\ OpeningKnown
      /\ setup \in Setups /\ setup' = setup /\ frontptr[t] \in Front
      /\ DOMAIN newP \subseteq Int /\ first \in Int
      /\ newP \in [DOMAIN newP -> SUBSET Marking]
      /\ FrontOffset \in Nat /\ BackOffset \in Nat /\ Size = FrontOffset + BackOffset + 1
  BY Bounds DEF SweepKnown, ControlKnown, TypeOK, ControlType, DataType, Step
<1>1. Thread' = Thread /\ Front' = Front /\ Size' = Size /\ BackOffset' = BackOffset
      /\ Front \subseteq Thread
  BY <1>0, SameThreads, Threads
<1>2. ~exit
  <2>1. exit => exit'
    BY <1>0, Moves DEF Ends
  <2> QED BY <2>1
<1>p. \A h \in Front : pc[h] \in Live =>
        Pos(h) \in Int /\ link[h] # <<>> /\ Pos(h) \in DOMAIN newP /\ Pos(h) - BackOffset >= first
  BY <1>0, PlaceListed DEF RingsKnown, RingKnown
<1>a. \A g, h \in Front : g # h /\ pc[g] \in Live /\ pc[h] \in Live =>
        Pos(g) >= Pos(h) + Size \/ Pos(h) >= Pos(g) + Size
  BY <1>0, <1>2 DEF Apart
<1>3. \A f \in Front : pc[f] \in Live /\ fresh[f] =>
        /\ \A i \in DOMAIN newP : i < Pos(f) => newP[i] = {}
        /\ \A g \in Front \ {f} : pc[g] \in Live /\ Pos(g) < Pos(f) => Barren(g)
  BY <1>2 DEF FreshKnown
<1>4. ASSUME NEW f \in Front, f = t, Link(f)
      PROVE  /\ \A i \in DOMAIN newP' : i < Pos(f)' => newP'[i] = {}
             /\ \A g \in Front \ {f} : pc'[g] \in Live => ~(Pos(g)' < Pos(f)')
  <2>1. /\ first' = first /\ newP' = newP /\ Pos(f)' = first + BackOffset
        /\ pc[f] = "link" /\ pc'[f] = "run"
    BY <1>2, <1>4, LinkFacts DEF listVars
  <2>2. ASSUME NEW g \in Front, g # f, pc'[g] \in Live
        PROVE  pc[g] \in Live /\ Pos(g)' = Pos(g) /\ ~(Pos(g)' < Pos(f)')
    <3>1. pc[g] \in Live /\ Pos(g)' = Pos(g)
      BY <1>2, <1>4, <2>2, LivesOn
    <3> QED BY <1>0, <1>p, <2>1, <3>1
  <2>3. ASSUME NEW i \in DOMAIN newP, i < first + BackOffset, newP[i] # {} PROVE FALSE
    <3>1. PICK g \in Front : pc[g] \in Sweeping /\ back[g] > 0
      BY <1>2, <2>3 DEF BeginningKnown
    <3>2. Pos(g) + back[g] + Late(g) = first + 2 * BackOffset
      BY <1>2, <3>1 DEF BeginningKnown
    <3>3. g # f /\ pc[g] \in Live
      BY <2>1, <3>1 DEF Sweeping, Checking, Live
    <3>4. /\ Pos(g) \in Int /\ back[g] \in Int /\ Late(g) \in {0, 1} /\ Pos(g) - BackOffset >= first
      BY <1>0, <1>p, <3>3, PlacesTyped
    <3>5. Pos(g) < first + 2 * BackOffset
      BY <1>0, <3>1, <3>2, <3>4
    <3>6. pc'[g] \in Live /\ Pos(g)' = Pos(g)
      <4>1. \A L : L \cap Asleep = {} => (pc'[g] \in L <=> pc[g] \in L)
        BY <1>0, <1>1, <1>4, <3>3, OthersStay
      <4>2. pc'[g] \in Live
        BY <3>3, <4>1, AwakeLabels
      <4> QED BY <2>2, <3>3, <4>2
    <3>7. Pos(g)' >= Pos(f)' + Size \/ Pos(f)' >= Pos(g)' + Size
      <4>1. pc'[f] \in Live
        BY <2>1 DEF Live, Sweeping
      <4> QED BY <1>0, <1>1, <3>3, <3>6, <4>1 DEF Apart
    <3> QED BY <1>0, <2>1, <3>4, <3>5, <3>6, <3>7
  <2> QED BY <2>1, <2>2, <2>3
<1>5. ASSUME NEW f \in Front, pc'[f] \in Live, fresh'[f], ~(f = t /\ Link(f)),
             NEW i \in DOMAIN newP', i < Pos(f)'
      PROVE  newP'[i] = {}
  <2>1. /\ pc[f] \in Live /\ fresh[f]
        /\ Pos(f)' = Pos(f) \/ (f = t /\ Advance(f) /\ Pos(f)' = Pos(f) + 1)
    BY <1>2, <1>5, LivesOn
  <2>2. \A j \in DOMAIN newP : j < Pos(f) => newP[j] = {}
    BY <1>3, <2>1
  <2>3. CASE CheckStates(t)
    <3>1. DOMAIN newP' = DOMAIN newP
      BY <1>0, <2>3, CheckLists
    <3>2. Pos(f)' = Pos(f)
      BY <2>1, <2>3, CheckFacts, <1>0 DEF Advance, AdvanceKeeping, Checking
    <3>3. CASE ~PutsBehind(t)
      <4>1. newP'[i] \subseteq newP[i]
        BY <1>0, <2>3, <3>1, <3>3, <1>5, CheckEffects
           DEF Rests, TakesOut, TakesNew, Expands, Misses, Finds, Puts
      <4> QED BY <1>5, <2>2, <3>1, <3>2, <4>1
    <3>4. CASE PutsBehind(t)
      <4>1. PICK e \in Front : e = frontptr[t]
        BY <1>0
      <4>2. /\ pc[t] \in Firing
            /\ \A j \in DOMAIN newP : newP'[j] = IF j = Pos(e) + Offset(t)
                                                THEN newP[j] \cup {Reached(t)} ELSE newP[j]
            /\ fresh'[f] => (f = e => Reached(t) \in newP[Pos(f) + Offset(t)])
        BY <3>4, <4>1 DEF PutsBehind, Goes
      <4>3. Offset(t) \in Offsets /\ pc[t] \in Past
        BY <1>0, <4>2, Fired, AwakeLabels DEF MarkingsKnown
      <4>4. pc[e] \in Live
        BY <1>2, <4>1, <4>3, WorkerFront, AwakeLabels, ServedLive
      <4>5. CASE i # Pos(e) + Offset(t)
        BY <1>5, <2>2, <3>1, <3>2, <4>2, <4>5
      <4>6. CASE i = Pos(e) + Offset(t) /\ e = f
        <5>1. Reached(t) \in newP[i]
          BY <1>5, <4>2, <4>6
        <5> QED BY <1>5, <2>2, <3>1, <3>2, <5>1
      <4>7. CASE i = Pos(e) + Offset(t) /\ e # f
        <5>1. ~(Pos(e) < Pos(f))
          <6>1. ~Barren(e)
            BY <4>1, <4>3 DEF Barren
          <6> QED BY <1>3, <2>1, <4>4, <4>7, <6>1
        <5>2. Pos(e) >= Pos(f) + Size
          <6>1. Pos(e) \in Int /\ Pos(f) \in Int
            BY <1>p, <2>1, <4>4
          <6>2. Pos(e) >= Pos(f) + Size \/ Pos(f) >= Pos(e) + Size
            BY <1>a, <2>1, <4>4, <4>7
          <6> QED BY <1>0, <5>1, <6>1, <6>2
        <5>3. FALSE
          <6>1. Pos(e) \in Int /\ Pos(f) \in Int
            BY <1>p, <2>1, <4>4
          <6>2. Offset(t) \in -BackOffset .. FrontOffset
            BY <4>3 DEF Offsets
          <6>3. Pos(e) + Offset(t) < Pos(f)
            BY <1>5, <3>2, <4>7
          <6> QED BY <1>0, <5>2, <6>1, <6>2, <6>3
        <5> QED BY <5>3
      <4> QED BY <4>5, <4>6, <4>7
    <3> QED BY <3>3, <3>4
  <2>4. CASE Calmly(t)
    <3>1. newP' = newP
      BY <2>4 DEF Calmly, listVars
    <3>2. Pos(f)' = Pos(f)
      BY <2>4 DEF Calmly, ringVars, Pos
    <3> QED BY <1>5, <2>2, <3>1, <3>2
  <2>5. CASE t \in Front /\ Moving(t)
    <3>1. newP'[i] = {} \/ (i \in DOMAIN newP /\ newP'[i] = newP[i])
      BY <1>0, <2>5, <1>5, MovingFacts DEF Grown
    <3>2. CASE Pos(f)' = Pos(f)
      BY <1>5, <2>2, <3>1, <3>2
    <3>3. CASE f = t /\ Advance(f) /\ Pos(f)' = Pos(f) + 1
      <4>1. newP[Pos(f)] = {}
        BY <1>2, <3>3 DEF NewAttended, Looked, Advance, AdvanceKeeping
      <4>2. i \in DOMAIN newP => i < Pos(f) \/ i = Pos(f)
        BY <1>0, <1>p, <1>5, <2>1, <3>3
      <4> QED BY <2>2, <3>1, <4>1, <4>2
    <3> QED BY <2>1, <3>2, <3>3
  <2> QED BY <1>0, <2>3, <2>4, <2>5, Sorts
<1>6. ASSUME NEW f \in Front, pc'[f] \in Live, fresh'[f], ~(f = t /\ Link(f)),
             NEW g \in Front, g # f, pc'[g] \in Live, Pos(g)' < Pos(f)'
      PROVE  Barren(g)'
  <2>1. /\ pc[f] \in Live /\ fresh[f]
        /\ Pos(f)' = Pos(f) \/ (f = t /\ Advance(f) /\ Pos(f)' = Pos(f) + 1)
    BY <1>2, <1>6, LivesOn
  <2>2. CASE g = t /\ Link(g)
    <3>1. /\ store' = store /\ pc[g] = "link" /\ pc'[g] = "run"
          /\ \A d \in Offsets : SlotAt(g, d)' = BackOffset + d
          /\ (g = 0 /\ Opening) \/ (store[g] = EmptyRing /\ samevalue[g] = {})
          /\ \A u \in Thread : pc[u] \in Past => frontptr[u] # g
      BY <1>2, <2>2, LinkFacts
    <3>2. ~(g = 0 /\ Opening)
      <4>1. Opening /\ f # 0 => pc[f] \in Waiting \cup {"begin", "again", "mayBegin"}
        BY <1>0 DEF OpeningKnown
      <4> QED BY <1>6, <2>1, <4>1 DEF Waiting, Live, Sweeping, Checking
    <3>3. \A d \in 0 .. FrontOffset : store'[g][SlotAt(g, d)'] = {}
      <4> SUFFICES ASSUME NEW d \in 0 .. FrontOffset PROVE store'[g][SlotAt(g, d)'] = {}
        OBVIOUS
      <4>1. d \in Offsets /\ BackOffset + d \in 0 .. Size - 1
        BY <1>0 DEF Offsets
      <4> QED BY <3>1, <3>2, <4>1 DEF EmptyRing
    <3>4. \A u \in Thread : pc'[u] \in Past => frontptr'[u] # g
      <4> SUFFICES ASSUME NEW u \in Thread, pc'[u] \in Past PROVE frontptr'[u] # g
        OBVIOUS
      <4>1. u # t
        BY <2>2, <3>1 DEF Past, Checking
      <4>2. /\ \A L : L \cap Asleep = {} => (pc'[u] \in L <=> pc[u] \in L)
            /\ frontptr'[u] = frontptr[u]
        BY <1>0, <4>1, OthersStay
      <4>3. pc[u] \in Past
        BY <4>2, AwakeLabels
      <4> QED BY <3>1, <4>2, <4>3
    <3> QED BY <1>1, <3>3, <3>4 DEF Barren
  <2>3. CASE ~(g = t /\ Link(g))
    <3>1. /\ pc[g] \in Live
          /\ Pos(g)' = Pos(g) \/ (g = t /\ Advance(g) /\ Pos(g)' = Pos(g) + 1)
      BY <1>2, <1>6, <2>3, LivesOn
    <3>2. /\ Pos(g) \in Int /\ Pos(f) \in Int
          /\ Pos(g) >= Pos(f) + Size \/ Pos(f) >= Pos(g) + Size
      BY <1>a, <1>p, <1>6, <2>1, <3>1
    <3>3. Pos(g) < Pos(f)
      <4>1. Pos(g)' >= Pos(g) /\ Pos(f)' <= Pos(f) + 1 /\ Pos(g)' < Pos(f)'
            /\ Pos(g)' \in Int /\ Pos(f)' \in Int
        BY <1>6, <2>1, <3>1, <3>2
      <4>2. Pos(g) < Pos(f) + 1
        BY <3>2, <4>1
      <4> QED BY <1>0, <3>2, <4>2
    <3>4. Barren(g)
      BY <1>3, <1>6, <2>1, <3>1, <3>3
    <3>5. newP[Pos(g)] = {}
      BY <1>3, <1>p, <2>1, <3>1, <3>3
    <3> QED BY <1>2, <3>1, <3>4, <3>5, BarrenStep
  <2> QED BY <2>2, <2>3
<1>7. \A f \in Front : pc'[f] \in Live /\ fresh'[f] =>
        /\ \A i \in DOMAIN newP' : i < Pos(f)' => newP'[i] = {}
        /\ \A g \in Front \ {f} : pc'[g] \in Live /\ Pos(g)' < Pos(f)' => Barren(g)'
  BY <1>4, <1>5, <1>6
<1> QED BY <1>1, <1>7 DEF FreshKnown

(* The markings that a thread has been at with its entries.                *)
LEMMA TargetsFacts ==
  ASSUME NEW m \in Marking
  PROVE  /\ Targets(m, Len(Firelist[m])) = {} /\ (Firelist[m] = <<>> => Targets(m, 0) = {})
         /\ \A e \in 1 .. Len(Firelist[m]) :
              Targets(m, e - 1) \subseteq Targets(m, e) \cup {Successor(m, Firelist[m][e])}
<1>1. Firelist[m] \in Seq(Transition)
  BY SweepAssumption
<1>2. DOMAIN Firelist[m] = 1 .. Len(Firelist[m]) /\ Len(Firelist[m]) \in Nat
  BY <1>1
<1>3. Targets(m, Len(Firelist[m])) = {}
  BY <1>2 DEF Targets
<1>4. Firelist[m] = <<>> => Targets(m, 0) = {}
  BY <1>2 DEF Targets
<1>5. ASSUME NEW e \in 1 .. Len(Firelist[m]), NEW x \in Targets(m, e - 1), x \notin Targets(m, e)
      PROVE  x = Successor(m, Firelist[m][e])
  <2>1. PICK i \in DOMAIN Firelist[m] : i > e - 1 /\ x = Successor(m, Firelist[m][i])
    BY <1>5 DEF Targets
  <2>2. ~(i > e)
    BY <1>5, <2>1 DEF Targets
  <2>3. i = e
    BY <1>2, <2>1, <2>2
  <2> QED BY <2>1, <2>3
<1> QED BY <1>3, <1>4, <1>5

(* What is still to be visited.                                            *)
LEMMA PendingIs ==
  \A m : m \in Pending <=>
    \/ \E f \in Front, d \in 0 .. FrontOffset : m \in store[f][SlotAt(f, d)]
    \/ \E i \in DOMAIN newP : m \in newP[i]
    \/ \E u \in Thread : pc[u] \in Past /\ m = ns[u]
<1> DEFINE ahead  == {store[f][SlotAt(f, d)] : f \in Front, d \in 0 .. FrontOffset}
           behind == {newP[i] : i \in DOMAIN newP}
           taken  == {ns[t] : t \in {u \in Thread : pc[u] \in Past}}
<1>1. \A m : m \in Pending <=> (\E S \in ahead : m \in S) \/ (\E S \in behind : m \in S) \/ m \in taken
  <2>1. Pending = UNION (ahead \cup behind \cup {taken})
    BY DEF Pending
  <2> HIDE DEF ahead, behind, taken
  <2> QED BY <2>1
<1>2. \A m : (\E S \in ahead : m \in S) <=> \E f \in Front, d \in 0 .. FrontOffset : m \in store[f][SlotAt(f, d)]
  OBVIOUS
<1>3. \A m : (\E S \in behind : m \in S) <=> \E i \in DOMAIN newP : m \in newP[i]
  OBVIOUS
<1>4. \A m : m \in taken <=> \E u \in Thread : pc[u] \in Past /\ m = ns[u]
  OBVIOUS
<1> HIDE DEF ahead, behind, taken
<1> QED BY <1>1, <1>2, <1>3, <1>4

LEMMA PendingIsAgain ==
  ASSUME TypeOK, setup' = setup
  PROVE  \A m : m \in Pending' <=>
           \/ \E f \in Front, d \in 0 .. FrontOffset : m \in store'[f][SlotAt(f, d)']
           \/ \E i \in DOMAIN newP' : m \in newP'[i]
           \/ \E u \in Thread : pc'[u] \in Past /\ m = ns'[u]
<1>1. Thread' = Thread /\ Front' = Front
  BY SameThreads DEF TypeOK, ControlType
<1> DEFINE ahead  == {store'[f][SlotAt(f, d)'] : f \in Front, d \in 0 .. FrontOffset}
           behind == {newP'[i] : i \in DOMAIN newP'}
           taken  == {ns'[t] : t \in {u \in Thread : pc'[u] \in Past}}
<1>2. Pending' = UNION (ahead \cup behind \cup {taken})
  BY <1>1 DEF Pending
<1>3. \A m : (\E S \in ahead : m \in S) <=>
              \E f \in Front, d \in 0 .. FrontOffset : m \in store'[f][SlotAt(f, d)']
  OBVIOUS
<1>4. \A m : (\E S \in behind : m \in S) <=> \E i \in DOMAIN newP' : m \in newP'[i]
  OBVIOUS
<1>5. \A m : m \in taken <=> \E u \in Thread : pc'[u] \in Past /\ m = ns'[u]
  OBVIOUS
<1> HIDE DEF ahead, behind, taken
<1>6. \A m : m \in Pending' <=> (\E S \in ahead : m \in S) \/ (\E S \in behind : m \in S) \/ m \in taken
  BY <1>2
<1> QED BY <1>3, <1>4, <1>5, <1>6

(* How a step keeps what makes the answer right: W is what has been        *)
(* expanded after it.                                                      *)
LEMMA ExploredAgain ==
  ASSUME TypeOK, NEW t \in Thread, Step(t), NEW V \in SUBSET Marking, NEW W \in SUBSET Marking,
         Explored(V), V \subseteq W, Pending \subseteq W \cup Pending',
         W \subseteq V \/ /\ W \subseteq V \cup {ns[t]} /\ ns[t] \notin prop
                          /\ Targets(ns[t], 0) \subseteq W \cup Pending',
         pc'[t] \in Firing => ns'[t] \notin prop /\ Targets(ns'[t], entry'[t]) \subseteq W \cup Pending',
         \A i \in DOMAIN oldP' : oldP'[i] \subseteq V \cup Pending \cup W \cup Pending',
         \A f \in Front : samevalue'[f] \subseteq V \cup Pending \cup W \cup Pending',
         \A f \in Front, s \in 0 .. Size - 1 :
            store'[f][s] \subseteq V \cup Pending \cup W \cup Pending'
  PROVE  Explored(W)'
<1>0. setup \in Setups /\ setup' = setup /\ prop' = prop
  BY DEF TypeOK, ControlType, Step
<1>1. Thread' = Thread /\ Front' = Front /\ Initial' = Initial
  BY <1>0, SameThreads
<1>2. PICK K : K = W \cup Pending' /\ K = Kept(W)'
  BY DEF Kept
<1>3. Kept(V) \subseteq K /\ V \cup Pending \cup W \cup Pending' \subseteq K
  BY <1>2 DEF Kept
<1>4. /\ V \cap prop = {} /\ Initial \in Kept(V)
      /\ \A m \in V : Targets(m, 0) \subseteq Kept(V)
      /\ \A u \in Thread : pc[u] \in Firing =>
           ns[u] \notin prop /\ Targets(ns[u], entry[u]) \subseteq Kept(V)
  BY DEF Explored
<1>5. W \cap prop' = {}
  BY <1>0, <1>4
<1>6. \A m \in W : Targets(m, 0) \subseteq K
  BY <1>2, <1>3, <1>4
<1>7. ASSUME NEW u \in Thread, pc'[u] \in Firing
      PROVE  ns'[u] \notin prop' /\ Targets(ns'[u], entry'[u]) \subseteq K
  <2>1. CASE u = t
    BY <1>0, <1>2, <1>7, <2>1
  <2>2. CASE u # t
    <3>1. /\ \A L : L \cap Asleep = {} => (pc'[u] \in L <=> pc[u] \in L)
          /\ ns'[u] = ns[u] /\ entry'[u] = entry[u]
      BY <2>2, OthersStay
    <3>2. pc[u] \in Firing
      BY <1>7, <3>1, AwakeLabels
    <3> QED BY <1>0, <1>3, <1>4, <3>1, <3>2
  <2> QED BY <2>1, <2>2
<1>8. /\ \A i \in DOMAIN oldP' : oldP'[i] \subseteq K
      /\ \A f \in Front : /\ samevalue'[f] \subseteq K
                          /\ \A s \in 0 .. Size - 1 : store'[f][s] \subseteq K
  BY <1>3
<1>9. Initial' \in K
  BY <1>1, <1>3, <1>4
<1>10. Explored(W)' <=>
         /\ W \cap prop' = {}
         /\ Initial' \in K
         /\ \A m \in W : Targets(m, 0) \subseteq K
         /\ \A u \in Thread : pc'[u] \in Firing =>
              ns'[u] \notin prop' /\ Targets(ns'[u], entry'[u]) \subseteq K
         /\ \A i \in DOMAIN oldP' : oldP'[i] \subseteq K
         /\ \A f \in Front : /\ samevalue'[f] \subseteq K
                             /\ \A s \in 0 .. Size - 1 : store'[f][s] \subseteq K
  BY <1>1, <1>2 DEF Explored, Targets
<1> QED BY <1>5, <1>6, <1>7, <1>8, <1>9, <1>10

(* What is still to be visited, once a thread has been at its step.        *)
LEMMA PendingKept ==
  ASSUME TypeOK, NEW t \in Thread, Step(t), NEW W,
         DOMAIN newP \subseteq DOMAIN newP',
         \A i \in DOMAIN newP : newP[i] \subseteq newP'[i] \cup W \cup Pending',
         \A f \in Front, d \in 0 .. FrontOffset : \A m \in store[f][SlotAt(f, d)] :
            m \in Pending' \/ m \in W \/ \E e \in 0 .. FrontOffset : m \in store'[f][SlotAt(f, e)'],
         pc[t] \in Past => ns[t] \in W \cup Pending' \/ (pc'[t] \in Past /\ ns'[t] = ns[t])
  PROVE  Pending \subseteq W \cup Pending'
<1>0. setup' = setup
  BY DEF Step
<1> SUFFICES ASSUME NEW m \in Pending PROVE m \in W \cup Pending'
  OBVIOUS
<1>2. \/ \E f \in Front, d \in 0 .. FrontOffset : m \in store'[f][SlotAt(f, d)']
      \/ \E i \in DOMAIN newP' : m \in newP'[i]
      \/ \E u \in Thread : pc'[u] \in Past /\ m = ns'[u]
      => m \in Pending'
  BY <1>0, PendingIsAgain
<1>3. CASE \E f \in Front, d \in 0 .. FrontOffset : m \in store[f][SlotAt(f, d)]
  BY <1>2, <1>3
<1>4. CASE \E i \in DOMAIN newP : m \in newP[i]
  BY <1>2, <1>4
<1>5. CASE \E u \in Thread : pc[u] \in Past /\ m = ns[u]
  <2>1. PICK u \in Thread : pc[u] \in Past /\ m = ns[u]
    BY <1>5
  <2>2. CASE u = t
    BY <1>2, <2>1, <2>2
  <2>3. CASE u # t
    <3>1. /\ \A L : L \cap Asleep = {} => (pc'[u] \in L <=> pc[u] \in L)
          /\ ns'[u] = ns[u]
      BY <2>3, OthersStay
    <3>2. pc'[u] \in Past
      BY <2>1, <3>1, AwakeLabels
    <3> QED BY <1>2, <2>1, <3>1, <3>2
  <2> QED BY <2>2, <2>3
<1> QED BY <1>3, <1>4, <1>5, PendingIs

(* A step of checkStates: a marking passes from the buckets to the thread  *)
(* and from there, when all its transitions have been tried, to the ones   *)
(* that have been expanded.                                                *)
LEMMA LostChecks ==
  ASSUME SweepKnown, ~exit', NEW t \in Thread, Step(t), CheckStates(t),
         NEW V \in SUBSET Marking, Explored(V)
  PROVE  \E W \in SUBSET Marking : Explored(W)'
<1>0. /\ TypeOK /\ RingsKnown /\ MarkingsKnown /\ setup' = setup
      /\ frontptr[t] \in Front /\ ns[t] \in Marking
      /\ pc \in [Thread -> FrontLabel \cup HelperLabel]
      /\ (pc[t] \in Firing => entry[t] \in 1 .. Len(Firelist[ns[t]]))
      /\ FrontOffset \in Nat /\ BackOffset \in Nat
  BY Bounds DEF SweepKnown, ControlKnown, TypeOK, ControlType, DataType, Step
<1>1. /\ DOMAIN newP' = DOMAIN newP /\ DOMAIN oldP' = DOMAIN oldP /\ DOMAIN newP = DOMAIN oldP
      /\ \A g, d : SlotAt(g, d)' = SlotAt(g, d)
  <2>1. UNCHANGED active
    BY <1>0, CheckLists
  <2> QED BY <1>0, <2>1, CheckLists DEF SlotAt, TypeOK, DataType
<1>l. /\ Firing \subseteq Past /\ "loop" \notin Past /\ "pop" \notin Past /\ "popNew" \notin Past
      /\ "keep" \in Past /\ "keepOld" \in Past /\ "keep" \notin Firing /\ "keepOld" \notin Firing
      /\ "solved" \in Past /\ "solved" \notin Firing /\ "lookOld" \in Firing /\ "loop" \notin Firing
  BY DEF Past, Firing, Checking
<1>2. /\ \A i \in DOMAIN oldP : oldP[i] \subseteq V \cup Pending
      /\ \A f \in Front : /\ samevalue[f] \subseteq V \cup Pending
                          /\ \A s \in 0 .. Size - 1 : store[f][s] \subseteq V \cup Pending
      /\ pc[t] \in Firing => ns[t] \notin prop /\ Targets(ns[t], entry[t]) \subseteq V \cup Pending
  BY DEF Explored, Kept
<1>3. \A m : m \in Pending' <=>
        \/ \E f \in Front, d \in 0 .. FrontOffset : m \in store'[f][SlotAt(f, d)]
        \/ \E i \in DOMAIN newP : m \in newP'[i]
        \/ \E u \in Thread : pc'[u] \in Past /\ m = ns'[u]
  BY <1>0, <1>1, PendingIsAgain
<1>4. CASE Rests(t)
  <2>1. pc[t] # "solved"
    <3>1. pc[t] = "solved" => exit'
      BY DEF CheckStates, Loop, Pop, PopNew, Keep, KeepOld, LookOld, LookNew, LookSame,
             LookStore, Look, Insert, InsertNew, Solved
    <3> QED BY <3>1
  <2>2. /\ UNCHANGED <<newP, oldP, store, samevalue, ns, entry>>
        /\ pc[t] \notin Past /\ pc'[t] \notin Past
    BY <1>4, <1>l, <2>1 DEF Rests
  <2>3. Pending \subseteq V \cup Pending'
    BY <1>0, <1>1, <2>2, PendingKept
  <2> QED BY <1>0, <1>2, <1>l, <2>2, <2>3, ExploredAgain
<1>5. CASE TakesOut(t)
  <2>1. /\ pc[t] \notin Past /\ pc'[t] = "keep" /\ UNCHANGED <<newP, oldP, samevalue>>
        /\ \A g \in Front, s \in 0 .. Size - 1 :
              store'[g][s] = IF g = frontptr[t] /\ s = active[g] THEN store[g][s] \ {ns'[t]}
                             ELSE store[g][s]
    BY <1>5, <1>l DEF TakesOut
  <2>2. ns'[t] \in Pending'
    BY <1>3, <1>l, <2>1
  <2>3. \A f \in Front, d \in 0 .. FrontOffset : SlotAt(f, d) \in 0 .. Size - 1
    <3>1. \A f \in Front : active[f] \in 0 .. Size - 1
      BY <1>0 DEF TypeOK, DataType
    <3>2. \A d \in 0 .. FrontOffset : d \in Offsets
      BY <1>0 DEF Offsets
    <3> QED BY <3>1, <3>2, RingSlots DEF SlotAt, SlotFrom
  <2>4. \A f \in Front, d \in 0 .. FrontOffset : \A m \in store[f][SlotAt(f, d)] :
           m \in Pending' \/ m \in V \/ \E e \in 0 .. FrontOffset : m \in store'[f][SlotAt(f, e)']
    <3> SUFFICES ASSUME NEW f \in Front, NEW d \in 0 .. FrontOffset, NEW m \in store[f][SlotAt(f, d)]
                 PROVE  m \in Pending' \/ m \in store'[f][SlotAt(f, d)']
      OBVIOUS
    <3>1. m \in store'[f][SlotAt(f, d)] \/ m = ns'[t]
      <4>1. PICK s \in 0 .. Size - 1 : s = SlotAt(f, d)
        BY <2>3
      <4>2. m \in store'[f][s] \/ m = ns'[t]
        BY <2>1, <4>1
      <4> QED BY <4>1, <4>2
    <3> QED BY <1>1, <2>2, <3>1
  <2>5. Pending \subseteq V \cup Pending'
    BY <1>0, <1>1, <2>1, <2>4, PendingKept
  <2>6. \A f \in Front, s \in 0 .. Size - 1 :
           store'[f][s] \subseteq V \cup Pending \cup V \cup Pending'
    <3>1. \A f \in Front, s \in 0 .. Size - 1 : store'[f][s] \subseteq store[f][s]
      BY <2>1
    <3> QED BY <1>2, <3>1
  <2>7. /\ \A i \in DOMAIN oldP' : oldP'[i] \subseteq V \cup Pending \cup V \cup Pending'
        /\ \A f \in Front : samevalue'[f] \subseteq V \cup Pending \cup V \cup Pending'
        /\ pc'[t] \notin Firing
    BY <1>2, <1>l, <2>1
  <2> QED BY <1>0, <2>5, <2>6, <2>7, ExploredAgain
<1>6. CASE TakesNew(t)
  <2>1. /\ pc[t] \notin Past /\ pc'[t] = "keepOld" /\ UNCHANGED <<oldP, store, samevalue>>
        /\ \A i \in DOMAIN newP : newP'[i] = IF i = Pos(frontptr[t]) THEN newP[i] \ {ns'[t]}
                                             ELSE newP[i]
    BY <1>6, <1>l DEF TakesNew
  <2>2. ns'[t] \in Pending'
    BY <1>3, <1>l, <2>1
  <2>3. \A i \in DOMAIN newP : newP[i] \subseteq newP'[i] \cup V \cup Pending'
    BY <2>1, <2>2
  <2>4. \A f \in Front, d \in 0 .. FrontOffset : \A m \in store[f][SlotAt(f, d)] :
           m \in Pending' \/ m \in V \/ \E e \in 0 .. FrontOffset : m \in store'[f][SlotAt(f, e)']
    BY <1>1, <2>1
  <2>5. Pending \subseteq V \cup Pending'
    BY <1>0, <1>1, <2>1, <2>3, <2>4, PendingKept
  <2>6. /\ \A i \in DOMAIN oldP' : oldP'[i] \subseteq V \cup Pending \cup V \cup Pending'
        /\ \A f \in Front : samevalue'[f] \subseteq V \cup Pending \cup V \cup Pending'
        /\ pc'[t] \notin Firing
    BY <1>2, <1>l, <2>1
  <2>7. \A f \in Front, s \in 0 .. Size - 1 :
           store'[f][s] \subseteq V \cup Pending \cup V \cup Pending'
    BY <1>2, <2>1
  <2> QED BY <1>0, <2>5, <2>6, <2>7, ExploredAgain
<1>7. CASE Expands(t)
  <2>1. /\ pc[t] \in Past /\ UNCHANGED <<newP, store, ns>>
        /\ entry'[t] = Len(Firelist[ns[t]])
        /\ pc'[t] = IF ns[t] \in prop THEN "solved"
                    ELSE IF Firelist[ns[t]] = <<>> THEN "loop" ELSE "lookOld"
        /\ \A g \in Front : samevalue'[g] \subseteq samevalue[g] \cup {ns[t]}
        /\ \A i \in DOMAIN oldP : oldP'[i] \subseteq oldP[i] \cup {ns[t]}
    BY <1>7, <1>l DEF Expands
  <2>2. PICK W \in SUBSET Marking :
          W = IF ns[t] \notin prop /\ Firelist[ns[t]] = <<>> THEN V \cup {ns[t]} ELSE V
    BY <1>0
  <2>3. ns[t] \in W \/ (pc'[t] \in Past /\ ns'[t] = ns[t])
    BY <1>l, <2>1, <2>2
  <2>4. ns[t] \in W \cup Pending'
    BY <1>3, <2>3
  <2>5. \A f \in Front, d \in 0 .. FrontOffset : \A m \in store[f][SlotAt(f, d)] :
           m \in Pending' \/ m \in W \/ \E e \in 0 .. FrontOffset : m \in store'[f][SlotAt(f, e)']
    BY <1>1, <2>1
  <2>6. Pending \subseteq W \cup Pending'
    BY <1>0, <1>1, <2>1, <2>4, <2>5, PendingKept
  <2>7. W \subseteq V \/ (W \subseteq V \cup {ns[t]} /\ ns[t] \notin prop /\ Targets(ns[t], 0) = {})
    BY <1>0, <2>2, TargetsFacts
  <2>8. pc'[t] \in Firing => ns'[t] \notin prop /\ Targets(ns'[t], entry'[t]) = {}
    BY <1>0, <1>l, <2>1, TargetsFacts
  <2>9. /\ \A i \in DOMAIN oldP' : oldP'[i] \subseteq V \cup Pending \cup W \cup Pending'
        /\ \A f \in Front : samevalue'[f] \subseteq V \cup Pending \cup W \cup Pending'
        /\ \A f \in Front, s \in 0 .. Size - 1 :
              store'[f][s] \subseteq V \cup Pending \cup W \cup Pending'
    BY <1>1, <1>2, <2>1, <2>4
  <2>10. V \subseteq W
    BY <2>2
  <2> QED BY <1>0, <2>6, <2>7, <2>8, <2>9, <2>10, ExploredAgain
<1>8. CASE Misses(t)
  <2>1. /\ UNCHANGED <<newP, oldP, store, samevalue, ns, entry>>
        /\ pc[t] \in Past /\ pc'[t] \in Past /\ pc[t] \in Firing
    BY <1>8, <1>l DEF Misses
  <2>2. Pending \subseteq V \cup Pending'
    BY <1>0, <1>1, <2>1, PendingKept
  <2>3. ns'[t] \notin prop /\ Targets(ns'[t], entry'[t]) \subseteq V \cup Pending'
    BY <1>2, <2>1, <2>2
  <2> QED BY <1>0, <1>2, <2>1, <2>2, <2>3, ExploredAgain
<1>9. ASSUME Goes(t), DOMAIN newP' = DOMAIN newP,
             \A i \in DOMAIN newP : newP[i] \subseteq newP'[i],
             \A g \in Front, s \in 0 .. Size - 1 :
                store[g][s] \subseteq store'[g][s] /\ store'[g][s] \subseteq store[g][s] \cup {Reached(t)},
             Reached(t) \in V \cup Pending \cup Pending'
      PROVE  \E W \in SUBSET Marking : Explored(W)'
  <2>1. /\ pc[t] \in Firing /\ UNCHANGED <<oldP, samevalue, ns>>
        /\ entry'[t] = entry[t] - 1 /\ pc'[t] = IF entry[t] = 1 THEN "loop" ELSE "lookOld"
    BY <1>9 DEF Goes
  <2>2. /\ ns[t] \notin prop /\ Targets(ns[t], entry[t]) \subseteq V \cup Pending
        /\ entry[t] \in 1 .. Len(Firelist[ns[t]])
    BY <1>0, <1>2, <2>1
  <2>3. PICK W \in SUBSET Marking : W = IF entry[t] = 1 THEN V \cup {ns[t]} ELSE V
    BY <1>0
  <2>4. ns[t] \in W \/ (pc'[t] \in Past /\ ns'[t] = ns[t])
    BY <1>l, <2>1, <2>3
  <2>s. \A f \in Front, d \in 0 .. FrontOffset : SlotAt(f, d) \in 0 .. Size - 1
    <3>1. \A f \in Front : active[f] \in 0 .. Size - 1
      BY <1>0 DEF TypeOK, DataType
    <3>2. \A d \in 0 .. FrontOffset : d \in Offsets
      BY <1>0 DEF Offsets
    <3> QED BY <3>1, <3>2, RingSlots DEF SlotAt, SlotFrom
  <2>5. \A f \in Front, d \in 0 .. FrontOffset : \A m \in store[f][SlotAt(f, d)] :
           m \in Pending' \/ m \in W \/ \E e \in 0 .. FrontOffset : m \in store'[f][SlotAt(f, e)']
    BY <1>1, <1>9, <2>s
  <2>6. Pending \subseteq W \cup Pending'
    <3>1. \A i \in DOMAIN newP : newP[i] \subseteq newP'[i] \cup W \cup Pending'
      BY <1>9
    <3>2. pc[t] \in Past => ns[t] \in W \cup Pending' \/ (pc'[t] \in Past /\ ns'[t] = ns[t])
      BY <2>4
    <3> QED BY <1>0, <1>9, <2>5, <3>1, <3>2, PendingKept
  <2>7. V \subseteq W
    BY <2>3
  <2>8. Targets(ns[t], entry[t] - 1) \subseteq W \cup Pending'
    <3>1. Targets(ns[t], entry[t] - 1) \subseteq
            Targets(ns[t], entry[t]) \cup {Successor(ns[t], Firelist[ns[t]][entry[t]])}
      BY <1>0, <2>2, TargetsFacts
    <3>2. Reached(t) \in W \cup Pending'
      BY <1>9, <2>6, <2>7
    <3> QED BY <2>2, <2>6, <2>7, <3>1, <3>2 DEF Reached
  <2>9. W \subseteq V \/ (W \subseteq V \cup {ns[t]} /\ ns[t] \notin prop
                          /\ Targets(ns[t], 0) \subseteq W \cup Pending')
    <3>1. CASE entry[t] = 1
      <4>1. entry[t] - 1 = 0
        BY <3>1
      <4> QED BY <2>2, <2>3, <2>8, <4>1
    <3>2. CASE entry[t] # 1
      BY <2>3, <3>2
    <3> QED BY <3>1, <3>2
  <2>10. pc'[t] \in Firing => ns'[t] \notin prop /\ Targets(ns'[t], entry'[t]) \subseteq W \cup Pending'
    BY <2>1, <2>2, <2>8
  <2>11. /\ \A i \in DOMAIN oldP' : oldP'[i] \subseteq V \cup Pending \cup W \cup Pending'
         /\ \A f \in Front : samevalue'[f] \subseteq V \cup Pending \cup W \cup Pending'
         /\ \A f \in Front, s \in 0 .. Size - 1 :
              store'[f][s] \subseteq V \cup Pending \cup W \cup Pending'
    BY <1>2, <1>9, <2>1
  <2> QED BY <1>0, <2>6, <2>7, <2>9, <2>10, <2>11, ExploredAgain
<1>p. \A m : m \in Pending <=>
        \/ \E f \in Front, d \in 0 .. FrontOffset : m \in store[f][SlotAt(f, d)]
        \/ \E i \in DOMAIN newP : m \in newP[i]
        \/ \E u \in Thread : pc[u] \in Past /\ m = ns[u]
  BY PendingIs
<1>10. CASE Finds(t)
  <2>1. /\ Goes(t) /\ UNCHANGED <<newP, store>>
        /\ \/ \E i \in DOMAIN newP : Reached(t) \in newP[i] \cup oldP[i]
           \/ Reached(t) \in samevalue[frontptr[t]]
           \/ \E s \in 0 .. Size - 1 : Reached(t) \in store[frontptr[t]][s]
    BY <1>10 DEF Finds
  <2>2. Reached(t) \in V \cup Pending
    BY <1>0, <1>1, <1>2, <1>p, <2>1
  <2> QED BY <1>9, <2>1, <2>2
<1>11. CASE Puts(t)
  <2>1. /\ Goes(t) /\ UNCHANGED newP /\ Offset(t) \in 0 .. FrontOffset
        /\ \A g \in Front, s \in 0 .. Size - 1 :
              store'[g][s] = IF g = frontptr[t] /\ s = SlotAt(g, Offset(t))
                             THEN store[g][s] \cup {Reached(t)} ELSE store[g][s]
    BY <1>11 DEF Puts
  <2>2. SlotAt(frontptr[t], Offset(t)) \in 0 .. Size - 1
    <3>1. active[frontptr[t]] \in 0 .. Size - 1
      BY <1>0 DEF TypeOK, DataType
    <3>2. Offset(t) \in Offsets
      BY <1>0, <2>1 DEF Offsets
    <3> QED BY <3>1, <3>2, RingSlots DEF SlotAt, SlotFrom
  <2>3. Reached(t) \in store'[frontptr[t]][SlotAt(frontptr[t], Offset(t))]
    BY <1>0, <2>1, <2>2
  <2>4. Reached(t) \in Pending'
    BY <1>0, <1>3, <2>1, <2>3
  <2> QED BY <1>9, <2>1, <2>4
<1>12. CASE PutsBehind(t)
  <2>1. /\ Goes(t) /\ UNCHANGED store /\ pc[t] \in Firing
        /\ \A i \in DOMAIN newP : newP'[i] = IF i = Pos(frontptr[t]) + Offset(t)
                                             THEN newP[i] \cup {Reached(t)} ELSE newP[i]
    BY <1>12 DEF PutsBehind, Goes
  <2>2. Pos(frontptr[t]) + Offset(t) \in DOMAIN newP
    BY <1>0, <2>1, Fired DEF MarkingsKnown
  <2>3. Reached(t) \in Pending'
    BY <1>3, <2>1, <2>2
  <2> QED BY <1>1, <1>9, <2>1, <2>3
<1> QED BY <1>0, <1>4, <1>5, <1>6, <1>7, <1>8, <1>10, <1>11, <1>12, CheckEffects

(* A front that moves takes its markings along.                            *)
LEMMA LostMoving ==
  ASSUME SweepKnown, SweepKnown', NewAttended, BeginningKnown, ~exit',
         NEW t \in Thread, Step(t), t \in Front, Moving(t),
         NEW V \in SUBSET Marking, Explored(V), ~exit
  PROVE  Explored(V)'
<1>0. /\ TypeOK /\ RingsKnown /\ MarkingsKnown /\ OpeningKnown /\ DOMAIN newP = DOMAIN oldP
      /\ DOMAIN newP' = DOMAIN oldP' /\ setup' = setup /\ setup \in Setups
      /\ FrontOffset \in Nat /\ BackOffset \in Nat /\ Size = FrontOffset + BackOffset + 1
      /\ active \in [Front -> 0 .. Size - 1]
  BY Bounds DEF SweepKnown, ControlKnown, TypeOK, ControlType, DataType, Step
<1>o. /\ \A d \in 0 .. FrontOffset : d \in Offsets
      /\ \A g \in Front, d \in Offsets : SlotAt(g, d) \in 0 .. Size - 1
  <2>1. \A d \in 0 .. FrontOffset : d \in Offsets
    BY <1>0 DEF Offsets
  <2> QED BY <1>0, <2>1, RingSlots DEF SlotAt, SlotFrom
<1>1. /\ Grown /\ Stored
      /\ pc[t] \in {"link", "extend", "advance", "deinit"}
      /\ pc'[t] \in {"run", "mayAdvance", "advance", "deinit", "post", "handOver", "again"}
      /\ \A g \in Front : g # t => store'[g] = store[g] /\ \A d : SlotAt(g, d)' = SlotAt(g, d)
  BY <1>0, MovingFacts
<1>2. pc[t] \notin Past /\ pc'[t] \notin Firing
  BY <1>1 DEF Past, Firing, Checking
<1>3. /\ \A i \in DOMAIN oldP : oldP[i] \subseteq V \cup Pending
      /\ \A f \in Front : /\ samevalue[f] \subseteq V \cup Pending
                          /\ \A s \in 0 .. Size - 1 : store[f][s] \subseteq V \cup Pending
  BY DEF Explored, Kept
<1>4. /\ DOMAIN newP \subseteq DOMAIN newP'
      /\ \A i \in DOMAIN newP : newP[i] \subseteq newP'[i] \cup V \cup Pending'
  BY <1>1 DEF Grown
<1>5. \A d \in 0 .. FrontOffset : \A m \in store[t][SlotAt(t, d)] :
         \E e \in 0 .. FrontOffset : m \in store'[t][SlotAt(t, e)']
  <2>1. CASE Link(t)
    <3>1. /\ store' = store /\ \A d \in Offsets : SlotAt(t, d)' = BackOffset + d
          /\ (t = 0 /\ Opening) \/ store[t] = EmptyRing
      BY <2>1, LinkFacts
    <3>2. CASE store[t] = EmptyRing
      <4>1. \A d \in 0 .. FrontOffset : store[t][SlotAt(t, d)] = {}
        BY <1>o, <3>2 DEF EmptyRing
      <4> QED BY <4>1
    <3>3. CASE t = 0 /\ Opening
      <4>1. store[t] = [EmptyRing EXCEPT ![BackOffset] = {Initial}]
        BY <1>0, <3>3 DEF OpeningKnown
      <4>2. \A s \in 0 .. Size - 1 : store[t][s] \subseteq {Initial}
        BY <4>1 DEF EmptyRing
      <4>3. 0 \in 0 .. FrontOffset /\ 0 \in Offsets /\ BackOffset + 0 = BackOffset
            /\ BackOffset \in 0 .. Size - 1
        BY <1>0 DEF Offsets
      <4>4. store'[t][SlotAt(t, 0)'] = {Initial}
        BY <3>1, <4>1, <4>3 DEF EmptyRing
      <4> QED BY <1>o, <4>2, <4>3, <4>4
    <3> QED BY <3>1, <3>2, <3>3
  <2>2. CASE Extend(t) \/ Finish(t)
    <3>1. UNCHANGED ringVars
      BY <1>0, <2>2, GrownLeft
    <3> QED BY <3>1 DEF ringVars, SlotAt
  <2>3. CASE Advance(t)
    <3>1. /\ \A d \in 1 .. FrontOffset : store'[t][SlotAt(t, d - 1)'] = store[t][SlotAt(t, d)]
          /\ store[t][SlotAt(t, 0)] = {}
      BY <2>3, AdvanceShift
    <3> SUFFICES ASSUME NEW d \in 0 .. FrontOffset, NEW m \in store[t][SlotAt(t, d)]
                 PROVE  \E e \in 0 .. FrontOffset : m \in store'[t][SlotAt(t, e)']
      OBVIOUS
    <3>2. d # 0
      BY <3>1
    <3>3. d \in 1 .. FrontOffset
      BY <1>0, <3>2
    <3>4. PICK e \in 0 .. FrontOffset : e = d - 1
      BY <1>0, <3>3
    <3>5. m \in store'[t][SlotAt(t, d - 1)']
      BY <3>1, <3>3
    <3>6. SlotAt(t, e)' = SlotAt(t, d - 1)'
      BY <3>4
    <3> QED BY <3>5, <3>6
  <2>4. CASE Deinit(t)
    <3>1. \A d \in 0 .. FrontOffset : store[t][SlotAt(t, d)] = {}
      BY <2>4 DEF NewAttended, Deinit
    <3> QED BY <3>1
  <2> QED BY <2>1, <2>2, <2>3, <2>4 DEF Moving
<1>6. \A f \in Front, d \in 0 .. FrontOffset : \A m \in store[f][SlotAt(f, d)] :
         m \in Pending' \/ m \in V \/ \E e \in 0 .. FrontOffset : m \in store'[f][SlotAt(f, e)']
  <2> SUFFICES ASSUME NEW f \in Front, NEW d \in 0 .. FrontOffset, NEW m \in store[f][SlotAt(f, d)]
               PROVE  \E e \in 0 .. FrontOffset : m \in store'[f][SlotAt(f, e)']
    OBVIOUS
  <2>1. CASE f = t
    BY <1>5, <2>1
  <2>2. CASE f # t
    BY <1>1, <2>2
  <2> QED BY <2>1, <2>2
<1>7. Pending \subseteq V \cup Pending'
  BY <1>0, <1>2, <1>4, <1>6, PendingKept
<1>8. \A i \in DOMAIN oldP' : oldP'[i] \subseteq V \cup Pending \cup V \cup Pending'
  BY <1>0, <1>1, <1>3 DEF Grown
<1>9. /\ \A f \in Front : samevalue'[f] \subseteq V \cup Pending \cup V \cup Pending'
      /\ \A f \in Front, s \in 0 .. Size - 1 :
            store'[f][s] \subseteq V \cup Pending \cup V \cup Pending'
  <2>1. \A f \in Front : /\ samevalue'[f] \subseteq samevalue[f]
                         /\ \A s \in 0 .. Size - 1 : store'[f][s] \subseteq store[f][s] \cup samevalue[f]
    BY <1>1 DEF Stored
  <2> QED BY <1>3, <2>1
<1> QED BY <1>0, <1>2, <1>7, <1>8, <1>9, ExploredAgain

LEMMA LostStep ==
  ASSUME SweepKnown, SweepKnown', NewAttended, BeginningKnown, NothingLost,
         NEW t \in Thread, Step(t)
  PROVE  NothingLost'
<1> SUFFICES ASSUME ~exit' PROVE \E W \in SUBSET Marking : Explored(W)'
  BY DEF NothingLost
<1>0. TypeOK /\ EndsKnown
  BY DEF SweepKnown, ControlKnown
<1>2. ~exit
  <2>1. exit => exit'
    BY <1>0, Moves DEF Ends
  <2> QED BY <2>1
<1>3. PICK V \in SUBSET Marking : Explored(V)
  BY <1>2 DEF NothingLost
<1>4. CASE CheckStates(t)
  BY <1>3, <1>4, LostChecks
<1>5. CASE t \in Front /\ Moving(t)
  BY <1>2, <1>3, <1>5, LostMoving
<1>6. CASE Calmly(t)
  <2>1. /\ UNCHANGED <<newP, oldP, store, samevalue, active>>
        /\ pc[t] \notin Past /\ pc'[t] \notin Past /\ pc'[t] \notin Firing
    BY <1>6 DEF Calmly, listVars, ringVars, Past, Firing, Checking
  <2>2. \A g, d : SlotAt(g, d)' = SlotAt(g, d)
    BY <2>1 DEF SlotAt
  <2>3. Pending \subseteq V \cup Pending'
    BY <1>0, <2>1, <2>2, PendingKept
  <2>4. /\ \A i \in DOMAIN oldP' : oldP'[i] \subseteq V \cup Pending \cup V \cup Pending'
        /\ \A f \in Front : samevalue'[f] \subseteq V \cup Pending \cup V \cup Pending'
        /\ \A f \in Front, s \in 0 .. Size - 1 :
              store'[f][s] \subseteq V \cup Pending \cup V \cup Pending'
    BY <1>3, <2>1 DEF Explored, Kept
  <2>5. Explored(V)'
    BY <1>0, <1>3, <2>1, <2>3, <2>4, ExploredAgain
  <2> QED BY <1>3, <2>5
<1> QED BY <1>0, <1>4, <1>5, <1>6, Sorts

(* The front that ends the search: nothing is left to be visited.          *)
LEMMA NothingLeft ==
  ASSUME SweepKnown, ~exit, FreshKnown, ListsWhole, NewAttended,
         NEW f \in Front, f \in Thread, pc[f] = "deinit", fresh[f]
  PROVE  Pending = {}
<1>0. /\ TypeOK /\ RingsKnown /\ MarkingsKnown /\ EndsKnown /\ OpeningKnown /\ HelpersKnown
      /\ setup \in Setups /\ DOMAIN newP = DOMAIN oldP /\ DOMAIN newP \subseteq Int /\ first \in Int
      /\ FrontOffset \in Nat /\ BackOffset \in Nat /\ Size = FrontOffset + BackOffset + 1
      /\ \A g \in Front : pc[g] \in FrontLabel /\ g \in Thread
      /\ \A g \in Front : pc[g] = "startFronts" => g = 0
  BY Bounds, Threads DEF SweepKnown, ControlKnown, TypeOK, ControlType, DataType
<1>l. pc[f] \in Live /\ pc[f] \in Looked /\ pc[f] \notin Served
  BY DEF Live, Looked, Served, Sweeping, Checking
<1>1. ASSUME NEW g \in Front, pc[g] \in Live
      PROVE  /\ Pos(g) \in Int /\ Pos(g) - BackOffset >= first
             /\ first .. Pos(g) + FrontOffset \subseteq DOMAIN newP
  BY <1>0, <1>1, PlaceTyped, PlaceListed DEF RingsKnown, RingKnown
<1>2. /\ newP[Pos(f)] = {} /\ Pos(f) + FrontOffset + 1 \notin DOMAIN newP
      /\ \A d \in 0 .. FrontOffset : store[f][SlotAt(f, d)] = {}
  BY <1>l DEF NewAttended
<1>3. /\ \A i \in DOMAIN newP : i < Pos(f) => newP[i] = {}
      /\ \A g \in Front \ {f} : pc[g] \in Live /\ Pos(g) < Pos(f) => Barren(g)
  BY <1>l DEF FreshKnown
<1>4. \A i \in DOMAIN newP : newP[i] = {}
  <2> SUFFICES ASSUME NEW i \in DOMAIN newP, newP[i] # {} PROVE FALSE
    OBVIOUS
  <2>1. Pos(f) \in Int /\ i \in Int /\ Pos(f) - BackOffset >= first
    BY <1>0, <1>1, <1>l
  <2>2. i > Pos(f)
    BY <1>2, <1>3, <2>1
  <2>3. first .. i + FrontOffset + 1 \subseteq DOMAIN newP
    BY DEF ListsWhole
  <2>4. Pos(f) + FrontOffset + 1 \in first .. i + FrontOffset + 1
    BY <1>0, <2>1, <2>2
  <2> QED BY <1>2, <2>3, <2>4
<1>5. ASSUME NEW g \in Front, g # f, pc[g] \in Live PROVE Barren(g)
  <2>1. /\ Pos(f) \in Int /\ Pos(f) - BackOffset >= first
        /\ Pos(g) \in Int /\ first .. Pos(g) + FrontOffset \subseteq DOMAIN newP
    BY <1>1, <1>5, <1>l
  <2>2. Pos(f) >= Pos(g) + Size \/ Pos(g) >= Pos(f) + Size
    BY <1>5, <1>l DEF SweepKnown, Apart
  <2>3. ~(Pos(g) >= Pos(f) + Size)
    <3> SUFFICES ASSUME Pos(g) >= Pos(f) + Size PROVE FALSE
      OBVIOUS
    <3>1. Pos(f) + FrontOffset + 1 \in first .. Pos(g) + FrontOffset
      BY <1>0, <2>1
    <3> QED BY <1>2, <2>1, <3>1
  <2>4. Pos(g) < Pos(f)
    BY <1>0, <2>1, <2>2, <2>3
  <2> QED BY <1>3, <1>5, <2>4
<1>o. ~Opening
  <2>1. CASE f = 0
    BY <1>l, <2>1 DEF Opening, Live, Waiting, Between, Sweeping, Checking
  <2>2. CASE f # 0
    BY <1>0, <2>2 DEF OpeningKnown, Waiting
  <2> QED BY <2>1, <2>2
<1>s. \A g \in Front, d \in 0 .. FrontOffset : SlotAt(g, d) \in 0 .. Size - 1
  <2>1. \A g \in Front : active[g] \in 0 .. Size - 1
    BY <1>0 DEF TypeOK, DataType
  <2>2. \A d \in 0 .. FrontOffset : d \in Offsets
    BY <1>0 DEF Offsets
  <2> QED BY <2>1, <2>2, RingSlots DEF SlotAt, SlotFrom
<1>6. \A g \in Front, d \in 0 .. FrontOffset : store[g][SlotAt(g, d)] = {}
  <2> SUFFICES ASSUME NEW g \in Front PROVE \A d \in 0 .. FrontOffset : store[g][SlotAt(g, d)] = {}
    OBVIOUS
  <2>1. CASE g = f
    BY <1>2, <2>1
  <2>2. CASE g # f /\ pc[g] \in Live
    BY <1>5, <2>2 DEF Barren
  <2>3. CASE pc[g] \notin Live
    <3>1. pc[g] \notin Ended
      BY <1>0 DEF EndsKnown
    <3>2. pc[g] \in Between \cup Waiting \cup {"begin"}
      <4>1. pc[g] = "startFronts" => FALSE
        BY <1>0, <1>o DEF Opening
      <4> QED BY <1>0, <2>3, <3>1, <4>1 DEF FrontLabel
    <3>3. store[g] = EmptyRing
      <4>1. CASE pc[g] \in Between
        BY <1>0, <1>o, <4>1 DEF MarkingsKnown, Vacated
      <4>2. CASE pc[g] \in Waiting \cup {"begin"}
        <5>1. g # 0
          BY <1>o, <4>2 DEF Opening
        <5>2. link[g] = <<>>
          BY <1>0, <4>2, <5>1 DEF HelpersKnown
        <5> QED BY <1>0, <5>2 DEF MarkingsKnown, RingPlaced
      <4> QED BY <3>2, <4>1, <4>2
    <3> QED BY <1>s, <3>3 DEF EmptyRing
  <2> QED BY <2>1, <2>2, <2>3
<1>7. \A u \in Thread : pc[u] \notin Past
  <2> SUFFICES ASSUME NEW u \in Thread, pc[u] \in Past PROVE FALSE
    OBVIOUS
  <2>1. pc[u] \in Checking
    BY DEF Past
  <2>2. PICK g \in Front : g = frontptr[u] /\ pc[g] \in Served
    BY <2>1, WorkerFront
  <2>3. g # f /\ pc[g] \in Live
    BY <1>l, <2>2, ServedLive
  <2> QED BY <1>5, <2>2, <2>3 DEF Barren
<1> QED BY <1>4, <1>6, <1>7, PendingIs

(* Then everything that can be reached has been expanded.                  *)
LEMMA NothingFound ==
  ASSUME SweepKnown, ~exit, NothingLost, Pending = {}
  PROVE  Reachable[Initial] \cap prop = {}
<1>0. setup \in Setups
  BY DEF SweepKnown, ControlKnown, TypeOK, ControlType
<1>1. PICK V \in SUBSET Marking : Explored(V)
  BY DEF NothingLost
<1>2. V \cap prop = {} /\ Initial \in V /\ \A m \in V : Targets(m, 0) \subseteq V
  BY <1>1 DEF Explored, Kept
<1>3. PICK R : R = Reachable[Initial]
  OBVIOUS
<1>4. /\ R \subseteq Marking /\ Initial \in R /\ Closed(R)
      /\ \A S \in SUBSET R : Initial \in S /\ Closed(S) => S = R
  BY <1>0, <1>3, ReachableAssumption DEF Initial
<1>5. ASSUME NEW m \in V \cap R, NEW i \in DOMAIN Firelist[m]
      PROVE  Successor(m, Firelist[m][i]) \in V \cap R
  <2>1. Successor(m, Firelist[m][i]) \in R
    BY <1>4 DEF Closed
  <2>2. i > 0
    <3>1. m \in Marking
      BY <1>4
    <3>2. Firelist[m] \in Seq(Transition)
      BY <3>1, SweepAssumption
    <3> QED BY <3>2
  <2>3. Successor(m, Firelist[m][i]) \in Targets(m, 0)
    BY <2>2 DEF Targets
  <2> QED BY <1>2, <2>1, <2>3
<1>6. V \cap R = R
  <2>1. Closed(V \cap R)
    BY <1>5 DEF Closed
  <2> QED BY <1>2, <1>4, <2>1
<1> QED BY <1>2, <1>3, <1>6

(* What a thread has found it has found.                                   *)
LEMMA FoundStays ==
  ASSUME TypeOK, NEW t \in Thread, Step(t), NEW u \in Thread, found[u]
  PROVE  found'[u]
<1>0. found \in [Thread -> BOOLEAN]
  BY DEF TypeOK, ControlType
<1>1. CASE u # t
  BY <1>1, OthersStay
<1>2. CASE u = t
  <2>1. CASE CheckStates(t)
    <3>1. CASE Solved(t)
      BY <1>0, <3>1 DEF Solved
    <3>2. CASE ~Solved(t)
      <4>1. found' = found
        BY <2>1, <3>2 DEF CheckStates, Loop, Pop, PopNew, Keep, KeepOld, LookOld, LookNew, LookSame,
            LookStore, Look, Insert, InsertNew, workVars
      <4> QED BY <1>2, <4>1
    <3> QED BY <1>2, <3>1, <3>2
  <2>2. CASE t \in Front /\ Plain(t)
    BY <1>2, <2>2, PlainFacts DEF workVars
  <2>3. CASE Alone(t)
    BY <1>2, <2>3, AloneFacts DEF workVars
  <2>4. CASE Waker(t)
    <3>1. found' = found
      BY <2>4, WakerFacts DEF WakerStep, workVars
    <3> QED BY <1>2, <3>1
  <2> QED BY <2>1, <2>2, <2>3, <2>4, Kinds
<1> QED BY <1>1, <1>2

LEMMA VerdictStays ==
  ASSUME TypeOK, NEW t \in Thread, Step(t)
  PROVE  verdict' = verdict
<1>1. CASE CheckStates(t)
  BY <1>1, CheckFacts
<1>2. CASE t \in Front /\ Plain(t)
  BY <1>2, PlainFacts
<1>3. CASE Alone(t)
  BY <1>3, AloneFacts
<1>4. CASE Waker(t)
  BY <1>4, WakerFacts DEF WakerStep, endVars
<1> QED BY <1>1, <1>2, <1>3, <1>4, Kinds

LEMMA EndStep ==
  ASSUME SweepKnown, NothingLost, FreshKnown, ListsWhole, NewAttended, EndKnown,
         NEW t \in Thread, Step(t)
  PROVE  EndKnown'
<1>0. /\ TypeOK /\ RingsKnown /\ EndsKnown /\ setup \in Setups /\ setup' = setup /\ prop' = prop
      /\ exit \in BOOLEAN
  BY DEF SweepKnown, ControlKnown, TypeOK, ControlType, Step
<1>1. Thread' = Thread /\ Initial' = Initial
  BY <1>0, SameThreads
<1>2. verdict' \in {"running", "yes", "no"}
  BY <1>0, VerdictStays DEF EndKnown
<1>3. exit' => (\E u \in Thread : found'[u]) \/ Reachable[Initial] \cap prop = {}
  <2>1. CASE exit
    <3>1. CASE \E u \in Thread : found[u]
      BY <1>0, <3>1, FoundStays
    <3>2. CASE Reachable[Initial] \cap prop = {}
      BY <3>2
    <3> QED BY <2>1, <3>1, <3>2 DEF EndKnown
  <2>2. CASE ~exit /\ exit'
    <3>1. CASE CheckStates(t)
      <4>1. pc[t] = "solved"
        BY <1>0, <2>2, <3>1, CheckFacts
      <4>2. Solved(t)
        BY <3>1, <4>1 DEF CheckStates, Loop, Pop, PopNew, Keep, KeepOld, LookOld, LookNew, LookSame,
             LookStore, Look, Insert, InsertNew
      <4>3. found'[t]
        <5>1. found \in [Thread -> BOOLEAN]
          BY <1>0 DEF TypeOK, ControlType
        <5> QED BY <4>2, <5>1 DEF Solved
      <4> QED BY <4>3
    <3>2. CASE t \in Front /\ Moving(t)
      <4>1. Deinit(t)
        BY <1>0, <2>2, <3>2, MovingFacts
      <4>2. pc[t] = "deinit" /\ fresh[t]
        BY <2>2, <4>1 DEF Deinit
      <4>3. Pending = {}
        BY <2>2, <3>2, <4>2, NothingLeft
      <4> QED BY <2>2, <4>3, NothingFound
    <3>3. CASE Calmly(t)
      BY <2>2, <3>3 DEF Calmly
    <3> QED BY <1>0, <3>1, <3>2, <3>3, Sorts
  <2> QED BY <2>1, <2>2
<1> QED BY <1>0, <1>1, <1>2, <1>3 DEF EndKnown

(* Everything that makes the answer right.                                 *)
VisitsKnown == /\ AllReachable /\ ListsWhole /\ NewAttended /\ BeginningKnown /\ FreshKnown
               /\ NothingLost

AnswerKnown == VisitsKnown /\ EndKnown /\ VerdictCorrect

LEMMA VisitsStep ==
  ASSUME SweepKnown, SweepKnown', VisitsKnown, NEW t \in Thread, Step(t)
  PROVE  VisitsKnown'
<1>0. AllReachable /\ ListsWhole /\ NewAttended /\ BeginningKnown /\ FreshKnown /\ NothingLost
  BY DEF VisitsKnown
<1>1. AllReachable'
  BY <1>0, ReachableStep
<1>2. ListsWhole'
  BY <1>0, WholeStep
<1>3. NewAttended'
  BY <1>0, NewAttendedStep
<1>4. BeginningKnown'
  BY <1>0, BeginningStep
<1>5. FreshKnown'
  BY <1>0, FreshStep
<1>6. NothingLost'
  BY <1>0, LostStep
<1> QED BY <1>1, <1>2, <1>3, <1>4, <1>5, <1>6 DEF VisitsKnown

LEMMA AnswerStep ==
  ASSUME SweepKnown, SweepKnown', AnswerKnown, NEW t \in Thread, Step(t)
  PROVE  AnswerKnown'
<1>0. VisitsKnown /\ EndKnown /\ VerdictCorrect
  BY DEF AnswerKnown
<1>1. VisitsKnown'
  BY <1>0, VisitsStep
<1>2. EndKnown'
  BY <1>0, EndStep DEF VisitsKnown
<1>3. VerdictCorrect'
  <2>1. verdict = "running"
    BY DEF Step
  <2>2. verdict' = "running"
    BY <2>1, VerdictStays DEF SweepKnown, ControlKnown
  <2> QED BY <2>2 DEF VerdictCorrect
<1> QED BY <1>1, <1>2, <1>3 DEF AnswerKnown

(* The threads have come to their end: somebody has found a marking, or    *)
(* there is none.                                                          *)
LEMMA JoinVerdict ==
  ASSUME ControlKnown, AllReachable, EndKnown, Join
  PROVE  VerdictCorrect' /\ verdict' \in {"running", "yes", "no"}
<1>0. /\ setup \in Setups /\ setup' = setup /\ prop' = prop
      /\ verdict' = (IF \E t \in Thread : found[t] THEN "yes" ELSE "no")
      /\ \A t \in Thread : pc[t] = "done"
  BY DEF ControlKnown, TypeOK, ControlType, Join
<1>1. Initial' = Initial /\ 0 \in Thread
  BY <1>0, SameThreads, Threads
<1>2. (\E t \in Thread : found[t]) => Reachable[Initial] \cap prop # {}
  BY DEF AllReachable
<1>3. exit
  BY <1>0, <1>1 DEF ControlKnown, EndsKnown, Ended
<1>4. ~(\E t \in Thread : found[t]) => Reachable[Initial] \cap prop = {}
  BY <1>3 DEF EndKnown
<1> QED BY <1>0, <1>1, <1>2, <1>4 DEF VerdictCorrect

LEMMA VisitsSame ==
  TypeOK /\ VisitsKnown
    /\ UNCHANGED <<setup, prop, listVars, ringVars, frontVars, idleVars, workVars, exit,
                   running, terminating, pc>> => VisitsKnown'
<1> SUFFICES ASSUME TypeOK, VisitsKnown,
                    UNCHANGED <<setup, prop, listVars, ringVars, frontVars, idleVars, workVars,
                                exit, running, terminating, pc>>
             PROVE  VisitsKnown'
  OBVIOUS
<1> USE DEF listVars, ringVars, frontVars, idleVars, workVars
<1>1. /\ Thread' = Thread /\ Front' = Front /\ Initial' = Initial
  BY SameThreads DEF TypeOK, ControlType
<1>2. /\ \A f : Pos(f)' = Pos(f) /\ Late(f)' = Late(f)
      /\ \A f, d : SlotAt(f, d)' = SlotAt(f, d)
      /\ \A t : Offset(t)' = Offset(t)
  BY DEF Pos, SlotAt, Late, Offset
<1>3. AllReachable'
  BY <1>1 DEF VisitsKnown, AllReachable
<1>4. ListsWhole'
  BY <1>1, <1>2 DEF VisitsKnown, ListsWhole
<1>5. NewAttended'
  BY <1>1, <1>2 DEF VisitsKnown, NewAttended
<1>6. BeginningKnown'
  BY <1>1, <1>2 DEF VisitsKnown, BeginningKnown
<1>7. FreshKnown'
  <2>1. \A g : Barren(g) => Barren(g)'
    BY <1>1, <1>2 DEF Barren
  <2> QED BY <1>1, <1>2, <2>1 DEF VisitsKnown, FreshKnown
<1>8. NothingLost'
  <2>1. Pending' = Pending
    BY <1>1, <1>2 DEF Pending
  <2>2. \A V : Kept(V)' = Kept(V)
    BY <2>1 DEF Kept
  <2>3. \A V : Explored(V) => Explored(V)'
    BY <1>1, <2>2 DEF Explored, Targets
  <2> QED BY <2>3 DEF VisitsKnown, NothingLost
<1> QED BY <1>3, <1>4, <1>5, <1>6, <1>7, <1>8 DEF VisitsKnown

LEMMA AnswerSame ==
  ASSUME ControlKnown, AnswerKnown, Join \/ Stop \/ UNCHANGED vars
  PROVE  AnswerKnown'
<1>0. /\ TypeOK /\ VisitsKnown /\ EndKnown /\ VerdictCorrect
  BY DEF ControlKnown, AnswerKnown
<1>1. UNCHANGED <<setup, prop, listVars, ringVars, frontVars, idleVars, workVars,
                  exit, running, terminating, pc>>
  BY DEF Join, Stop, vars, endVars
<1>2. VisitsKnown'
  BY <1>0, <1>1, VisitsSame
<1>3. Thread' = Thread /\ Initial' = Initial
  BY <1>0, <1>1, SameThreads DEF TypeOK, ControlType
<1>4. exit' => (\E t \in Thread : found'[t]) \/ Reachable[Initial'] \cap prop' = {}
  BY <1>0, <1>1, <1>3 DEF EndKnown, workVars
<1>5. VerdictCorrect' /\ verdict' \in {"running", "yes", "no"}
  <2>1. CASE Join
    BY <1>0, <2>1, JoinVerdict DEF VisitsKnown
  <2>2. CASE Stop \/ UNCHANGED vars
    <3>1. verdict' = verdict
      BY <2>2 DEF Stop, vars, endVars
    <3> QED BY <1>0, <1>1, <1>3, <3>1 DEF VerdictCorrect, EndKnown
  <2> QED BY <2>1, <2>2
<1> QED BY <1>2, <1>3, <1>4, <1>5 DEF AnswerKnown, EndKnown

LEMMA VisitsInit ==
  Init => AnswerKnown
<1> SUFFICES ASSUME Init PROVE AnswerKnown
  OBVIOUS
<1>0. /\ setup \in Setups /\ 0 \in Front /\ 0 \in Thread /\ Front \subseteq Thread
      /\ TypeOK /\ first \in Int
      /\ BackOffset \in Nat /\ FrontOffset \in Nat /\ Size = FrontOffset + BackOffset + 1
  BY Threads, TypeInit, Bounds DEF Init, TypeOK, DataType
<1>1. /\ newP = [i \in first .. first + Size |-> {}]
      /\ oldP = [i \in first .. first + Size |-> {}]
      /\ \A f \in Front : store[f] = IF f = 0 THEN [EmptyRing EXCEPT ![BackOffset] = {Initial}]
                                     ELSE EmptyRing
      /\ \A f \in Front : samevalue[f] = {}
      /\ \A t \in Thread : pc[t] = "init" /\ ns[t] = Initial /\ found[t] = FALSE
      /\ exit = FALSE /\ verdict = "running" /\ active[0] = BackOffset
  BY <1>0 DEF Init
<1>2. \A t \in Thread : pc[t] \notin Past \cup Live \cup Looked \cup {"popNew", "lookStore", "insertNew", "solved"}
  BY <1>1 DEF Past, Live, Looked, Sweeping, Checking
<1>n. /\ DOMAIN newP = first .. first + Size /\ DOMAIN oldP = DOMAIN newP
      /\ \A i \in DOMAIN newP : newP[i] = {} /\ oldP[i] = {}
  BY <1>1
<1>s. \A f \in Front, s \in 0 .. Size - 1 : store[f][s] \subseteq {Initial}
  BY <1>1 DEF EmptyRing
<1>3. AllReachable
  <2>1. PICK R : R = Reachable[Initial]
    OBVIOUS
  <2>2. Initial \in R
    BY <1>0, <2>1, ReachableAssumption DEF Initial
  <2>3. /\ \A i \in DOMAIN newP : newP[i] \cup oldP[i] \subseteq R
        /\ \A f \in Front : /\ samevalue[f] \subseteq R
                            /\ \A s \in 0 .. Size - 1 : store[f][s] \subseteq R
    BY <1>1, <1>n, <1>s, <2>2
  <2>4. /\ \A t \in Thread : ns[t] \in R /\ (pc[t] = "solved" => ns[t] \in prop)
        /\ \A t \in Thread : found[t] => R \cap prop # {}
    BY <1>1, <2>2
  <2> QED BY <2>1, <2>3, <2>4 DEF AllReachable
<1>4. ListsWhole
  <2>1. \A i \in DOMAIN newP : first .. i \subseteq DOMAIN newP /\ first <= i
    BY <1>0, <1>n
  <2> QED BY <1>2, <1>n, <2>1 DEF ListsWhole
<1>5. NewAttended
  BY <1>0, <1>2 DEF NewAttended, Looked
<1>6. BeginningKnown
  <2>1. \A f \in Front : pc[f] \notin Sweeping /\ pc[f] \notin {"deinit", "handOver"}
    BY <1>0, <1>2 DEF Live
  <2> QED BY <1>n, <2>1 DEF BeginningKnown
<1>7. FreshKnown
  BY <1>0, <1>2 DEF FreshKnown
<1>8. NothingLost
  <2>1. SlotAt(0, 0) = BackOffset
    <3>1. 0 \in Offsets /\ active[0] \in 0 .. Size - 1
      BY <1>0, <1>1, Bounds DEF Offsets
    <3> QED BY <1>1, <3>1, RingSlots DEF SlotAt, SlotFrom
  <2>2. store[0][SlotAt(0, 0)] = {Initial}
    <3>1. BackOffset \in 0 .. Size - 1
      BY <1>0
    <3> QED BY <1>0, <1>1, <2>1, <3>1 DEF EmptyRing
  <2>3. Initial \in Pending
    <3>1. 0 \in 0 .. FrontOffset
      BY <1>0
    <3> QED BY <1>0, <2>2, <3>1, PendingIs
  <2>4. Explored({})
    <3>1. Firing \subseteq Past
      BY AwakeLabels
    <3> QED BY <1>1, <1>2, <1>n, <1>s, <2>3, <3>1 DEF Explored, Kept
  <2> QED BY <2>4 DEF NothingLost
<1>9. EndKnown /\ VerdictCorrect
  BY <1>1 DEF EndKnown, VerdictCorrect
<1> QED BY <1>3, <1>4, <1>5, <1>6, <1>7, <1>8, <1>9 DEF AnswerKnown, VisitsKnown

LEMMA AnswerInvariant == Spec => []AnswerKnown
<1>1. Init => AnswerKnown
  BY VisitsInit
<1>2. SweepKnown /\ SweepKnown' /\ AnswerKnown /\ [Next]_vars => AnswerKnown'
  <2> SUFFICES ASSUME SweepKnown, SweepKnown', AnswerKnown, [Next]_vars PROVE AnswerKnown'
    OBVIOUS
  <2>1. ASSUME NEW t \in Thread, Step(t) PROVE AnswerKnown'
    BY <2>1, AnswerStep
  <2>2. CASE Join \/ Stop \/ UNCHANGED vars
    <3>1. ControlKnown
      BY DEF SweepKnown
    <3> QED BY <2>2, <3>1, AnswerSame
  <2> QED BY <2>1, <2>2 DEF Next
<1> QED BY <1>1, <1>2, KnownInvariant, PTL DEF Spec

(* The answer is right, though every front forgets what lies behind it:    *)
(* whoever answers "yes" has found a marking with the property that can be *)
(* reached, and the search is given up only when all that can be reached   *)
(* has been expanded.                                                      *)
THEOREM SweepVerdict == Spec => []VerdictCorrect
<1>1. AnswerKnown => VerdictCorrect
  BY DEF AnswerKnown
<1> QED BY <1>1, AnswerInvariant, PTL
=============================================================================
