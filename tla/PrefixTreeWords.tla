-------------------------- MODULE PrefixTreeWords --------------------------
(***************************************************************************)
(* The bits of a PrefixTreeStore (Stores/VectorStores/PrefixTreeStore.inc):*)
(* how a vector is copied into a decision, compared with the input and put *)
(* together again when it is popped, word by word.  A decision has the     *)
(* bits from start on, beginning with the first bit of a word, so that it  *)
(* is seldom aligned with the marking.  Words are numbers.                 *)
(***************************************************************************)
EXTENDS Integers, FiniteSetsExt

CONSTANTS
  VECTOR_WIDTH,   \* bits in a word; 32 in the code
  Bits,           \* bits in a marking
  Markings,       \* bound: the markings searched for
  MaxDiffering    \* bound: the bits in which a decision's marking differs

(* The search for a differing bit halves the width until it is nothing.    *)
WordsAssumption ==
  /\ VECTOR_WIDTH \in {2, 4, 8, 16, 32}
  /\ Bits \in Nat \ {0}
  /\ Markings \subseteq [0 .. Bits - 1 -> 0 .. 1]
  /\ MaxDiffering \in 0 .. Bits

ASSUME Words == WordsAssumption

WordsFor(bits) == (bits + VECTOR_WIDTH - 1) \div VECTOR_WIDTH
max_input_index == (Bits - 1) \div VECTOR_WIDTH

(* A marking as words, beginning with bit b; unused bits are zero.         *)
Packed(marking, b) ==
  [k \in 0 .. WordsFor(Bits - b) - 1 |->
     MapThenSumSet(LAMBDA i : marking[i] * 2 ^ (VECTOR_WIDTH - 1 - ((i - b) % VECTOR_WIDTH)),
                   {i \in b .. Bits - 1 : (i - b) \div VECTOR_WIDTH = k})]

(* Shifts of a word, and its first n bits with the others cleared.         *)
Left(word, n)  == (word * 2 ^ n) % 2 ^ VECTOR_WIDTH
Right(word, n) == word \div 2 ^ n
Upper(word, n) == Left(Right(word, VECTOR_WIDTH - n), VECTOR_WIDTH - n)
-----------------------------------------------------------------------------
CopyShifting(in, b, lower) ==
  [k \in 0 .. WordsFor(Bits - b) - 1 |->
     LET i == (b \div VECTOR_WIDTH) + k
     IN Left(in[i], b % VECTOR_WIDTH)
          + IF i < max_input_index THEN Right(in[i + 1], lower) ELSE 0]

(* The vector of a new decision: every word has the rest of a word of the  *)
(* input and the beginning of the next one, if there is one.               *)
Copy(in, b) == CopyShifting(in, b, VECTOR_WIDTH - (b % VECTOR_WIDTH))

Toggled(word, b) ==
  LET weight == 2 ^ (VECTOR_WIDTH - (b % VECTOR_WIDTH) - 1)
  IN IF (word \div weight) % 2 = 1 THEN word - weight ELSE word + weight

RebuildKeeping(first, b, vector, kept) ==
  LET w == b \div VECTOR_WIDTH
      shift == (b + 1) % VECTOR_WIDTH
      upper(k) == IF k = w THEN Upper(Toggled(first[w], b), kept)
                  ELSE Left(vector[k - w - 1], VECTOR_WIDTH - shift)
  IN [k \in DOMAIN first |->
        CASE k < w               -> first[k]
          [] k >= w /\ shift # 0 -> upper(k) + Right(vector[k - w], shift)
          [] k = w /\ shift = 0  -> Toggled(first[w], b)
          [] k > w /\ shift = 0  -> vector[k - w - 1]]

(* Variant: the bits behind the one toggled are not cleared.               *)
RebuildUncleared(first, b, vector) == RebuildKeeping(first, b, vector, VECTOR_WIDTH)

(* popVector: in the words of the first vector bit b is toggled, and those *)
(* behind it are replaced by a decision's vector.                          *)
Rebuild(first, b, vector) == RebuildKeeping(first, b, vector, (b + 1) % VECTOR_WIDTH)
-----------------------------------------------------------------------------
(* The cursors of a search that has arrived at a decision.                 *)
Arrived(start) ==
  [found     |-> FALSE,
   in        |-> start \div VECTOR_WIDTH,                \* word of the input
   inBits    |-> VECTOR_WIDTH - (start % VECTOR_WIDTH),  \* bits left in it
   vector    |-> 0,                                      \* word of the vector
   bits      |-> VECTOR_WIDTH,                           \* bits left in it
   position  |-> start,                                  \* its first bit
   vectorlen |-> WordsFor(Bits - start),                 \* words left
   compare   |-> 0]                                      \* comparebits

(* Good alignment: compare all, and skip the words that are equal.         *)
CompareAligned(in, vector, at) ==
  LET differ == {k \in DOMAIN vector : vector[k] # in[at.in + k]}
  IN IF differ = {} THEN [at EXCEPT !.found = TRUE]
     ELSE [at EXCEPT !.position = @ + Min(differ) * VECTOR_WIDTH,
                     !.vector = Min(differ),
                     !.in = @ + Min(differ),
                     !.compare = VECTOR_WIDTH \div 2]

(* Bad alignment: the rest of the input word against the upper bits of the *)
(* vector word, the beginning of the next input word against the lower.    *)
UpperDiffers(in, vector, at) ==
  Left(in[at.in], VECTOR_WIDTH - at.inBits) # Upper(vector[at.vector], at.inBits)

LowerDiffers(in, vector, at) ==
  Upper(in[at.in + 1], VECTOR_WIDTH - at.inBits) # Left(vector[at.vector], at.inBits)

RECURSIVE CompareShifted(_, _, _)
CompareShifted(in, vector, at) ==
  CASE UpperDiffers(in, vector, at) ->
         [at EXCEPT !.compare = at.inBits \div 2]
    [] ~UpperDiffers(in, vector, at) /\ at.in = max_input_index ->
         [at EXCEPT !.found = TRUE]
    [] OTHER ->
         IF LowerDiffers(in, vector, at)
         THEN [at EXCEPT !.in = @ + 1, !.bits = @ - at.inBits,
                         !.inBits = VECTOR_WIDTH,
                         !.compare = (at.bits - at.inBits) \div 2]
         ELSE IF at.vectorlen = 1 THEN [at EXCEPT !.found = TRUE]
         ELSE CompareShifted(in, vector,
                [at EXCEPT !.in = @ + 1, !.vectorlen = @ - 1,
                           !.position = @ + VECTOR_WIDTH, !.vector = @ + 1])

(* Are the next comparebits bits of the two words equal?                   *)
BitsEqual(in, vector, at) ==
  LET next(word, left) == Right(Left(word, VECTOR_WIDTH - left), VECTOR_WIDTH - at.compare)
  IN next(in[at.in], at.inBits) = next(vector[at.vector], at.bits)

(* Variant: the width is halved behind equal bits as well.                 *)
CutAlways(n, left) == n \div 2

(* The width is cut down when fewer bits are left.                         *)
Cut(n, left) == IF n > left THEN left \div 2 ELSE n

RECURSIVE LocateBit(_, _, _)
LocateBit(in, vector, at) ==
  IF at.compare = 0 THEN at
  ELSE IF BitsEqual(in, vector, at)
  THEN LET inBits == at.inBits - at.compare
           bits == at.bits - at.compare
       IN LocateBit(in, vector, [at EXCEPT !.inBits = inBits, !.bits = bits,
                                           !.compare = Cut(Cut(@, inBits), bits)])
  ELSE LocateBit(in, vector, [at EXCEPT !.compare = @ \div 2])

(* The search at one decision: found, or the cursors at the bit that       *)
(* differs.                                                                *)
Locate(in, vector, start) ==
  LET at == IF start % VECTOR_WIDTH = 0
            THEN CompareAligned(in, vector, Arrived(start))
            ELSE CompareShifted(in, vector, Arrived(start))
  IN IF at.found THEN at ELSE LocateBit(in, vector, at)
-----------------------------------------------------------------------------
Flipped(marking, differ) ==
  [i \in DOMAIN marking |-> IF i \in differ THEN 1 - marking[i] ELSE marking[i]]

(* The sets of bits in which a decision with the bits from start on may    *)
(* differ from the marking searched for.                                   *)
Differences(start) == UNION {kSubset(n, start .. Bits - 1) : n \in 0 .. MaxDiffering}

(* "We're now exactly at the bit that differs": it is the first one, and   *)
(* the cursors in the input and in the vector stand on it; a match is      *)
(* reported exactly if no bit differs (PrefixTreeStore.inc 176-288).       *)
LocatedRight ==
  \A input \in Markings, start \in 0 .. Bits - 1 :
    \A differ \in Differences(start) :
      LET vector == Copy(Packed(Flipped(input, differ), 0), start)
          at == Locate(Packed(input, 0), vector, start)
      IN IF differ = {} THEN at.found
         ELSE /\ ~at.found
              /\ at.position + VECTOR_WIDTH - at.bits = Min(differ)
              /\ (at.in + 1) * VECTOR_WIDTH - at.inBits = Min(differ)

(* A marking popped is the one its decision was made for: the bit before   *)
(* start is the one in which the first vector differs from it.  Only       *)
(* markings that fill their words are popped (PrefixTreeStore.inc 467-504).*)
RebuiltRight ==
  Bits % VECTOR_WIDTH = 0 =>
    \A input \in Markings, start \in 1 .. Bits - 1 :
      \A differ \in Differences(start) :
        LET old == Packed(Flipped(input, differ), 0)
            first == Packed(Flipped(input, {start - 1}), 0)
        IN Rebuild(first, start - 1, Copy(old, start)) = old
=============================================================================
