------------------------------- MODULE Bitmap -------------------------------
(***************************************************************************)
(* The bitmap of swap.c, which manages the slots of the swap file, in its  *)
(* words: a word is the set of the offsets at which it has a one.          *)
(*                                                                         *)
(* The simulator itself only creates the bitmap and allocates from it;     *)
(* mark and unmark are called as their assertions ask.                     *)
(***************************************************************************)
EXTENDS Naturals, FiniteSets, FiniteSetsExt

CONSTANTS
  BITS_PER_WORD,
  MaxBits         \* bound: the largest bitmap that is created

ASSUME WordAssumption == BITS_PER_WORD \in Nat \ {0} /\ MaxBits \in Nat

Offset == 0 .. BITS_PER_WORD - 1
WORD_ALLBITS == Offset

DIVROUNDUP(a, b) == (a + b - 1) \div b

VARIABLES
  nbits,    \* the bits the bitmap was created with
  v,        \* its words
  index     \* the bit bitmap_alloc gave out last, or none

words(n) == DIVROUNDUP(n, BITS_PER_WORD)

\* Mutant: bits are marked from the offset after the first that is left over.
LeftoverLess(n) ==
  IF words(n) > n \div BITS_PER_WORD
  THEN {o \in Offset : o > n - (words(n) - 1) * BITS_PER_WORD}
  ELSE {}

\* The bits of the last word that are behind the end of the bitmap.
Leftover(n) ==
  IF words(n) > n \div BITS_PER_WORD
  THEN {o \in Offset : o >= n - (words(n) - 1) * BITS_PER_WORD}
  ELSE {}

\* bitmap_create: the leftover bits are marked as in use.
bitmap_create(n) ==
  [ix \in 0 .. words(n) - 1 |-> IF ix = words(n) - 1 THEN Leftover(n) ELSE {}]

Init ==
  /\ nbits \in 0 .. MaxBits
  /\ v = bitmap_create(nbits)
  /\ index = {}

\* The first word with a zero, and the first zero in it.
NotFull == {ix \in DOMAIN v : v[ix] # WORD_ALLBITS}

bitmap_alloc ==
  /\ IF NotFull = {}
     THEN index' = {} /\ UNCHANGED v
     ELSE LET ix == Min(NotFull)
              offset == Min(Offset \ v[ix])
              bit == ix * BITS_PER_WORD + offset
          IN  /\ v' = [v EXCEPT ![ix] = @ \cup {offset}]
              /\ index' = {bit}
  /\ UNCHANGED nbits

bitmap_translate(bitno) == [ix |-> bitno \div BITS_PER_WORD, offset |-> bitno % BITS_PER_WORD]

bitmap_isset(bitno) ==
  LET b == bitmap_translate(bitno) IN b.offset \in v[b.ix]

bitmap_mark(bitno) ==
  LET b == bitmap_translate(bitno)
  IN  /\ b.offset \notin v[b.ix]
      /\ v' = [v EXCEPT ![b.ix] = @ \cup {b.offset}]
      /\ UNCHANGED <<nbits, index>>

bitmap_unmark(bitno) ==
  LET b == bitmap_translate(bitno)
  IN  /\ b.offset \in v[b.ix]
      /\ v' = [v EXCEPT ![b.ix] = @ \ {b.offset}]
      /\ UNCHANGED <<nbits, index>>

Next ==
  \/ bitmap_alloc
  \/ \E bitno \in 0 .. nbits - 1 : bitmap_mark(bitno) \/ bitmap_unmark(bitno)

Spec == Init /\ [][Next]_<<nbits, v, index>>

-----------------------------------------------------------------------------
\* The words are a pool of slots: through any sequence of calls the least
\* free bit is handed out, none twice, none beyond the end, and all of them
\* before the pool is full; bitmap_isset says which ones are in use.  So the
\* "assert(*index < b->nbits)" of bitmap_alloc holds.
Pool == INSTANCE SlotPool WITH
          MaxSlots <- MaxBits,
          size <- nbits,
          used <- {bitno \in 0 .. nbits - 1 : bitmap_isset(bitno)},
          answer <- index
IsPool == Pool!Spec

(* The inductive invariant: the bits behind the end stay marked.            *)
BitmapInv ==
  /\ nbits \in 0 .. MaxBits
  /\ v \in [0 .. words(nbits) - 1 -> SUBSET Offset]
  /\ \A ix \in DOMAIN v : ix = words(nbits) - 1 => Leftover(nbits) \subseteq v[ix]
  /\ index \subseteq 0 .. nbits - 1
=============================================================================
