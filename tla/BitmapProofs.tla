---------------------------- MODULE BitmapProofs ----------------------------
(* The words of swap.c's bitmap are a pool of slots, for any word size and   *)
(* any number of slots.                                                      *)
EXTENDS Bitmap, WellFoundedInduction, TLAPS

\* The number of the bit at an offset of a word.
Bit(ix, offset) == ix * BITS_PER_WORD + offset

\* A bit has one word and one offset in it ...
LEMMA SplitBit ==
  ASSUME NEW b \in Nat
  PROVE  /\ b \div BITS_PER_WORD \in Nat
         /\ b % BITS_PER_WORD \in Offset
         /\ b = Bit(b \div BITS_PER_WORD, b % BITS_PER_WORD)
  BY WordAssumption DEF Bit, Offset

\* ... bits are in the order of their words ...
LEMMA WordOrder ==
  ASSUME NEW ix \in Nat, NEW jx \in Nat, NEW o \in Offset, NEW q \in Offset, ix < jx
  PROVE  Bit(ix, o) < Bit(jx, q)
  BY WordAssumption DEF Bit, Offset

\* ... and the two are the quotient and the remainder of its number.
LEMMA JoinBit ==
  ASSUME NEW ix \in Nat, NEW o \in Offset
  PROVE  /\ Bit(ix, o) \in Nat
         /\ Bit(ix, o) \div BITS_PER_WORD = ix
         /\ Bit(ix, o) % BITS_PER_WORD = o
  BY WordAssumption DEF Bit, Offset

\* Words of a bitmap of n bits: all but the last are full of bits below n, and
\* bitmap_create marks those of the last that are not.
LEMMA WordsCover ==
  ASSUME NEW n \in Nat
  PROVE  /\ words(n) \in Nat
         /\ \A b \in 0 .. n - 1 : b \div BITS_PER_WORD \in 0 .. words(n) - 1
         /\ \A ix \in 0 .. words(n) - 1, o \in Offset :
              (Bit(ix, o) >= n) <=> (ix = words(n) - 1 /\ o \in Leftover(n))
  <1> DEFINE k == n \div BITS_PER_WORD
             r == n % BITS_PER_WORD
  <1>1. k \in Nat /\ r \in Offset /\ n = Bit(k, r)
    BY SplitBit
  <1> HIDE DEF k, r
  <1>2. words(n) = IF r = 0 THEN k ELSE k + 1
    <2>1. CASE r = 0
      <3>1. n + BITS_PER_WORD - 1 = Bit(k, BITS_PER_WORD - 1) /\ BITS_PER_WORD - 1 \in Offset
        BY <1>1, <2>1, WordAssumption DEF Bit, Offset
      <3>2. (n + BITS_PER_WORD - 1) \div BITS_PER_WORD = k
        BY <1>1, <3>1, JoinBit
      <3> QED BY <2>1, <3>2 DEF words, DIVROUNDUP
    <2>2. CASE r # 0
      <3>1. n + BITS_PER_WORD - 1 = Bit(k + 1, r - 1) /\ r - 1 \in Offset /\ k + 1 \in Nat
        BY <1>1, <2>2, WordAssumption DEF Bit, Offset
      <3>2. (n + BITS_PER_WORD - 1) \div BITS_PER_WORD = k + 1
        BY <3>1, JoinBit
      <3> QED BY <2>2, <3>2 DEF words, DIVROUNDUP
    <2> QED BY <2>1, <2>2
  <1>3. Leftover(n) = IF r = 0 THEN {} ELSE {o \in Offset : o >= n - k * BITS_PER_WORD}
    BY <1>1, <1>2 DEF Leftover, k
  <1>4. words(n) \in Nat
    BY <1>1, <1>2
  <1>5. ASSUME NEW b \in 0 .. n - 1
        PROVE  b \div BITS_PER_WORD \in 0 .. words(n) - 1
    <2> DEFINE ix == b \div BITS_PER_WORD
               o == b % BITS_PER_WORD
    <2>1. ix \in Nat /\ o \in Offset /\ b = Bit(ix, o)
      BY SplitBit
    <2> HIDE DEF ix, o
    <2>2. ~(k < ix)
      BY <1>1, <2>1, WordOrder
    <2>3. r = 0 => ix # k
      <3> SUFFICES ASSUME r = 0, ix = k PROVE FALSE
        OBVIOUS
      <3>1. k * BITS_PER_WORD \in Nat /\ o >= 0
        BY <1>1, <2>1, WordAssumption DEF Offset
      <3>2. n = k * BITS_PER_WORD /\ b = k * BITS_PER_WORD + o
        BY <1>1, <2>1, <3>1 DEF Bit
      <3> QED BY <2>1, <3>1, <3>2 DEF Offset
    <2> QED BY <1>1, <1>2, <2>1, <2>2, <2>3 DEF ix
  <1>6. ASSUME NEW ix \in 0 .. words(n) - 1, NEW o \in Offset
        PROVE  (Bit(ix, o) >= n) <=> (ix = words(n) - 1 /\ o \in Leftover(n))
    <2>0. Bit(ix, o) \in Nat
      BY <1>4, JoinBit
    <2>1. CASE ix < k
      <3>1. Bit(ix, o) < n
        BY <1>1, <1>4, <2>1, WordOrder
      <3> QED BY <1>1, <1>2, <1>3, <2>0, <2>1, <3>1
    <2>2. CASE ix = k
      <3>1. r # 0 /\ words(n) = k + 1
        BY <1>1, <1>2, <2>2
      <3>2. (Bit(ix, o) >= n) <=> (o >= n - k * BITS_PER_WORD)
        BY <1>1, <2>2, WordAssumption DEF Bit, Offset
      <3> QED BY <1>1, <1>3, <2>2, <3>1, <3>2
    <2> QED BY <1>1, <1>2, <2>1, <2>2
  <1> QED BY <1>4, <1>5, <1>6

\* A set of numbers that is not empty has a least one, and Min is it.
LEMMA LeastOne ==
  ASSUME NEW T \in SUBSET Nat, T # {}
  PROVE  Min(T) \in T /\ \A y \in T : Min(T) <= y
  <1> DEFINE less == {pair \in Nat \X Nat : pair[1] < pair[2]}
  <1>1. IsWellFoundedOn(less, Nat)
    BY NatLessThanWellFounded, Zenon DEF OpToRel
  <1>2. PICK x \in T : \A y \in T : <<y, x>> \notin less
    BY <1>1, WFMin
  <1>3. ASSUME NEW y \in T PROVE x <= y
    <2>1. <<y, x>> \in Nat \X Nat /\ <<y, x>> \notin less
      BY <1>2
    <2>2. ~(<<y, x>>[1] < <<y, x>>[2])
      BY <2>1, Zenon
    <2> QED BY <2>2
  <1> QED BY <1>3 DEF Min

\* The least of a set is the only one of it that is not above another.
LEMMA LeastIs ==
  ASSUME NEW T \in SUBSET Nat, NEW x \in T, \A y \in T : x <= y
  PROVE  Min(T) = x
  <1>1. Min(T) \in T /\ Min(T) <= x /\ x <= Min(T)
    BY LeastOne
  <1>2. Min(T) \in Nat /\ x \in Nat
    BY <1>1
  <1> QED BY <1>1, <1>2

-----------------------------------------------------------------------------
\* The slots in use, as SlotPool sees them.
Used == {bitno \in 0 .. nbits - 1 : bitmap_isset(bitno)}

\* A bit that the bitmap has is in a word of it.
LEMMA Place ==
  ASSUME BitmapInv, NEW b \in 0 .. nbits - 1
  PROVE  /\ b \div BITS_PER_WORD \in DOMAIN v
         /\ b % BITS_PER_WORD \in Offset
         /\ b = Bit(b \div BITS_PER_WORD, b % BITS_PER_WORD)
         /\ b \in Used <=> b % BITS_PER_WORD \in v[b \div BITS_PER_WORD]
  <1>1. nbits \in Nat /\ b \in Nat
    BY WordAssumption DEF BitmapInv
  <1>2. b \div BITS_PER_WORD \in 0 .. words(nbits) - 1
    BY <1>1, WordsCover
  <1>3. DOMAIN v = 0 .. words(nbits) - 1
    BY DEF BitmapInv
  <1>4. b \in Used <=> b % BITS_PER_WORD \in v[b \div BITS_PER_WORD]
    BY DEF Used, bitmap_isset, bitmap_translate
  <1> QED BY <1>1, <1>2, <1>3, <1>4, SplitBit

\* A zero in a word is a free slot, whose number is below nbits.
LEMMA ZeroIsFree ==
  ASSUME BitmapInv, NEW ix \in DOMAIN v, NEW o \in Offset, o \notin v[ix]
  PROVE  Bit(ix, o) \in (0 .. nbits - 1) \ Used
  <1>1. nbits \in Nat /\ words(nbits) \in Nat /\ ix \in 0 .. words(nbits) - 1 /\ ix \in Nat
    BY WordAssumption, WordsCover DEF BitmapInv
  <1>2. ~(ix = words(nbits) - 1 /\ o \in Leftover(nbits))
    BY <1>1 DEF BitmapInv
  <1>3. Bit(ix, o) \in 0 .. nbits - 1
    BY <1>1, <1>2, WordsCover, JoinBit
  <1> QED BY <1>1, <1>3, JoinBit, Place

\* A word is changed at one bit, and the slot of that bit is what changes.
LEMMA OneBit ==
  ASSUME BitmapInv, NEW b \in 0 .. nbits - 1, NEW set \in SUBSET Offset,
         LET ix == b \div BITS_PER_WORD
             o  == b % BITS_PER_WORD
         IN  /\ v' = [v EXCEPT ![ix] = set]
             /\ \A q \in Offset : q # o => (q \in set <=> q \in v[ix]),
         nbits' = nbits
  PROVE  /\ Used' = IF b % BITS_PER_WORD \in set THEN Used \cup {b} ELSE Used \ {b}
         /\ \A ix \in DOMAIN v, q \in Offset :
              Bit(ix, q) # b => (q \in v'[ix] <=> q \in v[ix])
         /\ v' \in [0 .. words(nbits) - 1 -> SUBSET Offset]
  <1> DEFINE ix == b \div BITS_PER_WORD
             o  == b % BITS_PER_WORD
  <1>1. ix \in DOMAIN v /\ o \in Offset /\ b = Bit(ix, o)
    BY Place
  <1>2. v \in [0 .. words(nbits) - 1 -> SUBSET Offset]
    BY DEF BitmapInv
  <1>3. /\ v' \in [0 .. words(nbits) - 1 -> SUBSET Offset]
        /\ v'[ix] = set
        /\ \A jx \in DOMAIN v : jx # ix => v'[jx] = v[jx]
    BY <1>1, <1>2
  <1>4. \A jx \in DOMAIN v, q \in Offset :
          Bit(jx, q) # b => (q \in v'[jx] <=> q \in v[jx])
    BY <1>1, <1>3
  <1>5. ASSUME NEW c \in 0 .. nbits - 1
        PROVE  c \in Used' <=> IF c = b THEN o \in set ELSE c \in Used
    <2> DEFINE jx == c \div BITS_PER_WORD
               q  == c % BITS_PER_WORD
    <2>1. jx \in DOMAIN v /\ q \in Offset /\ c = Bit(jx, q) /\ (c \in Used <=> q \in v[jx])
      BY Place
    <2>2. c \in Used' <=> q \in v'[jx]
      BY DEF Used, bitmap_isset, bitmap_translate
    <2> QED BY <1>3, <1>4, <2>1, <2>2
  <1>6. Used' \subseteq 0 .. nbits - 1 /\ Used \subseteq 0 .. nbits - 1
    BY DEF Used
  <1> QED BY <1>3, <1>4, <1>5, <1>6

\* A bit that is set or cleared below nbits leaves those behind the end alone.
LEMMA LeftoverStays ==
  ASSUME BitmapInv, NEW b \in 0 .. nbits - 1, nbits' = nbits, index' \subseteq 0 .. nbits - 1,
         v' \in [0 .. words(nbits) - 1 -> SUBSET Offset],
         \A ix \in DOMAIN v, q \in Offset :
           Bit(ix, q) # b => (q \in v'[ix] <=> q \in v[ix])
  PROVE  BitmapInv'
  <1>1. nbits \in Nat /\ DOMAIN v = 0 .. words(nbits) - 1 /\ DOMAIN v' = DOMAIN v
    BY WordAssumption DEF BitmapInv
  <1>2. ASSUME NEW ix \in DOMAIN v, ix = words(nbits) - 1, NEW o \in Leftover(nbits)
        PROVE  o \in v'[ix]
    <2>1. o \in Offset /\ o \in v[ix]
      BY <1>2 DEF Leftover, BitmapInv
    <2>2. Bit(ix, o) >= nbits
      BY <1>1, <1>2, <2>1, WordsCover
    <2>3. Bit(ix, o) # b
      BY <1>1, <2>2
    <2> QED BY <2>1, <2>3
  <1>3. words(nbits)' = words(nbits) /\ Leftover(nbits)' = Leftover(nbits)
    BY DEF words, Leftover
  <1> QED BY <1>1, <1>2, <1>3 DEF BitmapInv

\* bitmap_alloc finds a zero exactly when a slot is free.
LEMMA FullIsFull ==
  ASSUME BitmapInv
  PROVE  NotFull = {} <=> Used = 0 .. nbits - 1
  <1>1. ASSUME NEW ix \in NotFull PROVE Used # 0 .. nbits - 1
    <2>1. ix \in DOMAIN v /\ v[ix] \subseteq Offset /\ v[ix] # Offset
      BY DEF NotFull, WORD_ALLBITS, BitmapInv
    <2>2. PICK o \in Offset : o \notin v[ix]
      BY <2>1
    <2> QED BY <2>1, <2>2, ZeroIsFree
  <1>2. ASSUME NEW b \in (0 .. nbits - 1) \ Used PROVE NotFull # {}
    <2>1. b \div BITS_PER_WORD \in NotFull
      BY Place DEF NotFull, WORD_ALLBITS
    <2> QED BY <2>1
  <1>3. Used \subseteq 0 .. nbits - 1
    BY DEF Used
  <1> QED BY <1>1, <1>2, <1>3

\* The first zero of the first word that has one is the least free slot.
LEMMA FirstZero ==
  ASSUME BitmapInv, NotFull # {}
  PROVE  LET ix == Min(NotFull)
             offset == Min(Offset \ v[ix])
         IN  /\ ix \in DOMAIN v /\ offset \in Offset \ v[ix]
             /\ Bit(ix, offset) = Min((0 .. nbits - 1) \ Used)
             /\ Bit(ix, offset) \in (0 .. nbits - 1) \ Used
  <1> DEFINE ix == Min(NotFull)
             offset == Min(Offset \ v[ix])
  <1>1. nbits \in Nat /\ words(nbits) \in Nat /\ DOMAIN v = 0 .. words(nbits) - 1
    BY WordAssumption, WordsCover DEF BitmapInv
  <1>2. NotFull \in SUBSET Nat
    BY <1>1 DEF NotFull
  <1>3. ix \in NotFull /\ \A jx \in NotFull : ix <= jx
    BY <1>2, LeastOne
  <1> HIDE DEF ix
  <1>4. ix \in DOMAIN v /\ Offset \ v[ix] # {} /\ Offset \ v[ix] \in SUBSET Nat
    <2>1. ix \in DOMAIN v /\ v[ix] # Offset
      BY <1>3 DEF NotFull, WORD_ALLBITS
    <2>2. v[ix] \in SUBSET Offset
      BY <2>1 DEF BitmapInv
    <2>3. Offset \in SUBSET Nat
      BY WordAssumption DEF Offset
    <2> QED BY <2>1, <2>2, <2>3
  <1>5. offset \in Offset \ v[ix] /\ \A q \in Offset \ v[ix] : offset <= q
    BY <1>4, LeastOne
  <1> HIDE DEF offset
  <1>6. Bit(ix, offset) \in (0 .. nbits - 1) \ Used
    BY <1>4, <1>5, ZeroIsFree
  <1>7. ASSUME NEW b \in (0 .. nbits - 1) \ Used
        PROVE  Bit(ix, offset) <= b
    <2> DEFINE jx == b \div BITS_PER_WORD
               q  == b % BITS_PER_WORD
    <2>1. jx \in DOMAIN v /\ q \in Offset \ v[jx] /\ b = Bit(jx, q)
      BY Place
    <2> HIDE DEF jx, q
    <2>2. jx \in NotFull
      BY <2>1 DEF NotFull, WORD_ALLBITS
    <2>3. ix \in Nat /\ jx \in Nat /\ ix <= jx
      BY <1>1, <1>3, <1>4, <2>1, <2>2
    <2>4. CASE ix < jx
      <3>1. Bit(ix, offset) < Bit(jx, q)
        BY <1>5, <2>1, <2>3, <2>4, WordOrder
      <3> QED BY <2>1, <3>1, <1>6
    <2>5. CASE ix = jx
      <3>1. offset <= q
        BY <1>5, <2>1, <2>5
      <3> QED BY <1>5, <2>1, <2>3, <2>5, <3>1, WordAssumption DEF Bit, Offset
    <2> QED BY <2>3, <2>4, <2>5
  <1>8. Min((0 .. nbits - 1) \ Used) = Bit(ix, offset)
    <2>1. (0 .. nbits - 1) \ Used \in SUBSET Nat
      BY <1>1
    <2> QED BY <1>6, <1>7, <2>1, LeastIs
  <1> QED BY <1>4, <1>5, <1>6, <1>8 DEF ix, offset

\* bitmap_create leaves every slot free.
LEMMA CreateIsEmpty ==
  ASSUME Init
  PROVE  BitmapInv /\ Used = {}
  <1>1. nbits \in 0 .. MaxBits /\ nbits \in Nat /\ words(nbits) \in Nat
    BY WordAssumption, WordsCover DEF Init
  <1>2. v = [ix \in 0 .. words(nbits) - 1 |-> IF ix = words(nbits) - 1 THEN Leftover(nbits) ELSE {}]
    BY DEF Init, bitmap_create
  <1>3. BitmapInv
    BY <1>1, <1>2 DEF Init, BitmapInv, Leftover
  <1>4. ASSUME NEW b \in Used PROVE FALSE
    <2> DEFINE ix == b \div BITS_PER_WORD
               o  == b % BITS_PER_WORD
    <2>1. b \in 0 .. nbits - 1
      BY DEF Used
    <2>2. ix \in DOMAIN v /\ o \in Offset /\ b = Bit(ix, o) /\ o \in v[ix]
      BY <1>3, <2>1, Place
    <2> HIDE DEF ix, o
    <2>3. ix \in 0 .. words(nbits) - 1 /\ ix = words(nbits) - 1 /\ o \in Leftover(nbits)
      BY <1>2, <2>2
    <2>4. b >= nbits
      BY <1>1, <2>2, <2>3, WordsCover
    <2> QED BY <1>1, <2>1, <2>4
  <1> QED BY <1>3, <1>4

\* One call of bitmap_alloc is one Alloc of the pool.
LEMMA AllocIsAlloc ==
  ASSUME BitmapInv, bitmap_alloc
  PROVE  BitmapInv' /\ Pool!Alloc
  <1>1. nbits' = nbits /\ Pool!Slots = 0 .. nbits - 1
    BY DEF bitmap_alloc, Pool!Slots
  <1>2. CASE NotFull = {}
    <2>1. index' = {} /\ v' = v
      BY <1>2 DEF bitmap_alloc
    <2>2. BitmapInv' /\ Used' = Used
      BY <1>1, <2>1 DEF BitmapInv, words, Leftover, Used, bitmap_isset, bitmap_translate
    <2>3. Used = 0 .. nbits - 1
      BY <1>2, FullIsFull
    <2> QED BY <1>1, <2>1, <2>2, <2>3 DEF Pool!Alloc, Used
  <1>3. CASE NotFull # {}
    <2> DEFINE ix == Min(NotFull)
               offset == Min(Offset \ v[ix])
               b == Bit(ix, offset)
    <2>1. /\ v' = [v EXCEPT ![ix] = @ \cup {offset}]
          /\ index' = {b}
      BY <1>3 DEF bitmap_alloc, Bit
    <2>2. /\ ix \in DOMAIN v /\ offset \in Offset \ v[ix]
          /\ b = Min((0 .. nbits - 1) \ Used)
          /\ b \in (0 .. nbits - 1) \ Used
      BY <1>3, FirstZero
    <2> HIDE DEF offset
    <2> HIDE DEF ix
    <2>3. ix \in Nat /\ v[ix] \cup {offset} \in SUBSET Offset
      <3>1. nbits \in Nat /\ words(nbits) \in Nat /\ DOMAIN v = 0 .. words(nbits) - 1
        BY WordAssumption, WordsCover DEF BitmapInv
      <3>2. v[ix] \in SUBSET Offset
        BY <2>2 DEF BitmapInv
      <3> QED BY <2>2, <3>1, <3>2
    <2>4. b \div BITS_PER_WORD = ix /\ b % BITS_PER_WORD = offset
      BY <2>2, <2>3, JoinBit
    <2> HIDE DEF b
    <2>5. /\ Used' = Used \cup {b}
          /\ \A jx \in DOMAIN v, q \in Offset :
               Bit(jx, q) # b => (q \in v'[jx] <=> q \in v[jx])
          /\ v' \in [0 .. words(nbits) - 1 -> SUBSET Offset]
      <3> DEFINE set == v[ix] \cup {offset}
      <3>1. v' = [v EXCEPT ![ix] = set] /\ offset \in set
        BY <2>1
      <3>2. \A q \in Offset : q # offset => (q \in set <=> q \in v[ix])
        OBVIOUS
      <3>3. set \in SUBSET Offset
        BY <2>3
      <3> HIDE DEF set
      <3> QED BY <1>1, <2>2, <2>4, <3>1, <3>2, <3>3, OneBit
    <2>6. BitmapInv'
      BY <1>1, <2>1, <2>2, <2>5, LeftoverStays
    <2>7. Used # 0 .. nbits - 1
      BY <2>2
    <2>8. Pool!Min((0 .. nbits - 1) \ Used) = b
      BY <2>2 DEF Min, Pool!Min
    <2> QED BY <1>1, <2>1, <2>5, <2>6, <2>7, <2>8 DEF Pool!Alloc, Used
  <1> QED BY <1>2, <1>3

\* bitmap_mark marks the slot and no other ...
LEMMA MarkIsMark ==
  ASSUME BitmapInv, NEW b \in 0 .. nbits - 1, bitmap_mark(b)
  PROVE  BitmapInv' /\ Pool!Mark(b)
  <1> DEFINE ix == b \div BITS_PER_WORD
             o  == b % BITS_PER_WORD
             set == v[ix] \cup {o}
  <1>1. /\ o \notin v[ix] /\ v' = [v EXCEPT ![ix] = set]
        /\ nbits' = nbits /\ index' = index
    BY DEF bitmap_mark, bitmap_translate
  <1>2. ix \in DOMAIN v /\ o \in Offset /\ b \notin Used
    BY <1>1, Place
  <1>3. set \in SUBSET Offset /\ o \in set /\ \A q \in Offset : q # o => (q \in set <=> q \in v[ix])
    BY <1>2 DEF BitmapInv
  <1> HIDE DEF set
  <1>4. /\ Used' = Used \cup {b}
        /\ \A jx \in DOMAIN v, q \in Offset :
             Bit(jx, q) # b => (q \in v'[jx] <=> q \in v[jx])
        /\ v' \in [0 .. words(nbits) - 1 -> SUBSET Offset]
    BY <1>1, <1>3, OneBit
  <1>5. BitmapInv'
    BY <1>1, <1>4, LeftoverStays DEF BitmapInv
  <1> QED BY <1>1, <1>2, <1>4, <1>5 DEF Pool!Mark, Used

\* ... and bitmap_unmark frees it and no other.
LEMMA UnmarkIsUnmark ==
  ASSUME BitmapInv, NEW b \in 0 .. nbits - 1, bitmap_unmark(b)
  PROVE  BitmapInv' /\ Pool!Unmark(b)
  <1> DEFINE ix == b \div BITS_PER_WORD
             o  == b % BITS_PER_WORD
             set == v[ix] \ {o}
  <1>1. /\ o \in v[ix] /\ v' = [v EXCEPT ![ix] = set]
        /\ nbits' = nbits /\ index' = index
    BY DEF bitmap_unmark, bitmap_translate
  <1>2. ix \in DOMAIN v /\ o \in Offset /\ b \in Used
    BY <1>1, Place
  <1>3. set \in SUBSET Offset /\ o \notin set /\ \A q \in Offset : q # o => (q \in set <=> q \in v[ix])
    BY <1>2 DEF BitmapInv
  <1> HIDE DEF set
  <1>4. /\ Used' = Used \ {b}
        /\ \A jx \in DOMAIN v, q \in Offset :
             Bit(jx, q) # b => (q \in v'[jx] <=> q \in v[jx])
        /\ v' \in [0 .. words(nbits) - 1 -> SUBSET Offset]
    BY <1>1, <1>3, OneBit
  <1>5. BitmapInv'
    BY <1>1, <1>4, LeftoverStays DEF BitmapInv
  <1> QED BY <1>1, <1>2, <1>4, <1>5 DEF Pool!Unmark, Used

\* BitmapInv is kept, and every step is one of the pool.
LEMMA StepIsPool ==
  ASSUME BitmapInv, [Next]_<<nbits, v, index>>
  PROVE  BitmapInv' /\ [Pool!Next]_<<nbits, Used, index>>
  <1>1. CASE UNCHANGED <<nbits, v, index>>
    BY <1>1 DEF BitmapInv, words, Leftover, Used, bitmap_isset, bitmap_translate
  <1>2. CASE bitmap_alloc
    BY <1>2, AllocIsAlloc DEF Pool!Next
  <1>3. CASE \E b \in 0 .. nbits - 1 : bitmap_mark(b) \/ bitmap_unmark(b)
    BY <1>3, MarkIsMark, UnmarkIsUnmark DEF Pool!Next, Pool!Slots
  <1> QED BY <1>1, <1>2, <1>3 DEF Next

\* The words are the pool: the least free bit is handed out, none twice and
\* none beyond the end, and all of them before bitmap_alloc says it is full.
THEOREM BitmapIsPool == Spec => IsPool
  <1>1. Init => BitmapInv /\ Pool!Init
    BY CreateIsEmpty DEF Pool!Init, Init, Used
  <1>2. BitmapInv /\ [Next]_<<nbits, v, index>> => BitmapInv' /\ [Pool!Next]_<<nbits, Used, index>>
    BY StepIsPool
  <1> QED BY <1>1, <1>2, PTL DEF Spec, IsPool, Pool!Spec, Used

\* bitmap_alloc's "assert(*index < b->nbits)" holds: what it hands out is one
\* of the bits that the bitmap was created with.
THEOREM HandedOutInRange == Spec => [](index \subseteq 0 .. nbits - 1)
  <1>1. Init => BitmapInv
    BY CreateIsEmpty
  <1>2. BitmapInv /\ [Next]_<<nbits, v, index>> => BitmapInv'
    BY StepIsPool
  <1>3. BitmapInv => index \subseteq 0 .. nbits - 1
    BY DEF BitmapInv
  <1> QED BY <1>1, <1>2, <1>3, PTL DEF Spec
=============================================================================
