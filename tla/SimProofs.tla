----------------------------- MODULE SimProofs ------------------------------
(* The invariants of Paging, for any number of pages, frames and slots and    *)
(* whatever victims the replacement algorithm picks, and the simulator with   *)
(* its replacement algorithms and, for opt, any traces.                       *)
EXTENDS Sim, FiniteSetTheorems, SequenceTheorems, WellFoundedInduction, TLAPS

-----------------------------------------------------------------------------
(* The pages, the frames and the swap file.                                  *)

\* A set of numbers that is not empty has a least one: the loops of
\* allocate_frame and bitmap_alloc find what they look for.
LEMMA MinIsLeast ==
  ASSUME NEW T \in SUBSET Nat, T # {}
  PROVE  Min(T) \in T /\ \A y \in T : Min(T) <= y
<1> DEFINE less == {ss \in Nat \X Nat : ss[1] < ss[2]}
<1>1. IsWellFoundedOn(less, Nat)
  BY NatLessThanWellFounded, Zenon DEF OpToRel
<1>2. \E x \in T : \A y \in T : <<y, x>> \notin less
  BY <1>1, WFMin
<1>3. PICK x \in T : \A y \in T : <<y, x>> \notin less
  BY <1>2
<1>4. ASSUME NEW y \in T PROVE x <= y
  <2>1. <<y, x>> \in Nat \X Nat /\ <<y, x>> \notin less
    BY <1>3
  <2>2. ~(<<y, x>>[1] < <<y, x>>[2])
    BY <2>1, Zenon
  <2> QED
    BY <2>2
<1> QED
  BY <1>4 DEF Min

\* The constants, as the proofs need them.
LEMMA Sizes ==
  /\ INVALID_SWAP \notin Slot
  /\ Slot \subseteq Nat
  /\ Frame \subseteq Nat
BY SizeAssumption DEF INVALID_SWAP, Slot, Frame

\* allocate_frame finds a frame that is not in use.
LEMMA FreeFrameIsFree ==
  ASSUME FreeFrames # {}
  PROVE  Min(FreeFrames) \in Frame /\ coremap[Min(FreeFrames)] = Nobody
<1>1. FreeFrames \in SUBSET Nat
  BY Sizes DEF FreeFrames
<1>2. Min(FreeFrames) \in FreeFrames
  BY <1>1, MinIsLeast
<1> QED
  BY <1>2 DEF FreeFrames

\* bitmap_alloc finds a slot that is not marked, or all are.
LEMMA FreeSlotIsFree ==
  \/ FreeSlot = INVALID_SWAP /\ Slot \subseteq swapmap
  \/ FreeSlot \in Slot \ swapmap
<1>1. CASE Slot \subseteq swapmap
  BY <1>1 DEF FreeSlot
<1>2. CASE ~(Slot \subseteq swapmap)
  <2>1. Slot \ swapmap \in SUBSET Nat /\ Slot \ swapmap # {}
    BY <1>2, Sizes
  <2>2. Min(Slot \ swapmap) \in Slot \ swapmap
    BY <2>1, MinIsLeast
  <2> QED
    BY <1>2, <2>2 DEF FreeSlot
<1> QED
  BY <1>1, <1>2

\* swap_pageout gives a page a slot no other page has, and none only if every
\* slot is taken.
LEMMA PageoutSlotIsOwn ==
  ASSUME TypeOK, SlotsMatch, NEW v \in Page
  PROVE  /\ PageoutSlot(v) \in Slot \cup {INVALID_SWAP}
         /\ PageoutSlot(v) # INVALID_SWAP =>
              \A q \in Page \ {v} : swap_off[q] # PageoutSlot(v)
         /\ PageoutSlot(v) = INVALID_SWAP => swap_off[v] = INVALID_SWAP /\ swapmap = Slot
         /\ swap_off[v] # INVALID_SWAP => PageoutSlot(v) = swap_off[v]
<1>1. CASE swap_off[v] # INVALID_SWAP
  BY <1>1 DEF TypeOK, SlotsMatch, PageoutSlot
<1>2. CASE swap_off[v] = INVALID_SWAP
  <2>1. PageoutSlot(v) = FreeSlot
    BY <1>2 DEF PageoutSlot
  <2>2. CASE FreeSlot = INVALID_SWAP /\ Slot \subseteq swapmap
    BY <1>2, <2>1, <2>2 DEF TypeOK
  <2>3. CASE FreeSlot \in Slot \ swapmap
    BY <1>2, <2>1, <2>3, Sizes DEF SlotsMatch
  <2> QED
    BY <2>2, <2>3, FreeSlotIsFree
<1> QED
  BY <1>1, <1>2

\* What access_mem does to the content of a page.
LEMMA WrittenContent ==
  ASSUME NEW p \in Page, NEW n \in Nat, NEW type
  PROVE  /\ Written([vaddr |-> p, version |-> n], type)
              = [vaddr |-> p, version |-> IF Writes(type) THEN n + 1 ELSE n]
         /\ Written([vaddr |-> p, version |-> n], type) \in Content
BY DEF Written, Content

-----------------------------------------------------------------------------
(* The initial state. *)

LEMMA InitIInv == Init => IInv
<1> SUFFICES ASSUME Init PROVE IInv
  OBVIOUS
<1>1. TypeOK
  BY SizeAssumption DEF Init, TypeOK, Frame
<1>2. FramesMatch
  BY DEF Init, FramesMatch
<1>3. SlotsMatch
  BY DEF Init, SlotsMatch
<1>4. LatestKept
  BY DEF Init, LatestKept
<1>5. OnlyWhenFull
  BY DEF Init, OnlyWhenFull
<1> QED
  BY <1>1, <1>2, <1>3, <1>4, <1>5 DEF IInv

-----------------------------------------------------------------------------
(* A hit. *)

LEMMA HitIInv ==
  ASSUME IInv, NEW p \in Page, NEW type \in Type, Hit(p, type)
  PROVE  IInv'
<1> DEFINE n == IF Writes(type) THEN version[p] + 1 ELSE version[p]
           f == frame[p]
<1> USE DEF IInv
<1>0. f \in Frame /\ version[p] \in Nat /\ n \in Nat
  BY DEF TypeOK
<1>1. /\ p \in valid /\ valid' = valid /\ ref' = ref \cup {p}
      /\ dirty' = IF Writes(type) THEN dirty \cup {p} ELSE dirty
      /\ referenced' = referenced \cup {p}
  BY DEF Hit, Finish
<1>2. /\ physmem' = [physmem EXCEPT ![f] = Written(physmem[f], type)]
      /\ version' = [version EXCEPT ![p] = n]
      /\ UNCHANGED <<onswap, frame, swap_off, coremap, swapmap, swapfile, status>>
  BY DEF Hit, Count, swap_vars
<1>3. physmem[f] = [vaddr |-> p, version |-> version[p]]
  BY <1>1 DEF LatestKept, Latest
<1>4. physmem'[f] = [vaddr |-> p, version |-> n] /\ Written(physmem[f], type) \in Content
  BY <1>0, <1>2, <1>3, WrittenContent DEF TypeOK
<1>5. TypeOK'
  BY <1>0, <1>1, <1>2, <1>4 DEF TypeOK
<1>6. FramesMatch'
  BY <1>1, <1>2 DEF FramesMatch
<1>7. SlotsMatch'
  BY <1>2 DEF SlotsMatch
<1>8. LatestKept'
  <2> SUFFICES ASSUME NEW q \in Page
               PROVE  /\ q \in valid' => physmem'[frame'[q]] = Latest(q)'
                      /\ q \in onswap' /\ swap_off'[q] # INVALID_SWAP => swapfile'[swap_off'[q]] = Latest(q)'
                      /\ q \in valid' \ dirty' => /\ swap_off'[q] # INVALID_SWAP
                                                  /\ swapfile'[swap_off'[q]] = Latest(q)'
    BY DEF LatestKept
  <2>1. CASE q = p
    <3>1. Latest(q)' = [vaddr |-> p, version |-> n]
      BY <1>0, <1>2, <2>1 DEF Latest, TypeOK
    <3>2. q \notin onswap'
      BY <1>1, <1>2, <2>1 DEF TypeOK
    <3>3. ASSUME q \notin dirty' PROVE q \notin dirty /\ Latest(q)' = Latest(q)
      BY <1>1, <2>1, <3>1, <3>3 DEF Latest
    <3> QED
      BY <1>1, <1>2, <1>4, <2>1, <3>1, <3>2, <3>3 DEF LatestKept
  <2>2. CASE q # p
    <3>1. Latest(q)' = Latest(q)
      BY <1>2, <2>2 DEF Latest, TypeOK
    <3>2. ASSUME q \in valid PROVE frame[q] \in Frame /\ frame[q] # f
      BY <1>1, <2>2, <3>2 DEF FramesMatch, TypeOK
    <3>3. ASSUME q \in valid PROVE physmem'[frame'[q]] = physmem[frame[q]]
      BY <1>2, <3>2, <3>3 DEF TypeOK
    <3> QED
      BY <1>1, <1>2, <2>2, <3>1, <3>3 DEF LatestKept
  <2> QED
    BY <2>1, <2>2
<1>9. OnlyWhenFull'
  BY <1>2 DEF OnlyWhenFull
<1> QED
  BY <1>5, <1>6, <1>7, <1>8, <1>9

-----------------------------------------------------------------------------
(* A fault. *)

\* What Load leaves once frame f is free: off, map and file are the state of
\* swap after the victim has been written, valid0 to onswap0 the flags.
LoadReady(p, f, valid0, dirty0, ref0, onswap0) ==
  /\ f \in Frame
  /\ p \notin valid0
  /\ valid0 \subseteq Page /\ dirty0 \subseteq valid0
  /\ ref0 \subseteq Page
  /\ onswap0 \subseteq Page \ valid0
  /\ p \in onswap0 => swap_off'[p] # INVALID_SWAP
  /\ \A q \in valid0 : coremap[frame[q]] = q /\ frame[q] # f
  /\ \A g \in Frame \ {f} : coremap[g] # Nobody => coremap[g] \in valid0 /\ frame[coremap[g]] = g
  /\ swap_off' \in [Page -> Slot \cup {INVALID_SWAP}]
  /\ swapmap' \subseteq Slot
  /\ swapfile' \in [Slot -> Content \cup {Junk}]
  /\ SlotsMatch'
  /\ \A q \in Page :
       /\ q \in valid0 => physmem[frame[q]] = Latest(q)
       /\ q \in onswap0 /\ swap_off'[q] # INVALID_SWAP => swapfile'[swap_off'[q]] = Latest(q)
       /\ q \in valid0 \ dirty0 => /\ swap_off'[q] # INVALID_SWAP
                                   /\ swapfile'[swap_off'[q]] = Latest(q)
       /\ q \in onswap0 /\ swap_off'[q] = INVALID_SWAP => swapmap' = Slot

LEMMA LoadIInv ==
  ASSUME IInv, NEW p \in Page, NEW type \in Type, NEW f, NEW valid0, NEW dirty0,
         NEW ref0, NEW onswap0,
         LoadReady(p, f, valid0, dirty0, ref0, onswap0),
         Load(p, type, f, valid0, dirty0, ref0, onswap0)
  PROVE  IInv'
<1> DEFINE old == IF p \in onswap0 THEN version[p] ELSE 0
           n == IF Writes(type) THEN old + 1 ELSE old
<1>0. /\ f \in Frame /\ p \notin valid0 /\ valid0 \subseteq Page /\ dirty0 \subseteq valid0
      /\ ref0 \subseteq Page /\ onswap0 \subseteq Page \ valid0
      /\ p \in onswap0 => swap_off'[p] # INVALID_SWAP
  BY DEF LoadReady
<1>1. TypeOK /\ old \in Nat /\ n \in Nat
  BY DEF TypeOK, IInv
<1>2. /\ coremap' = [coremap EXCEPT ![f] = p]
      /\ frame' = [frame EXCEPT ![p] = f]
      /\ onswap' = onswap0 \ {p}
      /\ UNCHANGED status
  BY DEF Load
<1>3. /\ valid' = valid0 \cup {p}
      /\ ref' = ref0 \cup {p}
      /\ referenced' = referenced \cup {p}
  BY DEF Load, Finish
<1>4. /\ dirty' \subseteq dirty0 \cup {p} /\ dirty0 \ {p} \subseteq dirty'
      /\ p \notin dirty' => p \in onswap0 /\ ~Writes(type)
  BY DEF Load, Finish
<1>5. version' = [version EXCEPT ![p] = n]
  BY DEF Load, Count
<1>6. physmem' = [physmem EXCEPT ![f] = Written([vaddr |-> p, version |-> old], type)]
  <2>1. CASE p \in onswap0
    <3>1. swapfile'[swap_off'[p]] = [vaddr |-> p, version |-> version[p]]
      BY <1>0, <2>1 DEF LoadReady, Latest
    <3> QED
      BY <2>1, <3>1 DEF Load
  <2>2. CASE p \notin onswap0
    BY <2>2 DEF Load
  <2> QED
    BY <2>1, <2>2
<1>7. /\ physmem'[f] = [vaddr |-> p, version |-> n]
      /\ Written([vaddr |-> p, version |-> old], type) \in Content
  BY <1>0, <1>1, <1>6, WrittenContent DEF TypeOK
<1>8. TypeOK'
  <2>1. /\ swap_off' \in [Page -> Slot \cup {INVALID_SWAP}]
        /\ swapmap' \subseteq Slot
        /\ swapfile' \in [Slot -> Content \cup {Junk}]
    BY DEF LoadReady
  <2>2. /\ valid' \subseteq Page /\ dirty' \subseteq valid' /\ ref' \subseteq Page
        /\ onswap' \subseteq Page \ valid' /\ referenced' \subseteq Page
    BY <1>0, <1>1, <1>2, <1>3, <1>4 DEF TypeOK
  <2>3. /\ frame' \in [Page -> Frame] /\ coremap' \in [Frame -> Page \cup {Nobody}]
        /\ status' \in {"running", "assert", "fault"}
        /\ version' \in [Page -> Nat]
    BY <1>0, <1>1, <1>2, <1>5 DEF TypeOK
  <2>4. physmem' \in [Frame -> Content \cup {Junk}]
    BY <1>0, <1>1, <1>6, <1>7 DEF TypeOK
  <2> QED
    BY <2>1, <2>2, <2>3, <2>4 DEF TypeOK
<1>9. FramesMatch'
  <2>1. ASSUME NEW q \in valid' PROVE coremap'[frame'[q]] = q
    <3>1. CASE q = p
      BY <1>0, <1>1, <1>2, <3>1 DEF TypeOK
    <3>2. CASE q # p
      <4>1. q \in valid0 /\ q \in Page
        BY <1>0, <1>3, <2>1, <3>2
      <4>2. frame'[q] = frame[q] /\ coremap[frame[q]] = q /\ frame[q] # f
        BY <1>1, <1>2, <3>2, <4>1 DEF TypeOK, LoadReady
      <4> QED
        BY <1>1, <1>2, <4>1, <4>2 DEF TypeOK
    <3> QED
      BY <3>1, <3>2
  <2>2. ASSUME NEW g \in Frame, coremap'[g] # Nobody
        PROVE  coremap'[g] \in valid' /\ frame'[coremap'[g]] = g
    <3>1. CASE g = f
      BY <1>1, <1>2, <1>3, <3>1 DEF TypeOK
    <3>2. CASE g # f
      <4>1. coremap'[g] = coremap[g]
        BY <1>1, <1>2, <3>2 DEF TypeOK
      <4>2. coremap[g] \in valid0 /\ frame[coremap[g]] = g
        BY <2>2, <3>2, <4>1 DEF LoadReady
      <4>3. coremap[g] # p
        BY <1>0, <4>2
      <4> QED
        BY <1>0, <1>1, <1>2, <1>3, <4>1, <4>2, <4>3 DEF TypeOK
    <3> QED
      BY <3>1, <3>2
  <2> QED
    BY <2>1, <2>2 DEF FramesMatch
<1>10. LatestKept'
  <2> SUFFICES ASSUME NEW q \in Page
               PROVE  /\ q \in valid' => physmem'[frame'[q]] = Latest(q)'
                      /\ q \in onswap' /\ swap_off'[q] # INVALID_SWAP => swapfile'[swap_off'[q]] = Latest(q)'
                      /\ q \in valid' \ dirty' => /\ swap_off'[q] # INVALID_SWAP
                                                  /\ swapfile'[swap_off'[q]] = Latest(q)'
    BY DEF LatestKept
  <2>1. CASE q = p
    <3>1. Latest(q)' = [vaddr |-> p, version |-> n]
      BY <1>1, <1>5, <2>1 DEF Latest, TypeOK
    <3>2. frame'[q] = f /\ q \notin onswap'
      BY <1>1, <1>2, <2>1 DEF TypeOK
    <3>3. ASSUME q \notin dirty'
          PROVE  swap_off'[q] # INVALID_SWAP /\ swapfile'[swap_off'[q]] = Latest(q)'
      <4>1. p \in onswap0 /\ n = version[p]
        BY <1>4, <2>1, <3>3
      <4>2. Latest(q)' = Latest(q)
        BY <2>1, <3>1, <4>1 DEF Latest
      <4> QED
        BY <1>0, <2>1, <4>1, <4>2 DEF LoadReady
    <3> QED
      BY <1>7, <3>1, <3>2, <3>3
  <2>2. CASE q # p
    <3>1. Latest(q)' = Latest(q)
      BY <1>1, <1>5, <2>2 DEF Latest, TypeOK
    <3>2. /\ q \in valid' <=> q \in valid0
          /\ q \in onswap' <=> q \in onswap0
          /\ q \in dirty' <=> q \in dirty0
      BY <1>2, <1>3, <1>4, <2>2
    <3>3. ASSUME q \in valid0 PROVE physmem'[frame'[q]] = physmem[frame[q]]
      <4>1. frame'[q] = frame[q] /\ frame[q] # f /\ frame[q] \in Frame
        BY <1>1, <1>2, <2>2, <3>3 DEF TypeOK, LoadReady
      <4> QED
        BY <1>1, <1>6, <4>1 DEF TypeOK
    <3> QED
      BY <3>1, <3>2, <3>3 DEF LoadReady
  <2> QED
    BY <2>1, <2>2
<1>11. OnlyWhenFull'
  BY <1>2 DEF OnlyWhenFull, LoadReady
<1>12. SlotsMatch'
  BY DEF LoadReady
<1> QED
  BY <1>8, <1>9, <1>10, <1>11, <1>12 DEF IInv

LEMMA FaultFreeIInv ==
  ASSUME IInv, NEW p \in Page, NEW type \in Type, FaultFree(p, type)
  PROVE  IInv'
<1> DEFINE f == Min(FreeFrames)
<1>1. f \in Frame /\ coremap[f] = Nobody
  BY FreeFrameIsFree DEF FaultFree
<1>2. /\ p \notin valid /\ ~(p \in onswap /\ swap_off[p] = INVALID_SWAP)
      /\ UNCHANGED <<swap_off, swapmap, swapfile>>
      /\ Load(p, type, f, valid, dirty, ref, onswap)
  BY DEF FaultFree, MayFault, swap_vars
<1>3. \A q \in valid : coremap[frame[q]] = q /\ frame[q] # f
  BY <1>1, PageAssumption DEF IInv, FramesMatch, TypeOK
<1>4. SlotsMatch'
  BY <1>2 DEF IInv, SlotsMatch
<1>5. LoadReady(p, f, valid, dirty, ref, onswap)
  BY <1>1, <1>2, <1>3, <1>4
     DEF LoadReady, IInv, TypeOK, FramesMatch, LatestKept, OnlyWhenFull
<1> QED
  BY <1>2, <1>5, LoadIInv

LEMMA FaultEvictIInv ==
  ASSUME IInv, NEW p \in Page, NEW type \in Type, NEW f \in Frame,
         NEW cleared \in SUBSET Page, FaultEvict(p, type, f, cleared)
  PROVE  IInv'
<1> DEFINE v == coremap[f]
           s == PageoutSlot(v)
<1>1. TypeOK /\ FramesMatch /\ SlotsMatch /\ LatestKept /\ OnlyWhenFull
  BY DEF IInv
<1>2. /\ p \notin valid /\ ~(p \in onswap /\ swap_off[p] = INVALID_SWAP)
      /\ FreeFrames = {}
      /\ WriteVictim(f)
      /\ Load(p, type, f, valid \ {v}, dirty \ {v}, ref \ cleared, Swapped(f))
  BY DEF FaultEvict, MayFault
<1>3. v \in valid /\ v \in Page /\ frame[v] = f /\ v # p
  BY <1>1, <1>2 DEF FreeFrames, FramesMatch, TypeOK
<1>4. /\ s \in Slot \cup {INVALID_SWAP}
      /\ s # INVALID_SWAP => \A q \in Page \ {v} : swap_off[q] # s
      /\ s = INVALID_SWAP => swap_off[v] = INVALID_SWAP /\ swapmap = Slot
      /\ swap_off[v] # INVALID_SWAP => s = swap_off[v]
  BY <1>1, <1>3, PageoutSlotIsOwn
<1>5. physmem[f] = Latest(v) /\ Latest(v) \in Content
  BY <1>1, <1>3 DEF LatestKept, Latest, TypeOK, Content
<1>6. Swapped(f) = onswap \cup ({v} \cap dirty)
  BY DEF Swapped
<1>7. \A q \in Page \ {v} : swap_off'[q] = swap_off[q]
  BY <1>1, <1>2 DEF WriteVictim, TypeOK
<1>8. \A q \in Page \ {v} : swap_off[q] # INVALID_SWAP => swapfile'[swap_off[q]] = swapfile[swap_off[q]]
  <2> SUFFICES ASSUME NEW q \in Page \ {v}, swap_off[q] # INVALID_SWAP
               PROVE  swapfile'[swap_off[q]] = swapfile[swap_off[q]]
    OBVIOUS
  <2>1. swap_off[q] \in Slot /\ swap_off[q] # s
    BY <1>1, <1>4 DEF TypeOK
  <2> QED
    BY <1>1, <1>2, <2>1 DEF WriteVictim, TypeOK, swap_vars
<1>9. v \in dirty => /\ swap_off'[v] = s
                     /\ swapmap' = swapmap \cup ({s} \ {INVALID_SWAP})
                     /\ s # INVALID_SWAP => swapfile'[s] = Latest(v)
  BY <1>1, <1>2, <1>3, <1>4, <1>5 DEF WriteVictim, TypeOK
<1>10. v \notin dirty => UNCHANGED <<swap_off, swapmap, swapfile>>
  BY <1>2 DEF WriteVictim, swap_vars
<1>11. /\ swap_off' \in [Page -> Slot \cup {INVALID_SWAP}]
       /\ swapmap' \subseteq Slot /\ swapmap \subseteq swapmap'
       /\ swapfile' \in [Slot -> Content \cup {Junk}]
  <2>1. CASE v \in dirty
    BY <1>1, <1>2, <1>3, <1>4, <1>5, <2>1 DEF WriteVictim, TypeOK
  <2>2. CASE v \notin dirty
    BY <1>1, <1>10, <2>2 DEF TypeOK
  <2> QED
    BY <2>1, <2>2
<1>12. SlotsMatch'
  <2>1. CASE v \in dirty
    <3>1. ASSUME NEW q \in Page, NEW r \in Page, q # r, swap_off'[q] # INVALID_SWAP
          PROVE  swap_off'[q] # swap_off'[r]
      BY <1>1, <1>4, <1>7, <1>9, <2>1, <3>1 DEF SlotsMatch
    <3>2. ASSUME NEW x PROVE x \in swapmap' <=> x \in {swap_off'[q] : q \in Page} \ {INVALID_SWAP}
      <4>1. x \in swapmap <=> x # INVALID_SWAP /\ \E q \in Page : swap_off[q] = x
        BY <1>1 DEF SlotsMatch
      <4>2. CASE x = s
        BY <1>1, <1>3, <1>9, <2>1, <4>1, <4>2
      <4>3. CASE x # s
        <5>1. swap_off'[v] # x /\ (x # INVALID_SWAP => swap_off[v] # x)
          BY <1>4, <1>9, <2>1, <4>3
        <5> QED
          BY <1>7, <1>9, <2>1, <4>1, <4>3, <5>1
      <4> QED
        BY <4>2, <4>3
    <3> QED
      BY <3>1, <3>2 DEF SlotsMatch
  <2>2. CASE v \notin dirty
    BY <1>1, <1>10, <2>2 DEF SlotsMatch
  <2> QED
    BY <2>1, <2>2
<1>13. \A q \in Page :
         /\ q \in valid \ {v} => physmem[frame[q]] = Latest(q)
         /\ q \in Swapped(f) /\ swap_off'[q] # INVALID_SWAP => swapfile'[swap_off'[q]] = Latest(q)
         /\ q \in (valid \ {v}) \ (dirty \ {v}) => /\ swap_off'[q] # INVALID_SWAP
                                                   /\ swapfile'[swap_off'[q]] = Latest(q)
         /\ q \in Swapped(f) /\ swap_off'[q] = INVALID_SWAP => swapmap' = Slot
  <2> SUFFICES ASSUME NEW q \in Page
               PROVE  /\ q \in valid \ {v} => physmem[frame[q]] = Latest(q)
                      /\ q \in Swapped(f) /\ swap_off'[q] # INVALID_SWAP =>
                           swapfile'[swap_off'[q]] = Latest(q)
                      /\ q \in (valid \ {v}) \ (dirty \ {v}) =>
                           /\ swap_off'[q] # INVALID_SWAP
                           /\ swapfile'[swap_off'[q]] = Latest(q)
                      /\ q \in Swapped(f) /\ swap_off'[q] = INVALID_SWAP => swapmap' = Slot
    OBVIOUS
  <2>1. CASE q = v
    <3>1. q \in Swapped(f) => v \in dirty
      BY <1>1, <1>3, <1>6, <2>1 DEF TypeOK
    <3> QED
      BY <1>4, <1>9, <1>11, <2>1, <3>1
  <2>2. CASE q # v
    <3>1. q \in Swapped(f) <=> q \in onswap
      BY <1>6, <2>2
    <3>2. swap_off'[q] = swap_off[q]
      BY <1>7, <2>2
    <3>3. swap_off[q] # INVALID_SWAP => swapfile'[swap_off[q]] = swapfile[swap_off[q]]
      BY <1>8, <2>2
    <3>4. q \in onswap /\ swap_off[q] = INVALID_SWAP => swapmap' = Slot
      BY <1>1, <1>11 DEF OnlyWhenFull
    <3> QED
      BY <1>1, <2>2, <3>1, <3>2, <3>3, <3>4 DEF LatestKept
  <2> QED
    BY <2>1, <2>2
<1>14. \A q \in valid \ {v} : coremap[frame[q]] = q /\ frame[q] # f
  BY <1>1 DEF FramesMatch
<1>15. \A g \in Frame \ {f} :
          coremap[g] # Nobody => coremap[g] \in valid \ {v} /\ frame[coremap[g]] = g
  BY <1>1, <1>3 DEF FramesMatch
<1>16. /\ valid \ {v} \subseteq Page /\ dirty \ {v} \subseteq valid \ {v}
       /\ ref \ cleared \subseteq Page /\ Swapped(f) \subseteq Page \ (valid \ {v})
       /\ p \notin valid \ {v}
  BY <1>1, <1>2, <1>3, <1>6 DEF TypeOK
<1>17. p \in Swapped(f) => swap_off'[p] # INVALID_SWAP
  BY <1>2, <1>3, <1>6, <1>7
<1>18. LoadReady(p, f, valid \ {v}, dirty \ {v}, ref \ cleared, Swapped(f))
  BY <1>11, <1>12, <1>13, <1>14, <1>15, <1>16, <1>17 DEF LoadReady
<1> QED
  BY <1>2, <1>18, LoadIInv

-----------------------------------------------------------------------------
LEMMA NextIInv == IInv /\ [Next]_vars => IInv'
<1> SUFFICES ASSUME IInv, [Next]_vars PROVE IInv'
  OBVIOUS
<1>1. ASSUME NEW p \in Page, NEW type \in Type, Hit(p, type) PROVE IInv'
  BY <1>1, HitIInv
<1>2. ASSUME NEW p \in Page, NEW type \in Type, FaultFree(p, type) PROVE IInv'
  BY <1>2, FaultFreeIInv
<1>3. ASSUME NEW p \in Page, NEW type \in Type, NEW f \in Frame,
             NEW cleared \in SUBSET Page, FaultEvict(p, type, f, cleared)
      PROVE  IInv'
  BY <1>3, FaultEvictIInv
<1>4. ASSUME NEW p \in Page, Abort(p) PROVE IInv'
  BY <1>4 DEF Abort, IInv, TypeOK, FramesMatch, SlotsMatch, LatestKept, Latest, OnlyWhenFull,
              pte_vars, swap_vars
<1>5. ASSUME Crash PROVE IInv'
  BY <1>5 DEF Crash, IInv, TypeOK, FramesMatch, SlotsMatch, LatestKept, Latest, OnlyWhenFull,
              pte_vars, swap_vars
<1>6. CASE UNCHANGED vars
  BY <1>6 DEF IInv, TypeOK, FramesMatch, SlotsMatch, LatestKept, Latest, OnlyWhenFull,
              vars, pte_vars, swap_vars
<1> QED
  BY <1>1, <1>2, <1>3, <1>4, <1>5, <1>6 DEF Next

\* The inductive invariant of the simulator holds, whichever victims the
\* replacement algorithm picks.
THEOREM Invariance == Spec => []IInv
BY InitIInv, NextIInv, PTL DEF Spec

\* Every variable keeps its type.
THEOREM TypeCorrect == Spec => []TypeOK
<1>1. IInv => TypeOK
  BY DEF IInv
<1> QED
  BY <1>1, Invariance, PTL

\* Page table and coremap stay inverse to each other.
THEOREM FramesAgree == Spec => []FramesMatch
<1>1. IInv => FramesMatch
  BY DEF IInv
<1> QED
  BY <1>1, Invariance, PTL

\* No slot of the swap file is shared or leaks.
THEOREM SlotsAgree == Spec => []SlotsMatch
<1>1. IInv => SlotsMatch
  BY DEF IInv
<1> QED
  BY <1>1, Invariance, PTL

\* A page has all its writes since it was zeroed, in memory or on swap.
THEOREM LatestIsKept == Spec => []LatestKept
<1>1. IInv => LatestKept
  BY DEF IInv
<1> QED
  BY <1>1, Invariance, PTL

\* Only a full swap file leaves a page without a slot.
THEOREM FullIsFull == Spec => []OnlyWhenFull
<1>1. IInv => OnlyWhenFull
  BY DEF IInv
<1> QED
  BY <1>1, Invariance, PTL

-----------------------------------------------------------------------------
(* The replacement algorithms.                                               *)

\* When no frame is free, every frame has a page.
LEMMA AllTaken ==
  ASSUME IInv, FreeFrames = {}, NEW f \in Frame
  PROVE  coremap[f] \in valid /\ frame[coremap[f]] = f
BY DEF IInv, TypeOK, FramesMatch, FreeFrames

\* Only an eviction makes a page invalid, and it is the one in the frame.
LEMMA Evicted ==
  ASSUME IInv, NEW p \in Page, NEW type \in Type, NEW f \in Frame, NEW cleared,
         FaultEvict(p, type, f, cleared),
         NEW q \in Page, q \in valid, q \notin valid'
  PROVE  q = coremap[f] /\ frame[q] = f
<1>1. q = coremap[f]
  BY DEF FaultEvict, Load, Finish
<1>2. FreeFrames = {}
  BY DEF FaultEvict
<1> QED
  BY <1>1, <1>2, AllTaken

LEMMA NotEvicted ==
  ASSUME IInv, NEW p \in Page, NEW type \in Type,
         Hit(p, type) \/ FaultFree(p, type) \/ Abort(p) \/ Crash
  PROVE  valid \subseteq valid'
BY DEF Hit, FaultFree, Load, Finish, Abort, Crash, pte_vars

\* Who is in which frame after an access.
LEMMA FramesAfter ==
  ASSUME IInv, NEW p \in Page, NEW type \in Type
  PROVE  /\ Hit(p, type) \/ Abort(p) \/ Crash => FreeFrames' = FreeFrames
         /\ FaultFree(p, type) =>
              /\ frame'[p] = Min(FreeFrames)
              /\ FreeFrames' = FreeFrames \ {Min(FreeFrames)}
         /\ \A f, cleared : f \in Frame /\ FaultEvict(p, type, f, cleared) =>
              FreeFrames = {} /\ FreeFrames' = {} /\ frame'[p] = f
<1>1. Hit(p, type) \/ Abort(p) \/ Crash => FreeFrames' = FreeFrames
  BY DEF Hit, Abort, Crash, pte_vars, FreeFrames
<1>2. ASSUME NEW f \in Frame, coremap' = [coremap EXCEPT ![f] = p],
             frame' = [frame EXCEPT ![p] = f]
      PROVE  FreeFrames' = FreeFrames \ {f} /\ frame'[p] = f
  BY <1>2, PageAssumption DEF IInv, TypeOK, FreeFrames
<1>3. FaultFree(p, type) =>
        /\ frame'[p] = Min(FreeFrames)
        /\ FreeFrames' = FreeFrames \ {Min(FreeFrames)}
  BY <1>2, FreeFrameIsFree DEF FaultFree, Load
<1>4. ASSUME NEW f \in Frame, NEW cleared, FaultEvict(p, type, f, cleared)
      PROVE  FreeFrames = {} /\ FreeFrames' = {} /\ frame'[p] = f
  BY <1>2, <1>4 DEF FaultEvict, Load
<1> QED
  BY <1>1, <1>3, <1>4

\* The remainder of a number that is less than twice the divisor.
LEMMA AroundOnce ==
  ASSUME NEW x \in Int, 0 <= x, x < 2 * memsize
  PROVE  x % memsize = IF x < memsize THEN x ELSE x - memsize
BY SizeAssumption

\* A sequence without the first place that holds an element.
LEMMA RemoveKth ==
  ASSUME NEW S, NEW s \in Seq(S), NEW k \in 1 .. Len(s), NEW r,
         \A i \in 1 .. Len(s) : s[i] = s[k] => k <= i,
         r = RemoveFirst(s, s[k])
  PROVE  /\ r \in Seq(S)
         /\ Len(r) = Len(s) - 1
         /\ \A i \in 1 .. Len(s) - 1 : r[i] = IF i < k THEN s[i] ELSE s[i + 1]
<1> DEFINE I == {i \in 1 .. Len(s) : s[i] = s[k]}
           left == SubSeq(s, 1, k - 1)
           right == SubSeq(s, k + 1, Len(s))
<1>0. Len(s) \in Nat
  OBVIOUS
<1>1. k \in I /\ I \in SUBSET Nat /\ \A i \in I : k <= i
  OBVIOUS
<1>2. Min(I) = k
  <2>1. Min(I) \in I /\ k \in Nat /\ \A y \in I : Min(I) <= y
    BY <1>1, MinIsLeast
  <2> QED
    BY <1>1, <2>1
<1>3. SelectInSeq(s, LAMBDA x : x = s[k]) = k
  BY <1>1, <1>2 DEF SelectInSeq
<1>4. r = left \o right
  BY <1>1, <1>3 DEF RemoveFirst, RemoveAt
<1>5. /\ left \in Seq(S) /\ Len(left) = k - 1
      /\ \A i \in 1 .. k - 1 : left[i] = s[i]
  <2>1. \A i \in 1 .. k - 1 : s[i] \in S
    OBVIOUS
  <2> QED
    BY <1>0, <2>1, SubSeqProperties
<1>6. /\ right \in Seq(S) /\ Len(right) = Len(s) - k
      /\ \A i \in 1 .. Len(s) - k : right[i] = s[i + k]
  <2>1. \A i \in k + 1 .. Len(s) : s[i] \in S
    OBVIOUS
  <2> QED
    BY <1>0, <2>1, SubSeqProperties
<1> HIDE DEF left, right
<1>7. /\ left \o right \in Seq(S) /\ Len(left \o right) = Len(s) - 1
      /\ \A i \in 1 .. Len(s) - 1 :
           (left \o right)[i] = IF i <= k - 1 THEN left[i] ELSE right[i - (k - 1)]
  <2>1. k \in Int /\ Len(left) + Len(right) = Len(s) - 1
    BY <1>0, <1>5, <1>6
  <2>2. /\ left \o right \in Seq(S) /\ Len(left \o right) = Len(left) + Len(right)
        /\ \A i \in 1 .. Len(left) + Len(right) :
             (left \o right)[i] = IF i <= Len(left) THEN left[i] ELSE right[i - Len(left)]
    BY <1>5, <1>6, ConcatProperties
  <2> QED
    BY <1>5, <2>1, <2>2
<1>8. ASSUME NEW i \in 1 .. Len(s) - 1
      PROVE  r[i] = IF i < k THEN s[i] ELSE s[i + 1]
  <2>1. CASE i < k
    BY <1>4, <1>5, <1>7, <2>1
  <2>2. CASE ~(i < k)
    <3>1. i - (k - 1) \in 1 .. Len(s) - k /\ (i - (k - 1)) + k = i + 1
      BY <1>0, <2>2
    <3>2. right[i - (k - 1)] = s[i + 1]
      BY <1>6, <3>1
    <3>3. ~(i <= k - 1)
      BY <1>0, <2>2
    <3>4. r[i] = right[i - (k - 1)]
      BY <1>4, <1>7, <3>3
    <3> QED
      BY <2>2, <3>2, <3>4
  <2> QED
    BY <2>1, <2>2
<1> QED
  BY <1>4, <1>7, <1>8

-----------------------------------------------------------------------------
(* FIFO *)

\* The history of the loads, one frame further each, from the one after the
\* frame that was evicted last; the frames are taken into use in their order.
FifoInv ==
  /\ start \in -1 .. memsize - 1
  /\ loaded \in Seq(Frame)
  /\ FreeFrames = Len(loaded) .. memsize - 1 /\ Len(loaded) <= memsize
  /\ Len(loaded) < memsize => start = -1
  /\ \A i \in 1 .. Len(loaded) : loaded[i] = (start + i) % memsize

LEMMA InitFifo ==
  ASSUME Init, fifo_init
  PROVE  FifoInv
BY SizeAssumption DEF Init, fifo_init, FifoInv, FreeFrames, Frame

\* The first free frame is the next in number.
LEMMA FirstFree ==
  ASSUME NEW n \in Nat, FreeFrames = n .. memsize - 1, FreeFrames # {}
  PROVE  Min(FreeFrames) = n /\ n \in Frame
<1>1. n \in FreeFrames /\ FreeFrames \in SUBSET Nat /\ \A y \in FreeFrames : n <= y
  BY SizeAssumption
<1>2. Min(FreeFrames) \in FreeFrames /\ \A y \in FreeFrames : Min(FreeFrames) <= y
  BY <1>1, MinIsLeast
<1> QED
  BY <1>1, <1>2, SizeAssumption DEF Frame

\* fifo_evict names a frame, whatever start is.
LEMMA FifoFrame ==
  ASSUME start \in -1 .. memsize - 1
  PROVE  FifoVictim \in Frame
BY SizeAssumption DEF FifoVictim, Frame

LEMMA FifoStep ==
  ASSUME IInv, FifoInv, NEW p \in Page, NEW type \in Type,
         FifoAccess(p, type) \/ (Abort(p) /\ UNCHANGED fifo_vars)
  PROVE  FifoInv' /\ FirstLoadedOut
<1> DEFINE n == Len(loaded)
<1>0. n \in Nat /\ memsize \in Nat \ {0} /\ FifoVictim \in Frame /\ 0 <= FifoVictim /\ FifoVictim < memsize
  <2>1. n \in Nat /\ FifoVictim \in Frame /\ memsize \in Nat \ {0}
    BY FifoFrame, SizeAssumption DEF FifoInv
  <2> QED
    BY <2>1 DEF Frame
<1>1. CASE (Hit(p, type) \/ Abort(p)) /\ UNCHANGED fifo_vars
  <2>1. FreeFrames' = FreeFrames /\ valid \subseteq valid'
    BY <1>1, FramesAfter, NotEvicted
  <2> QED
    BY <1>1, <2>1 DEF FifoInv, fifo_vars, FirstLoadedOut
<1>2. CASE FaultFree(p, type) /\ loaded' = Append(loaded, frame'[p]) /\ UNCHANGED start
  <2>1. FreeFrames # {} /\ Min(FreeFrames) = n /\ n \in Frame /\ n < memsize
    BY <1>0, <1>2, FirstFree DEF FaultFree, FifoInv, Frame
  <2>2. frame'[p] = n /\ FreeFrames' = FreeFrames \ {n} /\ valid \subseteq valid'
    BY <1>2, <2>1, FramesAfter, NotEvicted
  <2>3. /\ loaded' \in Seq(Frame) /\ Len(loaded') = n + 1 /\ loaded'[n + 1] = n
        /\ \A i \in 1 .. n : loaded'[i] = loaded[i]
    BY <1>2, <2>1, <2>2, AppendProperties DEF FifoInv
  <2>4. FreeFrames' = n + 1 .. memsize - 1
    BY <1>0, <2>1, <2>2 DEF FifoInv
  <2>5. start = -1 /\ start' = -1 /\ (-1 + (n + 1)) % memsize = n
    <3>1. start = -1 /\ start' = -1 /\ -1 + (n + 1) = n
      BY <1>0, <1>2, <2>1 DEF FifoInv
    <3> QED
      BY <1>0, <2>1, <3>1, AroundOnce
  <2>6. \A i \in 1 .. n + 1 : loaded'[i] = (start' + i) % memsize
    BY <1>0, <2>3, <2>5 DEF FifoInv
  <2> QED
    BY <1>0, <2>1, <2>2, <2>3, <2>4, <2>5, <2>6 DEF FifoInv, FirstLoadedOut
<1>3. CASE /\ FaultEvict(p, type, FifoVictim, {})
           /\ start' = FifoVictim
           /\ loaded' = Append(RemoveFirst(loaded, FifoVictim), FifoVictim)
  <2>1. FreeFrames = {} /\ FreeFrames' = {}
    BY <1>0, <1>3, FramesAfter
  <2>2. n = memsize
    BY <1>0, <2>1 DEF FifoInv
  <2>3. \A i \in 1 .. n : loaded[i] = (start + i) % memsize /\ loaded[i] \in Frame
    BY <2>2 DEF FifoInv
  <2>4. loaded[1] = FifoVictim /\ Head(loaded) = FifoVictim
    BY <1>0, <2>2, <2>3 DEF FifoVictim
  <2> DEFINE r == RemoveFirst(loaded, FifoVictim)
  <2>5. /\ r \in Seq(Frame) /\ Len(r) = n - 1
        /\ \A i \in 1 .. n - 1 : r[i] = loaded[i + 1]
    <3>1. 1 \in 1 .. Len(loaded) /\ \A i \in 1 .. Len(loaded) : 1 <= i
      BY <1>0, <2>2
    <3>2. loaded \in Seq(Frame)
      BY DEF FifoInv
    <3>3. r = RemoveFirst(loaded, loaded[1])
      BY <2>4
    <3> HIDE DEF r
    <3>4. /\ r \in Seq(Frame) /\ Len(r) = Len(loaded) - 1
          /\ \A i \in 1 .. Len(loaded) - 1 : r[i] = IF i < 1 THEN loaded[i] ELSE loaded[i + 1]
      BY <3>1, <3>2, <3>3, RemoveKth
    <3> QED
      BY <1>0, <3>4
  <2>6. loaded' = Append(r, FifoVictim)
    BY <1>3
  <2> HIDE DEF r
  <2>7. /\ loaded' \in Seq(Frame) /\ Len(loaded') = n /\ loaded'[n] = FifoVictim
        /\ \A i \in 1 .. n - 1 : loaded'[i] = loaded[i + 1]
    <3>1. /\ loaded' \in Seq(Frame) /\ Len(loaded') = Len(r) + 1
          /\ \A i \in 1 .. Len(r) : loaded'[i] = r[i]
          /\ loaded'[Len(r) + 1] = FifoVictim
      BY <1>0, <2>5, <2>6, AppendProperties
    <3> QED
      BY <1>0, <2>2, <2>5, <3>1
  <2>8. start \in -1 .. memsize - 1
    BY DEF FifoInv
  <2>9. FifoVictim = IF start + 1 < memsize THEN start + 1 ELSE 0
    <3>1. start + 1 \in Int /\ 0 <= start + 1 /\ start + 1 < 2 * memsize
      BY <1>0, <2>8
    <3>2. (start + 1) % memsize = IF start + 1 < memsize THEN start + 1 ELSE (start + 1) - memsize
      BY <3>1, AroundOnce
    <3>3. ~(start + 1 < memsize) => (start + 1) - memsize = 0
      BY <1>0, <2>8
    <3> QED
      BY <3>2, <3>3 DEF FifoVictim
  <2>10. ASSUME NEW i \in 1 .. n PROVE loaded'[i] = (FifoVictim + i) % memsize
    <3>1. (FifoVictim + i) % memsize = IF FifoVictim + i < memsize THEN FifoVictim + i
                                       ELSE (FifoVictim + i) - memsize
      <4>1. FifoVictim \in Int /\ i \in 1 .. memsize
        BY <1>0, <2>2, Sizes
      <4>2. FifoVictim + i \in Int /\ 0 <= FifoVictim + i /\ FifoVictim + i < 2 * memsize
        BY <1>0, <4>1
      <4> QED
        BY <4>2, AroundOnce
    <3>0. FifoVictim \in Int /\ start \in Int
      BY <1>0, <2>8, Sizes
    <3>2. CASE i = n
      <4>1. (FifoVictim + memsize) - memsize = FifoVictim /\ ~(FifoVictim + memsize < memsize)
        BY <1>0, <3>0
      <4> QED
        BY <2>2, <2>7, <3>1, <3>2, <4>1
    <3>3. CASE i < n
      <4>1. loaded'[i] = (start + (i + 1)) % memsize
        BY <1>0, <2>3, <2>7, <3>3
      <4>2. (start + (i + 1)) % memsize = IF start + (i + 1) < memsize THEN start + (i + 1)
                                          ELSE (start + (i + 1)) - memsize
        <5>1. start + (i + 1) \in Int /\ 0 <= start + (i + 1) /\ start + (i + 1) < 2 * memsize
          BY <1>0, <2>2, <2>8, <3>3
        <5> QED
          BY <5>1, AroundOnce
      <4> QED
        BY <1>0, <2>2, <2>8, <2>9, <3>1, <3>3, <4>1, <4>2
    <3> QED
      BY <1>0, <3>2, <3>3
  <2>11. FifoInv'
    <3>1. start' = FifoVictim /\ FifoVictim \in -1 .. memsize - 1
      BY <1>0, <1>3, Sizes
    <3>2. FreeFrames' = Len(loaded') .. memsize - 1
      BY <1>0, <2>1, <2>2, <2>7
    <3>3. ~(Len(loaded') < memsize) /\ Len(loaded') <= memsize
      BY <1>0, <2>2, <2>7
    <3> QED
      BY <2>7, <2>10, <3>1, <3>2, <3>3 DEF FifoInv
  <2>12. FirstLoadedOut
    BY <1>0, <1>3, <2>4, Evicted DEF FirstLoadedOut
  <2> QED
    BY <2>11, <2>12
<1> QED
  BY <1>1, <1>2, <1>3 DEF FifoAccess

-----------------------------------------------------------------------------
(* Clock *)

\* How far frame f is ahead of frame h.
Dist(h, f) == (f + memsize - h) % memsize

After1(h) == (h + 1) % memsize

\* The frames in a circle from h on.
LEMMA Circle ==
  ASSUME NEW h \in Frame, NEW f \in Frame
  PROVE  /\ Dist(h, f) = IF h <= f THEN f - h ELSE (f + memsize) - h
         /\ After1(h) = IF h + 1 < memsize THEN h + 1 ELSE 0
         /\ After1(h) \in Frame
<1>1. h \in Nat /\ f \in Nat /\ h < memsize /\ f < memsize /\ memsize \in Nat \ {0}
  BY SizeAssumption DEF Frame
<1>2. Dist(h, f) = IF h <= f THEN f - h ELSE (f + memsize) - h
  <2>1. /\ f + (memsize - h) \in Int /\ 0 <= f + (memsize - h)
        /\ f + (memsize - h) < 2 * memsize
    BY <1>1
  <2>2. Dist(h, f) = IF f + (memsize - h) < memsize THEN f + (memsize - h)
                     ELSE (f + (memsize - h)) - memsize
    BY <2>1, AroundOnce DEF Dist
  <2> QED
    BY <1>1, <2>2
<1>3. After1(h) = IF h + 1 < memsize THEN h + 1 ELSE 0
  <2>1. h + 1 \in Int /\ 0 <= h + 1 /\ h + 1 < 2 * memsize
    BY <1>1
  <2>2. After1(h) = IF h + 1 < memsize THEN h + 1 ELSE (h + 1) - memsize
    BY <2>1, AroundOnce DEF After1
  <2> QED
    BY <1>1, <2>2
<1>4. After1(h) \in Frame
  BY <1>1, <1>3 DEF Frame
<1> QED
  BY <1>2, <1>3, <1>4

\* Every frame has its own distance; one step on, h is the farthest and all
\* others are nearer by one.
LEMMA DistFacts ==
  ASSUME NEW h \in Frame, NEW f \in Frame
  PROVE  /\ Dist(h, f) \in 0 .. memsize - 1
         /\ Dist(h, f) = 0 <=> f = h
         /\ \A g \in Frame : Dist(h, f) = Dist(h, g) => f = g
         /\ Dist(After1(h), f) = IF f = h THEN memsize - 1 ELSE Dist(h, f) - 1
<1>1. h \in Nat /\ f \in Nat /\ h < memsize /\ f < memsize /\ memsize \in Nat \ {0}
  BY SizeAssumption DEF Frame
<1>2. Dist(h, f) = IF h <= f THEN f - h ELSE (f + memsize) - h
  BY Circle
<1>3. ASSUME NEW g \in Frame, Dist(h, f) = Dist(h, g) PROVE f = g
  <2>1. g \in Nat /\ g < memsize
    BY <1>1 DEF Frame
  <2>2. Dist(h, g) = IF h <= g THEN g - h ELSE (g + memsize) - h
    BY Circle
  <2> QED
    BY <1>1, <1>2, <1>3, <2>1, <2>2
<1>4. Dist(After1(h), f) = IF f = h THEN memsize - 1 ELSE Dist(h, f) - 1
  <2> DEFINE k == After1(h)
  <2>1. k \in Frame /\ k = IF h + 1 < memsize THEN h + 1 ELSE 0
    BY Circle
  <2> HIDE DEF k
  <2>2. Dist(k, f) = IF k <= f THEN f - k ELSE (f + memsize) - k
    BY <2>1, Circle
  <2>3. Dist(k, f) = IF f = h THEN memsize - 1 ELSE Dist(h, f) - 1
    BY <1>1, <1>2, <2>1, <2>2
  <2> QED
    BY <2>3 DEF k
<1>5. Dist(h, f) \in 0 .. memsize - 1 /\ (Dist(h, f) = 0 <=> f = h)
  BY <1>1, <1>2
<1> QED
  BY <1>3, <1>4, <1>5

\* What a search from frame h finds: the first unmarked frame, with the marks
\* before it cleared; or h, with all marks cleared, when all have one.
Found(h, marked, r) ==
  IF marked = Frame
  THEN r = [victim |-> h, marked |-> {}]
  ELSE \E u \in Frame \ marked :
         /\ \A f \in Frame \ marked : Dist(h, u) <= Dist(h, f)
         /\ r = [victim |-> u, marked |-> {f \in marked : Dist(h, f) > Dist(h, u)}]

LEMMA FoundOnce ==
  ASSUME NEW h \in Frame, NEW marked \in SUBSET Frame, NEW r, NEW s,
         Found(h, marked, r), Found(h, marked, s)
  PROVE  r = s
<1>1. CASE marked = Frame
  BY <1>1 DEF Found
<1>2. CASE marked # Frame
  <2>1. PICK u \in Frame \ marked :
          /\ \A f \in Frame \ marked : Dist(h, u) <= Dist(h, f)
          /\ r = [victim |-> u, marked |-> {f \in marked : Dist(h, f) > Dist(h, u)}]
    BY <1>2 DEF Found
  <2>2. PICK w \in Frame \ marked :
          /\ \A f \in Frame \ marked : Dist(h, w) <= Dist(h, f)
          /\ s = [victim |-> w, marked |-> {f \in marked : Dist(h, f) > Dist(h, w)}]
    BY <1>2 DEF Found
  <2>3. Dist(h, u) \in 0 .. memsize - 1 /\ Dist(h, w) \in 0 .. memsize - 1
    BY DistFacts
  <2>4. u = w
    <3>1. Dist(h, u) = Dist(h, w)
      BY <2>1, <2>2, <2>3
    <3> QED
      BY <3>1, DistFacts
  <2> QED
    BY <2>1, <2>2, <2>4
<1> QED
  BY <1>1, <1>2

LEMMA FoundSome ==
  ASSUME NEW h \in Frame, NEW marked \in SUBSET Frame
  PROVE  \E r : Found(h, marked, r)
<1>1. CASE marked = Frame
  BY <1>1 DEF Found
<1>2. CASE marked # Frame
  <2> DEFINE T == {Dist(h, f) : f \in Frame \ marked}
  <2>1. T \in SUBSET Nat
    BY DistFacts
  <2>2. T # {}
    BY <1>2
  <2>3. Min(T) \in T /\ \A y \in T : Min(T) <= y
    BY <2>1, <2>2, MinIsLeast
  <2>4. PICK u \in Frame \ marked : Dist(h, u) = Min(T)
    BY <2>3
  <2>5. \A f \in Frame \ marked : Dist(h, u) <= Dist(h, f)
    BY <2>3, <2>4
  <2>6. Found(h, marked, [victim |-> u, marked |-> {f \in marked : Dist(h, f) > Dist(h, u)}])
    BY <1>2, <2>5 DEF Found
  <2> QED
    BY <2>6
<1> QED
  BY <1>1, <1>2

\* One turn of the loop: an unmarked frame ends it, a marked one loses its
\* mark and the search goes on from the next.
LEMMA FoundStep ==
  ASSUME NEW h \in Frame, NEW marked \in SUBSET Frame, NEW r
  PROVE  /\ h \notin marked => Found(h, marked, [victim |-> h, marked |-> marked])
         /\ h \in marked =>
              (Found(After1(h), marked \ {h}, r) => Found(h, marked, r))
<1>0. \A f \in Frame : Dist(h, f) \in 0 .. memsize - 1 /\ (Dist(h, f) = 0 <=> f = h)
  BY DistFacts
<1>1. ASSUME h \notin marked PROVE Found(h, marked, [victim |-> h, marked |-> marked])
  <2>1. \A f \in Frame \ marked : Dist(h, h) <= Dist(h, f)
    BY <1>0
  <2>2. marked = {f \in marked : Dist(h, f) > Dist(h, h)}
    BY <1>0, <1>1
  <2> QED
    BY <1>1, <2>1, <2>2 DEF Found
<1>2. ASSUME h \in marked, Found(After1(h), marked \ {h}, r) PROVE Found(h, marked, r)
  <2> DEFINE rest == marked \ {h}
             D(f) == Dist(After1(h), f)
  <2>1. \A f \in Frame : D(f) = IF f = h THEN memsize - 1 ELSE Dist(h, f) - 1
    BY DistFacts
  <2>2. PICK u \in Frame \ rest :
          /\ \A f \in Frame \ rest : D(u) <= D(f)
          /\ r = [victim |-> u, marked |-> {f \in rest : D(f) > D(u)}]
    BY <1>2 DEF Found
  <2> HIDE DEF D
  <2>3. memsize \in Nat \ {0}
    BY SizeAssumption
  <2>4. CASE marked = Frame
    <3>1. u = h
      BY <2>2, <2>4
    <3>2. {f \in rest : D(f) > D(u)} = {}
      BY <1>0, <2>1, <2>3, <3>1
    <3> QED
      BY <2>2, <2>4, <3>1, <3>2 DEF Found
  <2>5. CASE marked # Frame
    <3>1. PICK w \in Frame \ marked : w # h /\ w \in Frame \ rest
      BY <1>2, <2>5
    <3>2. D(w) < memsize - 1
      BY <1>0, <2>1, <2>3, <3>1
    <3>3. u # h
      BY <2>1, <2>2, <2>3, <3>1, <3>2, <1>0
    <3>4. u \in Frame \ marked
      BY <2>2, <3>3
    <3>5. \A f \in Frame \ marked : Dist(h, u) <= Dist(h, f)
      <4> TAKE f \in Frame \ marked
      <4>1. f # h /\ f \in Frame \ rest /\ D(u) <= D(f)
        BY <1>2, <2>2
      <4> QED
        BY <1>0, <2>1, <3>3, <3>4, <4>1
    <3>6. {f \in rest : D(f) > D(u)} = {f \in marked : Dist(h, f) > Dist(h, u)}
      <4>1. ASSUME NEW f \in rest PROVE D(f) > D(u) <=> Dist(h, f) > Dist(h, u)
        BY <1>0, <2>1, <3>3, <3>4, <4>1
      <4>2. ~(Dist(h, h) > Dist(h, u))
        BY <1>0, <3>4
      <4> QED
        BY <1>2, <4>1, <4>2
    <3> QED
      BY <2>2, <2>5, <3>4, <3>5, <3>6 DEF Found
  <2> QED
    BY <2>4, <2>5
<1> QED
  BY <1>1, <1>2

\* The search goes on from the next frame.
OneOn(c) == [victim |-> (c.victim + 1) % memsize, marked |-> c.marked \ {c.victim}]

LEMMA OneOnSearches ==
  ASSUME NEW c \in Search
  PROVE  /\ c.victim \in Frame /\ c.marked \in SUBSET Frame
         /\ c = [victim |-> c.victim, marked |-> c.marked]
         /\ OneOn(c) \in Search
         /\ OneOn(c).victim = After1(c.victim)
         /\ OneOn(c).marked = c.marked \ {c.victim}
<1>1. c.victim \in Frame /\ c.marked \in SUBSET Frame /\ c = [victim |-> c.victim, marked |-> c.marked]
  BY DEF Search
<1>2. After1(c.victim) \in Frame
  BY <1>1, Circle
<1> QED
  BY <1>1, <1>2 DEF Search, OneOn, After1

\* The loop of clock_evict ends: there is a function that is as it says.
LEMMA SweepTurns ==
  ASSUME NEW c \in Search
  PROVE  Sweep[c] = IF c.victim \in c.marked THEN Sweep[OneOn(c)] ELSE c
<1> DEFINE G == [x \in Search |-> CHOOSE r : Found(x.victim, x.marked, r)]
<1>1. ASSUME NEW x \in Search
      PROVE  Found(x.victim, x.marked, G[x])
  <2>1. G[x] = CHOOSE r : Found(x.victim, x.marked, r)
    OBVIOUS
  <2>2. \E r : Found(x.victim, x.marked, r)
    BY OneOnSearches, FoundSome
  <2> QED
    BY <2>1, <2>2
<1>2. G = [x \in Search |-> G[x]]
  OBVIOUS
<1> HIDE DEF G
<1>3. ASSUME NEW x \in Search
      PROVE  G[x] = IF x.victim \in x.marked THEN G[OneOn(x)] ELSE x
  <2>1. CASE x.victim \in x.marked
    <3>1. Found(x.victim, x.marked, G[OneOn(x)])
      BY <1>1, <2>1, OneOnSearches, FoundStep
    <3> QED
      BY <1>1, <2>1, <3>1, OneOnSearches, FoundOnce
  <2>2. CASE x.victim \notin x.marked
    <3>1. Found(x.victim, x.marked, x)
      BY <2>2, OneOnSearches, FoundStep
    <3> QED
      BY <1>1, <2>2, <3>1, OneOnSearches, FoundOnce
  <2> QED
    BY <2>1, <2>2
<1>4. G = [x \in Search |-> IF x.victim \in x.marked THEN G[OneOn(x)] ELSE x]
  BY <1>2, <1>3
<1>5. Sweep = CHOOSE F : F = [x \in Search |-> IF x.victim \in x.marked THEN F[OneOn(x)] ELSE x]
  BY DEF Sweep, OneOn
<1>6. Sweep = [x \in Search |-> IF x.victim \in x.marked THEN Sweep[OneOn(x)] ELSE x]
  BY <1>4, <1>5
<1> QED
  BY <1>6

\* It ends with what Found says: the marks to look at get fewer.
LEMMA SweepFinds ==
  ASSUME NEW c \in Search
  PROVE  Found(c.victim, c.marked, Sweep[c])
<1> DEFINE Wrong == {x \in Search : ~Found(x.victim, x.marked, Sweep[x])}
           T == {Cardinality(x.marked) : x \in Wrong}
<1>1. ASSUME NEW x \in Search PROVE IsFiniteSet(x.marked) /\ Cardinality(x.marked) \in Nat
  <2>1. IsFiniteSet(Frame)
    BY SizeAssumption, FS_Interval DEF Frame
  <2>2. IsFiniteSet(x.marked)
    BY <2>1, OneOnSearches, FS_Subset
  <2> QED
    BY <2>2, FS_CardinalityType
<1>2. SUFFICES ASSUME Wrong # {} PROVE FALSE
  OBVIOUS
<1>3. T \in SUBSET Nat /\ T # {}
  BY <1>1, <1>2
<1>4. PICK x \in Wrong : \A y \in Wrong : Cardinality(x.marked) <= Cardinality(y.marked)
  <2>1. Min(T) \in T /\ \A k \in T : Min(T) <= k
    BY <1>3, MinIsLeast
  <2> QED
    BY <2>1
<1>5. x \in Search /\ ~Found(x.victim, x.marked, Sweep[x])
  OBVIOUS
<1>6. CASE x.victim \notin x.marked
  <2>1. Sweep[x] = x
    BY <1>5, <1>6, SweepTurns
  <2>2. /\ x.victim \in Frame /\ x.marked \in SUBSET Frame
        /\ x = [victim |-> x.victim, marked |-> x.marked]
    BY <1>5, OneOnSearches
  <2> DEFINE h == x.victim
             m == x.marked
  <2>3. Found(h, m, [victim |-> h, marked |-> m])
    BY <1>6, <2>2, FoundStep
  <2> QED
    BY <1>5, <2>1, <2>2, <2>3
<1>7. CASE x.victim \in x.marked
  <2> DEFINE y == OneOn(x)
  <2>1. /\ y \in Search /\ y.victim = After1(x.victim) /\ y.marked = x.marked \ {x.victim}
        /\ Sweep[x] = Sweep[y]
    BY <1>5, <1>7, OneOnSearches, SweepTurns
  <2>2. Cardinality(y.marked) = Cardinality(x.marked) - 1 /\ Cardinality(x.marked) \in Nat
    BY <1>1, <1>5, <1>7, <2>1, FS_RemoveElement
  <2> HIDE DEF y
  <2>3. y \notin Wrong
    BY <1>4, <2>2
  <2>4. Found(y.victim, y.marked, Sweep[y])
    BY <2>1, <2>3
  <2>5. Found(x.victim, x.marked, Sweep[y])
    BY <1>5, <1>7, <2>1, <2>4, OneOnSearches, FoundStep
  <2> QED
    BY <1>5, <2>1, <2>5
<1> QED
  BY <1>6, <1>7

ClockInv == circular_hand \in Frame

\* What clock_evict finds, in the coremap: a frame, and pages to unmark.
LEMMA ClockFinds ==
  ASSUME IInv, ClockInv
  PROVE  /\ Found(circular_hand, Marked, clock_evict)
         /\ clock_evict.victim \in Frame
         /\ clock_evict.marked \subseteq Marked
<1>1. FromHand \in Search /\ FromHand.victim = circular_hand /\ FromHand.marked = Marked
  BY DEF ClockInv, FromHand, Search, Marked
<1>2. Found(circular_hand, Marked, clock_evict)
  BY <1>1, SweepFinds DEF clock_evict
<1>3. CASE Marked = Frame
  BY <1>2, <1>3 DEF Found, ClockInv
<1>4. CASE Marked # Frame
  BY <1>2, <1>4 DEF Found
<1> QED
  BY <1>2, <1>3, <1>4

LEMMA ClockStep ==
  ASSUME IInv, ClockInv, NEW p \in Page, NEW type \in Type,
         ClockAccess(p, type) \/ (Abort(p) /\ UNCHANGED circular_hand)
  PROVE  ClockInv' /\ FirstUnmarkedOut
<1>1. CASE (Hit(p, type) \/ FaultFree(p, type) \/ Abort(p)) /\ UNCHANGED circular_hand
  <2>1. valid \subseteq valid'
    BY <1>1, NotEvicted
  <2> QED
    BY <1>1, <2>1 DEF ClockInv, FirstUnmarkedOut
<1>2. CASE /\ FaultEvict(p, type, clock_evict.victim,
                         {coremap[f] : f \in Marked \ clock_evict.marked})
           /\ circular_hand' = clock_evict.victim
  <2> DEFINE u == clock_evict.victim
             left == clock_evict.marked
             cleared == {coremap[f] : f \in Marked \ left}
  <2>1. /\ Found(circular_hand, Marked, clock_evict)
        /\ u \in Frame /\ left \subseteq Marked
    BY ClockFinds
  <2>2. FaultEvict(p, type, u, cleared)
    BY <1>2
  <2>3. FreeFrames = {} /\ p \notin valid /\ ref' = (ref \ cleared) \cup {p}
    BY <2>2 DEF FaultEvict, MayFault, Load, Finish
  <2>4. \A f \in Frame : coremap[f] \in valid /\ frame[coremap[f]] = f
    BY <2>3, AllTaken
  <2>5. ASSUME NEW f \in Frame
        PROVE  coremap[f] \in ref' <=> f \in Marked /\ f \notin Marked \ left
    <3>1. coremap[f] # p
      BY <2>3, <2>4
    <3>2. coremap[f] \in cleared <=> f \in Marked \ left
      BY <2>1, <2>4 DEF Marked
    <3>3. coremap[f] \in ref <=> f \in Marked
      BY DEF Marked
    <3> QED
      BY <2>3, <3>1, <3>2, <3>3
  <2>6. \A f \in Frame : Dist(circular_hand, f) = Ahead(f)
    BY DEF Dist, Ahead
  <2> SUFFICES ASSUME NEW q \in Page, q \in valid, q \notin valid'
               PROVE  IF q \in ref
                      THEN /\ Marked = Frame /\ frame[q] = circular_hand
                           /\ \A f \in Frame \ {frame[q]} : coremap[f] \notin ref'
                      ELSE \A f \in Frame :
                             IF Ahead(f) < Ahead(frame[q]) THEN f \in Marked /\ coremap[f] \notin ref'
                             ELSE f # frame[q] => (f \in Marked <=> coremap[f] \in ref')
    BY <1>2, <2>1 DEF ClockInv, FirstUnmarkedOut
  <2>7. q = coremap[u] /\ frame[q] = u
    BY <2>1, <2>2, Evicted
  <2>8. q \in ref <=> u \in Marked
    BY <2>1, <2>7 DEF Marked
  <2> HIDE DEF cleared
  <2>9. CASE Marked = Frame
    <3>1. u = circular_hand /\ left = {}
      BY <2>1, <2>9 DEF Found
    <3> QED
      BY <2>1, <2>5, <2>7, <2>8, <2>9, <3>1
  <2>10. CASE Marked # Frame
    <3>1. PICK w \in Frame \ Marked :
            /\ \A f \in Frame \ Marked : Dist(circular_hand, w) <= Dist(circular_hand, f)
            /\ clock_evict = [victim |-> w, marked |->
                 {f \in Marked : Dist(circular_hand, f) > Dist(circular_hand, w)}]
      BY <2>1, <2>10 DEF Found
    <3>2. u = w /\ left = {f \in Marked : Dist(circular_hand, f) > Dist(circular_hand, w)}
      BY <3>1
    <3> HIDE DEF u, left
    <3>3. \A f \in Frame : Dist(circular_hand, f) \in 0 .. memsize - 1
      BY DistFacts DEF ClockInv
    <3>4. ASSUME NEW f \in Frame
          PROVE  IF Ahead(f) < Ahead(u) THEN f \in Marked /\ coremap[f] \notin ref'
                 ELSE f # u => (f \in Marked <=> coremap[f] \in ref')
      <4>1. CASE Ahead(f) < Ahead(u)
        <5>1. f \in Marked
          BY <2>6, <3>1, <3>2, <3>3, <4>1
        <5>2. f \notin left
          BY <2>6, <3>2, <3>3, <4>1
        <5> QED
          BY <2>5, <4>1, <5>1, <5>2
      <4>2. CASE ~(Ahead(f) < Ahead(u))
        <5>1. f # u => Dist(circular_hand, f) # Dist(circular_hand, u)
          BY <2>1, DistFacts DEF ClockInv
        <5>2. f # u /\ f \in Marked => f \in left
          BY <2>6, <3>2, <3>3, <4>2, <5>1
        <5> QED
          BY <2>5, <4>2, <5>2
      <4> QED
        BY <4>1, <4>2
    <3> QED
      BY <2>7, <2>8, <3>2, <3>4
  <2> QED
    BY <2>9, <2>10
<1> QED
  BY <1>1, <1>2 DEF ClockAccess, MoveHand

-----------------------------------------------------------------------------
(* LRU *)

ListType == [first : Pointer, last : Pointer,
             next : [Frame -> Pointer], prev : [Frame -> Pointer]]

\* The pointers of l are the sequence r, in both directions.
Chained(l, r) ==
  /\ l \in ListType
  /\ r \in Seq(Frame)
  /\ \A i, j \in 1 .. Len(r) : r[i] = r[j] => i = j
  /\ l.first = IF Len(r) = 0 THEN NULL ELSE r[1]
  /\ l.last = IF Len(r) = 0 THEN NULL ELSE r[Len(r)]
  /\ \A i \in 1 .. Len(r) :
       /\ l.next[r[i]] = IF i = Len(r) THEN NULL ELSE r[i + 1]
       /\ l.prev[r[i]] = IF i = 1 THEN NULL ELSE r[i - 1]

LEMMA NullIsNoFrame == NULL \notin Frame /\ NULL \in Pointer /\ Frame \subseteq Pointer
BY SizeAssumption DEF NULL, Frame, Pointer

LEMMA ChainedFacts ==
  ASSUME NEW l, NEW r, Chained(l, r)
  PROVE  /\ Len(r) \in Nat
         /\ \A i \in 1 .. Len(r) : r[i] \in Frame /\ r[i] # NULL
         /\ l.first \in Pointer /\ l.last \in Pointer
         /\ l.next \in [Frame -> Pointer] /\ l.prev \in [Frame -> Pointer]
BY NullIsNoFrame DEF Chained, ListType

\* A list of the pointers, field by field.
LEMMA MakeChained ==
  ASSUME NEW l, NEW r \in Seq(Frame), l \in ListType,
         \A i, j \in 1 .. Len(r) : r[i] = r[j] => i = j,
         Len(r) # 0, l.first = r[1], l.last = r[Len(r)],
         \A i \in 1 .. Len(r) : l.next[r[i]] = IF i = Len(r) THEN NULL ELSE r[i + 1],
         \A i \in 1 .. Len(r) : l.prev[r[i]] = IF i = 1 THEN NULL ELSE r[i - 1]
  PROVE  Chained(l, r)
BY DEF Chained

\* A list of one.
LEMMA OneChained ==
  ASSUME NEW f \in Frame, NEW l, l = [EmptyList EXCEPT !.first = f, !.last = f]
  PROVE  Chained(l, <<f>>)
<1>1. /\ l.first = f /\ l.last = f
      /\ l.next = [x \in Frame |-> NULL] /\ l.prev = [x \in Frame |-> NULL]
      /\ l \in ListType
  BY NullIsNoFrame DEF EmptyList, ListType
<1>2. <<f>> \in Seq(Frame) /\ Len(<<f>>) = 1 /\ <<f>>[1] = f
  OBVIOUS
<1> QED
  BY <1>1, <1>2 DEF Chained

\* f becomes the last node.
LEMMA AtEndChained ==
  ASSUME NEW l, NEW r, Chained(l, r), Len(r) # 0, NEW f \in Frame,
         \A i \in 1 .. Len(r) : r[i] # f
  PROVE  Chained(AtEnd(l, f), Append(r, f))
<1> DEFINE n == Len(r)
           m == AtEnd(l, f)
           q == Append(r, f)
<1>1. /\ n \in Nat /\ n \in 1 .. n /\ r \in Seq(Frame)
      /\ \A i \in 1 .. n : r[i] \in Frame /\ r[i] # NULL
      /\ l.next \in [Frame -> Pointer] /\ l.prev \in [Frame -> Pointer]
      /\ l.last = r[n] /\ l.first = r[1] /\ l \in ListType
  BY ChainedFacts DEF Chained
<1>2. /\ q \in Seq(Frame) /\ Len(q) = n + 1 /\ q[n + 1] = f
      /\ \A i \in 1 .. n : q[i] = r[i]
  BY <1>1, AppendProperties
<1>3. /\ m.next = [l.next EXCEPT ![f] = NULL, ![r[n]] = f]
      /\ m.prev = [l.prev EXCEPT ![f] = r[n]]
      /\ m.first = l.first /\ m.last = f
      /\ m \in ListType
  BY <1>1, NullIsNoFrame DEF AtEnd, ListType
<1> HIDE DEF m, q
<1>4. \A i \in 1 .. n + 1 : m.next[q[i]] = IF i = n + 1 THEN NULL ELSE q[i + 1]
  <2>1. m.next[f] = NULL /\ m.next[r[n]] = f
    BY <1>1, <1>3
  <2>2. ASSUME NEW i \in 1 .. n - 1 PROVE m.next[r[i]] = r[i + 1]
    <3>1. i \in 1 .. n /\ i # n /\ r[i] # r[n] /\ r[i] # f
      BY <1>1 DEF Chained
    <3> QED
      BY <1>1, <1>3, <3>1 DEF Chained
  <2> QED
    BY <1>1, <1>2, <2>1, <2>2
<1>5. \A i \in 1 .. n + 1 : m.prev[q[i]] = IF i = 1 THEN NULL ELSE q[i - 1]
  <2>1. m.prev[f] = r[n]
    BY <1>1, <1>3
  <2>2. ASSUME NEW i \in 1 .. n PROVE m.prev[r[i]] = IF i = 1 THEN NULL ELSE r[i - 1]
    BY <1>1, <1>3 DEF Chained
  <2> QED
    BY <1>1, <1>2, <2>1, <2>2
<1>6. \A i, j \in 1 .. n + 1 : q[i] = q[j] => i = j
  BY <1>1, <1>2 DEF Chained
<1>7. Chained(m, q)
  <2>1. /\ Len(q) # 0 /\ m.first = q[1] /\ m.last = q[Len(q)]
        /\ \A i, j \in 1 .. Len(q) : q[i] = q[j] => i = j
        /\ \A i \in 1 .. Len(q) : m.next[q[i]] = IF i = Len(q) THEN NULL ELSE q[i + 1]
        /\ \A i \in 1 .. Len(q) : m.prev[q[i]] = IF i = 1 THEN NULL ELSE q[i - 1]
    <3>1. n + 1 # 0 /\ m.first = q[1]
      BY <1>1, <1>2, <1>3
    <3> QED
      BY <1>2, <1>3, <1>4, <1>5, <1>6, <3>1
  <2> QED
    BY <1>2, <1>3, <2>1, MakeChained
<1> QED
  BY <1>7 DEF m, q

\* A sequence without its element k.
Without(r, k, q) ==
  /\ q \in Seq(Frame)
  /\ Len(q) = Len(r) - 1
  /\ \A i \in 1 .. Len(r) - 1 : q[i] = IF i < k THEN r[i] ELSE r[i + 1]

LEMMA WithoutDiffers ==
  ASSUME NEW l, NEW r, Chained(l, r), NEW k \in 1 .. Len(r), NEW q, Without(r, k, q)
  PROVE  /\ \A i, j \in 1 .. Len(q) : q[i] = q[j] => i = j
         /\ \A i \in 1 .. Len(q) : q[i] # r[k]
<1>1. Len(r) \in Nat /\ Len(q) = Len(r) - 1
  BY ChainedFacts DEF Without
<1>2. \A i \in 1 .. Len(q) : q[i] = IF i < k THEN r[i] ELSE r[i + 1]
  BY <1>1 DEF Without
<1>3. \A i, j \in 1 .. Len(r) : r[i] = r[j] => i = j
  BY DEF Chained
<1>4. ASSUME NEW i \in 1 .. Len(q) PROVE q[i] # r[k]
  <2>1. /\ i \in 1 .. Len(r) /\ i + 1 \in 1 .. Len(r) /\ k \in 1 .. Len(r)
        /\ i < k => i # k
        /\ ~(i < k) => i + 1 # k
    BY <1>1
  <2> QED
    BY <1>2, <1>3, <2>1
<1>5. ASSUME NEW i \in 1 .. Len(q), NEW j \in 1 .. Len(q), q[i] = q[j] PROVE i = j
  <2>1. \E x, y \in 1 .. Len(r) :
          /\ x = (IF i < k THEN i ELSE i + 1) /\ y = (IF j < k THEN j ELSE j + 1)
          /\ r[x] = r[y]
    <3>1. i \in 1 .. Len(r) /\ i + 1 \in 1 .. Len(r) /\ j \in 1 .. Len(r) /\ j + 1 \in 1 .. Len(r)
      BY <1>1
    <3> QED
      BY <1>2, <1>5, <3>1
  <2> QED
    BY <1>1, <1>3, <2>1
<1> QED
  BY <1>4, <1>5

\* The links of u skip the node of r[k], and are those of r everywhere else.
Skips(u, r, k) ==
  LET n == Len(r) IN
  /\ u \in ListType
  /\ u.first = IF k = 1 THEN r[2] ELSE r[1]
  /\ u.last = IF k = n THEN r[n - 1] ELSE r[n]
  /\ \A i \in 1 .. n : i # k =>
       u.next[r[i]] = IF i = k - 1 THEN IF k = n THEN NULL ELSE r[k + 1]
                      ELSE IF i = n THEN NULL ELSE r[i + 1]
  /\ \A i \in 1 .. n : i # k =>
       u.prev[r[i]] = IF i = k + 1 THEN IF k = 1 THEN NULL ELSE r[k - 1]
                      ELSE IF i = 1 THEN NULL ELSE r[i - 1]

LEMMA SkipsChained ==
  ASSUME NEW l, NEW r, Chained(l, r), 2 <= Len(r), NEW k \in 1 .. Len(r),
         NEW q, Without(r, k, q), NEW u, Skips(u, r, k)
  PROVE  Chained(u, q)
<1> DEFINE n == Len(r)
<1>1. /\ n \in Nat /\ 2 <= n /\ k \in 1 .. n /\ q \in Seq(Frame)
      /\ Len(q) = n - 1 /\ n - 1 \in Nat /\ n - 1 # 0
      /\ \A i \in 1 .. n - 1 : q[i] = IF i < k THEN r[i] ELSE r[i + 1]
  BY ChainedFacts DEF Without
<1>2. \A i, j \in 1 .. Len(q) : q[i] = q[j] => i = j
  BY WithoutDiffers
<1>3. u.first = q[1] /\ u.last = q[n - 1]
  <2>1. 1 \in 1 .. n - 1 /\ n - 1 \in 1 .. n - 1
    BY <1>1
  <2>2. q[1] = IF k = 1 THEN r[2] ELSE r[1]
    BY <1>1, <2>1
  <2>3. q[n - 1] = IF k = n THEN r[n - 1] ELSE r[n]
    BY <1>1, <2>1
  <2> QED
    BY <2>2, <2>3 DEF Skips
<1>4. ASSUME NEW i \in 1 .. n - 1
      PROVE  u.next[q[i]] = IF i = n - 1 THEN NULL ELSE q[i + 1]
  <2>0. /\ \A j \in 1 .. n : j # k =>
              u.next[r[j]] = IF j = k - 1 THEN IF k = n THEN NULL ELSE r[k + 1]
                             ELSE IF j = n THEN NULL ELSE r[j + 1]
        /\ i \in 1 .. n /\ i + 1 \in 1 .. n
    BY <1>1 DEF Skips
  <2>1. CASE i < k - 1
    <3>1. i # k /\ i # k - 1 /\ i # n /\ i # n - 1 /\ i < k /\ i + 1 < k /\ i + 1 \in 1 .. n - 1
      BY <1>1, <2>1
    <3>2. q[i] = r[i] /\ q[i + 1] = r[i + 1] /\ u.next[r[i]] = r[i + 1]
      BY <1>1, <2>0, <3>1
    <3> QED
      BY <3>1, <3>2
  <2>2. CASE i = k - 1
    <3>1. i < k /\ i # k /\ q[i] = r[i]
      BY <1>1, <2>2
    <3>2. u.next[r[i]] = IF k = n THEN NULL ELSE r[k + 1]
      BY <2>0, <2>2, <3>1
    <3>3. k # n => q[i + 1] = r[k + 1]
      <4>1. k # n => i + 1 \in 1 .. n - 1 /\ i + 1 = k
        BY <1>1, <2>2
      <4> QED
        BY <1>1, <4>1
    <3> QED
      BY <1>1, <2>2, <3>1, <3>2, <3>3
  <2>3. CASE ~(i < k)
    <3>1. i + 1 # k /\ i + 1 # k - 1 /\ q[i] = r[i + 1]
      BY <1>1, <2>3
    <3>2. u.next[r[i + 1]] = IF i + 1 = n THEN NULL ELSE r[(i + 1) + 1]
      BY <2>0, <3>1
    <3>3. i # n - 1 => q[i + 1] = r[(i + 1) + 1]
      <4>1. i # n - 1 => i + 1 \in 1 .. n - 1 /\ ~(i + 1 < k)
        BY <1>1, <2>3
      <4> QED
        BY <1>1, <4>1
    <3> QED
      BY <1>1, <3>1, <3>2, <3>3
  <2>4. i < k - 1 \/ i = k - 1 \/ ~(i < k)
    BY <1>1
  <2> QED
    BY <2>1, <2>2, <2>3, <2>4
<1>5. ASSUME NEW i \in 1 .. n - 1
      PROVE  u.prev[q[i]] = IF i = 1 THEN NULL ELSE q[i - 1]
  <2>0. /\ \A j \in 1 .. n : j # k =>
              u.prev[r[j]] = IF j = k + 1 THEN IF k = 1 THEN NULL ELSE r[k - 1]
                             ELSE IF j = 1 THEN NULL ELSE r[j - 1]
        /\ i \in 1 .. n /\ i + 1 \in 1 .. n
    BY <1>1 DEF Skips
  <2>1. CASE i < k
    <3>1. i # k /\ i # k + 1 /\ q[i] = r[i]
      BY <1>1, <2>1
    <3>2. u.prev[r[i]] = IF i = 1 THEN NULL ELSE r[i - 1]
      BY <2>0, <3>1
    <3>3. i # 1 => q[i - 1] = r[i - 1]
      <4>1. i # 1 => i - 1 \in 1 .. n - 1 /\ i - 1 < k
        BY <1>1, <2>1
      <4> QED
        BY <1>1, <4>1
    <3> QED
      BY <3>1, <3>2, <3>3
  <2>2. CASE i = k
    <3>1. i + 1 # k /\ i + 1 = k + 1 /\ q[i] = r[i + 1]
      BY <1>1, <2>2
    <3>2. u.prev[r[i + 1]] = IF k = 1 THEN NULL ELSE r[k - 1]
      BY <2>0, <3>1
    <3>3. i # 1 => q[i - 1] = r[k - 1]
      <4>1. i # 1 => i - 1 \in 1 .. n - 1 /\ i - 1 < k
        BY <1>1, <2>2
      <4> QED
        BY <1>1, <2>2, <4>1
    <3> QED
      BY <2>2, <3>1, <3>2, <3>3
  <2>3. CASE i > k
    <3>1. i + 1 # k /\ i + 1 # k + 1 /\ i + 1 # 1 /\ i # 1 /\ q[i] = r[i + 1]
      BY <1>1, <2>3
    <3>2. u.prev[r[i + 1]] = r[(i + 1) - 1] /\ (i + 1) - 1 = i
      BY <2>0, <3>1
    <3>3. i - 1 \in 1 .. n - 1 /\ ~(i - 1 < k) /\ (i - 1) + 1 = i
      BY <1>1, <2>3
    <3>4. q[i - 1] = r[i]
      BY <1>1, <3>3
    <3> QED
      BY <3>1, <3>2, <3>4
  <2> QED
    BY <1>1, <2>1, <2>2, <2>3
<1>6. /\ \A i \in 1 .. Len(q) : u.next[q[i]] = IF i = Len(q) THEN NULL ELSE q[i + 1]
      /\ \A i \in 1 .. Len(q) : u.prev[q[i]] = IF i = 1 THEN NULL ELSE q[i - 1]
      /\ Len(q) # 0 /\ u.first = q[1] /\ u.last = q[Len(q)]
  BY <1>1, <1>3, <1>4, <1>5
<1> QED
  BY <1>1, <1>2, <1>6, MakeChained DEF Skips

\* in_list takes a node out of a list of two or more.
LEMMA Unlinked ==
  ASSUME NEW l, NEW r, Chained(l, r), 2 <= Len(r), NEW k \in 1 .. Len(r)
  PROVE  Skips(UnlinkForth(UnlinkBack(l, r[k]), r[k]), r, k)
<1> DEFINE n == Len(r)
           f == r[k]
           m == UnlinkBack(l, f)
           u == UnlinkForth(m, f)
<1>1. /\ n \in Nat /\ 2 <= n /\ k \in 1 .. n /\ r \in Seq(Frame)
      /\ \A i \in 1 .. n : r[i] \in Frame /\ r[i] # NULL
      /\ \A i, j \in 1 .. n : r[i] = r[j] => i = j
      /\ l.next \in [Frame -> Pointer] /\ l.prev \in [Frame -> Pointer]
      /\ l.first = r[1] /\ l.last = r[n] /\ l \in ListType
      /\ \A i \in 1 .. n :
           /\ l.next[r[i]] = IF i = n THEN NULL ELSE r[i + 1]
           /\ l.prev[r[i]] = IF i = 1 THEN NULL ELSE r[i - 1]
  BY ChainedFacts DEF Chained
<1>2. CASE k = 1
  <2>1. /\ m.first = r[2] /\ m.last = r[n] /\ m.next = l.next
        /\ m.prev = [l.prev EXCEPT ![r[2]] = NULL] /\ m \in ListType
    <3>1. l.prev[f] = NULL /\ l.next[f] = r[2] /\ r[2] \in Frame
      BY <1>1, <1>2
    <3> QED
      BY <1>1, <3>1, NullIsNoFrame DEF UnlinkBack, ListType
  <2> HIDE DEF m
  <2>2. m.next[f] = r[2] /\ r[2] # NULL /\ m.prev[f] = NULL
    <3>1. 2 \in 1 .. n /\ r[1] # r[2] /\ l.prev[f] = NULL
      BY <1>1, <1>2
    <3> QED
      BY <1>1, <1>2, <2>1, <3>1
  <2>3. /\ u.first = r[2] /\ u.last = r[n] /\ u.next = l.next
        /\ u.prev = [m.prev EXCEPT ![r[2]] = NULL] /\ u \in ListType
    BY <1>1, <2>1, <2>2, NullIsNoFrame DEF UnlinkForth, ListType
  <2> HIDE DEF u, f
  <2>4. ASSUME NEW i \in 2 .. n
        PROVE  u.prev[r[i]] = IF i = 2 THEN NULL ELSE r[i - 1]
    <3>1. i \in 1 .. n /\ 2 \in 1 .. n /\ i # 1 /\ (r[i] = r[2] => i = 2)
      BY <1>1
    <3> QED
      BY <1>1, <2>1, <2>3, <3>1
  <2>5. ASSUME NEW i \in 2 .. n
        PROVE  u.next[r[i]] = IF i = n THEN NULL ELSE r[i + 1]
    BY <1>1, <2>3
  <2>6. Skips(u, r, k)
    <3>1. \A i \in 1 .. n : i # k => i \in 2 .. n /\ i # k - 1 /\ (i = k + 1 <=> i = 2) /\ i # 1
      BY <1>1, <1>2
    <3> QED
      BY <1>1, <1>2, <2>3, <2>4, <2>5, <3>1 DEF Skips
  <2> QED
    BY <2>6 DEF u, m, f
<1>3. CASE k # 1
  <2>0. k - 1 \in 1 .. n /\ r[k - 1] \in Frame /\ r[k - 1] # NULL /\ r[k - 1] # f
    <3>1. k - 1 \in 1 .. n /\ k - 1 # k
      BY <1>1, <1>3
    <3> QED
      BY <1>1, <3>1
  <2>1. /\ m.first = r[1] /\ m.last = r[n] /\ m.prev = l.prev
        /\ m.next = [l.next EXCEPT ![r[k - 1]] = l.next[f]] /\ m \in ListType
    <3>1. l.prev[f] = r[k - 1]
      BY <1>1, <1>3
    <3>2. l.next[f] \in Pointer
      BY <1>1
    <3> QED
      BY <1>1, <2>0, <3>1, <3>2, NullIsNoFrame DEF UnlinkBack, ListType
  <2> HIDE DEF m
  <2>2. m.next[f] = l.next[f] /\ m.prev[f] = r[k - 1]
    BY <1>1, <1>3, <2>0, <2>1
  <2>3. ASSUME NEW i \in 1 .. n, i # k
        PROVE  m.next[r[i]] = IF i = k - 1 THEN l.next[f] ELSE IF i = n THEN NULL ELSE r[i + 1]
    <3>1. r[i] = r[k - 1] => i = k - 1
      BY <1>1, <2>0
    <3> QED
      BY <1>1, <2>0, <2>1, <3>1
  <2>4. CASE k = n
    <3>1. l.next[f] = NULL
      BY <1>1, <2>4
    <3>2. /\ u.first = r[1] /\ u.last = r[n - 1] /\ u.prev = l.prev
          /\ u.next = [m.next EXCEPT ![r[k - 1]] = NULL] /\ u \in ListType
      BY <1>1, <2>0, <2>1, <2>2, <2>4, <3>1, NullIsNoFrame DEF UnlinkForth, ListType
    <3> HIDE DEF u, f
    <3>3. ASSUME NEW i \in 1 .. n, i # k
          PROVE  u.next[r[i]] = IF i = k - 1 THEN NULL ELSE r[i + 1]
      <4>1. r[i] = r[k - 1] => i = k - 1
        BY <1>1, <2>0
      <4>2. m.next \in [Frame -> Pointer] /\ r[i] \in Frame
        BY <1>1, <2>1 DEF ListType
      <4> QED
        BY <2>0, <2>3, <2>4, <3>1, <3>2, <3>3, <4>1, <4>2
    <3>4. Skips(u, r, k)
      <4>1. \A i \in 1 .. n : i # k => i # n /\ i # k + 1
        BY <1>1, <2>4
      <4> QED
        BY <1>1, <1>3, <2>4, <3>2, <3>3, <4>1 DEF Skips
    <3> QED
      BY <3>4 DEF u, m, f
  <2>5. CASE k # n
    <3>1. /\ k + 1 \in 1 .. n /\ l.next[f] = r[k + 1]
          /\ r[k + 1] \in Frame /\ r[k + 1] # NULL
      <4>1. k + 1 \in 1 .. n
        BY <1>1, <2>5
      <4> QED
        BY <1>1, <2>5, <4>1
    <3>2. /\ u.first = r[1] /\ u.last = r[n] /\ u.next = m.next
          /\ u.prev = [l.prev EXCEPT ![r[k + 1]] = r[k - 1]] /\ u \in ListType
      BY <1>1, <2>0, <2>1, <2>2, <3>1, NullIsNoFrame DEF UnlinkForth, ListType
    <3> HIDE DEF u, f
    <3>3. ASSUME NEW i \in 1 .. n, i # k
          PROVE  u.prev[r[i]] = IF i = k + 1 THEN r[k - 1] ELSE IF i = 1 THEN NULL ELSE r[i - 1]
      <4>1. r[i] = r[k + 1] => i = k + 1
        BY <1>1, <3>1
      <4> QED
        BY <1>1, <3>1, <3>2, <4>1
    <3>4. Skips(u, r, k)
      BY <1>1, <1>3, <2>3, <2>5, <3>1, <3>2, <3>3 DEF Skips
    <3> QED
      BY <3>4 DEF u, m, f
  <2> QED
    BY <2>4, <2>5
<1> QED
  BY <1>2, <1>3

\* lru_evict takes the first node out of a list of two or more.
LEMMA FirstUnlinked ==
  ASSUME NEW l, NEW r, Chained(l, r), 2 <= Len(r)
  PROVE  Skips(AfterEvict(l), r, 1)
<1> DEFINE n == Len(r)
           u == AfterEvict(l)
<1>1. /\ n \in Nat /\ 2 <= n
      /\ \A i \in 1 .. n : r[i] \in Frame /\ r[i] # NULL
      /\ \A i, j \in 1 .. n : r[i] = r[j] => i = j
      /\ l.next \in [Frame -> Pointer] /\ l.prev \in [Frame -> Pointer]
      /\ l.first = r[1] /\ l.last = r[n] /\ l \in ListType
      /\ \A i \in 1 .. n :
           /\ l.next[r[i]] = IF i = n THEN NULL ELSE r[i + 1]
           /\ l.prev[r[i]] = IF i = 1 THEN NULL ELSE r[i - 1]
  BY ChainedFacts DEF Chained
<1>2. 1 \in 1 .. n /\ 2 \in 1 .. n /\ l.next[r[1]] = r[2] /\ r[1] # r[2]
  BY <1>1
<1>3. /\ u.first = r[2] /\ u.last = r[n]
      /\ u.prev = [l.prev EXCEPT ![r[2]] = NULL, ![r[1]] = NULL]
      /\ u.next = [l.next EXCEPT ![r[1]] = NULL]
      /\ u \in ListType
  BY <1>1, <1>2, NullIsNoFrame DEF AfterEvict, ListType
<1> HIDE DEF u
<1>4. ASSUME NEW i \in 2 .. n
      PROVE  /\ u.next[r[i]] = IF i = n THEN NULL ELSE r[i + 1]
             /\ u.prev[r[i]] = IF i = 2 THEN NULL ELSE r[i - 1]
  <2>1. i \in 1 .. n /\ i # 1 /\ r[i] # r[1] /\ (r[i] = r[2] => i = 2)
    BY <1>1, <1>2
  <2> QED
    BY <1>1, <1>2, <1>3, <2>1
<1>5. \A i \in 1 .. n : i # 1 => i \in 2 .. n /\ i # 1 - 1 /\ (i = 1 + 1 <=> i = 2)
  BY <1>1
<1>6. Skips(u, r, 1)
  BY <1>1, <1>3, <1>4, <1>5 DEF Skips
<1> QED
  BY <1>6 DEF u

Members(r) == {r[i] : i \in 1 .. Len(r)}

\* The loop of in_list meets the nodes of the list and no others.
LEMMA ReachIsAll ==
  ASSUME NEW l, NEW r, Chained(l, r), Len(r) <= memsize
  PROVE  Reach(l) = Members(r)
<1> DEFINE n == Len(r)
           Turn(walk, m) == IF m = 0 THEN l.first
                            ELSE IF walk[m - 1] = NULL THEN NULL ELSE l.next[walk[m - 1]]
           G == [m \in 0 .. memsize |-> IF m < n THEN r[m + 1] ELSE NULL]
           Walk(walk) == walk = [m \in 0 .. memsize |-> Turn(walk, m)]
           W == CHOOSE walk : Walk(walk)
<1>1. /\ n \in Nat /\ n <= memsize /\ memsize \in Nat
      /\ \A i \in 1 .. n : r[i] \in Frame /\ r[i] # NULL
      /\ l.first = IF n = 0 THEN NULL ELSE r[1]
      /\ \A i \in 1 .. n : l.next[r[i]] = IF i = n THEN NULL ELSE r[i + 1]
  <2> HIDE DEF G, Walk, W
  <2>1. n \in Nat /\ n <= memsize /\ memsize \in Nat
    BY ChainedFacts, SizeAssumption
  <2>2. \A i \in 1 .. n : r[i] \in Frame /\ r[i] # NULL
    BY ChainedFacts
  <2>3. l.first = IF n = 0 THEN NULL ELSE r[1]
    BY DEF Chained
  <2>4. \A i \in 1 .. n : l.next[r[i]] = IF i = n THEN NULL ELSE r[i + 1]
    BY DEF Chained
  <2> QED
    BY <2>1, <2>2, <2>3, <2>4
<1>2. ASSUME NEW m \in 0 .. memsize PROVE G[m] = Turn(G, m)
  <2>1. CASE m = 0
    BY <1>1, <2>1
  <2>2. CASE m # 0
    <3>1. m - 1 \in 0 .. memsize /\ m \in 0 .. memsize
      BY <1>1, <2>2
    <3>2. CASE m - 1 < n
      <4>1. m \in 1 .. n /\ G[m - 1] = r[m]
        BY <1>1, <2>2, <3>1, <3>2
      <4>2. Turn(G, m) = IF m = n THEN NULL ELSE r[m + 1]
        BY <1>1, <2>2, <4>1
      <4> QED
        BY <1>1, <4>1, <4>2
    <3>3. CASE ~(m - 1 < n)
      BY <1>1, <2>2, <3>1, <3>3
    <3> QED
      BY <3>2, <3>3
  <2> QED
    BY <2>1, <2>2
<1>3. Walk(G)
  BY <1>2
<1>4. Walk(W)
  <2> HIDE DEF Walk
  <2> QED
    BY <1>3
<1> HIDE DEF G, W
<1>9. \A m \in 0 .. memsize : W[m] = Turn(W, m)
  BY <1>4
<1> HIDE DEF Walk
<1>5. \A m \in 0 .. memsize : W[m] = G[m]
  <2> DEFINE Bad == {m \in 0 .. memsize : W[m] # G[m]}
  <2>1. SUFFICES ASSUME Bad # {} PROVE FALSE
    OBVIOUS
  <2>2. Bad \in SUBSET Nat
    BY <1>1
  <2>3. PICK m \in Bad : \A k \in Bad : m <= k
    <3>1. PICK x : x \in Bad
      BY <2>1
    <3>2. Min(Bad) \in Bad /\ \A y \in Bad : Min(Bad) <= y
      BY <2>2, <3>1, MinIsLeast
    <3> QED
      BY <3>2
  <2>4. m \in 0 .. memsize /\ W[m] = Turn(W, m) /\ G[m] = Turn(G, m)
    BY <1>2, <1>9
  <2>5. m # 0
    BY <2>3, <2>4
  <2>6. m - 1 \in 0 .. memsize /\ m - 1 \notin Bad
    BY <1>1, <2>3, <2>4, <2>5
  <2>7. W[m - 1] = G[m - 1]
    BY <2>6
  <2> QED
    BY <2>3, <2>4, <2>7
<1>6. Reach(l) = {G[m] : m \in 0 .. memsize} \ {NULL}
  <2>1. Reach(l) = {W[m] : m \in 0 .. memsize} \ {NULL}
    BY DEF Reach, W, Walk
  <2> QED
    BY <1>5, <2>1
<1>7. \A i \in 1 .. n : i - 1 \in 0 .. memsize /\ G[i - 1] = r[i]
  BY <1>1 DEF G
<1>8. \A m \in 0 .. memsize : G[m] # NULL => m + 1 \in 1 .. n /\ G[m] = r[m + 1]
  BY <1>1 DEF G
<1>10. Reach(l) \subseteq Members(r)
  <2>1. ASSUME NEW x \in Reach(l) PROVE x \in Members(r)
    <3>1. PICK m \in 0 .. memsize : x = G[m] /\ G[m] # NULL
      BY <1>6
    <3> QED
      BY <1>8, <3>1 DEF Members
  <2> QED
    BY <2>1
<1>11. Members(r) \subseteq Reach(l)
  <2>1. ASSUME NEW i \in 1 .. n PROVE r[i] \in Reach(l)
    BY <1>1, <1>6, <1>7
  <2> QED
    BY <2>1 DEF Members
<1> QED
  BY <1>10, <1>11

\* A frame that is not in a sequence is not removed from it.
LEMMA RemoveNone ==
  ASSUME NEW s, NEW e, \A i \in 1 .. Len(s) : s[i] # e
  PROVE  RemoveFirst(s, e) = s
BY DEF RemoveFirst

\* A frame is in the list at one place; it leaves the others as they are.
LEMMA RemoveOne ==
  ASSUME NEW l, NEW r, Chained(l, r), NEW k \in 1 .. Len(r)
  PROVE  Without(r, k, RemoveFirst(r, r[k]))
<1>1. r \in Seq(Frame) /\ Len(r) \in Nat
  BY ChainedFacts DEF Chained
<1>0. \A i \in 1 .. Len(r) : r[i] = r[k] => k <= i
  <2>1. \A i \in 1 .. Len(r) : r[i] = r[k] => i = k
    BY DEF Chained
  <2> QED
    BY <1>1, <2>1
<1> DEFINE q == RemoveFirst(r, r[k])
<1>2. q = RemoveFirst(r, r[k])
  OBVIOUS
<1> HIDE DEF q
<1>3. /\ q \in Seq(Frame) /\ Len(q) = Len(r) - 1
      /\ \A i \in 1 .. Len(r) - 1 : q[i] = IF i < k THEN r[i] ELSE r[i + 1]
  BY <1>0, <1>1, <1>2, RemoveKth, SMTT(60)
<1>4. Without(r, k, q)
  BY <1>3 DEF Without
<1> QED
  BY <1>4 DEF q

\* lru_ref: the frame is the last one then.  The list does not fault as long as
\* the node that is moved is not the only one.
LEMMA Referred ==
  ASSUME NEW l, NEW r, Chained(l, r), Len(r) <= memsize,
         NEW f \in Frame, ~RefFaults(l, f)
  PROVE  /\ Chained(AfterRef(l, f), Append(RemoveFirst(r, f), f))
         /\ f \in Members(r) => Len(Append(RemoveFirst(r, f), f)) = Len(r)
         /\ f \notin Members(r) => Append(RemoveFirst(r, f), f) = Append(r, f)
<1>1. /\ Len(r) \in Nat /\ Reach(l) = Members(r) /\ r \in Seq(Frame)
      /\ \A i \in 1 .. Len(r) : r[i] \in Frame /\ r[i] # NULL
      /\ l.first = IF Len(r) = 0 THEN NULL ELSE r[1]
      /\ \A i \in 1 .. Len(r) :
           /\ l.next[r[i]] = IF i = Len(r) THEN NULL ELSE r[i + 1]
           /\ l.prev[r[i]] = IF i = 1 THEN NULL ELSE r[i - 1]
  BY ChainedFacts, ReachIsAll DEF Chained
<1>2. CASE Len(r) = 0
  <2>1. r = <<>> /\ l.first = NULL
    BY <1>1, <1>2
  <2>2. f \notin Members(r) /\ RemoveFirst(r, f) = r
    <3>1. \A i \in 1 .. Len(r) : r[i] # f
      BY <1>2
    <3> QED
      BY <3>1, RemoveNone DEF Members
  <2>3. Append(r, f) = <<f>> /\ AfterRef(l, f) = [EmptyList EXCEPT !.first = f, !.last = f]
    BY <2>1 DEF AfterRef
  <2>4. Chained(AfterRef(l, f), <<f>>)
    BY <2>3, OneChained, Zenon
  <2> QED
    BY <2>2, <2>3, <2>4
<1>3. CASE Len(r) # 0 /\ f \notin Members(r)
  <2>1. \A i \in 1 .. Len(r) : r[i] # f
    BY <1>3 DEF Members
  <2>2. AfterRef(l, f) = AtEnd(l, f) /\ RemoveFirst(r, f) = r
    <3>1. l.first # NULL
      BY <1>1, <1>3
    <3> QED
      BY <1>1, <1>3, <2>1, <3>1, RemoveNone DEF AfterRef
  <2>3. Chained(AtEnd(l, f), Append(r, f))
    BY <1>3, <2>1, AtEndChained
  <2> QED
    BY <1>3, <2>2, <2>3
<1>4. CASE Len(r) # 0 /\ f \in Members(r)
  <2>1. PICK k \in 1 .. Len(r) : r[k] = f
    BY <1>4 DEF Members
  <2> DEFINE u == UnlinkForth(UnlinkBack(l, f), f)
             q == RemoveFirst(r, f)
  <2>2. 2 <= Len(r)
    <3>1. l.prev[f] # NULL \/ l.next[f] # NULL
      BY <1>1, <1>4 DEF RefFaults
    <3>2. Len(r) # 1
      <4>1. Len(r) = 1 => k = 1 /\ l.next[r[1]] = NULL /\ l.prev[r[1]] = NULL
        BY <1>1, <2>1
      <4> QED
        BY <2>1, <3>1, <4>1
    <3>3. \A n \in Nat : n # 0 /\ n # 1 => 2 <= n
      OBVIOUS
    <3> QED
      BY <1>1, <1>4, <3>2, <3>3
  <2>3. Without(r, k, q) /\ Skips(u, r, k)
    <3>1. Without(r, k, RemoveFirst(r, r[k])) /\ Skips(UnlinkForth(UnlinkBack(l, r[k]), r[k]), r, k)
      BY <2>2, RemoveOne, Unlinked
    <3> QED
      BY <2>1, <3>1
  <2>4. AfterRef(l, f) = AtEnd(u, f)
    <3>1. l.first # NULL
      BY <1>1, <1>4
    <3> QED
      BY <1>1, <1>4, <3>1 DEF AfterRef
  <2> HIDE DEF u, q
  <2>5. Chained(u, q)
    BY <2>2, <2>3, SkipsChained
  <2>6. Len(q) = Len(r) - 1 /\ q \in Seq(Frame) /\ Len(q) # 0 /\ \A i \in 1 .. Len(q) : q[i] # f
    <3>1. \A i \in 1 .. Len(q) : q[i] # r[k]
      BY <2>3, WithoutDiffers
    <3>2. Len(q) = Len(r) - 1 /\ q \in Seq(Frame)
      BY <2>3 DEF Without
    <3>3. Len(r) \in Nat
      BY <1>1
    <3> QED
      BY <2>1, <2>2, <3>1, <3>2, <3>3
  <2>7. Chained(AtEnd(u, f), Append(q, f)) /\ Len(Append(q, f)) = Len(r)
    <3>1. Chained(AtEnd(u, f), Append(q, f))
      BY <2>5, <2>6, AtEndChained
    <3>2. Len(Append(q, f)) = Len(q) + 1
      BY <2>6, AppendProperties
    <3> QED
      BY <1>1, <2>6, <3>1, <3>2
  <2>8. Append(q, f) = Append(RemoveFirst(r, f), f)
    BY DEF q
  <2> QED
    BY <1>4, <2>4, <2>7, <2>8
<1> QED
  BY <1>2, <1>3, <1>4

\* What the list is of: every frame in use, once, and the frames are taken
\* into use in their order.
LruInv ==
  /\ Chained(list, recent)
  /\ FreeFrames = Len(recent) .. memsize - 1 /\ Len(recent) <= memsize
  /\ Members(recent) = Frame \ FreeFrames

LEMMA InitLru == Init /\ lru_init => LruInv
<1> SUFFICES ASSUME Init, lru_init PROVE LruInv
  OBVIOUS
<1>1. FreeFrames = Frame
  BY DEF Init, FreeFrames
<1>2. list \in ListType /\ list.first = NULL /\ list.last = NULL
  BY NullIsNoFrame DEF lru_init, EmptyList, ListType
<1>3. recent = <<>> /\ Len(recent) = 0 /\ recent \in Seq(Frame) /\ 1 .. Len(recent) = {}
  BY DEF lru_init
<1>4. Chained(list, recent)
  BY <1>2, <1>3 DEF Chained
<1>5. Members(recent) = {}
  BY <1>3 DEF Members
<1> QED
  BY <1>1, <1>3, <1>4, <1>5, SizeAssumption DEF LruInv, Frame

\* The members of a sequence that is touched.
LEMMA TouchedMembers ==
  ASSUME NEW l, NEW r, Chained(l, r), NEW f \in Frame
  PROVE  Members(Append(RemoveFirst(r, f), f)) = Members(r) \cup {f}
<1>1. r \in Seq(Frame) /\ Len(r) \in Nat
  BY ChainedFacts DEF Chained
<1>2. ASSUME NEW q \in Seq(Frame) PROVE Members(Append(q, f)) = Members(q) \cup {f}
  <2>1. /\ Len(q) \in Nat /\ Len(Append(q, f)) = Len(q) + 1
        /\ Append(q, f)[Len(q) + 1] = f
        /\ \A i \in 1 .. Len(q) : Append(q, f)[i] = q[i]
    BY AppendProperties
  <2> DEFINE a == Append(q, f)
  <2> HIDE DEF a
  <2>2. Len(a) = Len(q) + 1 /\ a[Len(q) + 1] = f /\ \A i \in 1 .. Len(q) : a[i] = q[i]
    BY <2>1 DEF a
  <2>3. Members(a) \subseteq Members(q) \cup {f}
    <3>1. ASSUME NEW i \in 1 .. Len(a) PROVE a[i] \in Members(q) \cup {f}
      <4>1. i \in 1 .. Len(q) \/ i = Len(q) + 1
        BY <2>1, <2>2
      <4> QED
        BY <2>2, <4>1 DEF Members
    <3> QED
      BY <3>1 DEF Members
  <2>4. Members(q) \subseteq Members(a) /\ f \in Members(a)
    <3>1. Len(q) + 1 \in 1 .. Len(a) /\ \A i \in 1 .. Len(q) : i \in 1 .. Len(a)
      BY <2>1, <2>2
    <3> QED
      BY <2>2, <3>1 DEF Members
  <2> QED
    BY <2>3, <2>4 DEF a
<1>3. CASE f \notin Members(r)
  <2>1. RemoveFirst(r, f) = r
    BY <1>3, RemoveNone DEF Members
  <2> QED
    BY <1>1, <1>2, <2>1
<1>4. CASE f \in Members(r)
  <2>1. PICK k \in 1 .. Len(r) : r[k] = f
    BY <1>4 DEF Members
  <2> DEFINE q == RemoveFirst(r, f)
  <2>2. Without(r, k, q)
    <3>1. Without(r, k, RemoveFirst(r, r[k]))
      BY RemoveOne
    <3> QED
      BY <2>1, <3>1
  <2> HIDE DEF q
  <2>3. /\ q \in Seq(Frame) /\ Len(q) = Len(r) - 1
        /\ \A i \in 1 .. Len(r) - 1 : q[i] = IF i < k THEN r[i] ELSE r[i + 1]
    BY <2>2 DEF Without
  <2>4. Members(q) \subseteq Members(r)
    <3>1. ASSUME NEW i \in 1 .. Len(q) PROVE q[i] \in Members(r)
      <4>1. i \in 1 .. Len(r) - 1 /\ i \in 1 .. Len(r) /\ i + 1 \in 1 .. Len(r)
        BY <1>1, <2>3
      <4> QED
        BY <2>3, <4>1 DEF Members
    <3> QED
      BY <3>1 DEF Members
  <2>5. Members(r) \subseteq Members(q) \cup {f}
    <3>1. ASSUME NEW i \in 1 .. Len(r), i # k PROVE r[i] \in Members(q)
      <4>1. CASE i < k
        <5>1. i \in 1 .. Len(r) - 1
          BY <1>1, <4>1
        <5> QED
          BY <2>3, <4>1, <5>1 DEF Members
      <4>2. CASE ~(i < k)
        <5>1. i - 1 \in 1 .. Len(r) - 1 /\ ~(i - 1 < k) /\ (i - 1) + 1 = i
          BY <1>1, <3>1, <4>2
        <5>2. q[i - 1] = r[i]
          BY <2>3, <5>1
        <5> QED
          BY <2>3, <5>1, <5>2 DEF Members
      <4> QED
        BY <4>1, <4>2
    <3> QED
      BY <2>1, <3>1 DEF Members
  <2>6. Members(Append(q, f)) = Members(q) \cup {f}
    BY <1>2, <2>3
  <2> QED
    BY <1>4, <2>4, <2>5, <2>6 DEF q
<1> QED
  BY <1>3, <1>4

\* lru_evict and lru_ref: the frame of the least recently used page goes, and
\* it is the most recently used one then.
LEMMA LruEvicts ==
  ASSUME LruInv, FreeFrames = {}, ~EvictFaults(list)
  PROVE  /\ LruVictim(list) = Head(recent) /\ LruVictim(list) \in Frame
         /\ Chained(AfterRef(AfterEvict(list), LruVictim(list)),
                    Append(RemoveFirst(recent, LruVictim(list)), LruVictim(list)))
         /\ Len(Append(RemoveFirst(recent, LruVictim(list)), LruVictim(list))) = Len(recent)
<1> DEFINE n == Len(recent)
           f == LruVictim(list)
           u == AfterEvict(list)
           q == RemoveFirst(recent, f)
<1>1. /\ n \in Nat /\ Chained(list, recent) /\ n <= memsize /\ recent \in Seq(Frame)
      /\ memsize \in Nat \ {0} /\ n .. memsize - 1 = {}
  BY ChainedFacts, SizeAssumption DEF LruInv, Chained
<1>2. n = memsize /\ n # 0 /\ 1 \in 1 .. n
  <2>1. n < memsize => n \in n .. memsize - 1
    BY <1>1
  <2>2. n = memsize
    <3>1. ~(n < memsize)
      BY <1>1, <2>1
    <3>2. \A a, b \in Nat : a <= b /\ ~(a < b) => a = b
      OBVIOUS
    <3> QED
      BY <1>1, <3>1, <3>2
  <2> QED
    BY <1>1, <2>2
<1>3. list.first = recent[1] /\ recent[1] \in Frame /\ f = recent[1] /\ Head(recent) = recent[1]
  BY <1>1, <1>2, ChainedFacts DEF Chained, LruVictim
<1>4. 2 <= n
  <2>1. n # 1
    <3>1. n = 1 => list.next[recent[1]] = NULL
      BY <1>2 DEF LruInv, Chained
    <3> QED
      BY <1>3, <3>1 DEF EvictFaults
  <2>2. \A m \in Nat : m # 0 /\ m # 1 => 2 <= m
    OBVIOUS
  <2> QED
    BY <1>1, <1>2, <2>1, <2>2
<1>5. Without(recent, 1, q)
  <2>1. Without(recent, 1, RemoveFirst(recent, recent[1]))
    BY <1>1, <1>2, RemoveOne
  <2> QED
    BY <1>3, <2>1
<1>6. Skips(u, recent, 1)
  BY <1>1, <1>4, FirstUnlinked
<1> HIDE DEF f, u, q
<1>7. Chained(u, q)
  BY <1>1, <1>2, <1>4, <1>5, <1>6, SkipsChained
<1>8. \A i \in 1 .. Len(q) : q[i] # f
  <2>1. \A i \in 1 .. Len(q) : q[i] # recent[1]
    BY <1>1, <1>2, <1>5, WithoutDiffers
  <2> QED
    BY <1>3, <2>1
<1>9. Len(q) = n - 1 /\ q \in Seq(Frame)
  BY <1>5 DEF Without
<1>10. f \notin Members(q) /\ RemoveFirst(q, f) = q
  BY <1>8, RemoveNone DEF Members
<1>11. Len(q) <= memsize /\ Reach(u) = Members(q)
  BY <1>1, <1>7, <1>9, ReachIsAll
<1>12. ~RefFaults(u, f) /\ f \in Frame
  BY <1>3, <1>10, <1>11 DEF RefFaults
<1>13. Chained(AfterRef(u, f), Append(q, f))
  <2>1. Chained(AfterRef(u, f), Append(RemoveFirst(q, f), f))
    BY <1>7, <1>11, <1>12, Referred
  <2> QED
    BY <1>10, <2>1
<1>14. Len(Append(q, f)) = n
  BY <1>1, <1>9, <1>12, AppendProperties
<1> QED
  BY <1>3, <1>12, <1>13, <1>14 DEF f, u, q

LEMMA LruStep ==
  ASSUME IInv, LruInv, NEW p \in Page, NEW type \in Type,
         LruAccess(p, type) \/ (Abort(p) /\ UNCHANGED lru_vars)
  PROVE  LruInv' /\ LeastRecentlyUsedOut
<1> DEFINE n == Len(recent)
<1>0. /\ n \in Nat /\ memsize \in Nat \ {0} /\ Chained(list, recent) /\ n <= memsize
      /\ FreeFrames = n .. memsize - 1 /\ Members(recent) = Frame \ FreeFrames
  BY ChainedFacts, SizeAssumption DEF LruInv
<1>1. CASE (Abort(p) \/ Crash) /\ UNCHANGED lru_vars
  <2>1. FreeFrames' = FreeFrames /\ valid \subseteq valid'
    BY <1>1, FramesAfter, NotEvicted
  <2>2. list' = list /\ recent' = recent
    BY <1>1 DEF lru_vars
  <2> QED
    BY <2>1, <2>2 DEF LruInv, LeastRecentlyUsedOut
<1>2. CASE /\ Hit(p, type)
           /\ ~RefFaults(list, frame[p])
           /\ list' = AfterRef(list, frame[p])
           /\ Touch(frame[p])
  <2>1. FreeFrames' = FreeFrames /\ valid \subseteq valid'
    BY <1>2, FramesAfter, NotEvicted
  <2>2. frame[p] \in Frame /\ frame[p] \in Members(recent)
    <3>1. frame[p] \in Frame /\ coremap[frame[p]] = p
      BY <1>2 DEF Hit, IInv, TypeOK, FramesMatch
    <3> QED
      BY <1>0, <3>1, PageAssumption DEF FreeFrames
  <2>3. recent' = Append(RemoveFirst(recent, frame[p]), frame[p])
    BY <1>2 DEF Touch
  <2>4. Chained(list', recent') /\ Len(recent') = n
    BY <1>0, <1>2, <2>2, <2>3, Referred
  <2>5. Members(recent') = Members(recent)
    BY <1>0, <2>2, <2>3, TouchedMembers
  <2> QED
    BY <1>0, <2>1, <2>4, <2>5 DEF LruInv, LeastRecentlyUsedOut
<1>3. CASE /\ FaultFree(p, type)
           /\ list' = AfterRef(list, frame'[p])
           /\ Touch(frame'[p])
  <2>1. /\ FreeFrames # {} /\ Min(FreeFrames) \in FreeFrames
        /\ \A f \in FreeFrames : Min(FreeFrames) <= f
    <3>1. FreeFrames # {} /\ FreeFrames \in SUBSET Nat
      BY <1>3, Sizes DEF FaultFree, FreeFrames
    <3> QED
      BY <3>1, MinIsLeast
  <2>2. Min(FreeFrames) = n /\ n \in Frame /\ n < memsize
    BY <1>0, <2>1 DEF Frame
  <2>3. frame'[p] = n /\ FreeFrames' = FreeFrames \ {n} /\ valid \subseteq valid'
    BY <1>3, <2>2, FramesAfter, NotEvicted
  <2>4. recent' = Append(RemoveFirst(recent, n), n) /\ list' = AfterRef(list, n)
    BY <1>3, <2>3 DEF Touch
  <2>5. n \notin Members(recent) /\ ~RefFaults(list, n)
    <3>1. n \notin Members(recent) /\ Reach(list) = Members(recent)
      BY <1>0, <2>1, <2>2, ReachIsAll
    <3> QED
      BY <3>1 DEF RefFaults
  <2>6. Chained(list', recent') /\ recent' = Append(recent, n)
    BY <1>0, <2>2, <2>4, <2>5, Referred
  <2>7. Len(recent') = n + 1
    <3>1. recent \in Seq(Frame)
      BY <1>0 DEF Chained
    <3> QED
      BY <2>2, <2>6, <3>1, AppendProperties
  <2>8. Members(recent') = Members(recent) \cup {n}
    BY <1>0, <2>2, <2>4, TouchedMembers
  <2>9. FreeFrames' = n + 1 .. memsize - 1 /\ Members(recent') = Frame \ FreeFrames'
    BY <1>0, <2>2, <2>3, <2>8
  <2> QED
    BY <1>0, <2>2, <2>3, <2>6, <2>7, <2>9 DEF LruInv, LeastRecentlyUsedOut
<1>4. CASE /\ FreeFrames = {}
           /\ ~EvictFaults(list)
           /\ FaultEvict(p, type, LruVictim(list), {})
           /\ list' = AfterRef(AfterEvict(list), LruVictim(list))
           /\ Touch(LruVictim(list))
  <2> DEFINE f == LruVictim(list)
  <2>1. recent' = Append(RemoveFirst(recent, f), f)
    BY <1>4 DEF Touch
  <2>2. f = Head(recent) /\ f \in Frame /\ Chained(list', recent') /\ Len(recent') = n
    BY <1>4, <2>1, LruEvicts
  <2>3. FreeFrames' = {}
    BY <1>4, <2>2, FramesAfter
  <2>4. Members(recent') = Members(recent) \cup {f}
    BY <1>0, <2>1, <2>2, TouchedMembers
  <2>5. LruInv'
    BY <1>0, <1>4, <2>2, <2>3, <2>4 DEF LruInv
  <2>6. \A q \in Page : q \in valid /\ q \notin valid' => frame[q] = f
    BY <1>4, <2>2, Evicted
  <2> QED
    BY <2>2, <2>5, <2>6 DEF LeastRecentlyUsedOut
<1> QED
  BY <1>1, <1>2, <1>3, <1>4 DEF LruAccess

\* The list that the property is about.
LEMMA ListIsInOrder == LruInv => ListInOrder
<1> SUFFICES ASSUME LruInv PROVE ListInOrder
  OBVIOUS
<1>1. Chained(list, recent) /\ Len(recent) \in Nat /\ recent \in Seq(Frame)
  BY ChainedFacts DEF LruInv, Chained
<1>2. IsInjective(recent)
  BY <1>1 DEF Chained, IsInjective
<1>3. {recent[i] : i \in 1 .. Len(recent)} = Frame \ FreeFrames
  BY DEF LruInv, Members
<1> QED
  BY <1>1, <1>2, <1>3 DEF ListInOrder, Chained

-----------------------------------------------------------------------------
(* The simulator *)

SimInv ==
  /\ IInv
  /\ alg = "fifo" => FifoInv
  /\ alg = "clock" => ClockInv
  /\ alg = "lru" => LruInv

LEMMA InitSimInv == SimInit => Init /\ SimInv
<1> SUFFICES ASSUME SimInit PROVE Init /\ SimInv
  OBVIOUS
<1>1. Init /\ fifo_init /\ clock_init /\ lru_init
  BY DEF SimInit
<1>2. IInv /\ FifoInv /\ LruInv
  BY <1>1, InitIInv, InitFifo, InitLru
<1>3. ClockInv
  BY <1>1, SizeAssumption DEF clock_init, ClockInv, Frame
<1> QED
  BY <1>1, <1>2, <1>3 DEF SimInv

\* Whichever algorithm picks the victim, an access is one of Paging's.
LEMMA AccessIsPaging ==
  ASSUME SimInv, NEW p \in Page, NEW type \in Type, access_mem(p, type)
  PROVE  Next
<1>0. IInv
  BY DEF SimInv
<1>1. Hit(p, type) \/ FaultFree(p, type) \/ Abort(p) \/ Crash => Next
  BY DEF Next
<1>2. \A f, cleared : f \in Frame /\ cleared \in SUBSET Page /\ FaultEvict(p, type, f, cleared) => Next
  BY DEF Next
<1>3. CASE alg = "rand" /\ (RandAccess(p, type) \/ Abort(p))
  BY <1>1, <1>2, <1>3 DEF RandAccess
<1>4. CASE alg = "fifo" /\ (FifoAccess(p, type) \/ Abort(p))
  <2>1. FifoVictim \in Frame
    BY <1>4, FifoFrame DEF SimInv, FifoInv
  <2> QED
    BY <1>1, <1>2, <1>4, <2>1 DEF FifoAccess
<1>5. CASE alg = "clock" /\ (ClockAccess(p, type) \/ Abort(p))
  <2> DEFINE cleared == {coremap[f] : f \in Marked \ clock_evict.marked}
  <2>1. clock_evict.victim \in Frame
    BY <1>0, <1>5, ClockFinds DEF SimInv, Found
  <2>2. cleared \in SUBSET Page
    BY <1>0 DEF Marked, IInv, TypeOK
  <2> QED
    BY <1>1, <1>2, <1>5, <2>1, <2>2 DEF ClockAccess
<1>6. CASE alg = "lru" /\ (LruAccess(p, type) \/ Abort(p))
  <2>1. FreeFrames = {} /\ ~EvictFaults(list) => LruVictim(list) \in Frame
    BY <1>6, LruEvicts DEF SimInv
  <2> QED
    BY <1>1, <1>2, <1>6, <2>1 DEF LruAccess
<1>7. CASE alg = "opt" /\ OptAccess(p, type)
  BY <1>1, <1>2, <1>7 DEF OptAccess
<1> QED
  BY <1>3, <1>4, <1>5, <1>6, <1>7 DEF access_mem

LEMMA StepSimInv == SimInv /\ [replay_trace]_sim_vars => SimInv' /\ [Next]_vars
<1> SUFFICES ASSUME SimInv, [replay_trace]_sim_vars PROVE SimInv' /\ [Next]_vars
  OBVIOUS
<1>1. CASE UNCHANGED sim_vars
  <2>1. UNCHANGED vars
    BY <1>1 DEF sim_vars
  <2>2. IInv'
    BY <2>1, NextIInv DEF SimInv
  <2>3. UNCHANGED <<alg, start, loaded, circular_hand, list, recent, coremap>>
    BY <1>1 DEF sim_vars, vars, fifo_vars, lru_vars
  <2> QED
    BY <2>1, <2>2, <2>3 DEF SimInv, FifoInv, ClockInv, LruInv, FreeFrames
<1>2. ASSUME NEW p \in Page, NEW type \in Type, access_mem(p, type), UNCHANGED alg
      PROVE  SimInv' /\ [Next]_vars
  <2>1. IInv /\ IInv' /\ [Next]_vars
    BY <1>2, AccessIsPaging, NextIInv DEF SimInv
  <2>2. alg = "fifo" => FifoInv'
    BY <1>2, <2>1, FifoStep DEF SimInv, access_mem
  <2>3. alg = "clock" => ClockInv'
    BY <1>2, <2>1, ClockStep DEF SimInv, access_mem
  <2>4. alg = "lru" => LruInv'
    BY <1>2, <2>1, LruStep DEF SimInv, access_mem
  <2> QED
    BY <1>2, <2>1, <2>2, <2>3, <2>4 DEF SimInv
<1> QED
  BY <1>1, <1>2 DEF replay_trace

\* The invariant of the simulator and of each algorithm's own data.
THEOREM SimInvariance == SimSpec => []SimInv
<1>1. SimInit => SimInv
  BY InitSimInv
<1>2. SimInv /\ [replay_trace]_sim_vars => SimInv'
  BY StepSimInv
<1> QED
  BY <1>1, <1>2, PTL DEF SimSpec

\* The simulator with any of its five algorithms is the paging that Paging
\* describes with any victim: each algorithm picks a frame there is and clears
\* only reference bits of pages.
THEOREM AlgorithmsPage == SimSpec => Spec
<1>1. SimInit => Init
  BY InitSimInv
<1>2. SimInv /\ [replay_trace]_sim_vars => [Next]_vars
  BY StepSimInv
<1> QED
  BY <1>1, <1>2, SimInvariance, PTL DEF SimSpec, Spec

\* Page table and coremap stay inverse to each other, under every algorithm.
THEOREM SimFramesAgree == SimSpec => []FramesMatch
BY AlgorithmsPage, FramesAgree, PTL

\* A page has all its writes, under every algorithm.
THEOREM SimLatestIsKept == SimSpec => []LatestKept
BY AlgorithmsPage, LatestIsKept, PTL

\* The pointers of lru.c stay a list of the frames in use, from the least to
\* the most recently used page.
THEOREM ListStaysInOrder == SimSpec => []ListIsRecency
<1>1. SimInv => ListIsRecency
  BY ListIsInOrder DEF SimInv, ListIsRecency
<1> QED
  BY <1>1, SimInvariance, PTL

\* fifo_evict: the page that has been in memory longest goes.
THEOREM FifoIsFifo == SimSpec => FirstOut
<1>1. SimInv /\ [replay_trace]_sim_vars => [alg = "fifo" => FirstLoadedOut]_sim_vars
  <2> SUFFICES ASSUME SimInv, NEW p \in Page, NEW type \in Type, access_mem(p, type), alg = "fifo"
               PROVE  FirstLoadedOut
    BY DEF replay_trace
  <2> QED
    BY FifoStep DEF SimInv, access_mem
<1> QED
  BY <1>1, SimInvariance, PTL DEF SimSpec, FirstOut

\* clock_evict: every page that was accessed since it lost its mark has a
\* second chance, from the hand on.
THEOREM ClockGivesSecondChance == SimSpec => SecondChance
<1>1. SimInv /\ [replay_trace]_sim_vars => [alg = "clock" => FirstUnmarkedOut]_sim_vars
  <2> SUFFICES ASSUME SimInv, NEW p \in Page, NEW type \in Type, access_mem(p, type), alg = "clock"
               PROVE  FirstUnmarkedOut
    BY DEF replay_trace
  <2> QED
    BY ClockStep DEF SimInv, access_mem
<1> QED
  BY <1>1, SimInvariance, PTL DEF SimSpec, SecondChance

\* lru_evict: the page that goes is the least recently used one.
THEOREM LruIsLru == SimSpec => LeastRecentOut
<1>1. SimInv /\ [replay_trace]_sim_vars => [alg = "lru" => LeastRecentlyUsedOut]_sim_vars
  <2> SUFFICES ASSUME SimInv, NEW p \in Page, NEW type \in Type, access_mem(p, type), alg = "lru"
               PROVE  LeastRecentlyUsedOut
    BY DEF replay_trace
  <2> QED
    BY LruStep DEF SimInv, access_mem
<1> QED
  BY <1>1, SimInvariance, PTL DEF SimSpec, LeastRecentOut
=============================================================================
