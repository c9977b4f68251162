------------------------------- MODULE Paging -------------------------------
(***************************************************************************)
(* The virtual memory simulator: page table and coremap (pagetable.c), the *)
(* swap file (swap.c) and the access that sim.c makes for a line of the    *)
(* trace.  The program is sequential, so a whole access is one step: the   *)
(* translation, the eviction and swapping it needs, and the write.         *)
(*                                                                         *)
(* Here evict_fcn may pick any frame and clear any reference bits, and     *)
(* evict_fcn and ref_fcn may crash; Sim says what the algorithms do.       *)
(*                                                                         *)
(* A flag of the page table entries is the set of pages that have it.  An  *)
(* entry of a second-level table that is not allocated yet is like one of  *)
(* a new table.  Addresses of the trace are those of pages.  The counters  *)
(* of hits, misses and evictions are left out.                             *)
(***************************************************************************)
EXTENDS Integers, FiniteSets, FiniteSetsExt

CONSTANTS
  Page,         \* virtual pages
  memsize,      \* frames of physical memory
  swapsize,     \* pages the swap file has room for
  MaxVersion    \* bound: writes to a page between two times it is zeroed

INVALID_SWAP == -1
Nobody == "no page"
Frame == 0 .. memsize - 1
Slot  == 0 .. swapsize - 1

ASSUME SizeAssumption   == memsize \in Nat \ {0} /\ swapsize \in Nat
ASSUME PageAssumption   == Nobody \notin Page
ASSUME BoundAssumption  == MaxVersion \in Nat

\* What a page-sized piece of memory holds: the address and the version.
Junk    == [vaddr |-> Nobody, version |-> 0]
Content == [vaddr : Page, version : Nat]

VARIABLES
  valid, dirty, ref, onswap,   \* PG_VALID, PG_DIRTY, PG_REF, PG_ONSWAP
  frame,        \* per page: the frame number in its entry
  swap_off,     \* per page: its place in the swap file, or INVALID_SWAP
  coremap,      \* per frame: the page whose entry pte points to, or Nobody
                \* while the frame is not in use
  physmem,      \* per frame: its content
  swapmap,      \* the slots marked in the bitmap
  swapfile,     \* per slot: its content
  status,       \* "running", "assert" once an assertion failed, or "fault"
  version,      \* history: writes to a page since it was zeroed
  referenced    \* history: pages that have been accessed

pte_vars  == <<valid, dirty, ref, onswap, frame, swap_off>>
swap_vars == <<swapmap, swapfile>>
vars == <<pte_vars, coremap, physmem, swap_vars, status, version, referenced>>

Init ==
  /\ valid = {} /\ dirty = {} /\ ref = {} /\ onswap = {}
  /\ frame = [p \in Page |-> 0]
  /\ swap_off = [p \in Page |-> INVALID_SWAP]
  /\ coremap = [f \in Frame |-> Nobody]
  /\ physmem = [f \in Frame |-> Junk]
  /\ swapmap = {}
  /\ swapfile = [s \in Slot |-> Junk]
  /\ status = "running"
  /\ version = [p \in Page |-> 0]
  /\ referenced = {}

FreeFrames == {f \in Frame : coremap[f] = Nobody}

\* Mutant: the last slot is never handed out.
FreeSlotButLast ==
  IF 0 .. swapsize - 2 \subseteq swapmap THEN INVALID_SWAP ELSE Min(Slot \ swapmap)

\* bitmap_alloc: the first free slot, or none, as SlotPool has it and Bitmap
\* implements it.
FreeSlot ==
  IF Slot \subseteq swapmap THEN INVALID_SWAP ELSE Min(Slot \ swapmap)

-----------------------------------------------------------------------------
(* allocate_frame *)

\* Mutant: a page that was swapped out before gets a new slot each time.
PageoutSlotAnew(v) == FreeSlot

\* swap_pageout: the slot the page goes to.
PageoutSlot(v) == IF swap_off[v] = INVALID_SWAP THEN FreeSlot ELSE swap_off[v]

\* Mutant: the page is written out only if it has no slot yet.
WriteVictimOnce(f) ==
  LET v == coremap[f]
      s == PageoutSlot(v)
  IN  IF v \in dirty
      THEN /\ swap_off' = [swap_off EXCEPT ![v] = s]
           /\ swapmap' = swapmap \cup ({s} \ {INVALID_SWAP})
           /\ swapfile' = IF s = INVALID_SWAP \/ swap_off[v] # INVALID_SWAP THEN swapfile
                          ELSE [swapfile EXCEPT ![s] = physmem[f]]
      ELSE UNCHANGED <<swap_off, swap_vars>>

\* A modified victim goes to its slot.  When swap is full nothing is written,
\* and the victim gets INVALID_SWAP for an offset.
WriteVictim(f) ==
  LET v == coremap[f]
      s == PageoutSlot(v)
  IN  IF v \in dirty
      THEN /\ swap_off' = [swap_off EXCEPT ![v] = s]
           /\ swapmap' = swapmap \cup ({s} \ {INVALID_SWAP})
           /\ swapfile' = IF s = INVALID_SWAP THEN swapfile
                          ELSE [swapfile EXCEPT ![s] = physmem[f]]
      ELSE UNCHANGED <<swap_off, swap_vars>>

\* Who has PG_ONSWAP when the victim in frame f is out.
Swapped(f) == onswap \cup ({coremap[f]} \cap dirty)

-----------------------------------------------------------------------------
(* find_physpage and access_mem *)

Writes(type) == type = "S"     \* S and M write, I and L do not

\* The flags at the end of find_physpage, and the write of access_mem.
Finish(p, type, valid0, dirty0, ref0) ==
  /\ valid' = valid0 \cup {p}
  /\ ref' = ref0 \cup {p}
  /\ dirty' = IF Writes(type) THEN dirty0 \cup {p} ELSE dirty0
  /\ referenced' = referenced \cup {p}

Written(content, type) ==
  IF Writes(type) THEN [content EXCEPT !.version = @ + 1] ELSE content

Count(p, type, n) == version' = [version EXCEPT ![p] = IF Writes(type) THEN n + 1 ELSE n]

Hit(p, type) ==
  /\ status = "running"
  /\ p \in valid
  /\ Writes(type) => version[p] < MaxVersion
  /\ Finish(p, type, valid, dirty, ref)
  /\ physmem' = [physmem EXCEPT ![frame[p]] = Written(@, type)]
  /\ Count(p, type, version[p])
  /\ UNCHANGED <<onswap, frame, swap_off, coremap, swap_vars, status>>

\* The page comes into frame f: zeroed and marked dirty, or read back from
\* swap, as what is in swap now.  PG_ONSWAP is cleared either way.
Load(p, type, f, valid0, dirty0, ref0, onswap0) ==
  /\ coremap' = [coremap EXCEPT ![f] = p]
  /\ frame' = [frame EXCEPT ![p] = f]
  /\ onswap' = onswap0 \ {p}
  /\ IF p \in onswap0
     THEN /\ Finish(p, type, valid0, dirty0 \ {p}, ref0)
          /\ physmem' = [physmem EXCEPT ![f] = Written(swapfile'[swap_off'[p]], type)]
          /\ Count(p, type, version[p])
     ELSE /\ Finish(p, type, valid0, dirty0 \cup {p}, ref0)
          /\ physmem' = [physmem EXCEPT ![f] =
                           Written([vaddr |-> p, version |-> 0], type)]
          /\ Count(p, type, 0)
  /\ UNCHANGED status

MayFault(p, type) ==
  /\ status = "running"
  /\ p \notin valid
  /\ ~(p \in onswap /\ swap_off[p] = INVALID_SWAP)
  /\ Writes(type) => version[p] < MaxVersion

FaultFree(p, type) ==
  /\ MayFault(p, type)
  /\ FreeFrames # {}
  /\ UNCHANGED <<swap_off, swap_vars>>
  /\ Load(p, type, Min(FreeFrames), valid, dirty, ref, onswap)

\* Mutant: the victim keeps PG_VALID.
FaultEvictStillValid(p, type, f, cleared) ==
  /\ MayFault(p, type)
  /\ FreeFrames = {}
  /\ WriteVictim(f)
  /\ Load(p, type, f, valid, dirty \ {coremap[f]}, ref \ cleared, Swapped(f))

\* evict_fcn picks frame f and has cleared the reference bits of some pages.
FaultEvict(p, type, f, cleared) ==
  /\ MayFault(p, type)
  /\ FreeFrames = {}
  /\ WriteVictim(f)
  /\ Load(p, type, f, valid \ {coremap[f]}, dirty \ {coremap[f]}, ref \ cleared, Swapped(f))

\* swap_pagein asserts that it is given an offset; the process ends there.
Abort(p) ==
  /\ status = "running"
  /\ p \in onswap \ valid
  /\ swap_off[p] = INVALID_SWAP
  /\ status' = "assert"
  /\ UNCHANGED <<pte_vars, coremap, physmem, swap_vars, version, referenced>>

\* A replacement algorithm follows a null pointer, or names no frame there is.
Crash ==
  /\ status = "running"
  /\ status' = "fault"
  /\ UNCHANGED <<pte_vars, coremap, physmem, swap_vars, version, referenced>>

Type == {"L", "S"}

Next ==
  \E p \in Page, type \in Type :
    \/ Hit(p, type)
    \/ FaultFree(p, type)
    \/ \E f \in Frame, cleared \in SUBSET Page : FaultEvict(p, type, f, cleared)
    \/ Abort(p)
    \/ Crash

Spec == Init /\ [][Next]_vars

-----------------------------------------------------------------------------
(* What must hold. *)

\* Every variable has its type, and only pages in memory are dirty.
TypeOK ==
  /\ valid \subseteq Page /\ dirty \subseteq valid /\ ref \subseteq Page
  /\ onswap \subseteq Page \ valid
  /\ frame \in [Page -> Frame]
  /\ swap_off \in [Page -> Slot \cup {INVALID_SWAP}]
  /\ coremap \in [Frame -> Page \cup {Nobody}]
  /\ physmem \in [Frame -> Content \cup {Junk}]
  /\ swapmap \subseteq Slot
  /\ swapfile \in [Slot -> Content \cup {Junk}]
  /\ status \in {"running", "assert", "fault"}
  /\ version \in [Page -> Nat]
  /\ referenced \subseteq Page

\* Page table and coremap are inverse to each other: a frame in use belongs
\* to the one valid page whose entry has its number.
FramesMatch ==
  /\ \A p \in valid : coremap[frame[p]] = p
  /\ \A f \in Frame : coremap[f] # Nobody => coremap[f] \in valid /\ frame[coremap[f]] = f

\* No two pages share a slot of the swap file, and the bitmap marks exactly
\* the slots that pages have: none leaks, none is given out twice.
SlotsMatch ==
  /\ \A p, q \in Page : p # q /\ swap_off[p] # INVALID_SWAP => swap_off[p] # swap_off[q]
  /\ swapmap = {swap_off[p] : p \in Page} \ {INVALID_SWAP}

\* A page has in its frame, or else in its slot, its own address (so sim.c's
\* check never complains) and all writes since it was zeroed last, through
\* any number of evictions; and a page in memory that is not dirty is the
\* same as its slot.  Only a page that found swap full has nothing.
Latest(p) == [vaddr |-> p, version |-> version[p]]

LatestKept ==
  \A p \in Page :
    /\ p \in valid => physmem[frame[p]] = Latest(p)
    /\ p \in onswap /\ swap_off[p] # INVALID_SWAP => swapfile[swap_off[p]] = Latest(p)
    /\ p \in valid \ dirty => /\ swap_off[p] # INVALID_SWAP
                              /\ swapfile[swap_off[p]] = Latest(p)

\* A page that found swap full found every slot taken, by other pages.
OnlyWhenFull ==
  \A p \in Page : p \in onswap /\ swap_off[p] = INVALID_SWAP => swapmap = Slot

IInv == TypeOK /\ FramesMatch /\ SlotsMatch /\ LatestKept /\ OnlyWhenFull

-----------------------------------------------------------------------------
(* What a comment of the code says, and it does not do.                    *)

\* "If the entry is invalid and not on swap, then this is the first reference
\* to the page": a page that is out of memory is on swap or is new.
FirstReference == referenced \subseteq valid \cup onswap
=============================================================================
