------------------------------ MODULE SlotPool ------------------------------
(* What the bitmap of swap.c promises: a pool of numbered slots that hands   *)
(* out the least free one, and says so when there is none.                   *)
EXTENDS Naturals, FiniteSets, FiniteSetsExt

CONSTANT MaxSlots

VARIABLES
  size,      \* how many slots the pool was created with
  used,      \* those in use
  answer     \* what the last Alloc returned: a slot, or nothing

Slots == 0 .. size - 1

Init == size \in 0 .. MaxSlots /\ used = {} /\ answer = {}

Alloc ==
  /\ IF used = Slots
     THEN answer' = {} /\ UNCHANGED used
     ELSE answer' = {Min(Slots \ used)} /\ used' = used \cup {Min(Slots \ used)}
  /\ UNCHANGED size

Mark(i)   == i \notin used /\ used' = used \cup {i} /\ UNCHANGED <<size, answer>>
Unmark(i) == i \in used /\ used' = used \ {i} /\ UNCHANGED <<size, answer>>

Next == Alloc \/ \E i \in Slots : Mark(i) \/ Unmark(i)

Spec == Init /\ [][Next]_<<size, used, answer>>
=============================================================================
