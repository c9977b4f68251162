------------------------------- MODULE Clock --------------------------------
(* The clock replacement of clock.c, on top of Paging.                       *)
EXTENDS Paging

VARIABLE circular_hand      \* where the search of the next eviction begins

clock_init == circular_hand = 0

\* The frames whose page has PG_REF.
Marked == {f \in Frame : coremap[f] \in ref}

\* The loop of clock_evict from frame h on: a marked frame loses its mark and
\* the next is looked at, in a circle; the first that has none is the victim.
\* (start < memsize + 1 holds always.)
Search == [victim : Frame, marked : SUBSET Frame]

Sweep[c \in Search] ==
  IF c.victim \in c.marked
  THEN Sweep[[victim |-> (c.victim + 1) % memsize, marked |-> c.marked \ {c.victim}]]
  ELSE c

FromHand == [victim |-> circular_hand, marked |-> Marked]

\* Mutant: the search does not clear the bits it passes, and stops where it
\* came from when it finds all of them set.
EvictBlind ==
  LET victim == IF Marked = Frame THEN circular_hand
                ELSE Sweep[FromHand].victim
  IN  [victim |-> victim, marked |-> Marked]

clock_evict == Sweep[FromHand]

\* The hand is left at the victim, not behind it.
MoveHand(victim) == circular_hand' = victim

ClockAccess(p, type) ==
  \/ Hit(p, type) /\ UNCHANGED circular_hand
  \/ FaultFree(p, type) /\ UNCHANGED circular_hand
  \/ LET sweep == clock_evict
     IN  /\ FaultEvict(p, type, sweep.victim, {coremap[f] : f \in Marked \ sweep.marked})
         /\ MoveHand(sweep.victim)

\* How far frame f is ahead of the hand.
Ahead(f) == (f + memsize - circular_hand) % memsize

\* Second chance: a page that was accessed since its mark was last cleared is
\* evicted only when all were, and then it is the one at the hand and all have
\* lost their marks; otherwise the victim is the first one from the hand on
\* that was not, and exactly the frames the hand passed have lost their marks.
FirstUnmarkedOut ==
  \A p \in Page :
    p \in valid /\ p \notin valid' =>
      IF p \in ref
      THEN /\ Marked = Frame /\ frame[p] = circular_hand
           /\ \A f \in Frame \ {frame[p]} : coremap[f] \notin ref'
      ELSE \A f \in Frame :
             IF Ahead(f) < Ahead(frame[p]) THEN f \in Marked /\ coremap[f] \notin ref'
             ELSE f # frame[p] => (f \in Marked <=> coremap[f] \in ref')
=============================================================================
