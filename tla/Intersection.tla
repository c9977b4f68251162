---------------------------- MODULE Intersection ----------------------------
(***************************************************************************)
(* What the intersection promises, without threads, mutexes or conditions: *)
(* cars wait in their lane's list, queue in the lane in that order, come   *)
(* to its front one at a time, enter only when nobody is in their way, and *)
(* leave.                                                                  *)
(***************************************************************************)
EXTENDS Roads, Sequences

VARIABLES
  open,      \* the schedule is complete
  waiting,   \* per lane: cars not yet in the lane, first to arrive first
  lane,      \* per lane: the queue in front of the intersection
  front,     \* per lane: the car that is next to cross or crossing, or None
  claim,     \* per lane: the quadrants its front car occupies
  left       \* per direction: cars that have left through it, latest first

vars == <<open, waiting, lane, front, claim, left>>

Init ==
  /\ open = FALSE
  /\ waiting = [l \in Dir |-> <<>>]
  /\ lane    = [l \in Dir |-> <<>>]
  /\ front   = [l \in Dir |-> None]
  /\ claim   = [l \in Dir |-> {}]
  /\ left    = [l \in Dir |-> <<>>]

\* A later line of the schedule arrives earlier.
Schedule(c) ==
  /\ ~open
  /\ waiting' = [waiting EXCEPT ![c.in_dir] = <<c>> \o @]
  /\ UNCHANGED <<open, lane, front, claim, left>>

Open ==
  /\ ~open
  /\ open' = TRUE
  /\ UNCHANGED <<waiting, lane, front, claim, left>>

Arrive(l) ==
  /\ open
  /\ waiting[l] # <<>>
  /\ Len(lane[l]) < Capacity
  /\ waiting' = [waiting EXCEPT ![l] = Tail(@)]
  /\ lane' = [lane EXCEPT ![l] = Append(@, Head(waiting[l]))]
  /\ UNCHANGED <<open, front, claim, left>>

Advance(l) ==
  /\ front[l] = None
  /\ lane[l] # <<>>
  /\ front' = [front EXCEPT ![l] = Head(lane[l])]
  /\ lane' = [lane EXCEPT ![l] = Tail(@)]
  /\ UNCHANGED <<open, waiting, claim, left>>

\* The rule of the road: no other car is on any part of the way.
Enter(l) ==
  /\ front[l] # None
  /\ claim[l] = {}
  /\ \A m \in Dir : claim[m] \cap Route(front[l]) = {}
  /\ claim' = [claim EXCEPT ![l] = Route(front[l])]
  /\ UNCHANGED <<open, waiting, lane, front, left>>

Leave(l) ==
  /\ claim[l] # {}
  /\ left' = [left EXCEPT ![front[l].out_dir] = <<front[l]>> \o @]
  /\ claim' = [claim EXCEPT ![l] = {}]
  /\ front' = [front EXCEPT ![l] = None]
  /\ UNCHANGED <<open, waiting, lane>>

Next ==
  \/ \E c \in Car : Schedule(c)
  \/ Open
  \/ \E l \in Dir : Arrive(l) \/ Advance(l) \/ Enter(l) \/ Leave(l)

Spec == Init /\ [][Next]_vars
=============================================================================
