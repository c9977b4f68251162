--------------------------- MODULE TrafficRefines ---------------------------
(* The threads of Traffic implement the Intersection.                        *)
EXTENDS Traffic

\* The queue of a lane: what its ring holds from head on.
ReadOff(ring, first, n) == [i \in 1 .. n |-> ring[Around(first, i - 1)]]
Queue(l) == ReadOff(buffer[l], head[l], in_buf[l])

\* A car enters with its last quadrant and has left once it is in out_cars;
\* giving the quadrants back one by one is not visible.
Front(l) == IF cpc[l] = "unquad" THEN None ELSE lane_car[l]
Claim(l) == IF InIntersection(l) THEN Held(l) ELSE {}

Abstract == INSTANCE Intersection WITH
  open    <- main # "parse",
  waiting <- in_cars,
  lane    <- [l \in Dir |-> Queue(l)],
  front   <- [l \in Dir |-> Front(l)],
  claim   <- [l \in Dir |-> Claim(l)],
  left    <- out_cars

\* Every behaviour of the program is one of the Intersection: cars keep
\* their order, lanes never overflow, and whoever is in the intersection
\* holds exactly the quadrants of its way, nobody else's among them.
ImplementsIntersection == Abstract!Spec
=============================================================================
