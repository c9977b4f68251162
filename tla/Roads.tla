------------------------------- MODULE Roads -------------------------------
(* The figure in traffic.h: directions, quadrants, cars and their ways.     *)
EXTENDS Integers

CONSTANTS
  CarId,        \* the ids a schedule may use
  Capacity,     \* LANE_LENGTH
  None          \* no car, no holder

Dir  == 0 .. 3         \* NORTH, WEST, SOUTH, EAST
Quad == 0 .. 3         \* quad[0] is Quadrant 1, ..., quad[3] Quadrant 4
Car  == [id : CarId, in_dir : Dir, out_dir : Dir]

ASSUME CapacityAssumption == Capacity \in Nat \ {0}
ASSUME NoCarAssumption    == None \notin Car

\* The way of a car that keeps to the right: anticlockwise from the quadrant
\* it enters by to the one it leaves by.
Route(c) ==
  LET first == (c.in_dir + 1) % 4
      ahead(q) == (q + 4 - first) % 4
  IN  {q \in Quad : ahead(q) <= ahead(c.out_dir)}
=============================================================================
