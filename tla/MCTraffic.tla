----------------------------- MODULE MCTraffic -----------------------------
(* Schedules on which TLC checks Traffic. *)
EXTENDS TrafficRefines

C(id, in, out) == [id |-> id, in_dir |-> in, out_dir |-> out]

\* All cars straight on at once; a U-turn beside a left turn and a
\* car straight on that meet in one quadrant.
Straight == << C(0, 0, 2), C(0, 1, 3), C(0, 2, 0), C(0, 3, 1) >>
Turns    == << C(0, 0, 0), C(0, 1, 0), C(0, 3, 1) >>

\* Three cars for two slots: right turns and a U-turn, beside a left turn that
\* leaves through their lane; U-turns into the lane another car leaves through.
Mixed  == << C(0, 0, 1), C(1, 0, 0), C(2, 0, 1), C(0, 1, 0) >>
UTurns == << C(0, 2, 2), C(1, 2, 2), C(2, 2, 2), C(0, 0, 2) >>

All == {Straight, Turns, Mixed, UTurns}
One == {Mixed}
=============================================================================
