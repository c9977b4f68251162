------------------------------ MODULE Traffic ------------------------------
(***************************************************************************)
(* The intersection of the Synchronization assignment (cars.c, traffic.c). *)
(* main parses the schedule and starts, for each of the four lanes, an     *)
(* arrival thread (car_arrive: in_cars -> lane buffer) and a crossing      *)
(* thread (car_cross: lane buffer -> quadrants -> out_cars).  The lane     *)
(* fields keep the names of struct lane.                                   *)
(*                                                                         *)
(* Grain: taking a mutex is one step, and what runs under a lane's mutex   *)
(* up to its release (or up to pthread_cond_wait, which releases it) is    *)
(* another: every field it touches is accessed only under that mutex, or   *)
(* by the one thread that owns it (in_cars, passed).                       *)
(***************************************************************************)
EXTENDS Roads, Sequences

CONSTANTS
  Files,        \* the schedules main may be given: sequences of cars
  MaxSpurious   \* bound: spurious wake-ups of pthread_cond_wait in a behaviour

Slot == 0 .. Capacity - 1

InThread(l)    == <<"in", l>>
CrossThread(l) == <<"cross", l>>
Thread == {InThread(l) : l \in Dir} \cup {CrossThread(l) : l \in Dir}

ASSUME FilesAssumption    == Files \subseteq Seq(Car)
ASSUME SpuriousAssumption == MaxSpurious \in Nat
ASSUME NoneAssumption     == None \notin Thread /\ None \notin Dir

VARIABLES
  main,       \* main's phase: "parse", "join", "verified"
  file,       \* the lines of the schedule not yet read
  in_cars,    \* per lane: cars pending, first to arrive first
  out_cars,   \* per lane: cars that left through it, latest first
  inc,        \* per lane: number of cars scheduled
  passed,     \* per lane: number of cars taken from the buffer
  buffer,     \* per lane: the circular buffer
  head,
  tail,
  in_buf,
  lane_lock,  \* per lane: the thread that holds lanes[l].lock, or None
  quad,       \* per quadrant: the lane whose crossing thread holds it, or None
  apc,        \* per lane: where its arrival thread is
  cpc,        \* per lane: where its crossing thread is
  lane_car,   \* per lane: the car its crossing thread has in hand
  spurious,   \* spurious wake-ups so far
  scheduled   \* history: in_cars as parse_schedule left it

lane_vars == <<in_cars, passed, buffer, head, tail, in_buf, out_cars>>
vars == <<main, file, inc, scheduled, lane_vars, lane_lock, quad,
          apc, cpc, lane_car, spurious>>

-----------------------------------------------------------------------------
(* compute_path: the quadrants on the way from in_dir to out_dir.           *)

\* Mutant: a left turn computed with two quadrants instead of three.
ComputePathShortLeft(in_dir, out_dir) ==
  LET in == (in_dir + 1) % 4
  IN  IF in = out_dir                THEN {in}
      ELSE IF out_dir = (in + 1) % 4 THEN {in, out_dir}
      ELSE IF in % 2 = out_dir % 2   THEN {(in + i) % 4 : i \in 0 .. 1}
      ELSE {(in + i) % 4 : i \in 0 .. 3}

ComputePath(in_dir, out_dir) ==
  LET in == (in_dir + 1) % 4
  IN  IF in = out_dir                THEN {in}
      ELSE IF out_dir = (in + 1) % 4 THEN {in, out_dir}
      ELSE IF in % 2 = out_dir % 2   THEN {(in + i) % 4 : i \in 0 .. 2}
      ELSE {(in + i) % 4 : i \in 0 .. 3}

Path(l) == ComputePath(lane_car[l].in_dir, lane_car[l].out_dir)
Held(l) == {q \in Quad : quad[q] = l}
ToLock(l) == Path(l) \ Held(l)

\* Mutant: the list is left in driving order, entry quadrant first.
NextQuadUnsorted(l) ==
  LET first == (l + 1) % 4
  IN  CHOOSE q \in ToLock(l) :
        \A r \in ToLock(l) : (q - first) % 4 <= (r - first) % 4

\* The quadrant the lock loop of pass_car_through_quad takes next: the list
\* is sorted in increasing order and its -1 entries are skipped.
NextQuad(l) == CHOOSE q \in ToLock(l) : \A r \in ToLock(l) : q <= r

\* The unlock loop walks the same list.
NextRelease(l) == CHOOSE q \in Held(l) : \A r \in Held(l) : q <= r

-----------------------------------------------------------------------------
(* main *)

Init ==
  /\ main = "parse"
  /\ file \in Files
  /\ in_cars  = [l \in Dir |-> <<>>]
  /\ out_cars = [l \in Dir |-> <<>>]
  /\ inc      = [l \in Dir |-> 0]
  /\ passed   = [l \in Dir |-> 0]
  /\ buffer   = [l \in Dir |-> [s \in Slot |-> None]]
  /\ head     = [l \in Dir |-> 0]
  /\ tail     = [l \in Dir |-> 0]
  /\ in_buf   = [l \in Dir |-> 0]
  /\ lane_lock = [l \in Dir |-> None]
  /\ quad     = [q \in Quad |-> None]
  /\ apc      = [l \in Dir |-> "unborn"]
  /\ cpc      = [l \in Dir |-> "unborn"]
  /\ lane_car = [l \in Dir |-> None]
  /\ spurious = 0
  /\ scheduled = [l \in Dir |-> <<>>]

\* parse_schedule: one line; the car goes to the head of its lane's list.
ReadLine ==
  /\ main = "parse"
  /\ file # <<>>
  /\ LET c == Head(file)
     IN  /\ in_cars' = [in_cars EXCEPT ![c.in_dir] = <<c>> \o @]
         /\ inc' = [inc EXCEPT ![c.in_dir] = @ + 1]
  /\ scheduled' = in_cars'
  /\ file' = Tail(file)
  /\ UNCHANGED <<main, passed, buffer, head, tail, in_buf, out_cars,
                 lane_lock, quad, apc, cpc, lane_car, spurious>>

\* The eight pthread_create calls.  A thread that is not created yet behaves
\* as one that has not taken its first step, so one step creates them all.
StartThreads ==
  /\ main = "parse"
  /\ file = <<>>
  /\ main' = "join"
  /\ apc' = [l \in Dir |-> "loop"]
  /\ cpc' = [l \in Dir |-> "loop"]
  /\ UNCHANGED <<file, inc, scheduled, lane_vars, lane_lock, quad,
                 lane_car, spurious>>

\* The joins return when all eight threads are done; then verify() runs.
JoinAndVerify ==
  /\ main = "join"
  /\ \A l \in Dir : apc[l] = "done" /\ cpc[l] = "done"
  /\ main' = "verified"
  /\ UNCHANGED <<file, inc, scheduled, lane_vars, lane_lock, quad,
                 apc, cpc, lane_car, spurious>>

-----------------------------------------------------------------------------
(* car_arrive *)

Wrap(n) == IF n >= Capacity THEN 0 ELSE n

\* pthread_cond_broadcast: the one thread that can sleep on a lane's
\* producer_cv (its arrival thread) or consumer_cv (its crossing thread)
\* goes back to contend for the lane's mutex.
WakeIfWaiting(pc, l) == [pc EXCEPT ![l] = IF @ = "wait" THEN "lock" ELSE @]

ArriveLoop(l) ==
  /\ apc[l] = "loop"
  /\ apc' = [apc EXCEPT ![l] = IF in_cars[l] # <<>> THEN "lock" ELSE "done"]
  /\ UNCHANGED <<main, file, inc, scheduled, lane_vars, lane_lock, quad,
                 cpc, lane_car, spurious>>

ArriveLock(l) ==
  /\ apc[l] = "lock"
  /\ lane_lock[l] = None
  /\ lane_lock' = [lane_lock EXCEPT ![l] = InThread(l)]
  /\ apc' = [apc EXCEPT ![l] = "add"]
  /\ UNCHANGED <<main, file, inc, scheduled, lane_vars, quad,
                 cpc, lane_car, spurious>>

\* Mutant: the thread spins until there is room, and keeps the mutex.
ArriveSpin(l) ==
  /\ apc[l] = "add"
  /\ in_buf[l] >= Capacity
  /\ UNCHANGED vars

\* The lane is full: pthread_cond_wait releases the mutex and sleeps.
ArriveWait(l) ==
  /\ apc[l] = "add"
  /\ in_buf[l] >= Capacity
  /\ lane_lock' = [lane_lock EXCEPT ![l] = None]
  /\ apc' = [apc EXCEPT ![l] = "wait"]
  /\ UNCHANGED <<main, file, inc, scheduled, lane_vars, quad,
                 cpc, lane_car, spurious>>

\* What AddCar does apart from its guard and its broadcast.
PutCar(l) ==
  /\ buffer' = [buffer EXCEPT ![l][tail[l]] = Head(in_cars[l])]
  /\ in_cars' = [in_cars EXCEPT ![l] = Tail(@)]
  /\ in_buf' = [in_buf EXCEPT ![l] = @ + 1]
  /\ tail' = [tail EXCEPT ![l] = Wrap(@ + 1)]
  /\ lane_lock' = [lane_lock EXCEPT ![l] = None]
  /\ apc' = [apc EXCEPT ![l] = "loop"]
  /\ UNCHANGED <<main, file, inc, scheduled, passed, head, out_cars, quad,
                 lane_car, spurious>>

\* Mutant: the full check is made once and not again after a wake-up.
AddCarUnchecked(l) ==
  /\ apc[l] = "add"
  /\ PutCar(l)
  /\ cpc' = WakeIfWaiting(cpc, l)

\* Mutant: the crossing thread is not told of the new car.
AddCarSilently(l) ==
  /\ apc[l] = "add"
  /\ in_buf[l] < Capacity
  /\ PutCar(l)
  /\ UNCHANGED cpc

\* add_car_to_lane, the broadcast on consumer_cv and the unlock.
AddCar(l) ==
  /\ apc[l] = "add"
  /\ in_buf[l] < Capacity
  /\ PutCar(l)
  /\ cpc' = WakeIfWaiting(cpc, l)

-----------------------------------------------------------------------------
(* car_cross *)

CrossLoop(l) ==
  /\ cpc[l] = "loop"
  /\ cpc' = [cpc EXCEPT ![l] =
               IF passed[l] # inc[l] /\ inc[l] # 0 THEN "lock" ELSE "done"]
  /\ UNCHANGED <<main, file, inc, scheduled, lane_vars, lane_lock, quad,
                 apc, lane_car, spurious>>

CrossLock(l) ==
  /\ cpc[l] = "lock"
  /\ lane_lock[l] = None
  /\ lane_lock' = [lane_lock EXCEPT ![l] = CrossThread(l)]
  /\ cpc' = [cpc EXCEPT ![l] = "take"]
  /\ UNCHANGED <<main, file, inc, scheduled, lane_vars, quad,
                 apc, lane_car, spurious>>

\* The lane is empty: pthread_cond_wait releases the mutex and sleeps.
CrossWait(l) ==
  /\ cpc[l] = "take"
  /\ in_buf[l] = 0
  /\ lane_lock' = [lane_lock EXCEPT ![l] = None]
  /\ cpc' = [cpc EXCEPT ![l] = "wait"]
  /\ UNCHANGED <<main, file, inc, scheduled, lane_vars, quad,
                 apc, lane_car, spurious>>

\* What TakeCar does apart from its guard and its broadcast.
GetCar(l) ==
  /\ lane_car' = [lane_car EXCEPT ![l] = buffer[l][head[l]]]
  /\ passed' = [passed EXCEPT ![l] = @ + 1]
  /\ in_buf' = [in_buf EXCEPT ![l] = @ - 1]
  /\ head' = [head EXCEPT ![l] = Wrap(@ + 1)]
  /\ lane_lock' = [lane_lock EXCEPT ![l] = None]
  /\ cpc' = [cpc EXCEPT ![l] = "quads"]
  /\ UNCHANGED <<main, file, inc, scheduled, in_cars, buffer, tail, out_cars,
                 quad, spurious>>

\* Mutant: the empty check is not repeated after a wake-up.
TakeCarUnchecked(l) ==
  /\ cpc[l] = "take"
  /\ GetCar(l)
  /\ apc' = WakeIfWaiting(apc, l)

\* Mutant: the arrival thread is not told of the free slot.
TakeCarSilently(l) ==
  /\ cpc[l] = "take"
  /\ in_buf[l] # 0
  /\ GetCar(l)
  /\ UNCHANGED apc

\* The first car leaves the buffer; broadcast on producer_cv; unlock.
TakeCar(l) ==
  /\ cpc[l] = "take"
  /\ in_buf[l] # 0
  /\ GetCar(l)
  /\ apc' = WakeIfWaiting(apc, l)

\* One turn of the lock loop of pass_car_through_quad.
LockQuad(l) ==
  /\ cpc[l] = "quads"
  /\ LET q == NextQuad(l)
     IN  /\ quad[q] = None
         /\ quad' = [quad EXCEPT ![q] = l]
         /\ cpc' = [cpc EXCEPT ![l] =
                      IF ToLock(l) = {q} THEN "outlock" ELSE "quads"]
  /\ UNCHANGED <<main, file, inc, scheduled, lane_vars, lane_lock,
                 apc, lane_car, spurious>>

LockOutLane(l) ==
  /\ cpc[l] = "outlock"
  /\ LET d == lane_car[l].out_dir
     IN  /\ lane_lock[d] = None
         /\ lane_lock' = [lane_lock EXCEPT ![d] = CrossThread(l)]
  /\ cpc' = [cpc EXCEPT ![l] = "out"]
  /\ UNCHANGED <<main, file, inc, scheduled, lane_vars, quad,
                 apc, lane_car, spurious>>

\* Mutant: the car is put at the end of the list of cars that have passed.
PassCarLast(l) ==
  /\ cpc[l] = "out"
  /\ LET d == lane_car[l].out_dir
     IN  /\ out_cars' = [out_cars EXCEPT ![d] = Append(@, lane_car[l])]
         /\ lane_lock' = [lane_lock EXCEPT ![d] = None]
  /\ cpc' = [cpc EXCEPT ![l] = "unquad"]
  /\ UNCHANGED <<main, file, inc, scheduled, in_cars, passed, buffer, head,
                 tail, in_buf, quad, apc, lane_car, spurious>>

\* The car joins the list of the lane it leaves through; unlock that lane.
PassCar(l) ==
  /\ cpc[l] = "out"
  /\ LET d == lane_car[l].out_dir
     IN  /\ out_cars' = [out_cars EXCEPT ![d] = <<lane_car[l]>> \o @]
         /\ lane_lock' = [lane_lock EXCEPT ![d] = None]
  /\ cpc' = [cpc EXCEPT ![l] = "unquad"]
  /\ UNCHANGED <<main, file, inc, scheduled, in_cars, passed, buffer, head,
                 tail, in_buf, quad, apc, lane_car, spurious>>

\* One turn of the unlock loop.
UnlockQuad(l) ==
  /\ cpc[l] = "unquad"
  /\ LET q == NextRelease(l)
     IN  /\ quad' = [quad EXCEPT ![q] = None]
         /\ IF Held(l) = {q}
            THEN /\ cpc' = [cpc EXCEPT ![l] = "loop"]
                 /\ lane_car' = [lane_car EXCEPT ![l] = None]
            ELSE UNCHANGED <<cpc, lane_car>>
  /\ UNCHANGED <<main, file, inc, scheduled, lane_vars, lane_lock,
                 apc, spurious>>

-----------------------------------------------------------------------------
\* POSIX lets pthread_cond_wait return without a broadcast.
SpuriousWake(l) ==
  /\ spurious < MaxSpurious
  /\ \/ apc[l] = "wait" /\ apc' = WakeIfWaiting(apc, l) /\ UNCHANGED cpc
     \/ cpc[l] = "wait" /\ cpc' = WakeIfWaiting(cpc, l) /\ UNCHANGED apc
  /\ spurious' = spurious + 1
  /\ UNCHANGED <<main, file, inc, scheduled, lane_vars, lane_lock, quad,
                 lane_car>>

Main == ReadLine \/ StartThreads \/ JoinAndVerify

car_arrive(l) == ArriveLoop(l) \/ ArriveLock(l) \/ ArriveWait(l) \/ AddCar(l)

car_cross(l) ==
  \/ CrossLoop(l) \/ CrossLock(l) \/ CrossWait(l) \/ TakeCar(l)
  \/ LockQuad(l) \/ LockOutLane(l) \/ PassCar(l) \/ UnlockQuad(l)

\* The program has returned from main.
Exited == main = "verified" /\ UNCHANGED vars

Next ==
  \/ Main
  \/ \E l \in Dir : car_arrive(l) \/ car_cross(l) \/ SpuriousWake(l)
  \/ Exited

Spec == Init /\ [][Next]_vars

\* The scheduler runs every thread that can run.  No fairness of the mutexes
\* is assumed: a thread may lose a mutex to others any number of times.
FairSpec ==
  /\ Spec
  /\ WF_vars(Main)
  /\ \A l \in Dir : WF_vars(car_arrive(l)) /\ WF_vars(car_cross(l))

-----------------------------------------------------------------------------
(* What must hold. *)

\* Every variable has its type; a thread has a car in hand exactly from the
\* take to the last unlock, and it is a car of its own lane.
TypeOK ==
  /\ main \in {"parse", "join", "verified"}
  /\ file \in Seq(Car)
  /\ in_cars \in [Dir -> Seq(Car)]
  /\ out_cars \in [Dir -> Seq(Car)]
  /\ scheduled \in [Dir -> Seq(Car)]
  /\ inc \in [Dir -> Nat]
  /\ passed \in [Dir -> Nat]
  /\ buffer \in [Dir -> [Slot -> Car \cup {None}]]
  /\ head \in [Dir -> Slot]
  /\ tail \in [Dir -> Slot]
  /\ in_buf \in [Dir -> 0 .. Capacity]
  /\ lane_lock \in [Dir -> Thread \cup {None}]
  /\ quad \in [Quad -> Dir \cup {None}]
  /\ apc \in [Dir -> {"unborn", "loop", "lock", "add", "wait", "done"}]
  /\ cpc \in [Dir -> {"unborn", "loop", "lock", "take", "wait", "quads",
                      "outlock", "out", "unquad", "done"}]
  /\ lane_car \in [Dir -> Car \cup {None}]
  /\ spurious \in 0 .. MaxSpurious

\* The ring: starting at head and going round, the buffer holds the next
\* in_buf cars of the schedule, the list of pending cars holds all the later
\* ones, and tail is the slot after the last (add_car_to_lane, car_cross).
\* So no car is lost, duplicated or overtaken inside its lane.
Around(h, i) == IF h + i >= Capacity THEN h + i - Capacity ELSE h + i

Fifo(cars, pending, buf, h, t, n, taken) ==
  /\ Len(cars) = taken + n + Len(pending)
  /\ \A i \in 1 .. Len(pending) : pending[i] = cars[taken + n + i]
  /\ \A i \in 0 .. n - 1 : buf[Around(h, i)] = cars[taken + 1 + i]
  /\ t = Around(h, n)

LaneIsFifo ==
  \A l \in Dir : Fifo(scheduled[l], in_cars[l], buffer[l],
                      head[l], tail[l], in_buf[l], passed[l])

\* A thread that sleeps on a condition has reason to: the arrival thread only
\* in front of a full lane, the crossing thread only at an empty one with
\* cars still to come.  A missed broadcast breaks this.
NoLostWakeup ==
  \A l \in Dir :
    /\ apc[l] = "wait" => in_buf[l] = Capacity /\ in_cars[l] # <<>>
    /\ cpc[l] = "wait" => in_buf[l] = 0 /\ in_cars[l] # <<>>

InIntersection(l) == cpc[l] \in {"outlock", "out"}

\* Two cars are never in the intersection on crossing ways (pass_car_through_quad).
NoCollision ==
  \A l, m \in Dir :
    l # m /\ InIntersection(l) /\ InIntersection(m)
      => Route(lane_car[l]) \cap Route(lane_car[m]) = {}

\* "Locks are ordered in priority 1 > 2 > 3 > 4" (traffic.h): a thread asks
\* for a quadrant only while those it holds come before it, and asks for a
\* lane's mutex, the last in the order, only while it holds no other lane's.
LockOrder ==
  \A l \in Dir :
    /\ cpc[l] = "quads" => \A q \in Held(l) : q < NextQuad(l)
    /\ cpc[l] \in {"lock", "quads", "outlock"} =>
         \A d \in Dir : lane_lock[d] # CrossThread(l)

ArriveCanRun(l) ==
  \/ apc[l] \in {"loop", "add"}
  \/ apc[l] = "lock" /\ lane_lock[l] = None

CrossCanRun(l) ==
  \/ cpc[l] \in {"loop", "take", "out", "unquad"}
  \/ cpc[l] = "lock" /\ lane_lock[l] = None
  \/ cpc[l] = "quads" /\ quad[NextQuad(l)] = None
  \/ cpc[l] = "outlock" /\ lane_lock[lane_car[l].out_dir] = None

\* No deadlock: until all eight threads are done, one of them can take a step
\* that is not a spurious wake-up, whatever the others have done.
NoDeadlock ==
  main = "join" =>
    \/ \A l \in Dir : apc[l] = "done" /\ cpc[l] = "done"
    \/ \E l \in Dir : ArriveCanRun(l) \/ CrossCanRun(l)

\* outs has, of the cars that came in through l, exactly those among the first
\* n of given that leave through d, each once and the latest first.
InOrder(outs, given, l, d, n) ==
  LET out == {g \in 1 .. Len(outs) : outs[g].in_dir = l}
      due == {i \in 1 .. n : given[i].out_dir = d}
  IN  \E place \in [out -> due] :
        /\ \A g \in out : outs[g] = given[place[g]]
        /\ \A g, h \in out : g < h => place[h] < place[g]
        /\ \A i \in due : \E g \in out : place[g] = i

\* The cars of one lane pass in the order in which the schedule puts them,
\* each once and into the list of the lane it leaves through: at any moment
\* some first n of them are in the lists out_cars, in order, and all of them
\* when main gets to verify().
OutOrder ==
  \A l \in Dir :
    \E n \in 0 .. Len(scheduled[l]) :
      /\ \A d \in Dir : InOrder(out_cars[d], scheduled[l], l, d, n)
      /\ main = "verified" => n = Len(scheduled[l])

\* Liveness: all eight threads end and main gets to verify(), so with
\* OutOrder every car passes.  INFO.txt, finite case: "each car eventually
\* would get a chance to hold the quadrant locks to pass the intersection".
Termination == <>(main = "verified")

-----------------------------------------------------------------------------
(* The inductive invariant from which the safety properties follow: who      *)
(* holds which mutex, what each program point of a thread implies, and how   *)
(* the counters and lists fit together.                                      *)

Crossing == {"quads", "outlock", "out", "unquad"}

PhaseInv ==
  /\ main # "parse" => file = <<>>
  /\ \A l \in Dir :
       /\ apc[l] = "unborn" <=> main = "parse"
       /\ cpc[l] = "unborn" <=> main = "parse"
       /\ main = "parse" => passed[l] = 0 /\ in_buf[l] = 0
       /\ main = "verified" => apc[l] = "done" /\ cpc[l] = "done"

ScheduleInv ==
  \A l \in Dir :
    /\ inc[l] = Len(scheduled[l])
    /\ \A i \in 1 .. Len(scheduled[l]) : scheduled[l][i].in_dir = l

ProgressInv ==
  \A l \in Dir :
    /\ apc[l] \in {"lock", "add", "wait"} => in_cars[l] # <<>>
    /\ apc[l] = "done" => in_cars[l] = <<>>
    /\ cpc[l] \in {"lock", "take", "wait"} => passed[l] < inc[l]
    /\ cpc[l] = "done" => passed[l] = inc[l]

LaneLockInv ==
  /\ \A l, d \in Dir : lane_lock[d] = InThread(l) <=> apc[l] = "add" /\ d = l
  /\ \A l, d \in Dir :
       lane_lock[d] = CrossThread(l) <=>
         \/ cpc[l] = "take" /\ d = l
         \/ cpc[l] = "out" /\ d = lane_car[l].out_dir

CarInHandInv ==
  \A l \in Dir :
    IF cpc[l] \in Crossing THEN lane_car[l] \in Car /\ lane_car[l].in_dir = l
                           ELSE lane_car[l] = None

QuadInv ==
  \A l \in Dir :
    /\ cpc[l] \notin Crossing => Held(l) = {}
    /\ cpc[l] = "quads" => /\ Held(l) \subseteq Path(l)
                           /\ ToLock(l) # {}
                           /\ \A q \in Held(l), r \in ToLock(l) : q < r
    /\ InIntersection(l) => Held(l) = Path(l)
    /\ cpc[l] = "unquad" => Held(l) # {}

IInv ==
  /\ TypeOK
  /\ PhaseInv
  /\ ScheduleInv
  /\ ProgressInv
  /\ LaneLockInv
  /\ CarInHandInv
  /\ QuadInv
  /\ LaneIsFifo
  /\ NoLostWakeup

\* How many of the cars scheduled for l have got to a list of cars that left,
\* and why OutOrder holds: the car in hand is the last one taken.
Gone(l) == IF cpc[l] \in {"quads", "outlock", "out"} THEN passed[l] - 1
                                                   ELSE passed[l]

OutInv ==
  \A l \in Dir :
    /\ cpc[l] \in Crossing => /\ passed[l] \in 1 .. Len(scheduled[l])
                              /\ lane_car[l] = scheduled[l][passed[l]]
    /\ \A d \in Dir : InOrder(out_cars[d], scheduled[l], l, d, Gone(l))
=============================================================================
