--------------------------- MODULE TrafficProofs ---------------------------
(* Traffic is safe for every schedule, every capacity of the lanes and any   *)
(* number of spurious wake-ups.                                              *)
EXTENDS TrafficRefines, TLAPS

ArrivePC == {"unborn", "loop", "lock", "add", "wait", "done"}
CrossPC  == {"unborn", "loop", "lock", "take", "wait", "quads", "outlock",
             "out", "unquad", "done"}

\* The next slot of a ring is a slot.
LEMMA WrapInSlot == ASSUME NEW n \in Slot PROVE Wrap(n + 1) \in Slot
  BY CapacityAssumption DEF Wrap, Slot

\* TypeOK: at the start, then step by step.
LEMMA InitTypeOK == Init => TypeOK
  BY CapacityAssumption, FilesAssumption, SpuriousAssumption
  DEF Init, TypeOK, Slot, Thread

LEMMA ReadLineType == ASSUME TypeOK, ReadLine PROVE TypeOK'
  <1> DEFINE c == Head(file)
             d == c.in_dir
  <1>0. file \in Seq(Car) /\ file # <<>>
    BY DEF ReadLine, TypeOK
  <1>1. c \in Car /\ d \in Dir /\ Tail(file) \in Seq(Car)
    <2>1. c \in Car /\ Tail(file) \in Seq(Car)
      BY <1>0
    <2> QED BY <2>1 DEF Car
  <1>2. /\ in_cars' = [in_cars EXCEPT ![d] = <<c>> \o in_cars[d]]
        /\ inc' = [inc EXCEPT ![d] = inc[d] + 1]
        /\ scheduled' = in_cars'
        /\ file' = Tail(file)
    BY DEF ReadLine
  <1> HIDE DEF c, d
  <1>3. <<c>> \o in_cars[d] \in Seq(Car) /\ inc[d] + 1 \in Nat
    BY <1>1 DEF TypeOK
  <1>4. in_cars' \in [Dir -> Seq(Car)] /\ inc' \in [Dir -> Nat]
    BY <1>1, <1>2, <1>3 DEF TypeOK
  <1> QED BY <1>1, <1>2, <1>4 DEF ReadLine, TypeOK

LEMMA MainType == ASSUME TypeOK, StartThreads \/ JoinAndVerify PROVE TypeOK'
  <1>1. CASE StartThreads
    <2>1. main' = "join" /\ apc' = [l \in Dir |-> "loop"] /\ cpc' = [l \in Dir |-> "loop"]
      BY <1>1 DEF StartThreads
    <2> QED BY <1>1, <2>1 DEF StartThreads, lane_vars, TypeOK
  <1>2. CASE JoinAndVerify
    BY <1>2 DEF JoinAndVerify, lane_vars, TypeOK
  <1> QED BY <1>1, <1>2

\* A broadcast moves a waiting thread to its lock label, nowhere else.
LEMMA WakeType ==
  ASSUME NEW S, NEW pc \in [Dir -> S], "lock" \in S, NEW l \in Dir
  PROVE  WakeIfWaiting(pc, l) \in [Dir -> S]
  BY DEF WakeIfWaiting

LEMMA ArriveType ==
  ASSUME TypeOK, ProgressInv, NEW l \in Dir, car_arrive(l)
  PROVE  TypeOK'
  <1>1. CASE ArriveLoop(l)
    BY <1>1 DEF ArriveLoop, TypeOK, lane_vars
  <1>2. CASE ArriveLock(l)
    BY <1>2 DEF ArriveLock, TypeOK, lane_vars, Thread
  <1>3. CASE ArriveWait(l)
    BY <1>3 DEF ArriveWait, TypeOK, lane_vars
  <1>4. CASE AddCar(l)
    <2>1. in_cars[l] # <<>> /\ in_cars[l] \in Seq(Car) /\ tail[l] \in Slot
      BY <1>4 DEF ProgressInv, TypeOK, AddCar
    <2>2. Head(in_cars[l]) \in Car /\ Tail(in_cars[l]) \in Seq(Car)
      BY <2>1
    <2>3. buffer' \in [Dir -> [Slot -> Car \cup {None}]]
      BY <1>4, <2>1, <2>2 DEF AddCar, PutCar, TypeOK
    <2>4. in_buf' \in [Dir -> 0 .. Capacity]
      BY <1>4, CapacityAssumption DEF AddCar, PutCar, TypeOK
    <2>5. tail' \in [Dir -> Slot]
      BY <1>4, <2>1, WrapInSlot DEF AddCar, PutCar, TypeOK
    <2>6. in_cars' \in [Dir -> Seq(Car)]
      BY <1>4, <2>2 DEF AddCar, PutCar, TypeOK
    <2>7. cpc' = WakeIfWaiting(cpc, l)
      BY <1>4 DEF AddCar
    <2>8. cpc' \in [Dir -> {"unborn", "loop", "lock", "take", "wait", "quads",
                           "outlock", "out", "unquad", "done"}]
      BY <2>7, WakeType DEF TypeOK
    <2> QED
      BY <1>4, <2>3, <2>4, <2>5, <2>6, <2>8 DEF AddCar, PutCar, TypeOK
  <1> QED BY <1>1, <1>2, <1>3, <1>4 DEF car_arrive

\* A non-empty set of quadrants has a least one, so the CHOOSE is defined.
LEMMA LeastQuad ==
  ASSUME NEW S \in SUBSET Quad, S # {}
  PROVE  \E q \in S : \A r \in S : q <= r
  <1>1. \A r \in S : r = 0 \/ r = 1 \/ r = 2 \/ r = 3
    BY DEF Quad
  <1>2. CASE 0 \in S
    BY <1>1, <1>2
  <1>3. CASE 0 \notin S /\ 1 \in S
    BY <1>1, <1>3
  <1>4. CASE 0 \notin S /\ 1 \notin S /\ 2 \in S
    BY <1>1, <1>4
  <1>5. CASE S = {3}
    BY <1>5
  <1> QED BY <1>1, <1>2, <1>3, <1>4, <1>5

\* compute_path is right: its four cases, straight, left, right and U-turn,
\* give the quadrants on the way of the car, for every pair of directions.
THEOREM PathIsRoute ==
  ASSUME NEW c \in Car
  PROVE  /\ ComputePath(c.in_dir, c.out_dir) = Route(c)
         /\ Route(c) \subseteq Quad
         /\ Route(c) # {}
  <1>1. /\ c.in_dir = 0 \/ c.in_dir = 1 \/ c.in_dir = 2 \/ c.in_dir = 3
        /\ c.out_dir = 0 \/ c.out_dir = 1 \/ c.out_dir = 2 \/ c.out_dir = 3
    BY DEF Car, Dir
  <1>2. CASE c.in_dir = 0 
    BY <1>1, <1>2 DEF ComputePath, Route, Quad
  <1>3. CASE c.in_dir = 1
    BY <1>1, <1>3 DEF ComputePath, Route, Quad
  <1>4. CASE c.in_dir = 2
    BY <1>1, <1>4 DEF ComputePath, Route, Quad
  <1>5. CASE c.in_dir = 3
    BY <1>1, <1>5 DEF ComputePath, Route, Quad
  <1> QED BY <1>1, <1>2, <1>3, <1>4, <1>5

\* The quadrant to lock next is one of the path.
LEMMA NextQuadType ==
  ASSUME NEW l \in Dir, lane_car[l] \in Car, ToLock(l) # {}
  PROVE  /\ NextQuad(l) \in ToLock(l)
         /\ NextQuad(l) \in Quad
         /\ \A r \in ToLock(l) : NextQuad(l) <= r
  <1>1. ToLock(l) \in SUBSET Quad
    BY PathIsRoute DEF ToLock, Path
  <1>2. \E q \in ToLock(l) : \A r \in ToLock(l) : q <= r
    BY <1>1, LeastQuad
  <1> QED BY <1>1, <1>2 DEF NextQuad

\* So is the one to unlock next.
LEMMA NextReleaseType ==
  ASSUME NEW l \in Dir, Held(l) # {}
  PROVE  NextRelease(l) \in Held(l) /\ NextRelease(l) \in Quad
  <1>1. Held(l) \in SUBSET Quad
    BY DEF Held
  <1>2. \E q \in Held(l) : \A r \in Held(l) : q <= r
    BY <1>1, LeastQuad
  <1> QED BY <1>1, <1>2 DEF NextRelease

LEMMA CrossType ==
  ASSUME TypeOK, ProgressInv, CarInHandInv, QuadInv, NEW l \in Dir, car_cross(l)
  PROVE  TypeOK'
  <1>a. ASSUME cpc[l] \in Crossing
        PROVE  lane_car[l] \in Car /\ lane_car[l].out_dir \in Dir
    <2>1. lane_car[l] \in Car
      BY <1>a DEF CarInHandInv
    <2> QED BY <2>1 DEF Car
  <1>1. CASE CrossLoop(l)
    BY <1>1 DEF CrossLoop, TypeOK, lane_vars
  <1>2. CASE CrossLock(l)
    BY <1>2 DEF CrossLock, TypeOK, lane_vars, Thread
  <1>3. CASE CrossWait(l)
    BY <1>3 DEF CrossWait, TypeOK, lane_vars
  <1>4. CASE TakeCar(l)
    <2>1. head[l] \in Slot /\ buffer[l][head[l]] \in Car \cup {None}
      BY DEF TypeOK
    <2>2. lane_car' \in [Dir -> Car \cup {None}]
      BY <1>4, <2>1 DEF TakeCar, GetCar, TypeOK
    <2>3. in_buf' \in [Dir -> 0 .. Capacity]
      BY <1>4, CapacityAssumption DEF TakeCar, GetCar, TypeOK
    <2>4. head' \in [Dir -> Slot]
      BY <1>4, <2>1, WrapInSlot DEF TakeCar, GetCar, TypeOK
    <2>5. passed' \in [Dir -> Nat]
      BY <1>4 DEF TakeCar, GetCar, TypeOK
    <2>6. apc' = WakeIfWaiting(apc, l)
      BY <1>4 DEF TakeCar
    <2>7. apc' \in [Dir -> {"unborn", "loop", "lock", "add", "wait", "done"}]
      BY <2>6, WakeType DEF TypeOK
    <2> QED
      BY <1>4, <2>2, <2>3, <2>4, <2>5, <2>7 DEF TakeCar, GetCar, TypeOK
  <1>5. CASE LockQuad(l)
    <2>1. cpc[l] = "quads" /\ ToLock(l) # {} /\ lane_car[l] \in Car
      BY <1>5, <1>a DEF LockQuad, QuadInv, Crossing
    <2>2. NextQuad(l) \in Quad
      BY <2>1, NextQuadType
    <2>3. quad' \in [Quad -> Dir \cup {None}]
      BY <1>5, <2>2 DEF LockQuad, TypeOK
    <2> QED BY <1>5, <2>3 DEF LockQuad, TypeOK, lane_vars
  <1>6. CASE LockOutLane(l)
    <2>1. lane_car[l].out_dir \in Dir
      BY <1>6, <1>a DEF LockOutLane, Crossing
    <2> QED BY <1>6, <2>1 DEF LockOutLane, TypeOK, lane_vars, Thread
  <1>7. CASE PassCar(l)
    <2> DEFINE d == lane_car[l].out_dir
    <2>1. lane_car[l] \in Car /\ d \in Dir
      BY <1>7, <1>a DEF PassCar, Crossing
    <2>2. <<lane_car[l]>> \o out_cars[d] \in Seq(Car)
      BY <2>1 DEF TypeOK
    <2>3. out_cars' = [out_cars EXCEPT ![d] = <<lane_car[l]>> \o @]
      BY <1>7 DEF PassCar
    <2>4. out_cars' \in [Dir -> Seq(Car)]
      BY <2>1, <2>2, <2>3 DEF TypeOK
    <2> QED BY <1>7, <2>1, <2>4 DEF PassCar, TypeOK
  <1>8. CASE UnlockQuad(l)
    <2>1. NextRelease(l) \in Quad
      BY <1>8, NextReleaseType DEF UnlockQuad, QuadInv
    <2> QED BY <1>8, <2>1 DEF UnlockQuad, TypeOK, lane_vars
  <1> QED
    BY <1>1, <1>2, <1>3, <1>4, <1>5, <1>6, <1>7, <1>8 DEF car_cross

LEMMA SpuriousType ==
  ASSUME TypeOK, NEW l \in Dir, SpuriousWake(l)
  PROVE  TypeOK'
  <1>1. spurious' \in 0 .. MaxSpurious
    BY SpuriousAssumption DEF SpuriousWake, TypeOK
  <1>2. WakeIfWaiting(apc, l) \in [Dir ->
          {"unborn", "loop", "lock", "add", "wait", "done"}]
    BY WakeType DEF TypeOK
  <1>3. WakeIfWaiting(cpc, l) \in [Dir ->
          {"unborn", "loop", "lock", "take", "wait", "quads",
           "outlock", "out", "unquad", "done"}]
    BY WakeType DEF TypeOK
  <1>4. CASE apc' = WakeIfWaiting(apc, l) /\ cpc' = cpc
    BY <1>1, <1>2, <1>4 DEF SpuriousWake, TypeOK, lane_vars
  <1>5. CASE cpc' = WakeIfWaiting(cpc, l) /\ apc' = apc
    BY <1>1, <1>3, <1>5 DEF SpuriousWake, TypeOK, lane_vars
  <1> QED BY <1>4, <1>5 DEF SpuriousWake

LEMMA TypeStep ==
  ASSUME IInv, [Next]_vars
  PROVE  TypeOK'
  <1> USE DEF IInv
  <1>1. CASE Main
    BY <1>1, ReadLineType, MainType DEF Main
  <1>2. ASSUME NEW l \in Dir, car_arrive(l) PROVE TypeOK'
    BY <1>2, ArriveType
  <1>3. ASSUME NEW l \in Dir, car_cross(l) PROVE TypeOK'
    BY <1>3, CrossType
  <1>4. ASSUME NEW l \in Dir, SpuriousWake(l) PROVE TypeOK'
    BY <1>4, SpuriousType
  <1>5. CASE UNCHANGED vars
    BY <1>5 DEF vars, lane_vars, TypeOK
  <1> QED BY <1>1, <1>2, <1>3, <1>4, <1>5 DEF Next, Exited

\* The arrive and the cross thread of a lane, and of two lanes, differ.
LEMMA ThreadsDiffer ==
  ASSUME NEW l \in Dir, NEW m \in Dir
  PROVE  /\ InThread(l) # CrossThread(m)
         /\ InThread(l) = InThread(m) => l = m
         /\ CrossThread(l) = CrossThread(m) => l = m
         /\ InThread(l) # None /\ CrossThread(l) # None
  BY NoneAssumption DEF InThread, CrossThread, Thread

\* A list without its first element.
LEMMA TailFacts ==
  ASSUME NEW S, NEW s \in Seq(S), s # <<>>
  PROVE  /\ Head(s) = s[1] /\ Head(s) \in S /\ Len(s) > 0
         /\ Tail(s) \in Seq(S) /\ Len(Tail(s)) = Len(s) - 1
         /\ \A i \in 1 .. Len(s) - 1 : Tail(s)[i] = s[i + 1]
  OBVIOUS

\* A list with one more at its front.
LEMMA ConsFacts ==
  ASSUME NEW S, NEW s \in Seq(S), NEW c \in S
  PROVE  /\ <<c>> \o s \in Seq(S) /\ Len(<<c>> \o s) = Len(s) + 1
         /\ (<<c>> \o s)[1] = c
         /\ \A i \in 2 .. Len(s) + 1 : (<<c>> \o s)[i] = s[i - 1]
  OBVIOUS

\* TypeOK, reduced to which variables are functions on what.
LEMMA Shapes ==
  ASSUME TypeOK
  PROVE  /\ apc \in [Dir -> ArrivePC] /\ cpc \in [Dir -> CrossPC]
         /\ lane_lock \in [Dir -> Thread \cup {None}]
         /\ quad \in [Quad -> Dir \cup {None}]
         /\ lane_car \in [Dir -> Car \cup {None}]
  BY DEF TypeOK, ArrivePC, CrossPC

\* The part of it that is about lanes.
LEMMA LaneShapes ==
  ASSUME TypeOK
  PROVE  /\ in_cars \in [Dir -> Seq(Car)] /\ scheduled \in [Dir -> Seq(Car)]
         /\ inc \in [Dir -> Nat] /\ passed \in [Dir -> Nat]
         /\ head \in [Dir -> Slot] /\ tail \in [Dir -> Slot]
         /\ in_buf \in [Dir -> 0 .. Capacity]
         /\ buffer \in [Dir -> [Slot -> Car \cup {None}]]
  BY DEF TypeOK

\* What the head of a lane that is not empty holds.
LEMMA NextCar ==
  ASSUME IInv, NEW l \in Dir, in_buf[l] # 0
  PROVE  /\ buffer[l][head[l]] = scheduled[l][passed[l] + 1]
         /\ buffer[l][head[l]] \in Car
         /\ buffer[l][head[l]].in_dir = l
        /\ passed[l] \in Nat /\ passed[l] + 1 \in 1 .. Len(scheduled[l])
  <1>1. /\ in_buf[l] \in Nat /\ passed[l] \in Nat /\ head[l] \in Slot
        /\ scheduled[l] \in Seq(Car) /\ in_cars[l] \in Seq(Car)
    BY CapacityAssumption, LaneShapes DEF IInv
  <1>2. 0 \in 0 .. in_buf[l] - 1
    BY <1>1
  <1>f. Fifo(scheduled[l], in_cars[l], buffer[l],
            head[l], tail[l], in_buf[l], passed[l])
    BY DEF IInv, LaneIsFifo
  <1>3. buffer[l][head[l]] = scheduled[l][passed[l] + 1]
    <2>1. Around(head[l], 0) = head[l]
      BY <1>1, CapacityAssumption DEF Around, Slot
    <2>2. passed[l] + 1 + 0 = passed[l] + 1
      BY <1>1
    <2> QED BY <1>f, <1>2, <2>1, <2>2 DEF Fifo
  <1>4. passed[l] + 1 \in 1 .. Len(scheduled[l])
    BY <1>1, <1>2, <1>f DEF Fifo
  <1> QED BY <1>1, <1>3, <1>4 DEF IInv, ScheduleInv

\* What the threads of a lane read of it.
LEMMA LaneTypes ==
  ASSUME TypeOK, NEW l \in Dir
  PROVE  /\ in_cars[l] \in Seq(Car) /\ scheduled[l] \in Seq(Car)
         /\ inc[l] \in Nat /\ passed[l] \in Nat
         /\ head[l] \in Slot /\ tail[l] \in Slot
         /\ in_buf[l] \in 0 .. Capacity /\ in_buf[l] \in Nat
         /\ buffer[l] \in [Slot -> Car \cup {None}]
  BY LaneShapes, CapacityAssumption

\* add_car_to_lane on a ring that is not full.
LEMMA FifoAdd ==
  ASSUME NEW cars, NEW pending \in Seq(Car), pending # <<>>,
         NEW buf \in [Slot -> Car \cup {None}], NEW h \in Slot, NEW t \in Slot,
         NEW n \in Nat, n < Capacity, NEW taken \in Nat,
         Fifo(cars, pending, buf, h, t, n, taken)
  PROVE  Fifo(cars, Tail(pending), [buf EXCEPT ![t] = Head(pending)],
              h, Wrap(t + 1), n + 1, taken)
  <1> DEFINE new == [buf EXCEPT ![t] = Head(pending)]
  <1>1. /\ Head(pending) = pending[1] /\ Len(pending) > 0
        /\ Tail(pending) \in Seq(Car) /\ Len(Tail(pending)) = Len(pending) - 1
        /\ \A i \in 1 .. Len(pending) - 1 : Tail(pending)[i] = pending[i + 1]
    BY TailFacts
  <1>2. Len(pending) \in Nat
    OBVIOUS
  <1>3. Len(cars) = taken + (n + 1) + Len(Tail(pending))
    BY <1>1, <1>2 DEF Fifo
  <1>4. ASSUME NEW i \in 1 .. Len(Tail(pending))
        PROVE  Tail(pending)[i] = cars[taken + (n + 1) + i]
    <2>1. i + 1 \in 1 .. Len(pending) /\ taken + (n + 1) + i = taken + n + (i + 1)
      BY <1>1, <1>2
    <2> QED BY <1>1, <1>2, <2>1 DEF Fifo
  <1>5. ASSUME NEW i \in 0 .. n PROVE new[Around(h, i)] = cars[taken + 1 + i]
    <2>1. Around(h, i) \in Slot
      BY CapacityAssumption DEF Around, Slot
    <2>2. CASE i = n
      <3>1. new[Around(h, i)] = pending[1]
        BY <1>1, <2>1, <2>2 DEF Fifo
      <3>2. 1 \in 1 .. Len(pending) /\ taken + n + 1 = taken + 1 + n
        BY <1>1, <1>2
      <3> QED BY <2>2, <3>1, <3>2 DEF Fifo
    <2>3. CASE i # n
      <3>1. i \in 0 .. n - 1
        BY <2>3
      <3>2. Around(h, i) # t
        BY <3>1, CapacityAssumption DEF Fifo, Around, Slot
      <3> QED BY <2>1, <3>1, <3>2 DEF Fifo
    <2> QED BY <2>2, <2>3
  <1>6. Wrap(t + 1) = Around(h, n + 1)
    BY CapacityAssumption DEF Fifo, Wrap, Around, Slot
  <1>7. (n + 1) - 1 = n
    OBVIOUS
  <1> QED BY <1>3, <1>4, <1>5, <1>6, <1>7 DEF Fifo

\* car_cross takes the first car of a ring that is not empty.
LEMMA FifoTake ==
  ASSUME NEW cars, NEW pending \in Seq(Car),
         NEW buf \in [Slot -> Car \cup {None}], NEW h \in Slot, NEW t \in Slot,
         NEW n \in Nat, n # 0, n <= Capacity, NEW taken \in Nat,
         Fifo(cars, pending, buf, h, t, n, taken)
  PROVE  Fifo(cars, pending, buf, Wrap(h + 1), t, n - 1, taken + 1)
  <1>1. \A i \in 0 .. n - 1 : Around(Wrap(h + 1), i) = Around(h, i + 1)
    BY CapacityAssumption DEF Wrap, Around, Slot
  <1>2. Len(pending) \in Nat
    OBVIOUS
  <1>3. Len(cars) = (taken + 1) + (n - 1) + Len(pending)
    BY <1>2 DEF Fifo
  <1>4. ASSUME NEW i \in 1 .. Len(pending)
        PROVE  pending[i] = cars[(taken + 1) + (n - 1) + i]
    <2>1. (taken + 1) + (n - 1) + i = taken + n + i
      BY <1>2
    <2> QED BY <2>1 DEF Fifo
  <1>5. ASSUME NEW i \in 0 .. (n - 1) - 1
        PROVE  buf[Around(Wrap(h + 1), i)] = cars[(taken + 1) + 1 + i]
    <2>1. i + 1 \in 0 .. n - 1 /\ i \in 0 .. n - 1
      OBVIOUS
    <2>2. (taken + 1) + 1 + i = taken + 1 + (i + 1)
      OBVIOUS
    <2> QED BY <1>1, <2>1, <2>2 DEF Fifo
  <1>6. t = Around(Wrap(h + 1), n - 1)
    <2>1. n - 1 \in 0 .. n - 1 /\ (n - 1) + 1 = n
      OBVIOUS
    <2> QED BY <1>1, <2>1 DEF Fifo
  <1> QED BY <1>3, <1>4, <1>5, <1>6 DEF Fifo

\* From here on, one lemma for each part of IInv: a step keeps it.
LEMMA PhaseStep ==
  ASSUME IInv, [Next]_vars
  PROVE  PhaseInv'
  <1> USE DEF IInv
  <1>1. CASE ReadLine
    BY <1>1 DEF ReadLine, PhaseInv, TypeOK
  <1>2. CASE StartThreads
    BY <1>2 DEF StartThreads, PhaseInv, TypeOK, lane_vars
  <1>3. CASE JoinAndVerify
    BY <1>3 DEF JoinAndVerify, PhaseInv, TypeOK, lane_vars
  <1>4. ASSUME NEW l \in Dir, ArriveLoop(l) PROVE PhaseInv'
    BY <1>4 DEF ArriveLoop, PhaseInv, TypeOK, lane_vars
  <1>5. ASSUME NEW l \in Dir, ArriveLock(l) PROVE PhaseInv'
    BY <1>5 DEF ArriveLock, PhaseInv, TypeOK, lane_vars
  <1>6. ASSUME NEW l \in Dir, ArriveWait(l) PROVE PhaseInv'
    BY <1>6 DEF ArriveWait, PhaseInv, TypeOK, lane_vars
  <1>7. ASSUME NEW l \in Dir, AddCar(l) PROVE PhaseInv'
    BY <1>7 DEF AddCar, PutCar, WakeIfWaiting, PhaseInv, TypeOK
  <1>8. ASSUME NEW l \in Dir, CrossLoop(l) PROVE PhaseInv'
    BY <1>8 DEF CrossLoop, PhaseInv, TypeOK, lane_vars
  <1>9. ASSUME NEW l \in Dir, CrossLock(l) PROVE PhaseInv'
    BY <1>9 DEF CrossLock, PhaseInv, TypeOK, lane_vars
  <1>10. ASSUME NEW l \in Dir, CrossWait(l) PROVE PhaseInv'
    BY <1>10 DEF CrossWait, PhaseInv, TypeOK, lane_vars
  <1>11. ASSUME NEW l \in Dir, TakeCar(l) PROVE PhaseInv'
    BY <1>11 DEF TakeCar, GetCar, WakeIfWaiting, PhaseInv, TypeOK
  <1>12. ASSUME NEW l \in Dir, LockQuad(l) PROVE PhaseInv'
    BY <1>12 DEF LockQuad, PhaseInv, TypeOK, lane_vars
  <1>13. ASSUME NEW l \in Dir, LockOutLane(l) PROVE PhaseInv'
    BY <1>13 DEF LockOutLane, PhaseInv, TypeOK, lane_vars
  <1>14. ASSUME NEW l \in Dir, PassCar(l) PROVE PhaseInv'
    BY <1>14 DEF PassCar, PhaseInv, TypeOK
  <1>15. ASSUME NEW l \in Dir, UnlockQuad(l) PROVE PhaseInv'
    BY <1>15 DEF UnlockQuad, PhaseInv, TypeOK, lane_vars
  <1>16. ASSUME NEW l \in Dir, SpuriousWake(l) PROVE PhaseInv'
    BY <1>16 DEF SpuriousWake, WakeIfWaiting, PhaseInv, TypeOK, lane_vars
  <1>17. CASE UNCHANGED vars
    BY <1>17 DEF vars, lane_vars, PhaseInv, TypeOK
  <1> QED
    BY <1>1, <1>2, <1>3, <1>4, <1>5, <1>6, <1>7, <1>8, <1>9,
       <1>10, <1>11, <1>12, <1>13, <1>14, <1>15, <1>16, <1>17
    DEF Next, Main, car_arrive, car_cross, Exited

LEMMA ProgressStep ==
  ASSUME IInv, [Next]_vars
  PROVE  ProgressInv'
  <1> USE DEF IInv
  <1>1. CASE ReadLine
    BY <1>1
      DEF ReadLine, ProgressInv, TypeOK, PhaseInv, LaneIsFifo, ScheduleInv
  <1>2. CASE StartThreads
    BY <1>2 DEF StartThreads, ProgressInv, TypeOK, PhaseInv, lane_vars
  <1>3. CASE JoinAndVerify
    BY <1>3 DEF JoinAndVerify, ProgressInv, TypeOK, PhaseInv, lane_vars
  <1>4. ASSUME NEW l \in Dir, ArriveLoop(l) PROVE ProgressInv'
    BY <1>4 DEF ArriveLoop, ProgressInv, TypeOK, PhaseInv, lane_vars
  <1>5. ASSUME NEW l \in Dir, ArriveLock(l) PROVE ProgressInv'
    BY <1>5 DEF ArriveLock, ProgressInv, TypeOK, PhaseInv, lane_vars
  <1>6. ASSUME NEW l \in Dir, ArriveWait(l) PROVE ProgressInv'
    BY <1>6 DEF ArriveWait, ProgressInv, TypeOK, PhaseInv, lane_vars
  <1>7. ASSUME NEW l \in Dir, AddCar(l) PROVE ProgressInv'
    BY <1>7 DEF AddCar, PutCar, WakeIfWaiting, ProgressInv, TypeOK, PhaseInv
  <1>8. ASSUME NEW l \in Dir, CrossLoop(l) PROVE ProgressInv'
    <2>1. passed[l] <= inc[l]
      BY LaneTypes DEF LaneIsFifo, Fifo, ScheduleInv
    <2>2. passed[l] \in Nat /\ inc[l] \in Nat
      BY LaneTypes
    <2> QED
      BY <1>8, <2>1, <2>2, Shapes DEF CrossLoop, ProgressInv, lane_vars
  <1>9. ASSUME NEW l \in Dir, CrossLock(l) PROVE ProgressInv'
    BY <1>9 DEF CrossLock, ProgressInv, TypeOK, PhaseInv, lane_vars
  <1>10. ASSUME NEW l \in Dir, CrossWait(l) PROVE ProgressInv'
    BY <1>10 DEF CrossWait, ProgressInv, TypeOK, PhaseInv, lane_vars
  <1>11. ASSUME NEW l \in Dir, TakeCar(l) PROVE ProgressInv'
    BY <1>11 DEF TakeCar, GetCar, WakeIfWaiting, ProgressInv, TypeOK, PhaseInv
  <1>12. ASSUME NEW l \in Dir, LockQuad(l) PROVE ProgressInv'
    BY <1>12 DEF LockQuad, ProgressInv, TypeOK, PhaseInv, lane_vars
  <1>13. ASSUME NEW l \in Dir, LockOutLane(l) PROVE ProgressInv'
    BY <1>13 DEF LockOutLane, ProgressInv, TypeOK, PhaseInv, lane_vars
  <1>14. ASSUME NEW l \in Dir, PassCar(l) PROVE ProgressInv'
    BY <1>14 DEF PassCar, ProgressInv, TypeOK, PhaseInv
  <1>15. ASSUME NEW l \in Dir, UnlockQuad(l) PROVE ProgressInv'
    BY <1>15 DEF UnlockQuad, ProgressInv, TypeOK, PhaseInv, lane_vars
  <1>16. ASSUME NEW l \in Dir, SpuriousWake(l) PROVE ProgressInv'
    BY <1>16
      DEF SpuriousWake, WakeIfWaiting, ProgressInv, TypeOK, PhaseInv, lane_vars
  <1>17. CASE UNCHANGED vars
    BY <1>17 DEF vars, lane_vars, ProgressInv, TypeOK, PhaseInv
  <1> QED
    BY <1>1, <1>2, <1>3, <1>4, <1>5, <1>6, <1>7, <1>8, <1>9,
       <1>10, <1>11, <1>12, <1>13, <1>14, <1>15, <1>16, <1>17
    DEF Next, Main, car_arrive, car_cross, Exited

LEMMA LaneLockStep ==
  ASSUME IInv, [Next]_vars
  PROVE  LaneLockInv'
  <1> USE DEF IInv
  <1>1. CASE ReadLine
    BY <1>1, ThreadsDiffer, Shapes
      DEF ReadLine, LaneLockInv, CarInHandInv, Crossing
  <1>2. CASE StartThreads
    BY <1>2, ThreadsDiffer, Shapes
      DEF StartThreads, LaneLockInv, CarInHandInv, Crossing, PhaseInv, lane_vars
  <1>3. CASE JoinAndVerify
    BY <1>3, ThreadsDiffer, Shapes
      DEF JoinAndVerify, LaneLockInv, CarInHandInv, Crossing, lane_vars
  <1>4. ASSUME NEW l \in Dir, ArriveLoop(l) PROVE LaneLockInv'
    BY <1>4, ThreadsDiffer, Shapes
      DEF ArriveLoop, LaneLockInv, CarInHandInv, Crossing, lane_vars
  <1>5. ASSUME NEW l \in Dir, ArriveLock(l) PROVE LaneLockInv'
    BY <1>5, ThreadsDiffer, Shapes
      DEF ArriveLock, LaneLockInv, CarInHandInv, Crossing, lane_vars
  <1>6. ASSUME NEW l \in Dir, ArriveWait(l) PROVE LaneLockInv'
    BY <1>6, ThreadsDiffer, Shapes
      DEF ArriveWait, LaneLockInv, CarInHandInv, Crossing, lane_vars
  <1>7. ASSUME NEW l \in Dir, AddCar(l) PROVE LaneLockInv'
    BY <1>7, ThreadsDiffer, Shapes
      DEF AddCar, PutCar, WakeIfWaiting, LaneLockInv, CarInHandInv, Crossing
  <1>8. ASSUME NEW l \in Dir, CrossLoop(l) PROVE LaneLockInv'
    BY <1>8, ThreadsDiffer, Shapes
      DEF CrossLoop, LaneLockInv, CarInHandInv, Crossing, lane_vars
  <1>9. ASSUME NEW l \in Dir, CrossLock(l) PROVE LaneLockInv'
    BY <1>9, ThreadsDiffer, Shapes
      DEF CrossLock, LaneLockInv, CarInHandInv, Crossing, lane_vars
  <1>10. ASSUME NEW l \in Dir, CrossWait(l) PROVE LaneLockInv'
    BY <1>10, ThreadsDiffer, Shapes
      DEF CrossWait, LaneLockInv, CarInHandInv, Crossing, lane_vars
  <1>11. ASSUME NEW l \in Dir, TakeCar(l) PROVE LaneLockInv'
    BY <1>11, ThreadsDiffer, Shapes
      DEF TakeCar, GetCar, WakeIfWaiting, LaneLockInv, CarInHandInv, Crossing
  <1>12. ASSUME NEW l \in Dir, LockQuad(l) PROVE LaneLockInv'
    BY <1>12, ThreadsDiffer, Shapes
      DEF LockQuad, LaneLockInv, CarInHandInv, Crossing, lane_vars
  <1>13. ASSUME NEW l \in Dir, LockOutLane(l) PROVE LaneLockInv'
    BY <1>13, ThreadsDiffer, Shapes
      DEF LockOutLane, LaneLockInv, CarInHandInv, Crossing, lane_vars
  <1>14. ASSUME NEW l \in Dir, PassCar(l) PROVE LaneLockInv'
    BY <1>14, ThreadsDiffer, Shapes
      DEF PassCar, LaneLockInv, CarInHandInv, Crossing
  <1>15. ASSUME NEW l \in Dir, UnlockQuad(l) PROVE LaneLockInv'
    BY <1>15, ThreadsDiffer, Shapes
      DEF UnlockQuad, LaneLockInv, CarInHandInv, Crossing, lane_vars
  <1>16. ASSUME NEW l \in Dir, SpuriousWake(l) PROVE LaneLockInv'
    BY <1>16, ThreadsDiffer, Shapes
      DEF SpuriousWake, WakeIfWaiting, LaneLockInv, CarInHandInv, Crossing, lane_vars
  <1>17. CASE UNCHANGED vars
    BY <1>17 DEF vars, lane_vars, LaneLockInv, CarInHandInv, Crossing
  <1> QED
    BY <1>1, <1>2, <1>3, <1>4, <1>5, <1>6, <1>7, <1>8, <1>9,
       <1>10, <1>11, <1>12, <1>13, <1>14, <1>15, <1>16, <1>17
    DEF Next, Main, car_arrive, car_cross, Exited

LEMMA CarInHandStep ==
  ASSUME IInv, [Next]_vars
  PROVE  CarInHandInv'
  <1> USE DEF IInv
  <1>1. CASE ReadLine
    BY <1>1, Shapes DEF ReadLine, CarInHandInv, Crossing
  <1>2. CASE StartThreads
    BY <1>2, Shapes
      DEF StartThreads, CarInHandInv, Crossing, PhaseInv, lane_vars
  <1>3. CASE JoinAndVerify
    BY <1>3, Shapes DEF JoinAndVerify, CarInHandInv, Crossing, lane_vars
  <1>4. ASSUME NEW l \in Dir, ArriveLoop(l) PROVE CarInHandInv'
    BY <1>4, Shapes DEF ArriveLoop, CarInHandInv, Crossing, lane_vars
  <1>5. ASSUME NEW l \in Dir, ArriveLock(l) PROVE CarInHandInv'
    BY <1>5, Shapes DEF ArriveLock, CarInHandInv, Crossing, lane_vars
  <1>6. ASSUME NEW l \in Dir, ArriveWait(l) PROVE CarInHandInv'
    BY <1>6, Shapes DEF ArriveWait, CarInHandInv, Crossing, lane_vars
  <1>7. ASSUME NEW l \in Dir, AddCar(l) PROVE CarInHandInv'
    BY <1>7, Shapes DEF AddCar, PutCar, WakeIfWaiting, CarInHandInv, Crossing
  <1>8. ASSUME NEW l \in Dir, CrossLoop(l) PROVE CarInHandInv'
    BY <1>8, Shapes DEF CrossLoop, CarInHandInv, Crossing, lane_vars
  <1>9. ASSUME NEW l \in Dir, CrossLock(l) PROVE CarInHandInv'
    BY <1>9, Shapes DEF CrossLock, CarInHandInv, Crossing, lane_vars
  <1>10. ASSUME NEW l \in Dir, CrossWait(l) PROVE CarInHandInv'
    BY <1>10, Shapes DEF CrossWait, CarInHandInv, Crossing, lane_vars
  <1>11. ASSUME NEW l \in Dir, TakeCar(l) PROVE CarInHandInv'
    <2>1. IInv /\ in_buf[l] # 0
      BY <1>11 DEF TakeCar
    <2> QED
      BY <1>11, <2>1, NextCar, Shapes
      DEF TakeCar, GetCar, WakeIfWaiting, CarInHandInv, Crossing
  <1>12. ASSUME NEW l \in Dir, LockQuad(l) PROVE CarInHandInv'
    BY <1>12, Shapes DEF LockQuad, CarInHandInv, Crossing, lane_vars
  <1>13. ASSUME NEW l \in Dir, LockOutLane(l) PROVE CarInHandInv'
    BY <1>13, Shapes DEF LockOutLane, CarInHandInv, Crossing, lane_vars
  <1>14. ASSUME NEW l \in Dir, PassCar(l) PROVE CarInHandInv'
    BY <1>14, Shapes DEF PassCar, CarInHandInv, Crossing
  <1>15. ASSUME NEW l \in Dir, UnlockQuad(l) PROVE CarInHandInv'
    BY <1>15, Shapes DEF UnlockQuad, CarInHandInv, Crossing, lane_vars
  <1>16. ASSUME NEW l \in Dir, SpuriousWake(l) PROVE CarInHandInv'
    BY <1>16, Shapes
      DEF SpuriousWake, WakeIfWaiting, CarInHandInv, Crossing, lane_vars
  <1>17. CASE UNCHANGED vars
    BY <1>17 DEF vars, lane_vars, CarInHandInv, Crossing
  <1> QED
    BY <1>1, <1>2, <1>3, <1>4, <1>5, <1>6, <1>7, <1>8, <1>9,
       <1>10, <1>11, <1>12, <1>13, <1>14, <1>15, <1>16, <1>17
    DEF Next, Main, car_arrive, car_cross, Exited

\* The schedule is split between file, in_cars, the ring and out_cars.
LEMMA ScheduleStep ==
  ASSUME IInv, [Next]_vars
  PROVE  ScheduleInv'
  <1> USE DEF IInv
  <1>1. CASE ReadLine
    <2> DEFINE c == Head(file)
               d == c.in_dir
    <2>1. file \in Seq(Car) /\ file # <<>> /\ main = "parse"
      BY <1>1 DEF ReadLine, TypeOK
    <2>2. c \in Car
      BY <2>1, TailFacts
    <2>3. d \in Dir
      BY <2>2 DEF Car
    <2>4. /\ in_cars' = [in_cars EXCEPT ![d] = <<c>> \o in_cars[d]]
          /\ inc' = [inc EXCEPT ![d] = inc[d] + 1]
          /\ scheduled' = in_cars'
      BY <1>1 DEF ReadLine
    <2> HIDE DEF c, d
    <2>5. ASSUME NEW m \in Dir
          PROVE  /\ inc'[m] = Len(scheduled'[m])
                 /\ \A i \in 1 .. Len(scheduled'[m]) : scheduled'[m][i].in_dir = m
      <3>1. passed[m] = 0 /\ in_buf[m] = 0
        BY <2>1 DEF PhaseInv
      <3>2. in_cars[m] \in Seq(Car) /\ scheduled[m] \in Seq(Car)
        BY LaneShapes
      <3>3. /\ Len(in_cars[m]) = Len(scheduled[m])
            /\ \A i \in 1 .. Len(in_cars[m]) : in_cars[m][i] = scheduled[m][i]
        BY <3>1, <3>2 DEF LaneIsFifo, Fifo
      <3>4. CASE m = d
        <4>1. scheduled'[m] = <<c>> \o in_cars[m] /\ inc'[m] = inc[m] + 1
          BY <2>3, <2>4, <3>4, LaneShapes
        <4>2. /\ Len(scheduled'[m]) = Len(in_cars[m]) + 1
              /\ scheduled'[m][1] = c
              /\ \A i \in 2 .. Len(in_cars[m]) + 1 :
                   scheduled'[m][i] = in_cars[m][i - 1]
          BY <4>1, <3>2, <2>2, ConsFacts
        <4>3. ASSUME NEW i \in 1 .. Len(scheduled'[m])
              PROVE  scheduled'[m][i].in_dir = m
          <5>1. CASE i = 1
            BY <5>1, <4>2, <3>4 DEF d
          <5>2. CASE i # 1
            <6>1. i - 1 \in 1 .. Len(in_cars[m])
              BY <5>2, <4>2, <3>2
            <6>2. scheduled'[m][i] = scheduled[m][i - 1]
              BY <6>1, <5>2, <4>2, <3>2, <3>3
            <6> QED BY <6>1, <6>2, <3>3 DEF ScheduleInv
          <5> QED BY <5>1, <5>2
        <4>4. inc'[m] = Len(scheduled'[m])
          BY <4>1, <4>2, <3>2, <3>3 DEF ScheduleInv
        <4> QED BY <4>3, <4>4
      <3>5. CASE m # d
        BY <2>3, <2>4, <3>3, <3>5, LaneShapes DEF ScheduleInv
      <3> QED BY <3>4, <3>5
    <2> QED BY <2>5 DEF ScheduleInv
  <1>2. CASE UNCHANGED <<inc, scheduled>>
    BY <1>2 DEF ScheduleInv
  <1> QED
    BY <1>1, <1>2
    DEF Next, Main, car_arrive, car_cross, Exited, vars, lane_vars,
        StartThreads, JoinAndVerify, ArriveLoop, ArriveLock, ArriveWait,
        AddCar, CrossLoop, CrossLock, CrossWait, TakeCar, LockQuad,
        LockOutLane, PassCar, UnlockQuad, SpuriousWake, PutCar, GetCar

\* A quadrant is held by the thread that has it on its path.
LEMMA QuadStep ==
  ASSUME IInv, [Next]_vars
  PROVE  QuadInv'
  <1> USE DEF IInv
  <1>1. CASE ReadLine
    BY <1>1, Shapes
      DEF ReadLine, QuadInv, Held, ToLock, Path, Crossing, InIntersection
  <1>2. CASE StartThreads
    BY <1>2, Shapes
      DEF StartThreads, QuadInv, Held, ToLock, Path, Crossing, InIntersection, PhaseInv, lane_vars
  <1>3. CASE JoinAndVerify
    BY <1>3, Shapes
      DEF JoinAndVerify, QuadInv, Held, ToLock, Path, Crossing, InIntersection, lane_vars
  <1>4. ASSUME NEW l \in Dir, ArriveLoop(l) PROVE QuadInv'
    BY <1>4, Shapes
      DEF ArriveLoop, QuadInv, Held, ToLock, Path, Crossing, InIntersection, lane_vars
  <1>5. ASSUME NEW l \in Dir, ArriveLock(l) PROVE QuadInv'
    BY <1>5, Shapes
      DEF ArriveLock, QuadInv, Held, ToLock, Path, Crossing, InIntersection, lane_vars
  <1>6. ASSUME NEW l \in Dir, ArriveWait(l) PROVE QuadInv'
    BY <1>6, Shapes
      DEF ArriveWait, QuadInv, Held, ToLock, Path, Crossing, InIntersection, lane_vars
  <1>7. ASSUME NEW l \in Dir, AddCar(l) PROVE QuadInv'
    BY <1>7, Shapes
      DEF AddCar, PutCar, WakeIfWaiting, QuadInv, Held, ToLock, Path, Crossing, InIntersection
  <1>8. ASSUME NEW l \in Dir, CrossLoop(l) PROVE QuadInv'
    BY <1>8, Shapes
      DEF CrossLoop, QuadInv, Held, ToLock, Path, Crossing, InIntersection, lane_vars
  <1>9. ASSUME NEW l \in Dir, CrossLock(l) PROVE QuadInv'
    BY <1>9, Shapes
      DEF CrossLock, QuadInv, Held, ToLock, Path, Crossing, InIntersection, lane_vars
  <1>10. ASSUME NEW l \in Dir, CrossWait(l) PROVE QuadInv'
    BY <1>10, Shapes
      DEF CrossWait, QuadInv, Held, ToLock, Path, Crossing, InIntersection, lane_vars
  <1>11. ASSUME NEW l \in Dir, TakeCar(l) PROVE QuadInv'
    <2>1. IInv /\ in_buf[l] # 0 /\ cpc[l] = "take"
      BY <1>11 DEF TakeCar
    <2>2. /\ cpc' = [cpc EXCEPT ![l] = "quads"]
          /\ lane_car' = [lane_car EXCEPT ![l] = buffer[l][head[l]]]
          /\ quad' = quad
      BY <1>11 DEF TakeCar, GetCar
    <2>3. lane_car'[l] \in Car /\ cpc'[l] = "quads"
      BY <2>1, <2>2, NextCar, Shapes
    <2>4. Path(l)' # {}
      BY <2>3, PathIsRoute DEF Path
    <2>5. Held(l) = {}
      BY <2>1 DEF QuadInv, Crossing
    <2>6. Held(l)' = {} /\ ToLock(l)' # {}
      BY <2>2, <2>4, <2>5 DEF Held, ToLock
    <2>7. ASSUME NEW m \in Dir, m # l
          PROVE  cpc'[m] = cpc[m] /\ Held(m)' = Held(m) /\ Path(m)' = Path(m)
      BY <2>2, <2>7, Shapes DEF Held, Path
    <2> QED
      BY <2>3, <2>6, <2>7 DEF QuadInv, ToLock, Crossing, InIntersection
  <1>12. ASSUME NEW l \in Dir, LockQuad(l) PROVE QuadInv'
    <2> DEFINE q == NextQuad(l)
    <2>1. cpc[l] = "quads" /\ lane_car[l] \in Car /\ ToLock(l) # {}
      BY <1>12 DEF LockQuad, CarInHandInv, QuadInv, Crossing
    <2>2. q \in ToLock(l) /\ q \in Quad /\ \A r \in ToLock(l) : q <= r
      BY <2>1, NextQuadType
    <2>3. /\ quad[q] = None /\ quad' = [quad EXCEPT ![q] = l]
          /\ lane_car' = lane_car
          /\ cpc' = [cpc EXCEPT ![l] = IF ToLock(l) = {q} THEN "outlock"
                                                         ELSE "quads"]
      BY <1>12 DEF LockQuad, lane_vars
    <2> HIDE DEF q
    <2>4. Held(l)' = Held(l) \cup {q} /\ Path(l)' = Path(l)
      BY <2>2, <2>3, Shapes DEF Held, Path
    <2>5. ASSUME NEW m \in Dir, m # l
          PROVE  Held(m)' = Held(m) /\ Path(m)' = Path(m) /\ cpc'[m] = cpc[m]
      BY <2>2, <2>3, <2>5, NoneAssumption, Shapes DEF Held, Path
    <2>6. ToLock(l)' = ToLock(l) \ {q} /\ q \in Path(l)
      BY <2>2, <2>4 DEF ToLock
    <2>7. Held(l) \subseteq Path(l) /\ \A p \in Held(l), r \in ToLock(l) : p < r
      BY <2>1 DEF QuadInv
    <2>8. CASE ToLock(l) = {q}
      <3>1. cpc'[l] = "outlock" /\ Held(l)' = Path(l)'
        BY <2>3, <2>4, <2>6, <2>7, <2>8, Shapes DEF ToLock
      <3> QED BY <3>1, <2>5 DEF QuadInv, ToLock, Crossing, InIntersection
    <2>9. CASE ToLock(l) # {q}
      <3>1. cpc'[l] = "quads"
        BY <2>3, <2>9, Shapes
      <3>2. Held(l)' \subseteq Path(l)' /\ ToLock(l)' # {}
        BY <2>2, <2>4, <2>6, <2>7, <2>9
      <3>3. ASSUME NEW p \in Held(l)', NEW r \in ToLock(l)' PROVE p < r
        <4>1. r \in ToLock(l) /\ r # q /\ r \in Quad
          BY <2>1, <2>6, PathIsRoute DEF ToLock, Path
        <4>2. CASE p = q
          BY <4>1, <4>2, <2>2 DEF Quad
        <4>3. CASE p \in Held(l)
          BY <4>1, <4>3, <2>7
        <4> QED BY <4>2, <4>3, <2>4
      <3> QED
        BY <3>1, <3>2, <3>3, <2>5 DEF QuadInv, ToLock, Crossing, InIntersection
    <2> QED BY <2>8, <2>9
  <1>13. ASSUME NEW l \in Dir, LockOutLane(l) PROVE QuadInv'
    BY <1>13, Shapes
      DEF LockOutLane, QuadInv, Held, ToLock, Path, Crossing, InIntersection, lane_vars
  <1>14. ASSUME NEW l \in Dir, PassCar(l) PROVE QuadInv'
    <2>1. /\ cpc[l] = "out" /\ quad' = quad /\ lane_car' = lane_car
          /\ cpc' = [cpc EXCEPT ![l] = "unquad"]
      BY <1>14 DEF PassCar
    <2>2. lane_car[l] \in Car /\ Held(l) = Path(l)
      BY <2>1 DEF CarInHandInv, QuadInv, Crossing, InIntersection
    <2>3. Held(l) # {}
      BY <2>2, PathIsRoute DEF Path
    <2>4. \A m \in Dir : Held(m)' = Held(m) /\ Path(m)' = Path(m)
      BY <2>1 DEF Held, Path
    <2> QED
      BY <2>1, <2>3, <2>4, Shapes DEF QuadInv, ToLock, Crossing, InIntersection
  <1>15. ASSUME NEW l \in Dir, UnlockQuad(l) PROVE QuadInv'
    <2> DEFINE q == NextRelease(l)
    <2>1. cpc[l] = "unquad" /\ Held(l) # {}
      BY <1>15 DEF UnlockQuad, QuadInv
    <2>2. q \in Held(l) /\ q \in Quad
      BY <2>1, NextReleaseType
    <2>3. /\ quad' = [quad EXCEPT ![q] = None]
          /\ IF Held(l) = {q}
             THEN /\ cpc' = [cpc EXCEPT ![l] = "loop"]
                  /\ lane_car' = [lane_car EXCEPT ![l] = None]
             ELSE cpc' = cpc /\ lane_car' = lane_car
      BY <1>15 DEF UnlockQuad
    <2> HIDE DEF q
    <2>4. Held(l)' = Held(l) \ {q}
      BY <2>2, <2>3, NoneAssumption, Shapes DEF Held
    <2>5. ASSUME NEW m \in Dir, m # l
          PROVE  Held(m)' = Held(m) /\ Path(m)' = Path(m) /\ cpc'[m] = cpc[m]
      BY <2>2, <2>3, <2>5, NoneAssumption, Shapes DEF Held, Path
    <2>6. CASE Held(l) = {q}
      <3>1. cpc'[l] = "loop" /\ Held(l)' = {}
        BY <2>3, <2>4, <2>6, Shapes
      <3> QED BY <3>1, <2>5 DEF QuadInv, ToLock, Crossing, InIntersection
    <2>7. CASE Held(l) # {q}
      <3>1. cpc'[l] = "unquad" /\ Held(l)' # {}
        BY <2>1, <2>2, <2>3, <2>4, <2>7, Shapes
      <3> QED BY <3>1, <2>5 DEF QuadInv, ToLock, Crossing, InIntersection
    <2> QED BY <2>6, <2>7
  <1>16. ASSUME NEW l \in Dir, SpuriousWake(l) PROVE QuadInv'
    BY <1>16, Shapes
      DEF SpuriousWake, WakeIfWaiting, QuadInv, Held, ToLock, Path, Crossing, InIntersection, lane_vars
  <1>17. CASE UNCHANGED vars
    BY <1>17 DEF vars, lane_vars, QuadInv, Held, ToLock, Path, Crossing, InIntersection
  <1> QED
    BY <1>1, <1>2, <1>3, <1>4, <1>5, <1>6, <1>7, <1>8, <1>9,
       <1>10, <1>11, <1>12, <1>13, <1>14, <1>15, <1>16, <1>17
    DEF Next, Main, car_arrive, car_cross, Exited

\* The ring between the two threads stays a queue.
LEMMA LaneIsFifoStep ==
  ASSUME IInv, [Next]_vars
  PROVE  LaneIsFifo'
  <1> USE DEF IInv
  <1>1. CASE ReadLine
    <2> DEFINE c == Head(file)
               d == c.in_dir
    <2>1. file \in Seq(Car) /\ file # <<>> /\ main = "parse"
      BY <1>1 DEF ReadLine, TypeOK
    <2>2. c \in Car
      BY <2>1, TailFacts
    <2>3. d \in Dir
      BY <2>2 DEF Car
    <2>4. /\ in_cars' = [in_cars EXCEPT ![d] = <<c>> \o in_cars[d]]
          /\ scheduled' = in_cars'
          /\ UNCHANGED <<passed, in_buf, head, tail, buffer>>
      BY <1>1 DEF ReadLine
    <2> HIDE DEF c, d
    <2>5. ASSUME NEW m \in Dir
          PROVE  Fifo(in_cars'[m], in_cars'[m], buffer[m],
                      head[m], tail[m], in_buf[m], passed[m])
      <3>1. in_buf[m] = 0 /\ passed[m] = 0
        BY <2>1 DEF PhaseInv
      <3>2. in_cars'[m] \in Seq(Car)
        BY <2>2, <2>3, <2>4, LaneShapes, ConsFacts
      <3>3. tail[m] = Around(head[m], 0)
        BY <3>1 DEF LaneIsFifo, Fifo
      <3> QED BY <3>1, <3>2, <3>3 DEF Fifo
    <2> QED BY <2>4, <2>5 DEF LaneIsFifo
  <1>2. ASSUME NEW l \in Dir, AddCar(l) PROVE LaneIsFifo'
    <2>1. /\ in_buf[l] < Capacity /\ in_cars[l] # <<>>
          /\ buffer' = [buffer EXCEPT ![l][tail[l]] = Head(in_cars[l])]
          /\ in_cars' = [in_cars EXCEPT ![l] = Tail(in_cars[l])]
          /\ in_buf' = [in_buf EXCEPT ![l] = in_buf[l] + 1]
          /\ tail' = [tail EXCEPT ![l] = Wrap(tail[l] + 1)]
          /\ UNCHANGED <<scheduled, passed, head>>
      BY <1>2 DEF AddCar, PutCar, ProgressInv
    <2>2. Fifo(scheduled[l], Tail(in_cars[l]),
               [buffer[l] EXCEPT ![tail[l]] = Head(in_cars[l])],
               head[l], Wrap(tail[l] + 1), in_buf[l] + 1, passed[l])
      BY <2>1, LaneTypes, FifoAdd DEF LaneIsFifo
    <2>3. /\ in_cars'[l] = Tail(in_cars[l]) /\ in_buf'[l] = in_buf[l] + 1
          /\ buffer'[l] = [buffer[l] EXCEPT ![tail[l]] = Head(in_cars[l])]
          /\ tail'[l] = Wrap(tail[l] + 1)
      BY <2>1, LaneShapes
    <2>4. ASSUME NEW m \in Dir, m # l
          PROVE  /\ in_cars'[m] = in_cars[m] /\ in_buf'[m] = in_buf[m]
                 /\ buffer'[m] = buffer[m] /\ tail'[m] = tail[m]
      BY <2>1, <2>4, LaneShapes
    <2> QED BY <2>1, <2>2, <2>3, <2>4 DEF LaneIsFifo
  <1>3. ASSUME NEW l \in Dir, TakeCar(l) PROVE LaneIsFifo'
    <2>1. /\ in_buf[l] # 0
          /\ passed' = [passed EXCEPT ![l] = passed[l] + 1]
          /\ in_buf' = [in_buf EXCEPT ![l] = in_buf[l] - 1]
          /\ head' = [head EXCEPT ![l] = Wrap(head[l] + 1)]
          /\ UNCHANGED <<scheduled, in_cars, buffer, tail>>
      BY <1>3 DEF TakeCar, GetCar
    <2>2. in_buf[l] <= Capacity
      BY LaneTypes, CapacityAssumption
    <2>3. Fifo(scheduled[l], in_cars[l], buffer[l],
               Wrap(head[l] + 1), tail[l], in_buf[l] - 1, passed[l] + 1)
      BY <2>1, <2>2, LaneTypes, FifoTake DEF LaneIsFifo
    <2>4. /\ passed'[l] = passed[l] + 1 /\ in_buf'[l] = in_buf[l] - 1
          /\ head'[l] = Wrap(head[l] + 1)
      BY <2>1, LaneShapes
    <2>5. ASSUME NEW m \in Dir, m # l
          PROVE  /\ passed'[m] = passed[m] /\ in_buf'[m] = in_buf[m]
                 /\ head'[m] = head[m]
      BY <2>1, <2>5, LaneShapes
    <2> QED BY <2>1, <2>3, <2>4, <2>5 DEF LaneIsFifo
  <1>4. CASE UNCHANGED <<scheduled, in_cars, buffer, head, tail, in_buf, passed>>
    BY <1>4 DEF LaneIsFifo
  <1> QED
    BY <1>1, <1>2, <1>3, <1>4
    DEF Next, Main, car_arrive, car_cross, Exited, vars, lane_vars,
        StartThreads, JoinAndVerify, ArriveLoop, ArriveLock, ArriveWait,
        CrossLoop, CrossLock, CrossWait, LockQuad, LockOutLane, PassCar,
        UnlockQuad, SpuriousWake, PutCar, GetCar

\* Who waits has nothing to do yet, or is about to be woken.
LEMMA NoLostWakeupStep ==
  ASSUME IInv, [Next]_vars
  PROVE  NoLostWakeup'
  <1> USE DEF IInv
  <1>1. CASE ReadLine
    BY <1>1, Shapes DEF ReadLine, NoLostWakeup
  <1>2. CASE StartThreads
    BY <1>2, Shapes DEF StartThreads, NoLostWakeup, lane_vars
  <1>3. CASE JoinAndVerify
    BY <1>3, Shapes DEF JoinAndVerify, NoLostWakeup, lane_vars
  <1>4. ASSUME NEW l \in Dir, ArriveLoop(l) PROVE NoLostWakeup'
    BY <1>4, Shapes DEF ArriveLoop, NoLostWakeup, lane_vars
  <1>5. ASSUME NEW l \in Dir, ArriveLock(l) PROVE NoLostWakeup'
    BY <1>5, Shapes DEF ArriveLock, NoLostWakeup, lane_vars
  <1>6. ASSUME NEW l \in Dir, ArriveWait(l) PROVE NoLostWakeup'
    <2>1. in_buf[l] \in 0 .. Capacity
      BY LaneTypes
    <2> QED
      BY <1>6, <2>1, CapacityAssumption, Shapes
      DEF ArriveWait, NoLostWakeup, ProgressInv, lane_vars
  <1>7. ASSUME NEW l \in Dir, AddCar(l) PROVE NoLostWakeup'
    BY <1>7, Shapes, LaneShapes DEF AddCar, PutCar, WakeIfWaiting, NoLostWakeup
  <1>8. ASSUME NEW l \in Dir, CrossLoop(l) PROVE NoLostWakeup'
    BY <1>8, Shapes DEF CrossLoop, NoLostWakeup, lane_vars
  <1>9. ASSUME NEW l \in Dir, CrossLock(l) PROVE NoLostWakeup'
    BY <1>9, Shapes DEF CrossLock, NoLostWakeup, lane_vars
  <1>10. ASSUME NEW l \in Dir, CrossWait(l) PROVE NoLostWakeup'
    <2>1. passed[l] < Len(scheduled[l])
      BY <1>10 DEF CrossWait, ProgressInv, ScheduleInv
    <2>2. Len(scheduled[l]) = passed[l] + Len(in_cars[l]) /\ passed[l] \in Nat
      BY <1>10, LaneTypes DEF CrossWait, LaneIsFifo, Fifo
    <2>3. in_cars[l] # <<>>
      BY <2>1, <2>2
    <2> QED
      BY <1>10, <2>3, Shapes DEF CrossWait, NoLostWakeup, lane_vars
  <1>11. ASSUME NEW l \in Dir, TakeCar(l) PROVE NoLostWakeup'
    BY <1>11, Shapes, LaneShapes
      DEF TakeCar, GetCar, WakeIfWaiting, NoLostWakeup
  <1>12. ASSUME NEW l \in Dir, LockQuad(l) PROVE NoLostWakeup'
    BY <1>12, Shapes DEF LockQuad, NoLostWakeup, lane_vars
  <1>13. ASSUME NEW l \in Dir, LockOutLane(l) PROVE NoLostWakeup'
    BY <1>13, Shapes DEF LockOutLane, NoLostWakeup, lane_vars
  <1>14. ASSUME NEW l \in Dir, PassCar(l) PROVE NoLostWakeup'
    BY <1>14, Shapes DEF PassCar, NoLostWakeup
  <1>15. ASSUME NEW l \in Dir, UnlockQuad(l) PROVE NoLostWakeup'
    BY <1>15, Shapes DEF UnlockQuad, NoLostWakeup, lane_vars
  <1>16. ASSUME NEW l \in Dir, SpuriousWake(l) PROVE NoLostWakeup'
    BY <1>16, Shapes DEF SpuriousWake, WakeIfWaiting, NoLostWakeup, lane_vars
  <1>17. CASE UNCHANGED vars
    BY <1>17 DEF vars, lane_vars, NoLostWakeup
  <1> QED
    BY <1>1, <1>2, <1>3, <1>4, <1>5, <1>6, <1>7, <1>8, <1>9,
       <1>10, <1>11, <1>12, <1>13, <1>14, <1>15, <1>16, <1>17
    DEF Next, Main, car_arrive, car_cross, Exited

-----------------------------------------------------------------------------
LEMMA InitIInv == Init => IInv
  <1> SUFFICES ASSUME Init PROVE IInv
    OBVIOUS
  <1>1. TypeOK
    BY InitTypeOK
  <1>2. PhaseInv /\ ScheduleInv /\ ProgressInv /\ NoLostWakeup
    BY DEF Init, PhaseInv, ScheduleInv, ProgressInv, NoLostWakeup
  <1>3. LaneLockInv
    BY ThreadsDiffer DEF Init, LaneLockInv
  <1>4. CarInHandInv
    BY DEF Init, CarInHandInv, Crossing
  <1>5. QuadInv
    BY NoneAssumption DEF Init, QuadInv, Held, Crossing, InIntersection
  <1>6. LaneIsFifo
    BY CapacityAssumption DEF Init, LaneIsFifo, Fifo, Around
  <1> QED BY <1>1, <1>2, <1>3, <1>4, <1>5, <1>6 DEF IInv

\* ... and every step keeps it.
LEMMA StepIInv == IInv /\ [Next]_vars => IInv'
  BY TypeStep, PhaseStep, ProgressStep, LaneLockStep, CarInHandStep,
     ScheduleStep, QuadStep, LaneIsFifoStep, NoLostWakeupStep
  DEF IInv

\* The inductive invariant: each program point of a thread says what it
\* holds and has in hand, and the lists, the ring and the counters agree.
THEOREM Invariance == Spec => []IInv
  BY InitIInv, StepIInv, PTL DEF Spec

\* Every variable keeps its type; the indexes stay inside the ring.
THEOREM TypeCorrect == Spec => []TypeOK
  BY Invariance, PTL DEF IInv

\* The ring loses, repeats and reorders no car, for every capacity.
THEOREM LanesAreFifo == Spec => []LaneIsFifo
  BY Invariance, PTL DEF IInv

\* No broadcast is missed, whatever the spurious wake-ups.
THEOREM NoWakeupIsLost == Spec => []NoLostWakeup
  BY Invariance, PTL DEF IInv

\* Cars in the intersection at the same time are on disjoint ways.
THEOREM NoCarsCollide == Spec => []NoCollision
  <1>1. ASSUME IInv PROVE NoCollision
    <2> SUFFICES ASSUME NEW l \in Dir, NEW m \in Dir, l # m,
                        InIntersection(l), InIntersection(m)
                 PROVE  Route(lane_car[l]) \cap Route(lane_car[m]) = {}
      BY DEF NoCollision
    <2>1. lane_car[l] \in Car /\ lane_car[m] \in Car
      BY <1>1 DEF IInv, CarInHandInv, InIntersection, Crossing
    <2>2. Held(l) = Route(lane_car[l]) /\ Held(m) = Route(lane_car[m])
      BY <1>1, <2>1, PathIsRoute DEF IInv, QuadInv, Path
    <2>3. Held(l) \cap Held(m) = {}
      BY DEF Held
    <2> QED BY <2>2, <2>3
  <1> QED BY <1>1, Invariance, PTL

\* Mutexes are taken in the order of traffic.h.
THEOREM LocksAreOrdered == Spec => []LockOrder
  <1>1. ASSUME IInv PROVE LockOrder
    <2> SUFFICES ASSUME NEW l \in Dir
                 PROVE  /\ cpc[l] = "quads" => \A q \in Held(l) : q < NextQuad(l)
                        /\ cpc[l] \in {"lock", "quads", "outlock"} =>
                             \A d \in Dir : lane_lock[d] # CrossThread(l)
      BY DEF LockOrder
    <2>1. ASSUME cpc[l] = "quads" PROVE \A q \in Held(l) : q < NextQuad(l)
      <3>1. lane_car[l] \in Car /\ ToLock(l) # {}
        BY <1>1, <2>1 DEF IInv, CarInHandInv, QuadInv, Crossing
      <3>2. NextQuad(l) \in ToLock(l)
        BY <3>1, NextQuadType
      <3> QED BY <1>1, <2>1, <3>2 DEF IInv, QuadInv
    <2>2. cpc[l] \in {"lock", "quads", "outlock"} =>
            \A d \in Dir : lane_lock[d] # CrossThread(l)
      BY <1>1 DEF IInv, LaneLockInv
    <2> QED BY <2>1, <2>2
  <1> QED BY <1>1, Invariance, PTL

\* Until the eight threads are done, one of them can run.  If none could,
\* no lane's mutex would be held, for its holder could run.  A crossing
\* thread stuck at a quadrant would wait for one stuck at a later quadrant,
\* and there is no quadrant after the last.  So every thread would be asleep
\* or done, and the counters leave none asleep.
THEOREM NeverDeadlocked == Spec => []NoDeadlock
  <1>1. ASSUME IInv PROVE NoDeadlock
    <2> SUFFICES ASSUME main = "join",
                        \A l \in Dir : ~ArriveCanRun(l) /\ ~CrossCanRun(l)
                 PROVE  \A l \in Dir : apc[l] = "done" /\ cpc[l] = "done"
      BY DEF NoDeadlock
    <2> USE <1>1 DEF IInv
    <2>1. ASSUME NEW d \in Dir PROVE lane_lock[d] = None
      <3>1. lane_lock[d] \in Thread \cup {None}
        BY Shapes
      <3>2. ASSUME NEW l \in Dir PROVE lane_lock[d] # InThread(l)
        BY DEF LaneLockInv, ArriveCanRun
      <3>3. ASSUME NEW l \in Dir PROVE lane_lock[d] # CrossThread(l)
        BY DEF LaneLockInv, CrossCanRun
      <3> QED BY <3>1, <3>2, <3>3 DEF Thread
    <2>2. ASSUME NEW l \in Dir PROVE apc[l] \in {"wait", "done"}
      BY <2>1, Shapes DEF ArrivePC, ArriveCanRun, PhaseInv
    <2>3. ASSUME NEW l \in Dir PROVE cpc[l] \in {"wait", "done", "quads"}
      <3>1. cpc[l] = "outlock" => lane_car[l] \in Car
        BY DEF CarInHandInv, Crossing
      <3>2. cpc[l] = "outlock" => lane_car[l].out_dir \in Dir
        BY <3>1 DEF Car
      <3> QED BY <2>1, <3>2, Shapes DEF CrossPC, CrossCanRun, PhaseInv
    <2>4. ASSUME NEW l \in Dir, cpc[l] = "quads"
          PROVE  /\ NextQuad(l) \in Quad
                 /\ \E m \in Dir : cpc[m] = "quads" /\ NextQuad(l) < NextQuad(m)
      <3>1. lane_car[l] \in Car /\ ToLock(l) # {}
        BY <2>4 DEF CarInHandInv, QuadInv, Crossing
      <3>2. NextQuad(l) \in Quad
        BY <3>1, NextQuadType
      <3>3. PICK m \in Dir : quad[NextQuad(l)] = m
        BY <2>4, <3>2, Shapes DEF CrossCanRun
      <3>4. NextQuad(l) \in Held(m)
        BY <3>2, <3>3 DEF Held
      <3>5. cpc[m] = "quads"
        BY <2>3, <3>4 DEF QuadInv, Crossing
      <3>6. lane_car[m] \in Car /\ ToLock(m) # {}
        BY <3>5 DEF CarInHandInv, QuadInv, Crossing
      <3>7. NextQuad(m) \in ToLock(m)
        BY <3>6, NextQuadType
      <3>8. NextQuad(l) < NextQuad(m)
        BY <3>4, <3>5, <3>7 DEF QuadInv
      <3> QED BY <3>2, <3>5, <3>8
    <2>5. ASSUME NEW l \in Dir PROVE cpc[l] # "quads"
      <3>1. \A m \in Dir : cpc[m] = "quads" => NextQuad(m) # 3
        BY <2>4 DEF Quad
      <3>2. \A m \in Dir : cpc[m] = "quads" => NextQuad(m) # 2
        BY <2>4, <3>1 DEF Quad
      <3>3. \A m \in Dir : cpc[m] = "quads" => NextQuad(m) # 1
        BY <2>4, <3>1, <3>2 DEF Quad
      <3> QED BY <2>4, <3>1, <3>2, <3>3 DEF Quad
    <2>6. ASSUME NEW l \in Dir PROVE cpc[l] = "done"
      <3>1. CASE cpc[l] = "wait"
        <4>1. in_buf[l] = 0 /\ in_cars[l] # <<>>
          BY <3>1 DEF NoLostWakeup
        <4>2. apc[l] = "wait"
          BY <2>2, <4>1 DEF ProgressInv
        <4> QED BY <4>1, <4>2, CapacityAssumption DEF NoLostWakeup
      <3> QED BY <2>3, <2>5, <3>1
    <2>7. ASSUME NEW l \in Dir PROVE apc[l] = "done"
      <3>1. CASE apc[l] = "wait"
        <4>1. in_buf[l] = Capacity
          BY <3>1 DEF NoLostWakeup
        <4>2. passed[l] = Len(scheduled[l])
          BY <2>6 DEF ProgressInv, ScheduleInv
        <4>3. in_buf[l] = 0
          BY <4>2, LaneTypes DEF LaneIsFifo, Fifo
        <4> QED BY <4>1, <4>3, CapacityAssumption
      <3> QED BY <2>2, <3>1
    <2> QED BY <2>6, <2>7
  <1> QED BY <1>1, Invariance, PTL

-----------------------------------------------------------------------------
\* OutOrder: at the start nothing has left.
LEMMA InitOut == Init => OutInv
  <1> SUFFICES ASSUME Init, NEW l \in Dir
               PROVE  /\ cpc[l] \notin Crossing /\ Gone(l) = 0
                      /\ \A d \in Dir : InOrder(<<>>, <<>>, l, d, 0)
    BY DEF Init, OutInv
  <1>1. ASSUME NEW d \in Dir PROVE InOrder(<<>>, <<>>, l, d, 0)
    <2> DEFINE out   == {g \in 1 .. Len(<<>>) : <<>>[g].in_dir = l}
               due   == {i \in 1 .. 0 : <<>>[i].out_dir = d}
               place == [g \in out |-> 0]
    <2>1. out = {} /\ due = {}
      OBVIOUS
    <2>2. place \in [out -> due]
      BY <2>1
    <2> HIDE DEF place
    <2>3. /\ \A g \in out : <<>>[g] = <<>>[place[g]]
          /\ \A g, h \in out : g < h => place[h] < place[g]
          /\ \A i \in due : \E g \in out : place[g] = i
      BY <2>1
    <2> QED BY <2>2, <2>3 DEF InOrder
  <1> QED BY <1>1 DEF Init, Gone, Crossing

\* With nobody out, any list of cars will do.
LEMMA InOrderNone ==
  ASSUME NEW outs \in Seq(Car), NEW given, NEW l \in Dir, NEW d \in Dir,
         InOrder(outs, given, l, d, 0), NEW other
  PROVE  InOrder(outs, other, l, d, 0)
  <1>1. \A g \in 1 .. Len(outs) : outs[g].in_dir # l
    BY DEF InOrder
  <1>2. {i \in 1 .. 0 : given[i].out_dir = d} = {} /\ {i \in 1 .. 0 : other[i].out_dir = d} = {}
    OBVIOUS
  <1> QED BY <1>1, <1>2 DEF InOrder

\* One more car that leaves elsewhere does not count.
LEMMA InOrderSkip ==
  ASSUME NEW outs, NEW given, NEW l \in Dir, NEW d \in Dir, NEW n \in Nat,
         InOrder(outs, given, l, d, n), given[n + 1].out_dir # d
  PROVE  InOrder(outs, given, l, d, n + 1)
  <1>1. {i \in 1 .. n + 1 : given[i].out_dir = d} = {i \in 1 .. n : given[i].out_dir = d}
    OBVIOUS
  <1> QED BY <1>1 DEF InOrder

\* A car of another lane comes in front.
LEMMA InOrderOther ==
  ASSUME NEW outs \in Seq(Car), NEW given, NEW l \in Dir, NEW d \in Dir,
         NEW n \in Nat, InOrder(outs, given, l, d, n),
         NEW c \in Car, c.in_dir # l
  PROVE  InOrder(<<c>> \o outs, given, l, d, n)
  <1> DEFINE new  == <<c>> \o outs
             out  == {g \in 1 .. Len(outs) : outs[g].in_dir = l}
             outN == {g \in 1 .. Len(new) : new[g].in_dir = l}
             due  == {i \in 1 .. n : given[i].out_dir = d}
  <1>1. PICK place \in [out -> due] :
          /\ \A g \in out : outs[g] = given[place[g]]
          /\ \A g, h \in out : g < h => place[h] < place[g]
          /\ \A i \in due : \E g \in out : place[g] = i
    BY DEF InOrder
  <1>2. /\ Len(outs) \in Nat /\ Len(new) = Len(outs) + 1 /\ new[1] = c
        /\ \A i \in 2 .. Len(outs) + 1 : new[i] = outs[i - 1]
    BY ConsFacts
  <1> HIDE DEF new
  <1>3. \A g \in outN : g - 1 \in out /\ g \in Int /\ new[g] = outs[g - 1]
    BY <1>2
  <1>4. \A g \in out : g + 1 \in outN /\ g \in Int /\ (g + 1) - 1 = g
    BY <1>2
  <1> DEFINE placeN == [g \in outN |-> place[g - 1]]
  <1>5. placeN \in [outN -> due]
    BY <1>1, <1>3
  <1>6. \A g \in outN : new[g] = given[placeN[g]]
    BY <1>1, <1>3
  <1>7. ASSUME NEW g \in outN, NEW h \in outN, g < h
        PROVE  placeN[h] < placeN[g]
    <2>1. g - 1 < h - 1
      BY <1>3, <1>7
    <2> QED BY <1>1, <1>3, <2>1
  <1>8. ASSUME NEW i \in due PROVE \E g \in outN : placeN[g] = i
    <2>1. PICK g \in out : place[g] = i
      BY <1>1
    <2> QED BY <1>4, <2>1
  <1> QED BY <1>5, <1>6, <1>7, <1>8 DEF InOrder, new

\* The next car of the lane comes in front.
LEMMA InOrderNext ==
  ASSUME NEW outs \in Seq(Car), NEW given, NEW l \in Dir, NEW d \in Dir,
         NEW n \in Nat, InOrder(outs, given, l, d, n),
         given[n + 1] \in Car, given[n + 1].in_dir = l, given[n + 1].out_dir = d
  PROVE  InOrder(<<given[n + 1]>> \o outs, given, l, d, n + 1)
  <1> DEFINE c    == given[n + 1]
             new  == <<c>> \o outs
             out  == {g \in 1 .. Len(outs) : outs[g].in_dir = l}
             outN == {g \in 1 .. Len(new) : new[g].in_dir = l}
             due  == {i \in 1 .. n : given[i].out_dir = d}
             dueN == {i \in 1 .. n + 1 : given[i].out_dir = d}
  <1>1. PICK place \in [out -> due] :
          /\ \A g \in out : outs[g] = given[place[g]]
          /\ \A g, h \in out : g < h => place[h] < place[g]
          /\ \A i \in due : \E g \in out : place[g] = i
    BY DEF InOrder
  <1>2. /\ Len(outs) \in Nat /\ Len(new) = Len(outs) + 1 /\ new[1] = c
        /\ \A i \in 2 .. Len(outs) + 1 : new[i] = outs[i - 1]
    BY ConsFacts
  <1> HIDE DEF new
  <1>3. ASSUME NEW g \in outN
        PROVE  g \in Int /\ (g # 1 => g - 1 \in out /\ new[g] = outs[g - 1])
    <2>1. g \in 1 .. Len(outs) + 1 /\ new[g].in_dir = l
      BY <1>2
    <2>2. g # 1 => new[g] = outs[g - 1] /\ g - 1 \in 1 .. Len(outs)
      BY <1>2, <2>1
    <2> QED BY <2>1, <2>2
  <1>4. 1 \in outN /\ \A g \in out : g + 1 \in outN /\ g + 1 # 1 /\ (g + 1) - 1 = g
    <2>1. 1 \in outN
      BY <1>2
    <2>2. ASSUME NEW g \in out
          PROVE  g + 1 \in outN /\ g + 1 # 1 /\ (g + 1) - 1 = g
      <3>1. g \in 1 .. Len(outs) /\ outs[g].in_dir = l
        OBVIOUS
      <3>2. /\ g + 1 \in 2 .. Len(outs) + 1 /\ g + 1 \in 1 .. Len(new)
            /\ g + 1 # 1 /\ (g + 1) - 1 = g
        BY <1>2, <3>1
      <3>3. new[g + 1] = outs[g]
        BY <1>2, <3>2
      <3> QED BY <3>1, <3>2, <3>3
    <2> QED BY <2>1, <2>2
  <1>d. dueN = due \cup {n + 1}
    OBVIOUS
  <1> DEFINE placeN == [g \in outN |-> IF g = 1 THEN n + 1 ELSE place[g - 1]]
  <1>5. placeN \in [outN -> dueN]
    BY <1>1, <1>3, <1>d
  <1>6. \A g \in outN : new[g] = given[placeN[g]]
    BY <1>1, <1>2, <1>3
  <1>7. ASSUME NEW g \in outN, NEW h \in outN, g < h
        PROVE  placeN[h] < placeN[g]
    <2>1. h # 1 /\ h - 1 \in out
      BY <1>2, <1>3, <1>7
    <2>2. place[h - 1] \in due /\ place[h - 1] < n + 1
      BY <1>1, <2>1
    <2>3. CASE g = 1
      BY <2>1, <2>2, <2>3
    <2>4. CASE g # 1
      <3>1. g - 1 \in out /\ g - 1 < h - 1
        BY <1>3, <1>7, <2>4
      <3> QED BY <1>1, <2>1, <2>4, <3>1
    <2> QED BY <2>3, <2>4
  <1>8. ASSUME NEW i \in dueN PROVE \E g \in outN : placeN[g] = i
    <2>1. CASE i = n + 1
      BY <1>4, <2>1
    <2>2. CASE i \in due
      <3>1. PICK g \in out : place[g] = i
        BY <1>1, <2>2
      <3> QED BY <1>4, <3>1
    <2> QED BY <1>d, <2>1, <2>2
  <1> QED BY <1>5, <1>6, <1>7, <1>8 DEF InOrder, new, c

\* A step that touches none of the lists and does not take or pass a car.
LEMMA OutSame ==
  ASSUME OutInv, UNCHANGED <<out_cars, scheduled>>,
         \A m \in Dir :
           /\ Gone(m)' = Gone(m)
           /\ cpc'[m] \in Crossing => /\ cpc[m] \in Crossing
                                      /\ lane_car'[m] = lane_car[m]
                                      /\ passed'[m] = passed[m]
  PROVE  OutInv'
  BY DEF OutInv

\* The car in hand leaves: one more of its lane, none of any other.
LEMMA OutPass ==
  ASSUME IInv, OutInv, NEW l \in Dir, PassCar(l)
  PROVE  OutInv'
  <1> DEFINE c == lane_car[l]
             d == c.out_dir
             n == passed[l] - 1
  <1>1. /\ cpc[l] = "out" /\ cpc' = [cpc EXCEPT ![l] = "unquad"]
        /\ out_cars' = [out_cars EXCEPT ![d] = <<c>> \o out_cars[d]]
        /\ UNCHANGED <<scheduled, passed, lane_car>>
    BY DEF PassCar
  <1>2. c \in Car /\ c.in_dir = l /\ passed[l] \in 1 .. Len(scheduled[l]) /\ c = scheduled[l][passed[l]]
    BY <1>1 DEF IInv, CarInHandInv, OutInv, Crossing
  <1>3. d \in Dir
    BY <1>2 DEF Car
  <1>4. n \in Nat /\ n + 1 = passed[l]
    BY <1>2
  <1>5. /\ cpc'[l] = "unquad" /\ Gone(l) = n /\ Gone(l)' = n + 1
        /\ \A m \in Dir : m # l => cpc'[m] = cpc[m] /\ Gone(m)' = Gone(m)
    BY <1>1, <1>4, Shapes DEF IInv, Gone
  <1>6. out_cars \in [Dir -> Seq(Car)]
    BY DEF IInv, TypeOK
  <1> HIDE DEF c, d, n
  <1>7. ASSUME NEW m \in Dir, NEW e \in Dir
        PROVE  InOrder(out_cars'[e], scheduled[m], m, e, Gone(m)')
    <2>1. InOrder(out_cars[e], scheduled[m], m, e, Gone(m))
      BY DEF OutInv
    <2>2. out_cars'[e] = IF e = d THEN <<c>> \o out_cars[e] ELSE out_cars[e]
      BY <1>1, <1>3, <1>6
    <2>3. out_cars[e] \in Seq(Car)
      BY <1>6
    <2>4. CASE m = l /\ e = d
      <3>1. InOrder(<<c>> \o out_cars[d], scheduled[l], l, d, n + 1)
        BY <1>2, <1>3, <1>4, <1>5, <2>1, <2>3, <2>4, InOrderNext DEF d
      <3> QED BY <1>5, <2>2, <2>4, <3>1
    <2>5. CASE m = l /\ e # d
      <3>1. InOrder(out_cars[e], scheduled[l], l, e, n + 1)
        BY <1>2, <1>4, <1>5, <2>1, <2>5, InOrderSkip DEF d
      <3> QED BY <1>5, <2>2, <2>5, <3>1
    <2>6. CASE m # l /\ e = d
      <3>1. Gone(m) \in Nat
        <4>1. passed[m] \in Nat /\ (cpc[m] \in Crossing => passed[m] \in 1 .. Len(scheduled[m]))
          BY LaneTypes DEF IInv, OutInv
        <4> QED BY <4>1 DEF Gone, Crossing
      <3>2. InOrder(<<c>> \o out_cars[e], scheduled[m], m, e, Gone(m))
        BY <1>2, <2>1, <2>3, <2>6, <3>1, InOrderOther
      <3> QED BY <1>5, <2>2, <2>6, <3>2
    <2>7. CASE m # l /\ e # d
      BY <1>5, <2>1, <2>2, <2>7
    <2> QED BY <2>4, <2>5, <2>6, <2>7
  <1>8. ASSUME NEW m \in Dir, cpc'[m] \in Crossing
        PROVE  passed[m] \in 1 .. Len(scheduled[m]) /\ lane_car[m] = scheduled[m][passed[m]]
    BY <1>1, <1>5, <1>8 DEF OutInv, Crossing
  <1> QED BY <1>1, <1>7, <1>8 DEF OutInv

\* OutInv is inductive beside IInv.
LEMMA OutStep ==
  ASSUME IInv, OutInv, [Next]_vars
  PROVE  OutInv'
  <1> USE DEF IInv
  <1>1. CASE ReadLine
    <2>1. /\ main = "parse" /\ UNCHANGED <<out_cars, passed, cpc, lane_car>>
      BY <1>1 DEF ReadLine
    <2>2. ASSUME NEW m \in Dir
          PROVE  cpc[m] = "unborn" /\ Gone(m) = 0 /\ Gone(m)' = 0
      BY <2>1 DEF PhaseInv, Gone
    <2>3. ASSUME NEW m \in Dir, NEW e \in Dir
          PROVE  InOrder(out_cars[e], scheduled'[m], m, e, 0)
      <3>1. InOrder(out_cars[e], scheduled[m], m, e, 0) /\ out_cars[e] \in Seq(Car)
        BY <2>2 DEF OutInv, TypeOK
      <3> QED BY <3>1, InOrderNone
    <2> QED BY <2>1, <2>2, <2>3 DEF OutInv, Crossing
  <1>2. ASSUME NEW l \in Dir, TakeCar(l) PROVE OutInv'
    <2>1. /\ cpc[l] = "take" /\ in_buf[l] # 0
          /\ lane_car' = [lane_car EXCEPT ![l] = buffer[l][head[l]]]
          /\ passed' = [passed EXCEPT ![l] = passed[l] + 1]
          /\ cpc' = [cpc EXCEPT ![l] = "quads"]
          /\ UNCHANGED <<out_cars, scheduled>>
      BY <1>2 DEF TakeCar, GetCar
    <2>2. /\ cpc'[l] = "quads" /\ passed'[l] = passed[l] + 1
          /\ lane_car'[l] = scheduled[l][passed[l] + 1]
      BY <2>1, NextCar, Shapes, LaneShapes
    <2>3. passed[l] \in Nat /\ passed[l] + 1 \in 1 .. Len(scheduled[l])
      BY <2>1, NextCar DEF IInv
    <2>4. Gone(l)' = Gone(l)
      BY <2>1, <2>2, <2>3 DEF Gone
    <2>5. ASSUME NEW m \in Dir, m # l
          PROVE  /\ cpc'[m] = cpc[m] /\ passed'[m] = passed[m]
                 /\ lane_car'[m] = lane_car[m] /\ Gone(m)' = Gone(m)
      BY <2>1, <2>5, Shapes, LaneShapes DEF Gone
    <2> QED BY <2>1, <2>2, <2>3, <2>4, <2>5 DEF OutInv
  <1>3. ASSUME NEW l \in Dir, PassCar(l) PROVE OutInv'
    BY <1>3, OutPass
  <1>4. ASSUME NEW l \in Dir, LockQuad(l) \/ LockOutLane(l) PROVE OutInv'
    BY <1>4, OutSame, Shapes DEF LockQuad, LockOutLane, lane_vars, Gone, Crossing
  <1>5. ASSUME NEW l \in Dir, UnlockQuad(l) PROVE OutInv'
    BY <1>5, OutSame, Shapes DEF UnlockQuad, lane_vars, Gone, Crossing
  <1>6. ASSUME NEW l \in Dir, CrossLoop(l) \/ CrossLock(l) \/ CrossWait(l) PROVE OutInv'
    BY <1>6, OutSame, Shapes
    DEF CrossLoop, CrossLock, CrossWait, lane_vars, Gone, Crossing
  <1>7. ASSUME NEW l \in Dir, AddCar(l) PROVE OutInv'
    BY <1>7, OutSame, Shapes DEF AddCar, PutCar, WakeIfWaiting, Gone, Crossing
  <1>8. ASSUME NEW l \in Dir, SpuriousWake(l) PROVE OutInv'
    BY <1>8, OutSame, Shapes DEF SpuriousWake, WakeIfWaiting, lane_vars, Gone, Crossing
  <1>9. CASE StartThreads
    BY <1>9, OutSame, Shapes DEF StartThreads, PhaseInv, lane_vars, Gone, Crossing
  <1>10. CASE UNCHANGED <<lane_vars, scheduled, cpc, lane_car>>
    BY <1>10, OutSame DEF lane_vars, Gone
  <1> QED
    BY <1>1, <1>2, <1>3, <1>4, <1>5, <1>6, <1>7, <1>8, <1>9, <1>10
    DEF Next, Main, car_arrive, car_cross, Exited, vars, JoinAndVerify,
        ArriveLoop, ArriveLock, ArriveWait

\* The cars of a lane pass in the order of the schedule, each once and into
\* the list of the lane it leaves through, and all have when main verifies.
THEOREM CarsPassInOrder == Spec => []OutOrder
  <1>1. ASSUME IInv, OutInv PROVE OutOrder
    <2> SUFFICES ASSUME NEW l \in Dir
                 PROVE  /\ Gone(l) \in 0 .. Len(scheduled[l])
                        /\ main = "verified" => Gone(l) = Len(scheduled[l])
      BY <1>1 DEF OutOrder, OutInv
    <2>1. /\ passed[l] \in Nat /\ in_buf[l] \in Nat /\ in_cars[l] \in Seq(Car)
          /\ Len(scheduled[l]) = passed[l] + in_buf[l] + Len(in_cars[l])
      BY <1>1, LaneTypes DEF IInv, LaneIsFifo, Fifo
    <2>2. passed[l] \in 0 .. Len(scheduled[l])
      <3>1. Len(in_cars[l]) \in Nat
        BY <2>1
      <3> QED BY <2>1, <3>1
    <2>3. cpc[l] \in Crossing => passed[l] \in 1 .. Len(scheduled[l])
      BY <1>1 DEF OutInv
    <2>4. main = "verified" => cpc[l] = "done" /\ passed[l] = Len(scheduled[l])
      BY <1>1 DEF IInv, PhaseInv, ProgressInv, ScheduleInv
    <2> QED BY <2>2, <2>3, <2>4 DEF Gone, Crossing
  <1>2. Spec => []OutInv
    BY InitOut, OutStep, Invariance, PTL DEF Spec
  <1> QED BY <1>1, <1>2, Invariance, PTL

-----------------------------------------------------------------------------
\* The refinement.  A queue read off a ring is a list of n cars ...
LEMMA QueueIsList ==
  ASSUME NEW S, NEW n \in Nat, NEW f \in [1 .. n -> S]
  PROVE  f \in Seq(S) /\ Len(f) = n
  OBVIOUS

\* ... and two lists are equal when their elements are.
LEMMA SameList ==
  ASSUME NEW S, NEW s \in Seq(S), NEW t \in Seq(S), Len(s) = Len(t),
         \A i \in 1 .. Len(s) : s[i] = t[i]
  PROVE  s = t
  OBVIOUS

LEMMA AppendFacts ==
  ASSUME NEW S, NEW s \in Seq(S), NEW c \in S
  PROVE  /\ Append(s, c) \in Seq(S) /\ Len(Append(s, c)) = Len(s) + 1
         /\ \A i \in 1 .. Len(s) : Append(s, c)[i] = s[i]
         /\ Append(s, c)[Len(s) + 1] = c
  OBVIOUS

\* What is read off a ring from h on: n cars.
LEMMA RingList ==
  ASSUME NEW buf \in [Slot -> Car \cup {None}], NEW h \in Slot,
         NEW n \in Nat, n <= Capacity
  PROVE  /\ ReadOff(buf, h, n) \in Seq(Car \cup {None})
         /\ Len(ReadOff(buf, h, n)) = n
         /\ \A i \in 1 .. n : ReadOff(buf, h, n)[i] = buf[Around(h, i - 1)]
  <1> DEFINE q == ReadOff(buf, h, n)
  <1>1. \A i \in 1 .. n : Around(h, i - 1) \in Slot
    BY CapacityAssumption DEF Around, Slot
  <1>2. q \in [1 .. n -> Car \cup {None}]
    BY <1>1 DEF ReadOff
  <1>3. \A i \in 1 .. n : q[i] = buf[Around(h, i - 1)]
    BY DEF ReadOff
  <1> QED BY <1>2, <1>3, QueueIsList

\* add_car_to_lane puts a car at the end of the queue.
LEMMA QueueAdd ==
  ASSUME IInv, NEW l \in Dir, AddCar(l)
  PROVE  /\ Queue(l)' = Append(Queue(l), Head(in_cars[l]))
         /\ \A m \in Dir : m # l => Queue(m)' = Queue(m)
  <1> USE DEF IInv
  <1>1. /\ in_buf[l] < Capacity /\ in_cars[l] # <<>>
        /\ buffer' = [buffer EXCEPT ![l][tail[l]] = Head(in_cars[l])]
        /\ in_buf' = [in_buf EXCEPT ![l] = in_buf[l] + 1]
        /\ UNCHANGED head
    BY DEF AddCar, PutCar, ProgressInv
  <1> DEFINE c == Head(in_cars[l])
             n == in_buf[l]
  <1>2. /\ n \in Nat /\ n <= Capacity /\ head[l] \in Slot /\ c \in Car
        /\ buffer[l] \in [Slot -> Car \cup {None}]
    BY <1>1, LaneTypes, TailFacts, CapacityAssumption
  <1>3. /\ buffer'[l] = [buffer[l] EXCEPT ![tail[l]] = c]
        /\ in_buf'[l] = n + 1 /\ head'[l] = head[l]
    BY <1>1, LaneShapes
  <1>4. tail[l] = Around(head[l], n)
    BY DEF LaneIsFifo, Fifo
  <1> HIDE DEF c, n
  <1>5. \A i \in 1 .. n + 1 : Around(head[l], i - 1) \in Slot
    BY <1>1, <1>2, CapacityAssumption DEF Around, Slot, n
  <1>6. \A i \in 1 .. n : Around(head[l], i - 1) # tail[l]
    BY <1>1, <1>2, <1>4, CapacityAssumption DEF Around, Slot, n
  <1>7. /\ Queue(l) \in Seq(Car \cup {None}) /\ Len(Queue(l)) = n
        /\ \A i \in 1 .. n : Queue(l)[i] = buffer[l][Around(head[l], i - 1)]
    <2>1. Queue(l) = ReadOff(buffer[l], head[l], n)
      BY DEF Queue, n
    <2>2. n \in Nat /\ n <= Capacity
      BY <1>2 DEF n
    <2> QED BY <1>2, <2>1, <2>2, RingList
  <1>8. /\ Queue(l)' \in Seq(Car \cup {None}) /\ Len(Queue(l)') = n + 1
        /\ \A i \in 1 .. n + 1 :
             Queue(l)'[i] = buffer'[l][Around(head[l], i - 1)]
    <2>1. Queue(l)' = ReadOff(buffer'[l], head[l], n + 1)
      BY <1>3 DEF Queue
    <2>2. buffer'[l] \in [Slot -> Car \cup {None}] /\ n + 1 \in Nat /\ n + 1 <= Capacity
      BY <1>1, <1>2, <1>3, LaneTypes, CapacityAssumption DEF n
    <2> DEFINE ring == buffer'[l]
               more == n + 1
    <2>3. /\ Queue(l)' = ReadOff(ring, head[l], more) /\ head[l] \in Slot
          /\ ring \in [Slot -> Car \cup {None}] /\ more \in Nat /\ more <= Capacity
      BY <1>2, <2>1, <2>2
    <2> HIDE DEF ring, more
    <2>4. /\ Queue(l)' \in Seq(Car \cup {None}) /\ Len(Queue(l)') = more
          /\ \A i \in 1 .. more : Queue(l)'[i] = ring[Around(head[l], i - 1)]
      BY <2>3, RingList
    <2> QED BY <2>4 DEF ring, more
  <1>9. /\ Append(Queue(l), c) \in Seq(Car \cup {None})
        /\ Len(Append(Queue(l), c)) = n + 1
        /\ \A i \in 1 .. n : Append(Queue(l), c)[i] = Queue(l)[i]
        /\ Append(Queue(l), c)[n + 1] = c
    BY <1>2, <1>7, AppendFacts
  <1>10. ASSUME NEW i \in 1 .. n + 1
         PROVE  Queue(l)'[i] = Append(Queue(l), c)[i]
    <2>1. CASE i = n + 1
      <3>1. Around(head[l], i - 1) = tail[l]
        BY <1>2, <1>4, <2>1
      <3> QED BY <1>2, <1>3, <1>5, <1>8, <1>9, <2>1, <3>1
    <2>2. CASE i # n + 1
      <3>1. i \in 1 .. n
        BY <1>2, <2>2
      <3> QED BY <1>2, <1>3, <1>5, <1>6, <1>7, <1>8, <1>9, <3>1
    <2> QED BY <2>1, <2>2
  <1>11. Queue(l)' = Append(Queue(l), c)
    BY <1>8, <1>9, <1>10, SameList
  <1>12. ASSUME NEW m \in Dir, m # l PROVE Queue(m)' = Queue(m)
    <2>1. in_buf'[m] = in_buf[m] /\ buffer'[m] = buffer[m] /\ head'[m] = head[m]
      BY <1>1, <1>12, LaneShapes
    <2> QED BY <2>1 DEF Queue
  <1> QED BY <1>11, <1>12 DEF c

\* car_cross takes the first car of the queue.
LEMMA QueueTake ==
  ASSUME IInv, NEW l \in Dir, TakeCar(l)
  PROVE  /\ Queue(l) # <<>> /\ Head(Queue(l)) = buffer[l][head[l]]
         /\ Queue(l)' = Tail(Queue(l))
         /\ \A m \in Dir : m # l => Queue(m)' = Queue(m)
  <1> USE DEF IInv
  <1>1. /\ in_buf[l] # 0
        /\ in_buf' = [in_buf EXCEPT ![l] = in_buf[l] - 1]
        /\ head' = [head EXCEPT ![l] = Wrap(head[l] + 1)]
        /\ UNCHANGED buffer
    BY DEF TakeCar, GetCar
  <1> DEFINE n == in_buf[l]
  <1>2. /\ n \in Nat /\ n <= Capacity /\ head[l] \in Slot
        /\ buffer[l] \in [Slot -> Car \cup {None}]
    BY LaneTypes, CapacityAssumption
  <1>3. in_buf'[l] = n - 1 /\ head'[l] = Wrap(head[l] + 1)
    BY <1>1, LaneShapes
  <1> HIDE DEF n
  <1>4. /\ Queue(l) \in Seq(Car \cup {None}) /\ Len(Queue(l)) = n
        /\ \A i \in 1 .. n : Queue(l)[i] = buffer[l][Around(head[l], i - 1)]
    <2>1. Queue(l) = ReadOff(buffer[l], head[l], n)
      BY DEF Queue, n
    <2>2. n \in Nat /\ n <= Capacity
      BY <1>2 DEF n
    <2> QED BY <1>2, <2>1, <2>2, RingList
  <1>5. /\ Queue(l)' \in Seq(Car \cup {None}) /\ Len(Queue(l)') = n - 1
        /\ \A i \in 1 .. n - 1 :
             Queue(l)'[i] = buffer[l][Around(Wrap(head[l] + 1), i - 1)]
    <2>1. Queue(l)' = ReadOff(buffer[l], Wrap(head[l] + 1), n - 1)
      BY <1>1, <1>3 DEF Queue
    <2>2. Wrap(head[l] + 1) \in Slot
      BY <1>2, WrapInSlot
    <2>3. n - 1 \in Nat /\ n - 1 <= Capacity
      BY <1>1, <1>2, CapacityAssumption DEF n
    <2> QED BY <1>2, <2>1, <2>2, <2>3, RingList
  <1>6. n > 0 /\ Queue(l) # <<>>
    BY <1>1, <1>2, <1>4 DEF n
  <1>7. /\ Head(Queue(l)) = Queue(l)[1]
        /\ Tail(Queue(l)) \in Seq(Car \cup {None})
        /\ Len(Tail(Queue(l))) = n - 1
        /\ \A i \in 1 .. n - 1 : Tail(Queue(l))[i] = Queue(l)[i + 1]
    BY <1>4, <1>6, TailFacts
  <1>8. Around(head[l], 1 - 1) = head[l] /\ 1 \in 1 .. n
    BY <1>2, <1>6, CapacityAssumption DEF Around, Slot
  <1>9. \A i \in 1 .. n - 1 :
          /\ Around(Wrap(head[l] + 1), i - 1) = Around(head[l], (i + 1) - 1)
          /\ i + 1 \in 1 .. n
    BY <1>2, CapacityAssumption DEF Around, Wrap, Slot
  <1>10. Queue(l)' = Tail(Queue(l))
    <2>1. \A i \in 1 .. n - 1 : Queue(l)'[i] = Tail(Queue(l))[i]
      BY <1>4, <1>5, <1>7, <1>9
    <2> QED BY <1>5, <1>7, <2>1, SameList
  <1>11. ASSUME NEW m \in Dir, m # l PROVE Queue(m)' = Queue(m)
    <2>1. in_buf'[m] = in_buf[m] /\ buffer'[m] = buffer[m] /\ head'[m] = head[m]
      BY <1>1, <1>11, LaneShapes
    <2> QED BY <2>1 DEF Queue
  <1> QED BY <1>4, <1>6, <1>7, <1>8, <1>10, <1>11

\* Who is in the intersection holds the quadrants of its way and no others.
LEMMA ClaimIsRoute ==
  ASSUME IInv, NEW l \in Dir, InIntersection(l)
  PROVE  /\ lane_car[l] \in Car
         /\ Claim(l) = Route(lane_car[l]) /\ Claim(l) # {}
  <1>1. lane_car[l] \in Car
    BY DEF IInv, CarInHandInv, InIntersection, Crossing
  <1>2. Claim(l) = Path(l)
    BY DEF IInv, QuadInv, Claim
  <1> QED BY <1>1, <1>2, PathIsRoute DEF Path

\* The program starts as the Intersection does.
LEMMA RefinesInit == Init => Abstract!Init
  <1> SUFFICES ASSUME Init PROVE Abstract!Init
    OBVIOUS
  <1>1. \A l \in Dir : Front(l) = None /\ Claim(l) = {}
    BY DEF Init, Front, Claim, InIntersection
  <1>2. ASSUME NEW l \in Dir PROVE Queue(l) = <<>>
    <2>1. /\ in_buf[l] = 0 /\ buffer[l] \in [Slot -> Car \cup {None}]
          /\ head[l] \in Slot
      BY InitTypeOK, LaneTypes DEF Init
    <2>2. Queue(l) \in Seq(Car \cup {None}) /\ Len(Queue(l)) = 0
      BY <2>1, RingList, CapacityAssumption DEF Queue
    <2> QED BY <2>2
  <1> QED BY <1>1, <1>2 DEF Init, Abstract!Init, Abstract!Dir, Dir

\* A step nobody outside can see.
LEMMA Unseen ==
  ASSUME UNCHANGED <<main, in_cars, buffer, head, in_buf, out_cars>>,
         \A l \in Dir : Front(l)' = Front(l) /\ Claim(l)' = Claim(l)
  PROVE  UNCHANGED Abstract!vars
  <1>1. \A l \in Dir : Queue(l)' = Queue(l)
    BY DEF Queue
  <1> QED BY <1>1 DEF Abstract!vars

\* The same of a step that changes nothing but phases before and after.
LEMMA SameView ==
  ASSUME UNCHANGED <<quad, lane_car>>, NEW l \in Dir,
         (cpc[l] = "unquad") <=> (cpc'[l] = "unquad"),
         InIntersection(l) <=> InIntersection(l)'
  PROVE  Front(l)' = Front(l) /\ Claim(l)' = Claim(l)
  BY DEF Front, Claim, Held

LEMMA RefinesMain ==
  ASSUME IInv, Main
  PROVE  Abstract!Next \/ UNCHANGED Abstract!vars
  <1> USE DEF IInv
  <1>1. CASE ReadLine
    <2> DEFINE c == Head(file)
    <2>1. file \in Seq(Car) /\ file # <<>> /\ main = "parse"
      BY <1>1 DEF ReadLine, TypeOK
    <2>2. c \in Car
      BY <2>1, TailFacts
    <2>3. /\ in_cars' = [in_cars EXCEPT ![c.in_dir] = <<c>> \o @]
          /\ UNCHANGED <<main, buffer, head, in_buf, out_cars, quad, lane_car, cpc>>
      BY <1>1 DEF ReadLine
    <2>4. \A l \in Dir : Queue(l)' = Queue(l) /\ Front(l)' = Front(l) /\ Claim(l)' = Claim(l)
      BY <2>3 DEF Queue, Front, Claim, InIntersection, Held
    <2> HIDE DEF c
    <2>5. Abstract!Schedule(c)
      BY <2>1, <2>3, <2>4 DEF Abstract!Schedule
    <2> QED BY <2>2, <2>5 DEF Abstract!Next, Abstract!Car, Car, Abstract!Dir, Dir
  <1>2. CASE StartThreads
    <2>1. /\ main = "parse" /\ main' = "join" /\ cpc' = [l \in Dir |-> "loop"]
          /\ UNCHANGED <<in_cars, buffer, head, in_buf, out_cars, quad, lane_car>>
      BY <1>2 DEF StartThreads, lane_vars
    <2>2. ASSUME NEW l \in Dir
          PROVE  Queue(l)' = Queue(l) /\ Front(l)' = Front(l) /\ Claim(l)' = Claim(l)
      <3>1. cpc[l] = "unborn" /\ cpc'[l] = "loop"
        BY <2>1 DEF PhaseInv
      <3> QED BY <2>1, <3>1, SameView DEF Queue, InIntersection
    <2>3. Abstract!Open
      BY <2>1, <2>2 DEF Abstract!Open
    <2> QED BY <2>3 DEF Abstract!Next
  <1>3. CASE JoinAndVerify
    <2>1. /\ main = "join" /\ main' = "verified"
          /\ UNCHANGED <<in_cars, buffer, head, in_buf, out_cars, quad, lane_car, cpc>>
      BY <1>3 DEF JoinAndVerify, lane_vars
    <2>2. \A l \in Dir : Queue(l)' = Queue(l) /\ Front(l)' = Front(l) /\ Claim(l)' = Claim(l)
      BY <2>1 DEF Queue, Front, Claim, InIntersection, Held
    <2> QED BY <2>1, <2>2 DEF Abstract!vars
  <1> QED BY <1>1, <1>2, <1>3 DEF Main

\* A broadcast is not visible.
LEMMA WakeUnseen ==
  ASSUME TypeOK, UNCHANGED <<quad, lane_car>>, NEW l \in Dir,
         cpc' = WakeIfWaiting(cpc, l)
  PROVE  \A m \in Dir : Front(m)' = Front(m) /\ Claim(m)' = Claim(m)
  BY Shapes DEF WakeIfWaiting, Front, Claim, InIntersection, Held

\* The arrival thread: AddCar is Arrive, the rest is not visible.
LEMMA RefinesArrive ==
  ASSUME IInv, NEW l \in Dir, car_arrive(l)
  PROVE  Abstract!Next \/ UNCHANGED Abstract!vars
  <1>1. CASE ArriveLoop(l) \/ ArriveLock(l) \/ ArriveWait(l)
    <2>1. UNCHANGED <<main, lane_vars, cpc, quad, lane_car>>
      BY <1>1 DEF ArriveLoop, ArriveLock, ArriveWait
    <2> QED
      BY <2>1, Unseen DEF lane_vars, Front, Claim, InIntersection, Held
  <1>2. CASE AddCar(l)
    <2>1. /\ apc[l] = "add" /\ in_buf[l] < Capacity
          /\ in_cars' = [in_cars EXCEPT ![l] = Tail(@)]
          /\ cpc' = WakeIfWaiting(cpc, l)
          /\ UNCHANGED <<main, out_cars, quad, lane_car>>
      BY <1>2 DEF AddCar, PutCar
    <2>2. main # "parse" /\ in_cars[l] # <<>>
      BY <2>1 DEF IInv, PhaseInv, ProgressInv
    <2>3. \A m \in Dir : Front(m)' = Front(m) /\ Claim(m)' = Claim(m)
      BY <2>1, WakeUnseen DEF IInv
    <2>4. /\ Queue(l)' = Append(Queue(l), Head(in_cars[l]))
          /\ \A m \in Dir : m # l => Queue(m)' = Queue(m)
      BY <1>2, QueueAdd
    <2>5. Len(Queue(l)) = in_buf[l]
      BY LaneTypes, RingList, CapacityAssumption DEF IInv, Queue
    <2>6. Abstract!Arrive(l)
      BY <2>1, <2>2, <2>3, <2>4, <2>5 DEF Abstract!Arrive
    <2> QED BY <2>6 DEF Abstract!Next, Abstract!Dir, Dir
  <1> QED BY <1>1, <1>2 DEF car_arrive

\* car_cross up to the quadrants: TakeCar is Advance.
LEMMA RefinesTake ==
  ASSUME IInv, NEW l \in Dir, TakeCar(l)
  PROVE  Abstract!Next
  <1>1. /\ cpc[l] = "take" /\ cpc' = [cpc EXCEPT ![l] = "quads"]
        /\ lane_car' = [lane_car EXCEPT ![l] = buffer[l][head[l]]]
        /\ UNCHANGED <<main, in_cars, out_cars, quad>>
    BY DEF TakeCar, GetCar
  <1>2. lane_car[l] = None
    BY <1>1 DEF IInv, CarInHandInv, Crossing
  <1>3. /\ Queue(l) # <<>> /\ Head(Queue(l)) = buffer[l][head[l]]
        /\ Queue(l)' = Tail(Queue(l))
        /\ \A m \in Dir : m # l => Queue(m)' = Queue(m)
    BY QueueTake
  <1>4. /\ cpc'[l] = "quads" /\ lane_car'[l] = Head(Queue(l))
        /\ \A m \in Dir : m # l => cpc'[m] = cpc[m] /\ lane_car'[m] = lane_car[m]
    BY <1>1, <1>3, Shapes DEF IInv
  <1>5. /\ Front(l) = None /\ Front(l)' = Head(Queue(l))
        /\ \A m \in Dir : m # l => Front(m)' = Front(m)
    BY <1>1, <1>2, <1>4 DEF Front
  <1>6. \A m \in Dir : Claim(m)' = Claim(m)
    BY <1>1, <1>4 DEF Claim, InIntersection, Held
  <1>7. Abstract!Advance(l)
    BY <1>1, <1>3, <1>5, <1>6 DEF Abstract!Advance
  <1> QED BY <1>7 DEF Abstract!Next, Abstract!Dir, Dir

\* The last quadrant is the entrance: LockQuad is Enter.
LEMMA RefinesLock ==
  ASSUME IInv, NEW l \in Dir, LockQuad(l)
  PROVE  Abstract!Next \/ UNCHANGED Abstract!vars
  <1> USE DEF IInv
  <1> DEFINE q == NextQuad(l)
  <1>1. /\ cpc[l] = "quads" /\ quad[q] = None /\ quad' = [quad EXCEPT ![q] = l]
        /\ cpc' = [cpc EXCEPT ![l] = IF ToLock(l) = {q} THEN "outlock" ELSE "quads"]
        /\ UNCHANGED <<main, lane_vars, lane_car>>
    BY DEF LockQuad
  <1>2. lane_car[l] \in Car /\ ToLock(l) # {} /\ Held(l) \subseteq Path(l)
    BY <1>1 DEF CarInHandInv, QuadInv, Crossing
  <1>3. q \in ToLock(l) /\ q \in Quad
    BY <1>2, NextQuadType
  <1> HIDE DEF q
  <1>4. /\ cpc'[l] = IF ToLock(l) = {q} THEN "outlock" ELSE "quads"
        /\ Held(l)' = Held(l) \cup {q}
        /\ \A m \in Dir : m # l => cpc'[m] = cpc[m] /\ Held(m)' = Held(m)
    BY <1>1, <1>3, NoneAssumption, Shapes DEF Held
  <1>5. \A m \in Dir : Front(m)' = Front(m) /\ Queue(m)' = Queue(m)
    BY <1>1, <1>4 DEF Front, Queue, lane_vars
  <1>6. \A m \in Dir : m # l => Claim(m)' = Claim(m)
    BY <1>4 DEF Claim, InIntersection
  <1>7. Claim(l) = {} /\ Front(l) = lane_car[l]
    BY <1>1 DEF Claim, InIntersection, Front
  <1>8. CASE ToLock(l) # {q}
    <2>1. Claim(l)' = {}
      BY <1>4, <1>8 DEF Claim, InIntersection
    <2> QED BY <1>1, <1>5, <1>6, <1>7, <2>1, Unseen DEF lane_vars
  <1>9. CASE ToLock(l) = {q}
    <2>1. Held(l)' = Path(l) /\ Claim(l)' = Path(l)
      BY <1>2, <1>4, <1>9 DEF ToLock, Claim, InIntersection
    <2>2. Path(l) = Route(Front(l)) /\ Front(l) # None
      BY <1>2, <1>7, PathIsRoute, NoCarAssumption DEF Path
    <2>3. ASSUME NEW m \in Dir PROVE Claim(m) \cap Path(l) = {}
      <3>1. CASE m = l
        BY <1>7, <3>1
      <3>2. CASE m # l
        <4>1. Held(m)' \cap Held(l)' = {}
          BY <3>2 DEF Held
        <4> QED BY <1>4, <2>1, <3>2, <4>1 DEF Claim
      <3> QED BY <3>1, <3>2
    <2>4. Abstract!Route(Front(l)) = Route(Front(l))
      BY DEF Abstract!Route, Route, Abstract!Quad, Quad
    <2>5. Abstract!Enter(l)
      BY <1>1, <1>5, <1>6, <1>7, <2>1, <2>2, <2>3, <2>4
      DEF Abstract!Enter, Abstract!Dir, Dir, lane_vars
    <2> QED BY <2>5 DEF Abstract!Next, Abstract!Dir, Dir
  <1> QED BY <1>8, <1>9

\* Joining out_cars is the exit: PassCar is Leave.
LEMMA RefinesPass ==
  ASSUME IInv, NEW l \in Dir, PassCar(l)
  PROVE  Abstract!Next
  <1>1. /\ cpc[l] = "out" /\ cpc' = [cpc EXCEPT ![l] = "unquad"]
        /\ out_cars' = [out_cars EXCEPT ![lane_car[l].out_dir] = <<lane_car[l]>> \o @]
        /\ UNCHANGED <<main, in_cars, buffer, head, in_buf, quad, lane_car>>
    BY DEF PassCar
  <1>2. Claim(l) # {} /\ Front(l) = lane_car[l]
    BY <1>1, ClaimIsRoute DEF InIntersection, Front
  <1>3. /\ cpc'[l] = "unquad"
        /\ \A m \in Dir : m # l => cpc'[m] = cpc[m]
    BY <1>1, Shapes DEF IInv
  <1>4. /\ Front(l)' = None /\ Claim(l)' = {}
        /\ \A m \in Dir : m # l => Front(m)' = Front(m) /\ Claim(m)' = Claim(m)
        /\ \A m \in Dir : Queue(m)' = Queue(m)
    BY <1>1, <1>3 DEF Front, Claim, InIntersection, Held, Queue
  <1>5. Abstract!Leave(l)
    BY <1>1, <1>2, <1>4 DEF Abstract!Leave
  <1> QED BY <1>5 DEF Abstract!Next, Abstract!Dir, Dir

\* Giving a quadrant back is not visible: the car has left.
LEMMA RefinesUnlock ==
  ASSUME IInv, NEW l \in Dir, UnlockQuad(l)
  PROVE  UNCHANGED Abstract!vars
  <1> USE DEF IInv
  <1> DEFINE q == NextRelease(l)
  <1>1. /\ cpc[l] = "unquad" /\ quad' = [quad EXCEPT ![q] = None]
        /\ IF Held(l) = {q} THEN /\ cpc' = [cpc EXCEPT ![l] = "loop"]
                                 /\ lane_car' = [lane_car EXCEPT ![l] = None]
                            ELSE UNCHANGED <<cpc, lane_car>>
        /\ UNCHANGED <<main, lane_vars>>
    BY DEF UnlockQuad
  <1>2. q \in Held(l) /\ q \in Quad
    BY <1>1, NextReleaseType DEF QuadInv
  <1> HIDE DEF q
  <1>3. /\ cpc'[l] \in {"unquad", "loop"} /\ (cpc'[l] = "loop" => lane_car'[l] = None)
        /\ \A m \in Dir : m # l => /\ cpc'[m] = cpc[m] /\ lane_car'[m] = lane_car[m]
                                   /\ Held(m)' = Held(m)
    BY <1>1, <1>2, NoneAssumption, Shapes DEF Held
  <1>4. \A m \in Dir : Front(m)' = Front(m) /\ Claim(m)' = Claim(m)
    BY <1>1, <1>3 DEF Front, Claim, InIntersection
  <1> QED BY <1>1, <1>4, Unseen DEF lane_vars

LEMMA RefinesCross ==
  ASSUME IInv, NEW l \in Dir, car_cross(l)
  PROVE  Abstract!Next \/ UNCHANGED Abstract!vars
  <1>1. CASE CrossLoop(l) \/ CrossLock(l) \/ CrossWait(l) \/ LockOutLane(l)
    <2>1. /\ UNCHANGED <<main, lane_vars, quad, lane_car>>
          /\ \/ /\ cpc[l] \in {"loop", "lock", "take"}
                /\ cpc'[l] \in {"lock", "done", "take", "wait"}
             \/ cpc[l] = "outlock" /\ cpc'[l] = "out"
          /\ \A m \in Dir : m # l => cpc'[m] = cpc[m]
      BY <1>1, Shapes DEF CrossLoop, CrossLock, CrossWait, LockOutLane, IInv
    <2>2. ASSUME NEW m \in Dir PROVE Front(m)' = Front(m) /\ Claim(m)' = Claim(m)
      BY <2>1, SameView DEF InIntersection
    <2> QED BY <2>1, <2>2, Unseen DEF lane_vars
  <1>2. CASE TakeCar(l)
    BY <1>2, RefinesTake
  <1>3. CASE LockQuad(l)
    BY <1>3, RefinesLock
  <1>4. CASE PassCar(l)
    BY <1>4, RefinesPass
  <1>5. CASE UnlockQuad(l)
    BY <1>5, RefinesUnlock
  <1> QED BY <1>1, <1>2, <1>3, <1>4, <1>5 DEF car_cross

LEMMA RefinesStep ==
  ASSUME IInv, [Next]_vars
  PROVE  [Abstract!Next]_(Abstract!vars)
  <1>1. ASSUME NEW l \in Dir, SpuriousWake(l) PROVE UNCHANGED Abstract!vars
    <2>1. /\ UNCHANGED <<main, lane_vars, quad, lane_car>>
          /\ UNCHANGED cpc \/ cpc' = WakeIfWaiting(cpc, l)
      BY <1>1 DEF SpuriousWake
    <2>2. \A m \in Dir : Front(m)' = Front(m) /\ Claim(m)' = Claim(m)
      BY <2>1, WakeUnseen DEF Front, Claim, InIntersection, Held, IInv
    <2> QED BY <2>1, <2>2, Unseen DEF lane_vars
  <1>2. CASE UNCHANGED vars
    <2>1. UNCHANGED <<main, lane_vars, quad, lane_car, cpc>>
      BY <1>2 DEF vars
    <2> QED BY <2>1, Unseen DEF lane_vars, Front, Claim, InIntersection, Held
  <1> QED
    BY <1>1, <1>2, RefinesMain, RefinesArrive, RefinesCross DEF Next, Exited

\* The eight threads implement the Intersection: every step is one of its
\* steps or invisible, for every schedule, capacity and spurious wake-ups.
THEOREM Refinement == Spec => ImplementsIntersection
  BY RefinesInit, RefinesStep, Invariance, PTL
  DEF Spec, ImplementsIntersection, Abstract!Spec
=============================================================================
