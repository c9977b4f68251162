--------------------------- MODULE PathSortProofs ---------------------------
(* The selection sort is right for every list of integers of every length. *)
EXTENDS PathSort, TLAPS

\* IInv at the start.
LEMMA InitInv == Init => IInv
  <1> SUFFICES ASSUME Init PROVE IInv
    OBVIOUS
  <1>1. TypeOK
    BY NAssumption, ListsAssumption DEF Init, TypeOK, Index
  <1>2. SortInv
    BY DEF Init, SortInv, Index
  <1>3. Rearranged
    <2> DEFINE id == [a \in Index |-> a]
    <2>1. id \in [Index -> Index] /\ Permutes(id)
      BY DEF Permutes
    <2>2. \A a \in Index : list[a] = given[id[a]]
      BY DEF Init
    <2> QED BY <2>1, <2>2 DEF Rearranged
  <1> QED BY <1>1, <1>2, <1>3 DEF IInv, MarkedInv, Init

\* The indexes stay inside the list.
LEMMA TypeStep == ASSUME IInv, [Next]_vars PROVE TypeOK'
  <1> USE NAssumption DEF IInv, TypeOK, Index
  <1>1. CASE Outer
    BY <1>1 DEF Outer
  <1>2. CASE Compare
    BY <1>2 DEF Compare
  <1>3. CASE Swap
    <2>1. list' \in [Index -> Int]
      BY <1>3 DEF Swap
    <2> QED BY <1>3, <2>1 DEF Swap
  <1>4. CASE Mark
    BY <1>4 DEF Mark, Unused
  <1>5. CASE UNCHANGED vars
    BY <1>5 DEF vars
  <1> QED BY <1>1, <1>2, <1>3, <1>4, <1>5 DEF Next, Returned

\* Exchanging two places of a permutation leaves a permutation.
LEMMA SwapPermutes ==
  ASSUME NEW p \in [Index -> Index], Permutes(p), NEW x \in Index, NEW y \in Index
  PROVE  LET r == [p EXCEPT ![x] = p[y], ![y] = p[x]]
         IN  r \in [Index -> Index] /\ Permutes(r)
  <1> DEFINE r == [p EXCEPT ![x] = p[y], ![y] = p[x]]
  <1>1. r \in [Index -> Index]
    OBVIOUS
  <1>2. \A a \in Index : r[a] = IF a = y THEN p[x] ELSE IF a = x THEN p[y] ELSE p[a]
    OBVIOUS
  <1>3. \A a, b \in Index : r[a] = r[b] => a = b
    BY <1>2 DEF Permutes
  <1>4. \A a \in Index : \E b \in Index : r[b] = a
    <2> SUFFICES ASSUME NEW a \in Index PROVE \E b \in Index : r[b] = a
      OBVIOUS
    <2>1. PICK b \in Index : p[b] = a
      BY DEF Permutes
    <2> QED BY <2>1, <1>2
  <1> QED BY <1>1, <1>3, <1>4 DEF Permutes

\* A step exchanges two places or none.
LEMMA RearrangedStep == ASSUME IInv, [Next]_vars PROVE Rearranged'
  <1>1. CASE Swap
    <2>1. PICK p \in [Index -> Index] :
            Permutes(p) /\ \A a \in Index : list[a] = given[p[a]]
      BY <1>1 DEF Swap, IInv, Rearranged
    <2>2. i \in Index /\ min_index \in Index /\ list \in [Index -> Int]
      BY DEF IInv, TypeOK
    <2> DEFINE r == [p EXCEPT ![i] = p[min_index], ![min_index] = p[i]]
    <2>3. r \in [Index -> Index] /\ Permutes(r)
      BY <2>1, <2>2, SwapPermutes
    <2>4. \A a \in Index : list'[a] = given'[r[a]]
      BY <1>1, <2>1, <2>2 DEF Swap
    <2> QED BY <2>3, <2>4 DEF Rearranged
  <1>2. CASE pc' = "done"
    BY <1>2 DEF Rearranged
  <1>3. CASE UNCHANGED <<list, given>> /\ (pc' # "done" => pc # "done")
    BY <1>3 DEF IInv, Rearranged, Permutes
  <1> QED
    BY <1>1, <1>2, <1>3 DEF Next, Outer, Compare, Mark, Returned, vars

\* After pass i the i least are in their places.
LEMMA SortStep == ASSUME IInv, [Next]_vars PROVE SortInv'
  <1> USE NAssumption DEF IInv, TypeOK, Index
  <1>1. CASE Outer
    BY <1>1 DEF Outer, SortInv
  <1>2. CASE Compare
    <2>1. ASSUME NEW k \in Index, i <= k, k < j + 1
          PROVE  list[min_index'] <= list[k]
      <3>1. list[k] \in Int /\ list[min_index] \in Int /\ list[j] \in Int
        BY <1>2 DEF Compare
      <3>2. k < j \/ k = j
        BY <2>1
      <3> QED BY <1>2, <2>1, <3>1, <3>2 DEF Compare, SortInv
    <2> QED BY <1>2, <2>1 DEF Compare, SortInv
  <1>3. CASE Swap
    <2>1. /\ i < N - 1 /\ i <= min_index /\ min_index < N /\ min_index \in Index
          /\ list \in [Index -> Int] /\ i' = i + 1 /\ pc' = "outer"
          /\ \A k \in Index : i <= k => list[min_index] <= list[k]
          /\ \A a, b \in Index : a < i /\ a < b => list[a] <= list[b]
      BY <1>3 DEF Swap, SortInv
    <2>2. \A a \in Index :
            list'[a] = IF a = min_index THEN list[i]
                       ELSE IF a = i THEN list[min_index] ELSE list[a]
      BY <1>3, <2>1 DEF Swap
    <2>3. ASSUME NEW a \in Index, NEW b \in Index, a < i + 1, a < b
          PROVE  list'[a] <= list'[b]
      <3>1. CASE a < i
        BY <2>1, <2>2, <2>3, <3>1, SMTT(30)
      <3>2. CASE a = i
        <4>1. list'[a] = list[min_index]
          BY <2>1, <2>2, <3>2
        <4>2. \E k \in Index : i <= k /\ list'[b] = list[k]
          BY <2>1, <2>2, <2>3, <3>2
        <4> QED BY <2>1, <4>1, <4>2
      <3> QED BY <2>3, <3>1, <3>2
    <2> QED BY <2>1, <2>3 DEF SortInv
  <1>4. CASE Mark
    BY <1>4 DEF Mark, SortInv
  <1>5. CASE UNCHANGED vars
    BY <1>5 DEF vars, SortInv
  <1> QED BY <1>1, <1>2, <1>3, <1>4, <1>5 DEF Next, Returned

\* The last loop finds the list in order.
LEMMA MarkedStep == ASSUME IInv, [Next]_vars PROVE MarkedInv'
  <1>1. CASE Mark
    <2>1. PICK p \in [Index -> Index] :
            Permutes(p) /\ \A a \in Index : list[a] = given[p[a]]
      BY <1>1 DEF Mark, IInv, Rearranged
    <2>2. \A a, b \in Index : a < b => list[a] <= list[b]
      BY <1>1, NAssumption DEF Mark, IInv, SortInv, TypeOK, Index
    <2>3. /\ \A a \in Index : list'[a] = IF list[a] = Unused THEN -1 ELSE list[a]
          /\ given' = given
      BY <1>1 DEF Mark
    <2> QED BY <2>1, <2>2, <2>3 DEF MarkedInv
  <1>2. CASE UNCHANGED vars
    BY <1>2 DEF IInv, MarkedInv, Permutes, vars
  <1>3. CASE Outer \/ Compare \/ Swap
    BY <1>3 DEF Outer, Compare, Swap, MarkedInv
  <1> QED BY <1>1, <1>2, <1>3 DEF Next, Returned

\* IInv, the loop invariant of both loops, holds at every step.
THEOREM Invariance == Spec => []IInv
  <1>1. IInv /\ [Next]_vars => IInv'
    BY TypeStep, RearrangedStep, SortStep, MarkedStep DEF IInv
  <1> QED BY InitInv, <1>1, PTL DEF Spec

\* When the loops of sort_increasing_order end, the list is in increasing
\* order, whatever it held and however long it is, and at every step it is a
\* rearrangement of the list that came.
THEOREM SortsEveryList == Spec => []Sorted
  <1>1. IInv => Increasing
    BY NAssumption DEF IInv, TypeOK, SortInv, Increasing, Index
  <1>2. IInv => Sorted
    BY <1>1 DEF IInv, Sorted
  <1> QED BY <1>2, Invariance, PTL

\* The list of a turn holds the quadrants of the way once, and filler.
LEMMA PathListFacts ==
  ASSUME NEW in \in Dir, NEW out \in Dir
  PROVE  LET way == Route([in_dir |-> in, out_dir |-> out])
         IN  /\ way \subseteq Quad
             /\ PathList(in, out) \in [0 .. 3 -> way \cup {Unused}]
             /\ \A q \in way : \E k \in 0 .. 3 : PathList(in, out)[k] = q
             /\ \A a, b \in 0 .. 3 :
                  PathList(in, out)[a] = PathList(in, out)[b] =>
                    a = b \/ PathList(in, out)[a] = Unused
  <1>1. /\ in = 0 \/ in = 1 \/ in = 2 \/ in = 3
        /\ out = 0 \/ out = 1 \/ out = 2 \/ out = 3
    BY DEF Dir
  <1>2. CASE in = 0
    BY <1>1, <1>2 DEF PathList, Route, Quad, Unused
  <1>3. CASE in = 1
    BY <1>1, <1>3 DEF PathList, Route, Quad, Unused
  <1>4. CASE in = 2
    BY <1>1, <1>4 DEF PathList, Route, Quad, Unused
  <1>5. CASE in = 3
    BY <1>1, <1>5 DEF PathList, Route, Quad, Unused
  <1> QED BY <1>1, <1>2, <1>3, <1>4, <1>5

\* What compute_path returns is what pass_car_through_quad needs, for each of
\* the sixteen turns: the quadrants of the way in locking order, then -1.
THEOREM PathsAreReady == Spec => []ReadyToLock
  <1>1. ASSUME IInv PROVE ReadyToLock
    <2> SUFFICES ASSUME pc = "done", NEW in \in Dir, NEW out \in Dir,
                        given = PathList(in, out)
                 PROVE  LET way == Route([in_dir |-> in, out_dir |-> out])
                        IN  \E n \in 0 .. N :
                              /\ \A k \in Index :
                                   IF k < n THEN list[k] \in way ELSE list[k] = -1
                              /\ \A a, b \in Index : a < b /\ b < n => list[a] < list[b]
                              /\ \A q \in way : \E k \in Index : list[k] = q
      BY DEF ReadyToLock
    <2> DEFINE way == Route([in_dir |-> in, out_dir |-> out])
    <2>1. PICK p \in [Index -> Index] :
            /\ Permutes(p)
            /\ \A a, b \in Index : a < b => given[p[a]] <= given[p[b]]
            /\ \A a \in Index :
                 list[a] = IF given[p[a]] = Unused THEN -1 ELSE given[p[a]]
      BY <1>1 DEF IInv, MarkedInv
    <2>2. /\ way \subseteq Quad
          /\ given \in [0 .. 3 -> way \cup {Unused}]
          /\ \A q \in way : \E k \in 0 .. 3 : given[k] = q
          /\ \A a, b \in 0 .. 3 : given[a] = given[b] => a = b \/ given[a] = Unused
      BY PathListFacts
    <2> HIDE DEF way
    <2>3. Index = 0 .. 3 /\ N = 4
      <3>1. DOMAIN given = 0 .. 3 /\ DOMAIN given = 0 .. N - 1
        BY <1>1, <2>2 DEF IInv, TypeOK, Index
      <3>2. 3 \in 0 .. N - 1 /\ 4 \notin 0 .. N - 1
        BY <3>1
      <3> QED BY <3>1, <3>2, NAssumption DEF Index
    <2> DEFINE mid == [a \in Index |-> given[p[a]]]
    <2>4. /\ mid \in [0 .. 3 -> way \cup {Unused}]
          /\ \A a, b \in 0 .. 3 : a < b => mid[a] <= mid[b]
          /\ \A a \in 0 .. 3 : list[a] = IF mid[a] = Unused THEN -1 ELSE mid[a]
      BY <2>1, <2>2, <2>3
    <2>5. \A q \in way : \E k \in 0 .. 3 : mid[k] = q
      BY <2>1, <2>2, <2>3 DEF Permutes
    <2>6. \A a, b \in 0 .. 3 : mid[a] = mid[b] => a = b \/ mid[a] = Unused
      BY <2>1, <2>2, <2>3 DEF Permutes
    <2> HIDE DEF mid
    <2>7. \A a \in 0 .. 3 : mid[a] \in Int /\ mid[a] <= Unused /\ (mid[a] # Unused => mid[a] \in way)
      <3> TAKE a \in 0 .. 3
      <3>1. mid[a] \in way \cup {Unused}
        BY <2>4
      <3>2. CASE mid[a] = Unused
        BY <3>2 DEF Unused
      <3>3. CASE mid[a] \in way
        <4>1. mid[a] \in Quad
          BY <3>3, <2>2
        <4> QED BY <3>3, <4>1 DEF Quad, Unused
      <3> QED BY <3>1, <3>2, <3>3
    <2>8. PICK n \in 0 .. 4 : \A k \in 0 .. 3 : k < n <=> mid[k] # Unused
      <3>1. \A a, b \in 0 .. 3 : a < b /\ mid[a] = Unused => mid[b] = Unused
        BY <2>4, <2>7 DEF Unused
      <3>2. CASE mid[0] = Unused
        BY <3>1, <3>2
      <3>3. CASE mid[0] # Unused /\ mid[1] = Unused
        BY <3>1, <3>3
      <3>4. CASE mid[0] # Unused /\ mid[1] # Unused /\ mid[2] = Unused
        BY <3>1, <3>4
      <3>5. CASE mid[0] # Unused /\ mid[1] # Unused /\ mid[2] # Unused /\ mid[3] = Unused
        BY <3>1, <3>5
      <3>6. CASE mid[0] # Unused /\ mid[1] # Unused /\ mid[2] # Unused /\ mid[3] # Unused
        BY <3>6
      <3> QED BY <3>2, <3>3, <3>4, <3>5, <3>6
    <2>9. /\ \A k \in 0 .. 3 : IF k < n THEN list[k] \in way ELSE list[k] = -1
          /\ \A k \in 0 .. 3 : k < n => list[k] = mid[k]
      BY <2>4, <2>7, <2>8
    <2>10. ASSUME NEW a \in 0 .. 3, NEW b \in 0 .. 3, a < b, b < n
           PROVE  list[a] < list[b]
      BY <2>4, <2>6, <2>7, <2>8, <2>9, <2>10
    <2>11. ASSUME NEW q \in way PROVE \E k \in 0 .. 3 : list[k] = q
      BY <2>2, <2>4, <2>5, <2>11 DEF Quad, Unused
    <2> QED BY <2>3, <2>9, <2>10, <2>11 DEF way
  <1> QED BY <1>1, Invariance, PTL
=============================================================================
