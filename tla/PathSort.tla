------------------------------ MODULE PathSort ------------------------------
(***************************************************************************)
(* sort_increasing_order of cars.c, the selection sort that puts a car's   *)
(* quadrants in locking order, one comparison or exchange a step, and the  *)
(* lists compute_path hands to it.                                         *)
(***************************************************************************)
EXTENDS Roads

CONSTANTS
  N,        \* the length of the list: 4 in compute_path
  Lists     \* the lists to sort

Unused == 10              \* compute_path's filler
Index  == 0 .. N - 1

ASSUME NAssumption     == N \in Nat \ {0}
ASSUME ListsAssumption == Lists \subseteq [Index -> Int]

\* compute_path before it sorts: the quadrants in driving order, then filler.
PathList(in_dir, out_dir) ==
  LET in == (in_dir + 1) % 4
      length == IF in = out_dir THEN 1
                ELSE IF out_dir = (in + 1) % 4 THEN 2
                ELSE IF in % 2 = out_dir % 2 THEN 3
                ELSE 4
  IN  [k \in 0 .. 3 |-> IF k < length THEN (in + k) % 4 ELSE Unused]

VARIABLES
  list,        \* unsorted_lst
  i, j, min_index,
  pc,          \* "outer", "inner", "done"
  given        \* history: the list as it came

vars == <<list, i, j, min_index, pc, given>>

Init ==
  /\ list \in Lists
  /\ given = list
  /\ i = 0 /\ j = 0 /\ min_index = 0
  /\ pc = "outer"

Outer ==
  /\ pc = "outer"
  /\ i < N - 1
  /\ min_index' = i
  /\ j' = i + 1
  /\ pc' = "inner"
  /\ UNCHANGED <<list, i, given>>

\* Mutant: the scan stops one short of the end of the list.
CompareShort ==
  /\ pc = "inner"
  /\ j < N
  /\ min_index' = IF list[j] < list[min_index] /\ j < N - 1 THEN j ELSE min_index
  /\ j' = j + 1
  /\ UNCHANGED <<list, i, pc, given>>

Compare ==
  /\ pc = "inner"
  /\ j < N
  /\ min_index' = IF list[j] < list[min_index] THEN j ELSE min_index
  /\ j' = j + 1
  /\ UNCHANGED <<list, i, pc, given>>

Swap ==
  /\ pc = "inner"
  /\ j = N
  /\ list' = [list EXCEPT ![i] = list[min_index], ![min_index] = list[i]]
  /\ i' = i + 1
  /\ pc' = "outer"
  /\ UNCHANGED <<j, min_index, given>>

\* Mutant: the last element is not looked at.
MarkShort ==
  /\ pc = "outer"
  /\ i >= N - 1
  /\ list' = [k \in Index |-> IF list[k] = Unused /\ k < N - 1 THEN -1 ELSE list[k]]
  /\ pc' = "done"
  /\ UNCHANGED <<i, j, min_index, given>>

\* The last loop turns the filler into -1, which the lock loop skips.
Mark ==
  /\ pc = "outer"
  /\ i >= N - 1
  /\ list' = [k \in Index |-> IF list[k] = Unused THEN -1 ELSE list[k]]
  /\ pc' = "done"
  /\ UNCHANGED <<i, j, min_index, given>>

Returned == pc = "done" /\ UNCHANGED vars

Next == Outer \/ Compare \/ Swap \/ Mark \/ Returned

Spec == Init /\ [][Next]_vars

-----------------------------------------------------------------------------
\* Every variable has its type, and no index leaves the list.
TypeOK ==
  /\ list \in [Index -> Int]
  /\ given \in [Index -> Int]
  /\ pc \in {"outer", "inner", "done"}
  /\ i \in Index
  /\ min_index \in Index
  /\ j \in 0 .. N
  /\ pc = "inner" => i < N - 1 /\ i < j /\ i <= min_index /\ min_index < j

\* When the loops end, the list is in increasing order ...
Increasing ==
  pc = "outer" /\ i >= N - 1 =>
    \A a, b \in Index : a < b => list[a] <= list[b]

\* ... and at every moment it is the list that came, in another order: no
\* element is lost or doubled (an exchange through a bijection of the places).
Permutes(p) ==
  /\ \A a, b \in Index : p[a] = p[b] => a = b
  /\ \A a \in Index : \E b \in Index : p[b] = a

Rearranged ==
  pc # "done" =>
    \E p \in [Index -> Index] :
      Permutes(p) /\ \A a \in Index : list[a] = given[p[a]]

\* The selection sort puts the elements of its list in order.
Sorted == Increasing /\ Rearranged

\* What pass_car_through_quad relies on: for every turn, the list compute_path
\* returns holds the quadrants of the car's way, each once and the smallest
\* first, and nothing else but -1 behind them.
ReadyToLock ==
  pc = "done" =>
    \A in, out \in Dir :
      given = PathList(in, out) =>
        LET way == Route([in_dir |-> in, out_dir |-> out])
        IN  \E n \in 0 .. N :
              /\ \A k \in Index : IF k < n THEN list[k] \in way ELSE list[k] = -1
              /\ \A a, b \in Index : a < b /\ b < n => list[a] < list[b]
              /\ \A q \in way : \E k \in Index : list[k] = q

(* The inductive invariant: what is left of i is in its final place, and    *)
(* min_index is the least of what the scan has seen.                        *)
SortInv ==
  /\ pc # "done" => \A a, b \in Index : a < i /\ a < b => list[a] <= list[b]
  /\ pc = "inner" => \A k \in Index : i <= k /\ k < j => list[min_index] <= list[k]

(* What the last loop leaves.                                               *)
MarkedInv ==
  pc = "done" =>
    \E p \in [Index -> Index] :
      /\ Permutes(p)
      /\ \A a, b \in Index : a < b => given[p[a]] <= given[p[b]]
      /\ \A a \in Index :
           list[a] = IF given[p[a]] = Unused THEN -1 ELSE given[p[a]]

IInv == TypeOK /\ SortInv /\ Rearranged /\ MarkedInv
=============================================================================
