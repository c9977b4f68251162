-------------------------------- MODULE Sim ---------------------------------
(***************************************************************************)
(* The whole simulator of sim.c: main chooses a replacement algorithm, and *)
(* replay_trace accesses one page after another, any page and any type.    *)
(* The variables of an algorithm that was not chosen stay as they are.     *)
(***************************************************************************)
EXTENDS Fifo, Clock, Lru, Opt

VARIABLE alg    \* the replacement algorithm main was told to use

sim_vars == <<vars, alg, fifo_vars, circular_hand, lru_vars, opt_vars>>

SimInit ==
  /\ Init
  /\ alg \in {"rand", "fifo", "clock", "lru", "opt"}
  /\ fifo_init /\ clock_init /\ lru_init
  /\ \E tr \in IF alg = "opt" THEN Traces ELSE {<<>>} : opt_init(tr)

\* rand_evict
RandAccess(p, type) ==
  \/ Hit(p, type)
  \/ FaultFree(p, type)
  \/ \E f \in Frame : FaultEvict(p, type, f, {})

access_mem(p, type) ==
  \/ /\ alg = "rand"
     /\ RandAccess(p, type) \/ Abort(p)
     /\ UNCHANGED <<fifo_vars, circular_hand, lru_vars, opt_vars>>
  \/ /\ alg = "fifo"
     /\ FifoAccess(p, type) \/ (Abort(p) /\ UNCHANGED fifo_vars)
     /\ UNCHANGED <<circular_hand, lru_vars, opt_vars>>
  \/ /\ alg = "clock"
     /\ ClockAccess(p, type) \/ (Abort(p) /\ UNCHANGED circular_hand)
     /\ UNCHANGED <<fifo_vars, lru_vars, opt_vars>>
  \/ /\ alg = "lru"
     /\ LruAccess(p, type) \/ (Abort(p) /\ UNCHANGED lru_vars)
     /\ UNCHANGED <<fifo_vars, circular_hand, opt_vars>>
  \/ /\ alg = "opt"
     /\ OptAccess(p, type)
     /\ UNCHANGED <<fifo_vars, circular_hand, lru_vars>>

replay_trace ==
  /\ \E p \in Page, type \in Type : access_mem(p, type)
  /\ UNCHANGED alg

SimSpec == SimInit /\ [][replay_trace]_sim_vars

-----------------------------------------------------------------------------
\* fifo_evict returns the frame whose page has been in memory longest,
\* although it only counts frames and never learns what is loaded where.
FirstOut == [][alg = "fifo" => FirstLoadedOut]_sim_vars

\* Second chance: a page that was accessed since its mark was last cleared is
\* evicted only when all were, and then it is the one at the hand and all have
\* lost their marks; otherwise the victim is the first one from the hand on
\* that was not, and exactly the frames the hand passed have lost their marks (clock_evict).
SecondChance == [][alg = "clock" => FirstUnmarkedOut]_sim_vars

\* Through every splice of in_list and lru_evict the pointers are a list of
\* the frames in use, in both directions, from the least to the most recently
\* used page: none is lost, left dangling, linked twice or out of order.
ListIsRecency == alg = "lru" => ListInOrder

\* Accurate LRU: no page in memory was used less recently than the victim.
LeastRecentOut == [][alg = "lru" => LeastRecentlyUsedOut]_sim_vars

\* Optimal replacement, as far as opt_evict has it: where every page of the
\* trace is still used and the one that is used latest is in memory, that one
\* is the victim, or frame 0, for max is not initialised.
OptFarthestOut == [][alg = "opt" => FarthestOut]_sim_vars
=============================================================================
