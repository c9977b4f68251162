-------------------------------- MODULE Fifo --------------------------------
(* The FIFO replacement of fifo.c, on top of Paging.                         *)
EXTENDS Paging, Sequences, SequencesExt

VARIABLES
  start,      \* the frame evicted last
  loaded      \* history: the frames in use, by the time their page was loaded

fifo_vars == <<start, loaded>>

fifo_init == start = -1 /\ loaded = <<>>

\* Mutant: the frame after the next.
FifoVictimSkips == (start + 2) % memsize

\* fifo_evict
FifoVictim == (start + 1) % memsize

FifoAccess(p, type) ==
  \/ Hit(p, type) /\ UNCHANGED fifo_vars
  \/ /\ FaultFree(p, type)
     /\ loaded' = Append(loaded, frame'[p])
     /\ UNCHANGED start
  \/ /\ FaultEvict(p, type, FifoVictim, {})
     /\ start' = FifoVictim
     /\ loaded' = Append(RemoveFirst(loaded, FifoVictim), FifoVictim)

\* First in, first out: the page that has been in memory longest is evicted.
FirstLoadedOut ==
  \A p \in Page : p \in valid /\ p \notin valid' => frame[p] = Head(loaded)
=============================================================================
