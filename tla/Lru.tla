--------------------------------- MODULE Lru ---------------------------------
(***************************************************************************)
(* The accurate LRU replacement of lru.c, on top of Paging: a doubly linked *)
(* list of frames, least recently used first.  A node is known by its frame; *)
(* the list is modelled with its pointers, assignment by assignment, as    *)
(* they are what can go wrong.                                             *)
(***************************************************************************)
EXTENDS Paging, Sequences, SequencesExt

NULL == -1

VARIABLES
  list,       \* first_element, last_element, and next and prev of each node
  recent      \* history: the frames in use, least recently used first

Pointer == Frame \cup {NULL}

EmptyList ==
  [first |-> NULL, last |-> NULL,
   next |-> [f \in Frame |-> NULL], prev |-> [f \in Frame |-> NULL]]

lru_vars == <<list, recent>>

lru_init == list = EmptyList /\ recent = <<>>

\* The nodes the loop of in_list meets from node e on.
Reach(l) ==
  LET walk[n \in 0 .. memsize] ==
        IF n = 0 THEN l.first
        ELSE IF walk[n - 1] = NULL THEN NULL ELSE l.next[walk[n - 1]]
  IN  {walk[n] : n \in 0 .. memsize} \ {NULL}

-----------------------------------------------------------------------------
(* lru_evict *)

\* The second element is dereferenced without a check.
EvictFaults(l) == l.next[l.first] = NULL

\* Mutant: the most recently used frame is the victim.
LruVictimLast(l) == l.last

LruVictim(l) == l.first

\* The first node is freed; a freed node has no pointers any more.
AfterEvict(l) ==
  LET second == l.next[l.first]
  IN  [l EXCEPT !.first = second,
                !.prev = [@ EXCEPT ![second] = NULL, ![l.first] = NULL],
                !.next = [@ EXCEPT ![l.first] = NULL]]

-----------------------------------------------------------------------------
(* lru_ref, with in_list *)

\* The node of f is first and last: in_list dereferences its next.
RefFaults(l, f) == f \in Reach(l) /\ l.prev[f] = NULL /\ l.next[f] = NULL

\* The neighbours' links around f, in the order in_list sets them.
UnlinkBack(l, f) ==
  IF l.prev[f] = NULL
  THEN [l EXCEPT !.first = l.next[f], !.prev[l.next[f]] = NULL]
  ELSE [l EXCEPT !.next[l.prev[f]] = l.next[f]]

\* Mutant: last_element is not moved back when the last node is taken out.
UnlinkForthOnly(l, f) ==
  IF l.next[f] = NULL
  THEN [l EXCEPT !.next[l.prev[f]] = NULL]
  ELSE [l EXCEPT !.prev[l.next[f]] = l.prev[f]]

UnlinkForth(l, f) ==
  IF l.next[f] = NULL
  THEN [l EXCEPT !.next[l.prev[f]] = NULL, !.last = l.prev[f]]
  ELSE [l EXCEPT !.prev[l.next[f]] = l.prev[f]]

\* f, which has no successor, becomes the last node.
AtEnd(l, f) ==
  [l EXCEPT !.next = [@ EXCEPT ![f] = NULL, ![l.last] = f],
            !.prev[f] = l.last,
            !.last = f]

AfterRef(l, f) ==
  IF l.first = NULL   THEN [EmptyList EXCEPT !.first = f, !.last = f]
  ELSE IF f \in Reach(l) THEN AtEnd(UnlinkForth(UnlinkBack(l, f), f), f)
  ELSE AtEnd(l, f)

-----------------------------------------------------------------------------
Touch(f) == recent' = Append(RemoveFirst(recent, f), f)

\* The list is updated at the end of every access; a fault of the list ends
\* the process.
LruAccess(p, type) ==
  \/ /\ Hit(p, type)
     /\ ~RefFaults(list, frame[p])
     /\ list' = AfterRef(list, frame[p])
     /\ Touch(frame[p])
  \/ /\ p \in valid
     /\ RefFaults(list, frame[p])
     /\ Crash
     /\ UNCHANGED lru_vars
  \/ /\ FaultFree(p, type)
     /\ list' = AfterRef(list, frame'[p])
     /\ Touch(frame'[p])
  \/ /\ FreeFrames = {}
     /\ IF EvictFaults(list)
        THEN MayFault(p, type) /\ Crash /\ UNCHANGED lru_vars
        ELSE LET f == LruVictim(list)
             IN  /\ FaultEvict(p, type, f, {})
                 /\ list' = AfterRef(AfterEvict(list), f)
                 /\ Touch(f)

-----------------------------------------------------------------------------
\* The pointers are a list of the frames in use, in both directions, from the
\* least to the most recently used page: nothing is lost, left dangling,
\* linked twice or out of order by the splicing of in_list.
ListInOrder ==
  LET n == Len(recent)
      at(i) == IF i = 0 \/ i = n + 1 THEN NULL ELSE recent[i]
  IN  /\ list.first = at(IF n = 0 THEN 0 ELSE 1)
      /\ list.last = at(n)
      /\ \A i \in 1 .. n : list.next[recent[i]] = at(i + 1) /\ list.prev[recent[i]] = at(i - 1)
      /\ {recent[i] : i \in 1 .. n} = Frame \ FreeFrames
      /\ IsInjective(recent)

\* Accurate LRU: no page in memory was used less recently than the victim.
LeastRecentlyUsedOut ==
  \A p \in Page : p \in valid /\ p \notin valid' => frame[p] = Head(recent)
=============================================================================
