--------------------------------- MODULE Opt ---------------------------------
(***************************************************************************)
(* The optimal replacement of opt.c, on top of Paging.  It reads the whole *)
(* trace before the replay, into a table with the times at which each page *)
(* will be used.                                                           *)
(*                                                                         *)
(* opt_evict compares with a variable that it has not set, max: what is in *)
(* it may be less than every time or not, and both outcomes are in the     *)
(* model.  A frame number beyond the coremap ends the program here.  New   *)
(* nodes of the table are zero, since malloc has them fresh from the heap. *)
(***************************************************************************)
EXTENDS Paging, Sequences, SequencesExt

CONSTANT Traces    \* the traces that are replayed: sequences of pages

ASSUME TracesAssumption == Traces \subseteq Seq(Page)

VARIABLES
  trace,      \* the one that is
  Tcounter,   \* the accesses made so far
  t           \* per page, as first used: vaddr, the page and then the frame
              \* that it had at its last use; and the list of its uses to come

opt_vars == <<trace, Tcounter, t>>

\* insert_list, for use number index of the page.
insert_list(table, page, index) ==
  IF \E e \in DOMAIN table : table[e].vaddr = page
  THEN [e \in DOMAIN table |-> IF table[e].vaddr = page
                               THEN [table[e] EXCEPT !.list = Append(@, index)] ELSE table[e]]
  ELSE Append(table, [vaddr |-> page, list |-> <<index>>])

opt_init(tr) ==
  /\ trace = tr
  /\ Tcounter = 0
  /\ t = FoldLeftDomain(LAMBDA table, k : insert_list(table, tr[k], k - 1), <<>>, tr)

\* Mutant: the frame is noted at the first use only.
RefFirstFrame(f) ==
  [e \in DOMAIN t |->
     IF t[e].list # <<>> /\ Head(t[e].list) = Tcounter
     THEN [vaddr |-> IF t[e].vaddr \in Page THEN f ELSE t[e].vaddr, list |-> Tail(t[e].list)]
     ELSE t[e]]

\* opt_ref: the use that is made now is cut off its list.
opt_ref(f) ==
  [e \in DOMAIN t |->
     IF t[e].list # <<>> /\ Head(t[e].list) = Tcounter
     THEN [vaddr |-> f, list |-> Tail(t[e].list)] ELSE t[e]]

Referenced(p) ==
  /\ t' = opt_ref(frame'[p])
  /\ Tcounter' = Tcounter + 1

\* opt_evict: the place in the table of the first page that is not used again
\* or else what the table has for the one whose next use is latest, or
\* frame 0 if max was not less.  If that page has not been used yet, the table
\* has its address.
Over == {e \in DOMAIN t : t[e].list = <<>>}

Farthest == CHOOSE e \in DOMAIN t : \A x \in DOMAIN t : Head(t[x].list) <= Head(t[e].list)

\* The address of a page, as a number, may be that of any frame or of none.
FrameFor(vaddr) == IF vaddr \in Page THEN 0 .. memsize ELSE {vaddr}

opt_evict == IF Over # {} THEN {Min(Over) - 1} ELSE {0} \cup FrameFor(t[Farthest].vaddr)

OptAccess(p, type) ==
  /\ Tcounter < Len(trace) /\ p = trace[Tcounter + 1]
  /\ UNCHANGED trace
  /\ \/ (Hit(p, type) \/ FaultFree(p, type)) /\ Referenced(p)
     \/ \E f \in opt_evict \cap Frame : FaultEvict(p, type, f, {}) /\ Referenced(p)
     \/ /\ MayFault(p, type) /\ FreeFrames = {} /\ opt_evict \ Frame # {}
        /\ Crash /\ UNCHANGED <<Tcounter, t>>
     \/ Abort(p) /\ UNCHANGED <<Tcounter, t>>

\* The next time page p is used, from now on; none is later than all.
NextUse(p) ==
  LET uses == {k \in Tcounter .. Len(trace) - 1 : trace[k + 1] = p}
  IN  IF uses = {} THEN Len(trace) ELSE Min(uses)

\* What opt_evict gets right: where every page of the trace is still used, and
\* the one that is used latest is in memory, that one is the victim, or frame 0.
FarthestOut ==
  (\A k \in 1 .. Len(trace) : NextUse(trace[k]) < Len(trace)) =>
    \A p, q \in Page :
      /\ p \in valid /\ p \notin valid'
      /\ q \in valid /\ \A k \in 1 .. Len(trace) : NextUse(trace[k]) <= NextUse(q)
      => p = q \/ frame[p] = 0
=============================================================================
