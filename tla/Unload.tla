------------------------------- MODULE Unload -------------------------------
(***************************************************************************)
(* Unloading the system call interceptor while processes use it: rmmod     *)
(* runs exit_function on a processor of its own, in the steps of           *)
(* Interceptor's grain, and some time after it returns the kernel frees    *)
(* the module, whoever is inside it.                                       *)
(***************************************************************************)
EXTENDS Interceptor

ASSUME HolderAssumption == "exit_function" \notin Pid \cup {NoPid}

VARIABLES
  unload,    \* where exit_function is: "not called", "locked" and "writing"
             \* and "restored" with its locks, "unlock_sys" with the second,
             \* "returned"; then "freed".  Or "oops", where it faulted
  overlap    \* history: a process was inside the module when exit_function
             \* had restored the table

unload_vars == <<vars, unload, overlap>>

\* The code of the module, or a call that it made and that returns to it.
Inside(p) == pc[p] \notin {"user", "exiting", "oops", "dead"}

UnloadInit == Init /\ unload = "not called" /\ overlap = FALSE

LockForExit ==
  /\ unload = "not called" /\ my_table_lock = NoPid
  /\ my_table_lock' = "exit_function"
  /\ unload' = "locked"
  /\ UNCHANGED <<alive, pc, req, sys_call_table_lock, entry_vars, list_vars, overlap>>

\* The second lock, and set_addr_rw.
OpenForExit ==
  /\ unload = "locked" /\ sys_call_table_lock = NoPid
  /\ sys_call_table_lock' = "exit_function"
  /\ writable' = TRUE
  /\ unload' = "writing"
  /\ UNCHANGED <<alive, pc, req, my_table_lock, sys_call_table, f, intercepted, list_vars, overlap>>

\* Mutant: only my_syscall is taken out of the table.
RestoreCustomOnly ==
  /\ unload = "writing"
  /\ unload' = IF writable THEN "restored" ELSE "oops"
  /\ overlap' = (overlap \/ \E p \in Pid : Inside(p))
  /\ UNCHANGED vars

\* The entries of MY_CUSTOM_SYSCALL and of exit_group get back what they had
\* before the module was loaded; intercepted calls do not.
Restore ==
  /\ unload = "writing"
  /\ IF writable
     THEN /\ sys_call_table' = [sys_call_table EXCEPT ![Exit] = Kernel(Exit)]
          /\ unload' = "restored"
     ELSE unload' = "oops" /\ UNCHANGED sys_call_table
  /\ overlap' = (overlap \/ \E p \in Pid : Inside(p))
  /\ UNCHANGED <<alive, pc, req, my_table_lock, sys_call_table_lock, writable, f, intercepted,
                 list_vars>>

\* set_addr_ro, and the first lock.
CloseForExit ==
  /\ unload = "restored"
  /\ writable' = FALSE
  /\ my_table_lock' = NoPid
  /\ unload' = "unlock_sys"
  /\ UNCHANGED <<alive, pc, req, sys_call_table_lock, sys_call_table, f, intercepted, list_vars,
                 overlap>>

UnlockForExit ==
  /\ unload = "unlock_sys"
  /\ sys_call_table_lock' = NoPid
  /\ unload' = "returned"
  /\ UNCHANGED <<alive, pc, req, my_table_lock, entry_vars, list_vars, overlap>>

Free == unload = "returned" /\ unload' = "freed" /\ UNCHANGED <<vars, overlap>>

exit_function ==
  LockForExit \/ OpenForExit \/ Restore \/ CloseForExit \/ UnlockForExit \/ Free

\* A process runs, or jumps to, code that is no longer there.
RunFreed(p) ==
  /\ unload = "freed"
  /\ p \in alive
  /\ Inside(p) \/ (pc[p] = "user" /\ \E s \in Syscall : sys_call_table[s] # Kernel(s))
  /\ Oops(p)
  /\ UNCHANGED <<my_table_lock, sys_call_table_lock, entry_vars, list_vars, unload, overlap>>

\* my_syscall is called through the table, so no longer once that is restored.
Process(p) ==
  /\ \/ unload # "freed" /\ (my_syscall(p) \/ system_call(p) \/ Trap(p))
     \/ unload \in {"not called", "locked", "writing", "oops"} /\ Call(p)
     \/ unload = "freed" /\ ExitDie(p)
     \/ Killed(p)
  /\ UNCHANGED <<unload, overlap>>

UnloadNext == exit_function \/ \E p \in Pid : Process(p) \/ RunFreed(p)

UnloadSpec == UnloadInit /\ [][UnloadNext]_unload_vars

-----------------------------------------------------------------------------
\* If nobody was inside the module, unloading leaves no entry that leads into
\* it but those of the calls that are still marked intercepted, and exit_group
\* is the kernel's again although it may have been intercepted (exit_function
\* knows nothing of table[] and the chain of handlers in it); and whoever is in
\* the module after that, and will run freed code, is so for one of those calls.
UnloadRestores ==
  unload \in {"restored", "unlock_sys", "returned", "freed"} /\ ~overlap =>
    /\ \A s \in Syscall : sys_call_table[s] = Kernel(s) \/ (s # Exit /\ intercepted[s] = 1)
    /\ \A p \in Pid : Inside(p) => intercepted[req[p].syscall] = 1

(* The inductive invariant.  Until the table is restored, all that holds of *)
(* Interceptor does; after it the locks and the lists are still in order.   *)

Before == {"not called", "locked", "writing", "oops"}
After  == {"restored", "unlock_sys", "returned", "freed"}

UnloadOK ==
  /\ DataOK
  /\ unload \in Before \cup After
  /\ overlap \in BOOLEAN

ExitHolds ==
  /\ unload \in {"locked", "writing", "restored", "oops"} =>
       my_table_lock = "exit_function"
  /\ unload \in {"writing", "restored", "unlock_sys", "oops"} =>
       sys_call_table_lock = "exit_function"

\* Who comes in after a quiet restoration comes through an entry of a call
\* that is still intercepted, and has no command that could change it.
Quiet ==
  unload \in After /\ ~overlap =>
    /\ \A s \in Syscall :
         \/ sys_call_table[s] = Kernel(s)
         \/ s # Exit /\ intercepted[s] = 1 /\ sys_call_table[s] = interceptor
    /\ \A p \in Pid :
         /\ Inside(p) => pc[p] \in {"intercepted", "forward", "exit"}
         /\ Inside(p) => intercepted[req[p].syscall] = 1

UnloadInv ==
  /\ UnloadOK
  /\ LocksHeld /\ ExitHolds
  /\ RequestInv /\ GoneAreGone /\ CountIsLength
  /\ unload \in Before => HandlersIntact /\ FlagIsTrue /\ ForwardsToOwn
  /\ Quiet
=============================================================================
