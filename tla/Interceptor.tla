---------------------------- MODULE Interceptor ----------------------------
(***************************************************************************)
(* The system call interceptor (interceptor.c), from insmod on: processes  *)
(* on different processors issue commands through my_syscall, make system  *)
(* calls that may be intercepted, and exit.                                *)
(*                                                                         *)
(* Grain: what runs under my_table_lock alone is one step with its release;*)
(* every access that is made outside that lock, or between two of the four *)
(* locks and page-protection calls, is a step of its own.  A call that is  *)
(* refused before it takes a lock changes nothing and is no step.          *)
(*                                                                         *)
(* A node of my_list is found by its pid only, so the list is kept as the  *)
(* number of its nodes per pid.                                            *)
(***************************************************************************)
EXTENDS Integers

CONSTANTS
  Pid,            \* processes
  Root,           \* those whose uid is 0
  SameOwner,      \* <<p, q>>: p and q have the same uid
  Syscall,        \* system calls that may be intercepted, as strings
  NoPid,          \* pid 0 of a command: "all pids"; also no holder of a lock
  Signals,        \* whether a process may be killed by a signal
  MemoryFails     \* whether kmalloc may fail

Exit == "exit_group"

ASSUME PidAssumption     == NoPid \notin Pid /\ Root \subseteq Pid
ASSUME SyscallAssumption == Exit \in Syscall

\* What an entry of sys_call_table, or the field f, may point to.
Kernel(s)    == <<"kernel", s>>
interceptor  == <<"module", "interceptor">>
my_exit_group == <<"module", "my_exit_group">>
Handler == {Kernel(s) : s \in Syscall} \cup {interceptor, my_exit_group}

Command == {"intercept", "release", "start", "stop"}
Request == [cmd : Command \cup {"call"}, syscall : Syscall, pid : Pid \cup {NoPid}]
NoRequest == [cmd |-> "call", syscall |-> Exit, pid |-> NoPid]

VARIABLES
  alive,                \* processes that exist
  pc,                   \* where each process is; "user" outside the module
  req,                  \* the arguments of the call it is in
  my_table_lock,        \* the holder, or NoPid
  sys_call_table_lock,
  writable,             \* the page of sys_call_table is writable
  sys_call_table,
  f,                    \* table[s].f
  intercepted,          \* table[s].intercepted
  monitored,            \* table[s].monitored: 0, 1 or 2
  listcount,            \* table[s].listcount
  my_list               \* per system call and pid: nodes of table[s].my_list

entry_vars == <<writable, sys_call_table, f, intercepted>>
list_vars  == <<monitored, listcount, my_list>>
vars == <<alive, pc, req, my_table_lock, sys_call_table_lock, entry_vars, list_vars>>

\* init_function has run: exit_group is hijacked, f holds what was there before.
Init ==
  /\ alive = Pid
  /\ pc = [p \in Pid |-> "user"]
  /\ req = [p \in Pid |-> NoRequest]
  /\ my_table_lock = NoPid
  /\ sys_call_table_lock = NoPid
  /\ writable = FALSE
  /\ sys_call_table = [s \in Syscall |-> IF s = Exit THEN my_exit_group ELSE Kernel(s)]
  /\ f = [s \in Syscall |-> Kernel(s)]
  /\ intercepted = [s \in Syscall |-> 0]
  /\ monitored = [s \in Syscall |-> 0]
  /\ listcount = [s \in Syscall |-> 0]
  /\ my_list = [s \in Syscall |-> [q \in Pid |-> 0]]

Goto(p, label) == pc' = [pc EXCEPT ![p] = label]

\* The call ends; what it was about is forgotten.
Return(p) == Goto(p, "user") /\ req' = [req EXCEPT ![p] = NoRequest]

\* A fault in the kernel: the process is gone with the locks it holds.
Oops(p) == Goto(p, "oops") /\ alive' = alive \ {p} /\ UNCHANGED req

-----------------------------------------------------------------------------
(* my_syscall *)

\* The checks made before any lock is taken, on the state of that moment.
Call(p) ==
  /\ p \in alive /\ pc[p] = "user"
  /\ \E cmd \in Command, s \in Syscall, q \in Pid \cup {NoPid} :
       /\ q # NoPid => q \in alive
       /\ cmd \in {"intercept", "release"} => p \in Root
       /\ req' = [req EXCEPT ![p] = [cmd |-> cmd, syscall |-> s, pid |-> q]]
  /\ Goto(p, "table")
  /\ UNCHANGED <<alive, my_table_lock, sys_call_table_lock, entry_vars, list_vars>>

LockTable(p) ==
  /\ pc[p] = "table"
  /\ my_table_lock = NoPid
  /\ my_table_lock' = p
  /\ Goto(p, req[p].cmd)
  /\ UNCHANGED <<alive, req, sys_call_table_lock, entry_vars, list_vars>>

UnlockTable == my_table_lock' = NoPid

\* -EBUSY, or set_addr_rw.
Admit(p, cmd, refused) ==
  /\ pc[p] = cmd
  /\ \/ /\ refused
        /\ UnlockTable
        /\ Return(p)
        /\ UNCHANGED writable
     \/ /\ ~refused
        /\ writable' = TRUE
        /\ Goto(p, "swap")
        /\ UNCHANGED <<req, my_table_lock>>
  /\ UNCHANGED <<alive, sys_call_table_lock, sys_call_table, f, intercepted, list_vars>>

\* Mutant: a call that is already intercepted is intercepted again.
InterceptAgain(p) == Admit(p, "intercept", FALSE)

Intercept(p) == Admit(p, "intercept", intercepted[req[p].syscall] = 1)
Release(p)   == Admit(p, "release", intercepted[req[p].syscall] = 0)

\* Mutant: f is not saved, as init_function has filled it in already.
SwapInUnsaved(p) ==
  LET s == req[p].syscall
  IN  /\ pc[p] = "swap" /\ req[p].cmd = "intercept"
      /\ sys_call_table_lock = NoPid
      /\ sys_call_table_lock' = p
      /\ intercepted' = [intercepted EXCEPT ![s] = 1]
      /\ IF writable
         THEN /\ sys_call_table' = [sys_call_table EXCEPT ![s] = interceptor]
              /\ UnlockTable
              /\ Goto(p, "unlock_sys")
              /\ UNCHANGED <<alive, req>>
         ELSE Oops(p) /\ UNCHANGED <<sys_call_table, my_table_lock>>
      /\ UNCHANGED <<f, writable, list_vars>>

\* Under both locks: f and intercepted are set, then the table is written,
\* which faults if the page is read-only.  my_table_lock is released first.
SwapIn(p) ==
  LET s == req[p].syscall
  IN  /\ pc[p] = "swap" /\ req[p].cmd = "intercept"
      /\ sys_call_table_lock = NoPid
      /\ sys_call_table_lock' = p
      /\ f' = [f EXCEPT ![s] = sys_call_table[s]]
      /\ intercepted' = [intercepted EXCEPT ![s] = 1]
      /\ IF writable
         THEN /\ sys_call_table' = [sys_call_table EXCEPT ![s] = interceptor]
              /\ UnlockTable
              /\ Goto(p, "unlock_sys")
              /\ UNCHANGED <<alive, req>>
         ELSE Oops(p) /\ UNCHANGED <<sys_call_table, my_table_lock>>
      /\ UNCHANGED <<writable, list_vars>>

\* Mutant: the entry is restored and the flag forgotten.
SwapOutFlagKept(p) ==
  LET s == req[p].syscall
  IN  /\ pc[p] = "swap" /\ req[p].cmd = "release"
      /\ sys_call_table_lock = NoPid
      /\ sys_call_table_lock' = p
      /\ IF writable
         THEN /\ sys_call_table' = [sys_call_table EXCEPT ![s] = f[s]]
              /\ UnlockTable
              /\ Goto(p, "unlock_sys")
              /\ UNCHANGED <<alive, req>>
         ELSE Oops(p) /\ UNCHANGED <<sys_call_table, my_table_lock>>
      /\ UNCHANGED <<f, intercepted, writable, list_vars>>

\* The table is written first here, so a fault leaves the flag set.
SwapOut(p) ==
  LET s == req[p].syscall
  IN  /\ pc[p] = "swap" /\ req[p].cmd = "release"
      /\ sys_call_table_lock = NoPid
      /\ sys_call_table_lock' = p
      /\ IF writable
         THEN /\ sys_call_table' = [sys_call_table EXCEPT ![s] = f[s]]
              /\ intercepted' = [intercepted EXCEPT ![s] = 0]
              /\ UnlockTable
              /\ Goto(p, "unlock_sys")
              /\ UNCHANGED <<alive, req>>
         ELSE Oops(p) /\ UNCHANGED <<sys_call_table, intercepted, my_table_lock>>
      /\ UNCHANGED <<f, writable, list_vars>>

\* Mutant: sys_call_table_lock is not released.
UnlockSysNot(p) ==
  /\ pc[p] = "unlock_sys"
  /\ Goto(p, "ro")
  /\ UNCHANGED <<alive, req, my_table_lock, sys_call_table_lock, entry_vars, list_vars>>

UnlockSys(p) ==
  /\ pc[p] = "unlock_sys"
  /\ sys_call_table_lock' = NoPid
  /\ Goto(p, "ro")
  /\ UNCHANGED <<alive, req, my_table_lock, entry_vars, list_vars>>

\* set_addr_ro, after both locks.
SetReadOnly(p) ==
  /\ pc[p] = "ro"
  /\ writable' = FALSE
  /\ Return(p)
  /\ UNCHANGED <<alive, my_table_lock, sys_call_table_lock, sys_call_table, f,
                 intercepted, list_vars>>

-----------------------------------------------------------------------------
(* The lists.  These run under my_table_lock. *)

Empty == [q \in Pid |-> 0]

\* monitored is set to 0 too, and to what the caller wants right after.
destroy_list(s) ==
  /\ my_list' = [my_list EXCEPT ![s] = Empty]
  /\ listcount' = [listcount EXCEPT ![s] = 0]

\* monitored after n nodes are gone from the list of s
MonitoredAfter(s, n) ==
  IF n > 0 /\ listcount[s] = n /\ monitored[s] = 1 THEN 0 ELSE monitored[s]

add_pid_sysc(q, s) ==
  /\ my_list' = [my_list EXCEPT ![s][q] = @ + 1]
  /\ listcount' = [listcount EXCEPT ![s] = @ + 1]

del_pid(q) ==
  /\ my_list' = [s \in Syscall |-> [my_list[s] EXCEPT ![q] = 0]]
  /\ listcount' = [s \in Syscall |-> listcount[s] - my_list[s][q]]
  /\ monitored' = [s \in Syscall |-> MonitoredAfter(s, my_list[s][q])]

\* check_pids_same_owner is called for a process that is not root, with a pid.
\* A pid that has died since the first checks has no task: the code
\* dereferences NULL, under the lock.
Denied(p, q)  == p \notin Root /\ (q = NoPid \/ <<p, q>> \notin SameOwner)
NullTask(p, q) == p \notin Root /\ q # NoPid /\ q \notin alive

Refuse(p) ==
  /\ UnlockTable
  /\ Return(p)
  /\ UNCHANGED <<alive, list_vars>>

\* Mutant: a pid is added while others are monitored, or all are.
StartAnyway(p) ==
  LET s == req[p].syscall
      q == req[p].pid
  IN  /\ pc[p] = "start"
      /\ \/ (intercepted[s] = 0 \/ q = NoPid \/ Denied(p, q) \/ NullTask(p, q)) /\ Refuse(p)
         \/ /\ intercepted[s] # 0 /\ q # NoPid /\ ~Denied(p, q) /\ ~NullTask(p, q)
            /\ monitored' = [monitored EXCEPT ![s] = 1]
            /\ add_pid_sysc(q, s)
            /\ UnlockTable /\ Return(p) /\ UNCHANGED alive
      /\ UNCHANGED <<sys_call_table_lock, entry_vars>>

StartMonitoring(p) ==
  LET s == req[p].syscall
      q == req[p].pid
      refused == intercepted[s] = 0 \/ monitored[s] # 0
  IN  /\ pc[p] = "start"
      /\ \/ /\ refused \/ (~NullTask(p, q) /\ Denied(p, q))
            /\ Refuse(p)
         \/ /\ ~refused /\ NullTask(p, q)
            /\ Oops(p)
            /\ UNCHANGED <<my_table_lock, list_vars>>
         \/ /\ ~refused /\ q = NoPid /\ ~Denied(p, q)
            /\ destroy_list(s)
            /\ monitored' = [monitored EXCEPT ![s] = 2]
            /\ UnlockTable /\ Return(p) /\ UNCHANGED alive
         \/ /\ ~refused /\ q # NoPid /\ ~NullTask(p, q) /\ ~Denied(p, q)
            /\ monitored' = [monitored EXCEPT ![s] = 1]
            /\ \/ add_pid_sysc(q, s)
               \/ MemoryFails /\ UNCHANGED <<my_list, listcount>>
            /\ UnlockTable /\ Return(p) /\ UNCHANGED alive
      /\ UNCHANGED <<sys_call_table_lock, entry_vars>>

\* The interception of the call is not looked at.  After the first deletion,
\* monitored follows the count, and the pid is deleted once more.
StopMonitoring(p) ==
  LET s == req[p].syscall
      q == req[p].pid
      unlisted == monitored[s] # 1 \/ my_list[s][q] = 0
      after == [my_list[s] EXCEPT ![q] = IF @ > 2 THEN @ - 2 ELSE 0]
      left  == listcount[s] - (my_list[s][q] - after[q])
  IN  /\ pc[p] = "stop"
      /\ \/ /\ ~NullTask(p, q)
            /\ Denied(p, q) \/ (q # NoPid /\ unlisted)
            /\ Refuse(p)
         \/ /\ NullTask(p, q)
            /\ Oops(p)
            /\ UNCHANGED <<my_table_lock, list_vars>>
         \/ /\ q = NoPid /\ ~Denied(p, q)
            /\ destroy_list(s)
            /\ monitored' = [monitored EXCEPT ![s] = 0]
            /\ UnlockTable /\ Return(p) /\ UNCHANGED alive
         \/ /\ q # NoPid /\ ~NullTask(p, q) /\ ~Denied(p, q) /\ ~unlisted
            /\ my_list' = [my_list EXCEPT ![s] = after]
            /\ listcount' = [listcount EXCEPT ![s] = left]
            /\ monitored' = [monitored EXCEPT ![s] = IF left = 0 THEN 0 ELSE 1]
            /\ UnlockTable /\ Return(p) /\ UNCHANGED alive
      /\ UNCHANGED <<sys_call_table_lock, entry_vars>>

-----------------------------------------------------------------------------
(* System calls of the processes *)

\* The processor reads sys_call_table without a lock.  A call that goes
\* straight to the kernel changes nothing here.
Trap(p) ==
  /\ p \in alive /\ pc[p] = "user"
  /\ \E s \in Syscall :
       /\ \/ sys_call_table[s] = interceptor /\ Goto(p, "intercepted")
          \/ sys_call_table[s] = my_exit_group /\ Goto(p, "exit")
       /\ req' = [req EXCEPT ![p] = [cmd |-> "call", syscall |-> s, pid |-> NoPid]]
  /\ UNCHANGED <<alive, my_table_lock, sys_call_table_lock, entry_vars, list_vars>>

\* interceptor looks the pid up under the lock, and logs the call ...
CheckMonitored(p) ==
  /\ pc[p] = "intercepted"
  /\ my_table_lock = NoPid
  /\ Goto(p, "forward")
  /\ UNCHANGED <<alive, req, my_table_lock, sys_call_table_lock, entry_vars, list_vars>>

\* ... and reads f after it.
Forward(p) ==
  /\ pc[p] = "forward"
  /\ LET h == f[req[p].syscall]
     IN  \/ h = interceptor /\ Goto(p, "intercepted") /\ UNCHANGED req
         \/ h = my_exit_group /\ Goto(p, "exit") /\ UNCHANGED req
         \/ h = Kernel(Exit) /\ Goto(p, "exiting") /\ UNCHANGED req
         \/ h \notin {interceptor, my_exit_group, Kernel(Exit)} /\ Return(p)
  /\ UNCHANGED <<alive, my_table_lock, sys_call_table_lock, entry_vars, list_vars>>

\* my_exit_group: the pid leaves all lists, then the process ends.
ExitCleanUp(p) ==
  /\ pc[p] = "exit"
  /\ my_table_lock = NoPid
  /\ del_pid(p)
  /\ Goto(p, "exiting")
  /\ UNCHANGED <<alive, req, my_table_lock, sys_call_table_lock, entry_vars>>

ExitDie(p) ==
  /\ pc[p] = "exiting"
  /\ alive' = alive \ {p}
  /\ Goto(p, "dead")
  /\ req' = [req EXCEPT ![p] = NoRequest]
  /\ UNCHANGED <<my_table_lock, sys_call_table_lock, entry_vars, list_vars>>

\* A fatal signal ends a process without the exit_group system call.
Killed(p) ==
  /\ Signals
  /\ p \in alive /\ pc[p] = "user"
  /\ alive' = alive \ {p}
  /\ Goto(p, "dead")
  /\ UNCHANGED <<req, my_table_lock, sys_call_table_lock, entry_vars, list_vars>>

my_syscall(p) ==
  \/ LockTable(p) \/ Intercept(p) \/ Release(p) \/ SwapIn(p) \/ SwapOut(p)
  \/ UnlockSys(p) \/ SetReadOnly(p) \/ StartMonitoring(p) \/ StopMonitoring(p)

system_call(p) == CheckMonitored(p) \/ Forward(p) \/ ExitCleanUp(p) \/ ExitDie(p)

Next == \E p \in Pid :
          my_syscall(p) \/ system_call(p) \/ Call(p) \/ Trap(p) \/ Killed(p)

Spec == Init /\ [][Next]_vars

\* A process inside the module keeps running; nothing makes it call, and a
\* spinlock may be lost to others any number of times.
FairSpec == Spec /\ \A p \in Pid : WF_vars(my_syscall(p) \/ system_call(p))

-----------------------------------------------------------------------------
(* What must hold. *)

Label == Command \cup {"user", "table", "swap", "unlock_sys", "ro",
                       "intercepted", "forward", "exit", "exiting", "oops", "dead"}

DataOK ==
  /\ alive \subseteq Pid
  /\ pc \in [Pid -> Label]
  /\ req \in [Pid -> Request]
  /\ writable \in BOOLEAN
  /\ sys_call_table \in [Syscall -> Handler]
  /\ f \in [Syscall -> Handler]
  /\ intercepted \in [Syscall -> {0, 1}]
  /\ monitored \in [Syscall -> {0, 1, 2}]
  /\ listcount \in [Syscall -> Nat]
  /\ my_list \in [Syscall -> [Pid -> Nat]]

\* Every variable has its type.
TypeOK ==
  /\ DataOK
  /\ my_table_lock \in Pid \cup {NoPid}
  /\ sys_call_table_lock \in Pid \cup {NoPid}

\* What the kernel and init_function put into the table.
Original(s) == IF s = Exit THEN my_exit_group ELSE Kernel(s)

\* Whatever commands and calls run at once, f leads to the call's own handler
\* and never back to interceptor, and the table holds interceptor only for a
\* call that is marked intercepted, otherwise what it held at first.
HandlersIntact ==
  \A s \in Syscall :
    /\ f[s] \in {Kernel(s), Original(s)}
    /\ intercepted[s] = 1 => f[s] = Original(s)
    /\ \/ sys_call_table[s] = interceptor /\ intercepted[s] = 1
       \/ sys_call_table[s] = Original(s)

\* A call that is marked intercepted is, except where the write faulted.
FlagIsTrue ==
  \A s \in Syscall :
    intercepted[s] = 1 =>
      \/ sys_call_table[s] = interceptor
      \/ \E p \in Pid : pc[p] = "oops" /\ req[p].syscall = s

\* A call on its way through the module reaches the handler of that call, and
\* exit_group reaches my_exit_group although the entry may be restored, or
\* replaced again, while the call is between its two reads.
ForwardsToOwn ==
  \A p \in Pid :
    pc[p] \in {"intercepted", "forward"} => f[req[p].syscall] = Original(req[p].syscall)

\* No process exits through exit_group without having left all lists.
ExitCleansUp ==
  [][\A p \in Pid :
       pc[p] # "exiting" /\ pc'[p] = "exiting" => \A s \in Syscall : my_list'[s][p] = 0]_vars

\* listcount is the length of the list, which has at most one node: the code
\* monitors no pid, one pid, or all of them with an empty list.
CountIsLength ==
  \A s \in Syscall :
    /\ listcount[s] \in {0, 1}
    /\ listcount[s] = 0 => \A q \in Pid : my_list[s][q] = 0
    /\ listcount[s] = 1 => \E q \in Pid : \A r \in Pid :
                              my_list[s][r] = IF r = q THEN 1 ELSE 0
    /\ monitored[s] # 1 => listcount[s] = 0

\* The locks are taken my_table_lock first, and released by who took them;
\* only a process that faulted still holds one outside its critical section.
LocksHeld ==
  \A p \in Pid :
    /\ my_table_lock = p =>
         pc[p] \in {"intercept", "release", "start", "stop", "swap", "oops"}
    /\ pc[p] \in {"intercept", "release", "start", "stop", "swap"} => my_table_lock = p
    /\ sys_call_table_lock = p => pc[p] \in {"unlock_sys", "oops"}
    /\ pc[p] = "unlock_sys" => sys_call_table_lock = p

\* Liveness: my_table_lock is always given back, although its holder waits for
\* sys_call_table_lock, which is released after it, unless a process faulted.
TableLockReleased ==
  \A p \in Pid :
    my_table_lock = p ~> (my_table_lock # p \/ \E r \in Pid : pc[r] = "oops")

\* A process on its way to my_table_lock has a command; under the lock,
\* intercepted is still what Intercept or Release saw.
RequestInv ==
  \A p \in Pid :
    /\ pc[p] = "table" => req[p].cmd \in Command
    /\ pc[p] \in Command => req[p].cmd = pc[p]
    /\ pc[p] = "swap" =>
         \/ req[p].cmd = "intercept" /\ intercepted[req[p].syscall] = 0
         \/ req[p].cmd = "release" /\ intercepted[req[p].syscall] = 1

\* Who is gone has no place in the module any more, and the reverse.
GoneAreGone == \A p \in Pid : p \notin alive <=> pc[p] \in {"oops", "dead"}

\* All of it together is inductive: the interception of a call changes under
\* my_table_lock only, so what Intercept and Release saw holds when the entry
\* is swapped, and f is read from an entry that is known not to be interceptor.
IInv ==
  /\ TypeOK
  /\ LocksHeld
  /\ RequestInv
  /\ GoneAreGone
  /\ HandlersIntact
  /\ FlagIsTrue
  /\ ForwardsToOwn
  /\ CountIsLength

-----------------------------------------------------------------------------
(* What the comments of interceptor.c say, and the code does not do. *)

\* "Whenever altering the sys_call_table, make sure to use the set_addr_rw/
\* set_addr_ro functions to make the system call table writable, then set it
\* back to read-only": the page is writable when the table is written.
WritableWhenWritten ==
  \A p \in Pid : pc[p] = "swap" => writable

\* "remove the exiting process's pid from *all* syscall lists": no list names
\* a process that is gone.
NoDeadPidListed ==
  \A s \in Syscall, q \in Pid : my_list[s][q] > 0 => q \in alive
=============================================================================
