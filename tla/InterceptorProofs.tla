------------------------ MODULE InterceptorProofs --------------------------
(* Interceptor keeps its handlers, lists and locks right for any number of  *)
(* processes and of system calls, with faults, signals and full memory, and *)
(* Unload keeps the locks and lists right and, when nobody is inside the    *)
(* module, leaves the table as exit_function should.                        *)
EXTENDS Unload, TLAPS

Step(p) == my_syscall(p) \/ system_call(p) \/ Call(p) \/ Trap(p) \/ Killed(p)

\* The handlers of the kernel and of the module are all different.
LEMMA HandlersDiffer ==
  ASSUME NEW s \in Syscall, NEW t \in Syscall
  PROVE  /\ Kernel(s) # interceptor /\ Kernel(s) # my_exit_group
         /\ interceptor # my_exit_group
         /\ Original(s) # interceptor
         /\ Original(s) # Kernel(Exit)
         /\ Original(s) \in Handler
  <1>1. "kernel" # "module" /\ "interceptor" # "my_exit_group"
    OBVIOUS
  <1>2. /\ Kernel(s) # interceptor /\ Kernel(s) # my_exit_group
        /\ Kernel(Exit) # my_exit_group
        /\ interceptor # my_exit_group
    BY <1>1 DEF Kernel, interceptor, my_exit_group
  <1>3. s # Exit => Kernel(s) # Kernel(Exit)
    BY DEF Kernel
  <1> QED BY <1>2, <1>3 DEF Original, Handler

\* What the end of a step does to pc, req and alive.
LEMMA GotoType ==
  ASSUME pc \in [Pid -> Label], NEW p \in Pid, NEW l \in Label, Goto(p, l)
  PROVE  pc' \in [Pid -> Label]
  BY DEF Goto

LEMMA ReturnType ==
  ASSUME pc \in [Pid -> Label], req \in [Pid -> Request], NEW p \in Pid, Return(p)
  PROVE  pc' \in [Pid -> Label] /\ req' \in [Pid -> Request]
  <1>1. NoRequest \in Request
    BY SyscallAssumption DEF NoRequest, Request
  <1> QED BY <1>1 DEF Return, Goto, Label

LEMMA OopsType ==
  ASSUME pc \in [Pid -> Label], req \in [Pid -> Request], alive \subseteq Pid,
         NEW p \in Pid, Oops(p)
  PROVE  pc' \in [Pid -> Label] /\ req' \in [Pid -> Request] /\ alive' \subseteq Pid
  BY DEF Oops, Goto, Label

\* What a request holds.
LEMMA RequestType ==
  ASSUME DataOK, NEW p \in Pid
  PROVE  /\ req[p].syscall \in Syscall
         /\ req[p].pid \in Pid \cup {NoPid}
         /\ pc[p] \in Label
  BY DEF DataOK, Request

\* A list has at most one node, and listcount counts it.
LEMMA ListOf ==
  ASSUME DataOK, CountIsLength, NEW s \in Syscall, NEW q \in Pid
  PROVE  /\ my_list[s] \in [Pid -> Nat]
         /\ my_list[s][q] \in {0, 1}
         /\ listcount[s] \in {0, 1}
         /\ my_list[s][q] = 1 => listcount[s] = 1
         /\ listcount[s] - my_list[s][q] \in Nat
  <1>1. my_list[s] \in [Pid -> Nat] /\ listcount[s] \in {0, 1}
    BY DEF DataOK, CountIsLength
  <1>2. CASE listcount[s] = 0
    BY <1>1, <1>2 DEF CountIsLength
  <1>3. CASE listcount[s] = 1
    <2>1. my_list[s][q] \in {0, 1}
      BY <1>3 DEF CountIsLength
    <2> QED BY <1>1, <1>3, <2>1
  <1> QED BY <1>1, <1>2, <1>3

\* The alternative of StopMonitoring that deletes a node.
StopDeletes(p) ==
  LET s == req[p].syscall
      q == req[p].pid
      after == [my_list[s] EXCEPT ![q] = IF @ > 2 THEN @ - 2 ELSE 0]
      left  == listcount[s] - (my_list[s][q] - after[q])
  IN  /\ q # NoPid /\ monitored[s] = 1 /\ my_list[s][q] # 0
      /\ my_list' = [my_list EXCEPT ![s] = after]
      /\ listcount' = [listcount EXCEPT ![s] = left]
      /\ monitored' = [monitored EXCEPT ![s] = IF left = 0 THEN 0 ELSE 1]

\* The three things StartMonitoring does to the lists.
LEMMA StartCases ==
  ASSUME NEW p \in Pid, StartMonitoring(p)
  PROVE  \/ UNCHANGED list_vars
         \/ /\ destroy_list(req[p].syscall)
            /\ monitored' = [monitored EXCEPT ![req[p].syscall] = 2]
         \/ /\ req[p].pid # NoPid
            /\ monitored[req[p].syscall] = 0
            /\ monitored' = [monitored EXCEPT ![req[p].syscall] = 1]
            /\ \/ add_pid_sysc(req[p].pid, req[p].syscall)
               \/ UNCHANGED <<my_list, listcount>>
  BY DEF StartMonitoring, Refuse, list_vars

\* The three things StopMonitoring does to the lists.
LEMMA StopCases ==
  ASSUME NEW p \in Pid, StopMonitoring(p)
  PROVE  \/ UNCHANGED list_vars
         \/ /\ destroy_list(req[p].syscall)
            /\ monitored' = [monitored EXCEPT ![req[p].syscall] = 0]
         \/ StopDeletes(p)
  BY DEF StopMonitoring, StopDeletes, Refuse, list_vars

\* One lemma for each part of IInv: every step of a process keeps it.
LEMMA StepType ==
  ASSUME DataOK, RequestInv, CountIsLength, NEW p \in Pid, Step(p)
  PROVE  DataOK'
  <1>1. CASE Call(p)
    BY <1>1 DEF Call, Goto, entry_vars, list_vars, DataOK, Label, Command,
        Request, NoRequest
  <1>2. CASE LockTable(p)
    <2>1. req[p].cmd \in Label
      BY <1>2 DEF LockTable, RequestInv, Command, Label
    <2> QED BY <1>2, <2>1, GotoType DEF LockTable, entry_vars, list_vars, DataOK
  <1>3. CASE Intercept(p)
    <2>1. pc' \in [Pid -> Label] /\ req' \in [Pid -> Request]
      <3>1. "swap" \in Label
        BY DEF Label
      <3> QED BY <1>3, <3>1, GotoType, ReturnType DEF Intercept, Admit, DataOK
    <2> QED BY <1>3, <2>1 DEF Intercept, Admit, UnlockTable, entry_vars,
        list_vars, DataOK
  <1>4. CASE Release(p)
    <2>1. pc' \in [Pid -> Label] /\ req' \in [Pid -> Request]
      <3>1. "swap" \in Label
        BY DEF Label
      <3> QED BY <1>4, <3>1, GotoType, ReturnType DEF Release, Admit, DataOK
    <2> QED BY <1>4, <2>1 DEF Release, Admit, UnlockTable, entry_vars,
        list_vars, DataOK
  <1>5. CASE SwapIn(p)
    <2>1. pc' \in [Pid -> Label] /\ req' \in [Pid -> Request] /\ alive' \subseteq Pid
      <3>1. "unlock_sys" \in Label
        BY DEF Label
      <3> QED BY <1>5, <3>1, GotoType, OopsType DEF SwapIn, DataOK
    <2>2. req[p].syscall \in Syscall /\ interceptor \in Handler
      BY RequestType DEF DataOK, Handler
    <2>3. f' \in [Syscall -> Handler] /\ sys_call_table' \in [Syscall -> Handler]
      BY <1>5, <2>2 DEF SwapIn, DataOK
    <2>4. intercepted' \in [Syscall -> {0, 1}]
      BY <1>5, <2>2 DEF SwapIn, UnlockTable, DataOK
    <2> QED BY <1>5, <2>1, <2>3, <2>4 DEF SwapIn, list_vars, DataOK
  <1>6. CASE SwapOut(p)
    <2>1. pc' \in [Pid -> Label] /\ req' \in [Pid -> Request] /\ alive' \subseteq Pid
      <3>1. "unlock_sys" \in Label
        BY DEF Label
      <3> QED BY <1>6, <3>1, GotoType, OopsType DEF SwapOut, DataOK
    <2>2. req[p].syscall \in Syscall /\ f[req[p].syscall] \in Handler
      BY RequestType DEF DataOK, Handler
    <2>3. f' \in [Syscall -> Handler] /\ sys_call_table' \in [Syscall -> Handler]
      BY <1>6, <2>2 DEF SwapOut, DataOK
    <2>4. intercepted' \in [Syscall -> {0, 1}]
      BY <1>6, <2>2 DEF SwapOut, UnlockTable, DataOK
    <2> QED BY <1>6, <2>1, <2>3, <2>4 DEF SwapOut, list_vars, DataOK
  <1>7. CASE UnlockSys(p)
    <2>1. "ro" \in Label
      BY DEF Label
    <2>2. pc' \in [Pid -> Label]
      BY <1>7, <2>1, GotoType DEF UnlockSys, DataOK
    <2> QED BY <1>7, <2>2 DEF UnlockSys, entry_vars, list_vars, DataOK
  <1>8. CASE SetReadOnly(p)
    BY <1>8, ReturnType DEF SetReadOnly, entry_vars, list_vars, DataOK
  <1>9. CASE StartMonitoring(p)
    <2> DEFINE s == req[p].syscall
               q == req[p].pid
    <2>1. pc' \in [Pid -> Label] /\ req' \in [Pid -> Request] /\ alive' \subseteq Pid
      BY <1>9, ReturnType, OopsType DEF StartMonitoring, Refuse, DataOK
    <2>2. s \in Syscall /\ q \in Pid \cup {NoPid}
      BY RequestType
    <2>3. monitored' \in [Syscall -> {0, 1, 2}]
      BY <1>9, <2>2 DEF StartMonitoring, Refuse, UnlockTable, list_vars, DataOK
    <2>4. /\ listcount' \in [Syscall -> Nat]
          /\ my_list' \in [Syscall -> [Pid -> Nat]]
      <3>1. CASE UNCHANGED <<listcount, my_list>>
        BY <3>1 DEF DataOK
      <3>2. CASE destroy_list(s)
        BY <3>2 DEF destroy_list, Empty, DataOK
      <3>3. CASE q \in Pid /\ add_pid_sysc(q, s)
        BY <2>2, <3>3 DEF add_pid_sysc, DataOK
      <3> QED BY <1>9, <2>2, <3>1, <3>2, <3>3, StartCases DEF list_vars
    <2> QED BY <1>9, <2>1, <2>3, <2>4 DEF StartMonitoring, entry_vars, DataOK
  <1>10. CASE StopMonitoring(p)
    <2> DEFINE s == req[p].syscall
               q == req[p].pid
    <2>1. pc' \in [Pid -> Label] /\ req' \in [Pid -> Request] /\ alive' \subseteq Pid
      BY <1>10, ReturnType, OopsType DEF StopMonitoring, Refuse, DataOK
    <2>2. s \in Syscall /\ q \in Pid \cup {NoPid}
      BY RequestType
    <2>3. monitored' \in [Syscall -> {0, 1, 2}]
      BY <1>10, <2>2 DEF StopMonitoring, Refuse, UnlockTable, list_vars, DataOK
    <2>4. CASE UNCHANGED <<listcount, my_list>>
      BY <1>10, <2>1, <2>3, <2>4 DEF StopMonitoring, entry_vars, DataOK
    <2>5. CASE destroy_list(s)
      <3>1. my_list' \in [Syscall -> [Pid -> Nat]] /\ listcount' \in [Syscall -> Nat]
        BY <2>5 DEF destroy_list, Empty, DataOK
      <3> QED BY <1>10, <2>1, <2>3, <3>1 DEF StopMonitoring, entry_vars, DataOK
    <2>6. CASE StopDeletes(p)
      <3>1. /\ q \in Pid
            /\ my_list[s] \in [Pid -> Nat] /\ my_list[s][q] # 0
            /\ listcount[s] \in {0, 1}
            /\ listcount[s] = 0 => \A r \in Pid : my_list[s][r] = 0
            /\ listcount[s] = 1 => my_list[s][q] \in {0, 1}
        BY <2>2, <2>6 DEF StopDeletes, CountIsLength, DataOK
      <3>2. my_list[s][q] = 1 /\ listcount[s] = 1
        BY <3>1
      <3>3. /\ my_list' = [my_list EXCEPT ![s] = [my_list[s] EXCEPT ![q] = 0]]
            /\ listcount' = [listcount EXCEPT ![s] = 0]
        <4> DEFINE after == [my_list[s] EXCEPT ![q] = IF my_list[s][q] > 2 THEN my_list[s][q] - 2 ELSE 0]
        <4>1. after = [my_list[s] EXCEPT ![q] = 0] /\ after[q] = 0
          BY <3>1, <3>2
        <4>2. listcount[s] - (my_list[s][q] - after[q]) = 0
          BY <3>2, <4>1
        <4> HIDE DEF after
        <4>3. /\ my_list' = [my_list EXCEPT ![s] = after]
              /\ listcount' = [listcount EXCEPT ![s] = listcount[s] - (my_list[s][q] - after[q])]
          BY <2>6 DEF StopDeletes, after
        <4> QED BY <4>1, <4>2, <4>3
      <3>4. my_list' \in [Syscall -> [Pid -> Nat]] /\ listcount' \in [Syscall -> Nat]
        BY <2>2, <3>3 DEF DataOK
      <3> QED BY <1>10, <2>1, <2>3, <3>4, SMTT(30) DEF StopMonitoring, entry_vars, DataOK
    <2> QED BY <1>10, <2>4, <2>5, <2>6, StopCases DEF list_vars
  <1>11. CASE Trap(p)
    <2>1. "intercepted" \in Label /\ "exit" \in Label
      BY DEF Label
    <2>2. pc' \in [Pid -> Label]
      BY <1>11, <2>1, GotoType DEF Trap, DataOK
    <2>3. ASSUME NEW s \in Syscall
          PROVE  [cmd |-> "call", syscall |-> s, pid |-> NoPid] \in Request
      BY DEF Request
    <2>4. req' \in [Pid -> Request]
      BY <1>11, <2>3 DEF Trap, DataOK
    <2> QED BY <1>11, <2>2, <2>4 DEF Trap, entry_vars, list_vars, DataOK
  <1>12. CASE CheckMonitored(p)
    <2>1. "forward" \in Label
      BY DEF Label
    <2>2. pc' \in [Pid -> Label]
      BY <1>12, <2>1, GotoType DEF CheckMonitored, DataOK
    <2> QED BY <1>12, <2>2 DEF CheckMonitored, entry_vars, list_vars, DataOK
  <1>13. CASE Forward(p)
    <2>1. "intercepted" \in Label /\ "exit" \in Label /\ "exiting" \in Label
      BY DEF Label
    <2>2. pc' \in [Pid -> Label] /\ req' \in [Pid -> Request]
      BY <1>13, <2>1, GotoType, ReturnType DEF Forward, DataOK
    <2> QED BY <1>13, <2>2 DEF Forward, entry_vars, list_vars, DataOK
  <1>14. CASE ExitCleanUp(p)
    <2>1. "exiting" \in Label
      BY DEF Label
    <2>2. pc' \in [Pid -> Label]
      BY <1>14, <2>1, GotoType DEF ExitCleanUp, DataOK
    <2>3. /\ my_list' = [s \in Syscall |-> [my_list[s] EXCEPT ![p] = 0]]
          /\ listcount' = [s \in Syscall |-> listcount[s] - my_list[s][p]]
          /\ monitored' = [s \in Syscall |-> MonitoredAfter(s, my_list[s][p])]
      BY <1>14 DEF ExitCleanUp, del_pid
    <2>4. my_list' \in [Syscall -> [Pid -> Nat]] /\ monitored' \in [Syscall -> {0, 1, 2}]
      BY <2>3 DEF MonitoredAfter, DataOK
    <2>5. ASSUME NEW s \in Syscall PROVE listcount[s] - my_list[s][p] \in Nat
      BY ListOf
    <2>6. listcount' \in [Syscall -> Nat]
      BY <2>3, <2>5
    <2> QED BY <1>14, <2>2, <2>4, <2>6 DEF ExitCleanUp, entry_vars, DataOK
  <1>15. CASE ExitDie(p)
    <2>1. "dead" \in Label /\ NoRequest \in Request
      BY SyscallAssumption DEF Label, NoRequest, Request
    <2>2. pc' \in [Pid -> Label]
      BY <1>15, <2>1, GotoType DEF ExitDie, DataOK
    <2> QED BY <1>15, <2>1, <2>2 DEF ExitDie, entry_vars, list_vars, DataOK
  <1>16. CASE Killed(p)
    <2>1. "dead" \in Label
      BY DEF Label
    <2>2. pc' \in [Pid -> Label]
      BY <1>16, <2>1, GotoType DEF Killed, DataOK
    <2> QED BY <1>16, <2>2 DEF Killed, entry_vars, list_vars, DataOK
  <1> QED BY <1>1, <1>2, <1>3, <1>4, <1>5, <1>6, <1>7, <1>8, <1>9, <1>10, <1>11,
      <1>12, <1>13, <1>14, <1>15, <1>16 DEF Step, my_syscall, system_call

\* A step takes a lock for its own process, gives it back, or leaves it.
LEMMA StepHolder ==
  ASSUME NEW p \in Pid, Step(p)
  PROVE  /\ my_table_lock' \in {my_table_lock, p, NoPid}
         /\ sys_call_table_lock' \in {sys_call_table_lock, p, NoPid}
  BY DEF Step, my_syscall, system_call, Call, LockTable, Intercept, Release, Admit,
         SwapIn, SwapOut, UnlockSys, SetReadOnly, StartMonitoring, StopMonitoring,
         Refuse, UnlockTable, Trap, CheckMonitored, Forward, ExitCleanUp, ExitDie, Killed

\* The locks: taken and given back by their holder only.
LEMMA StepLocks ==
  ASSUME DataOK, RequestInv, LocksHeld, NEW p \in Pid, Step(p)
  PROVE  LocksHeld'
  <1>1. CASE Call(p)
    BY <1>1, PidAssumption DEF Call, Goto, entry_vars, list_vars, DataOK,
        LocksHeld, Label
  <1>2. CASE LockTable(p)
    BY <1>2, PidAssumption DEF LockTable, Goto, RequestInv, Command, DataOK,
        LocksHeld
  <1>3. CASE Intercept(p)
    BY <1>3, PidAssumption DEF Intercept, Admit, Goto, Return, UnlockTable,
        entry_vars, list_vars, DataOK, LocksHeld, Label
  <1>4. CASE Release(p)
    BY <1>4, PidAssumption DEF Release, Admit, Goto, Return, UnlockTable,
        entry_vars, list_vars, DataOK, LocksHeld, Label
  <1>5. CASE SwapIn(p)
    BY <1>5, PidAssumption DEF SwapIn, Goto, Oops, UnlockTable, entry_vars,
        list_vars, DataOK, LocksHeld, Label
  <1>6. CASE SwapOut(p)
    BY <1>6, PidAssumption DEF SwapOut, Goto, Oops, UnlockTable, entry_vars,
        list_vars, DataOK, LocksHeld, Label
  <1>7. CASE UnlockSys(p)
    BY <1>7, PidAssumption DEF UnlockSys, Goto, entry_vars, list_vars, DataOK,
        LocksHeld, Label
  <1>8. CASE SetReadOnly(p)
    BY <1>8, PidAssumption DEF SetReadOnly, Goto, Return, entry_vars, list_vars,
        DataOK, LocksHeld, Label
  <1>9. CASE StartMonitoring(p)
    BY <1>9, PidAssumption DEF StartMonitoring, Goto, Return, Oops, UnlockTable,
        Refuse, destroy_list, add_pid_sysc, entry_vars, list_vars, DataOK,
        LocksHeld, Label
  <1>10. CASE StopMonitoring(p)
    BY <1>10, PidAssumption DEF StopMonitoring, Goto, Return, Oops, UnlockTable,
        Refuse, destroy_list, entry_vars, list_vars, DataOK, LocksHeld, Label
  <1>11. CASE Trap(p)
    BY <1>11, PidAssumption DEF Trap, Goto, entry_vars, list_vars, DataOK,
        LocksHeld, Label
  <1>12. CASE CheckMonitored(p)
    BY <1>12, PidAssumption DEF CheckMonitored, Goto, entry_vars, list_vars,
        DataOK, LocksHeld, Label
  <1>13. CASE Forward(p)
    BY <1>13, PidAssumption DEF Forward, Goto, Return, entry_vars, list_vars,
        DataOK, LocksHeld, Label
  <1>14. CASE ExitCleanUp(p)
    BY <1>14, PidAssumption DEF ExitCleanUp, Goto, del_pid, entry_vars,
        list_vars, DataOK, LocksHeld, Label
  <1>15. CASE ExitDie(p)
    BY <1>15, PidAssumption DEF ExitDie, Goto, entry_vars, list_vars, DataOK,
        LocksHeld, Label
  <1>16. CASE Killed(p)
    BY <1>16, PidAssumption DEF Killed, Goto, entry_vars, list_vars, DataOK,
        LocksHeld, Label
  <1> QED BY <1>1, <1>2, <1>3, <1>4, <1>5, <1>6, <1>7, <1>8, <1>9, <1>10, <1>11,
      <1>12, <1>13, <1>14, <1>15, <1>16 DEF Step, my_syscall, system_call

\* intercepted[s] changes under my_table_lock only.
LEMMA StepRequest ==
  ASSUME DataOK, LocksHeld, RequestInv, NEW p \in Pid, Step(p)
  PROVE  RequestInv'
  <1>1. CASE Call(p)
    BY <1>1, PidAssumption DEF Call, Goto, entry_vars, list_vars, DataOK,
        RequestInv, LocksHeld, Command
  <1>2. CASE LockTable(p)
    BY <1>2, RequestType DEF LockTable, Goto, entry_vars, RequestInv, Command,
        DataOK
  <1>3. CASE Intercept(p)
    <2>1. CASE writable' = TRUE /\ pc' = [pc EXCEPT ![p] = "swap"] /\ UNCHANGED <<req, intercepted>>
      <3>1. req[p].cmd = "intercept" /\ req[p].syscall \in Syscall
        BY <1>3, RequestType DEF Intercept, Admit, RequestInv, Command
      <3>2. intercepted[req[p].syscall] = 0
        BY <1>3, <2>1, <3>1 DEF Intercept, Admit, Return, Goto, DataOK
      <3> QED BY <2>1, <3>1, <3>2 DEF DataOK, RequestInv, Command
    <2>2. CASE Return(p) /\ UNCHANGED intercepted
      BY <2>2 DEF Return, Goto, DataOK, RequestInv, Command
    <2> QED BY <1>3, <2>1, <2>2 DEF Intercept, Admit, Goto
  <1>4. CASE Release(p)
    <2>1. CASE writable' = TRUE /\ pc' = [pc EXCEPT ![p] = "swap"] /\ UNCHANGED <<req, intercepted>>
      <3>1. req[p].cmd = "release" /\ req[p].syscall \in Syscall
        BY <1>4, RequestType DEF Release, Admit, RequestInv, Command
      <3>2. intercepted[req[p].syscall] = 1
        BY <1>4, <2>1, <3>1 DEF Release, Admit, Return, Goto, DataOK
      <3> QED BY <2>1, <3>1, <3>2 DEF DataOK, RequestInv, Command
    <2>2. CASE Return(p) /\ UNCHANGED intercepted
      BY <2>2 DEF Return, Goto, DataOK, RequestInv, Command
    <2> QED BY <1>4, <2>1, <2>2 DEF Release, Admit, Goto
  <1>5. CASE SwapIn(p)
    BY <1>5, PidAssumption DEF SwapIn, Goto, Oops, UnlockTable, entry_vars,
        list_vars, DataOK, RequestInv, LocksHeld, Command
  <1>6. CASE SwapOut(p)
    BY <1>6, PidAssumption DEF SwapOut, Goto, Oops, UnlockTable, entry_vars,
        list_vars, DataOK, RequestInv, LocksHeld, Command
  <1>7. CASE UnlockSys(p)
    BY <1>7, PidAssumption DEF UnlockSys, Goto, entry_vars, list_vars, DataOK,
        RequestInv, LocksHeld, Command
  <1>8. CASE SetReadOnly(p)
    BY <1>8, PidAssumption DEF SetReadOnly, Goto, Return, entry_vars, list_vars,
        DataOK, RequestInv, LocksHeld, Command
  <1>9. CASE StartMonitoring(p)
    BY <1>9, PidAssumption DEF StartMonitoring, Goto, Return, Oops, UnlockTable,
        Refuse, destroy_list, add_pid_sysc, entry_vars, list_vars, DataOK,
        RequestInv, LocksHeld, Command
  <1>10. CASE StopMonitoring(p)
    BY <1>10, PidAssumption DEF StopMonitoring, Goto, Return, Oops, UnlockTable,
        Refuse, destroy_list, entry_vars, list_vars, DataOK, RequestInv,
        LocksHeld, Command
  <1>11. CASE Trap(p)
    BY <1>11, PidAssumption DEF Trap, Goto, entry_vars, list_vars, DataOK,
        RequestInv, LocksHeld, Command
  <1>12. CASE CheckMonitored(p)
    BY <1>12, PidAssumption DEF CheckMonitored, Goto, entry_vars, list_vars,
        DataOK, RequestInv, LocksHeld, Command
  <1>13. CASE Forward(p)
    BY <1>13, PidAssumption DEF Forward, Goto, Return, entry_vars, list_vars,
        DataOK, RequestInv, LocksHeld, Command
  <1>14. CASE ExitCleanUp(p)
    BY <1>14, PidAssumption DEF ExitCleanUp, Goto, del_pid, entry_vars,
        list_vars, DataOK, RequestInv, LocksHeld, Command
  <1>15. CASE ExitDie(p)
    BY <1>15, PidAssumption DEF ExitDie, Goto, entry_vars, list_vars, DataOK,
        RequestInv, LocksHeld, Command
  <1>16. CASE Killed(p)
    BY <1>16, PidAssumption DEF Killed, Goto, entry_vars, list_vars, DataOK,
        RequestInv, LocksHeld, Command
  <1> QED BY <1>1, <1>2, <1>3, <1>4, <1>5, <1>6, <1>7, <1>8, <1>9, <1>10, <1>11,
      <1>12, <1>13, <1>14, <1>15, <1>16 DEF Step, my_syscall, system_call

\* A process that is gone takes no step.
LEMMA StepGone ==
  ASSUME DataOK, RequestInv, GoneAreGone, NEW p \in Pid, Step(p)
  PROVE  GoneAreGone'
  <1>1. CASE Call(p)
    BY <1>1 DEF Call, Goto, entry_vars, list_vars, DataOK, GoneAreGone
  <1>2. CASE LockTable(p)
    BY <1>2 DEF LockTable, Goto, RequestInv, Command, DataOK, GoneAreGone
  <1>3. CASE Intercept(p)
    BY <1>3 DEF Intercept, Admit, Goto, Return, UnlockTable, entry_vars,
        list_vars, DataOK, GoneAreGone
  <1>4. CASE Release(p)
    BY <1>4 DEF Release, Admit, Goto, Return, UnlockTable, entry_vars,
        list_vars, DataOK, GoneAreGone
  <1>5. CASE SwapIn(p)
    BY <1>5 DEF SwapIn, Goto, Oops, UnlockTable, entry_vars, list_vars, DataOK,
        GoneAreGone
  <1>6. CASE SwapOut(p)
    BY <1>6 DEF SwapOut, Goto, Oops, UnlockTable, entry_vars, list_vars, DataOK,
        GoneAreGone
  <1>7. CASE UnlockSys(p)
    BY <1>7 DEF UnlockSys, Goto, entry_vars, list_vars, DataOK, GoneAreGone
  <1>8. CASE SetReadOnly(p)
    BY <1>8 DEF SetReadOnly, Goto, Return, entry_vars, list_vars, DataOK,
        GoneAreGone
  <1>9. CASE StartMonitoring(p)
    BY <1>9 DEF StartMonitoring, Goto, Return, Oops, UnlockTable, Refuse,
        destroy_list, add_pid_sysc, entry_vars, list_vars, DataOK, GoneAreGone
  <1>10. CASE StopMonitoring(p)
    BY <1>10 DEF StopMonitoring, Goto, Return, Oops, UnlockTable, Refuse,
        destroy_list, entry_vars, list_vars, DataOK, GoneAreGone
  <1>11. CASE Trap(p)
    BY <1>11 DEF Trap, Goto, entry_vars, list_vars, DataOK, GoneAreGone
  <1>12. CASE CheckMonitored(p)
    BY <1>12 DEF CheckMonitored, Goto, entry_vars, list_vars, DataOK, GoneAreGone
  <1>13. CASE Forward(p)
    BY <1>13 DEF Forward, Goto, Return, entry_vars, list_vars, DataOK, GoneAreGone
  <1>14. CASE ExitCleanUp(p)
    BY <1>14 DEF ExitCleanUp, Goto, del_pid, entry_vars, list_vars, DataOK,
        GoneAreGone
  <1>15. CASE ExitDie(p)
    BY <1>15 DEF ExitDie, Goto, entry_vars, list_vars, DataOK, GoneAreGone
  <1>16. CASE Killed(p)
    BY <1>16 DEF Killed, Goto, entry_vars, list_vars, DataOK, GoneAreGone
  <1> QED BY <1>1, <1>2, <1>3, <1>4, <1>5, <1>6, <1>7, <1>8, <1>9, <1>10, <1>11,
      <1>12, <1>13, <1>14, <1>15, <1>16 DEF Step, my_syscall, system_call

\* SwapIn saves an entry that is not interceptor yet.
LEMMA StepHandlers ==
  ASSUME DataOK, RequestInv, HandlersIntact, NEW p \in Pid, Step(p)
  PROVE  HandlersIntact'
  <1>1. CASE Call(p)
    BY <1>1 DEF Call, Goto, entry_vars, list_vars, DataOK, HandlersIntact,
        RequestInv
  <1>2. CASE LockTable(p)
    BY <1>2 DEF LockTable, Goto, entry_vars, list_vars, DataOK, HandlersIntact,
        RequestInv
  <1>3. CASE Intercept(p)
    BY <1>3 DEF Intercept, Admit, Goto, Return, UnlockTable, entry_vars,
        list_vars, DataOK, HandlersIntact, RequestInv
  <1>4. CASE Release(p)
    BY <1>4 DEF Release, Admit, Goto, Return, UnlockTable, entry_vars,
        list_vars, DataOK, HandlersIntact, RequestInv
  <1>5. CASE SwapIn(p)
    BY <1>5 DEF SwapIn, Goto, Oops, UnlockTable, entry_vars, list_vars, DataOK,
        HandlersIntact, RequestInv
  <1>6. CASE SwapOut(p)
    BY <1>6 DEF SwapOut, Goto, Oops, UnlockTable, entry_vars, list_vars, DataOK,
        HandlersIntact, RequestInv
  <1>7. CASE UnlockSys(p)
    BY <1>7 DEF UnlockSys, Goto, entry_vars, list_vars, DataOK, HandlersIntact,
        RequestInv
  <1>8. CASE SetReadOnly(p)
    BY <1>8 DEF SetReadOnly, Goto, Return, entry_vars, list_vars, DataOK,
        HandlersIntact, RequestInv
  <1>9. CASE StartMonitoring(p)
    BY <1>9 DEF StartMonitoring, Goto, Return, Oops, UnlockTable, Refuse,
        destroy_list, add_pid_sysc, entry_vars, list_vars, DataOK,
        HandlersIntact, RequestInv
  <1>10. CASE StopMonitoring(p)
    BY <1>10 DEF StopMonitoring, Goto, Return, Oops, UnlockTable, Refuse,
        destroy_list, entry_vars, list_vars, DataOK, HandlersIntact, RequestInv
  <1>11. CASE Trap(p)
    BY <1>11 DEF Trap, Goto, entry_vars, list_vars, DataOK, HandlersIntact,
        RequestInv
  <1>12. CASE CheckMonitored(p)
    BY <1>12 DEF CheckMonitored, Goto, entry_vars, list_vars, DataOK,
        HandlersIntact, RequestInv
  <1>13. CASE Forward(p)
    BY <1>13 DEF Forward, Goto, Return, entry_vars, list_vars, DataOK,
        HandlersIntact, RequestInv
  <1>14. CASE ExitCleanUp(p)
    BY <1>14 DEF ExitCleanUp, Goto, del_pid, entry_vars, list_vars, DataOK,
        HandlersIntact, RequestInv
  <1>15. CASE ExitDie(p)
    BY <1>15 DEF ExitDie, Goto, entry_vars, list_vars, DataOK, HandlersIntact,
        RequestInv
  <1>16. CASE Killed(p)
    BY <1>16 DEF Killed, Goto, entry_vars, list_vars, DataOK, HandlersIntact,
        RequestInv
  <1> QED BY <1>1, <1>2, <1>3, <1>4, <1>5, <1>6, <1>7, <1>8, <1>9, <1>10, <1>11,
      <1>12, <1>13, <1>14, <1>15, <1>16 DEF Step, my_syscall, system_call

\* Flag and entry change in one step, or the writer faults.
LEMMA StepFlag ==
  ASSUME DataOK, RequestInv, HandlersIntact, FlagIsTrue, NEW p \in Pid, Step(p)
  PROVE  FlagIsTrue'
  <1>1. CASE Call(p)
    BY <1>1 DEF Call, Goto, entry_vars, list_vars, DataOK, FlagIsTrue, RequestInv
  <1>2. CASE LockTable(p)
    BY <1>2 DEF LockTable, Goto, entry_vars, list_vars, DataOK, FlagIsTrue,
        RequestInv
  <1>3. CASE Intercept(p)
    BY <1>3 DEF Intercept, Admit, Goto, Return, UnlockTable, entry_vars,
        list_vars, DataOK, FlagIsTrue, RequestInv
  <1>4. CASE Release(p)
    BY <1>4 DEF Release, Admit, Goto, Return, UnlockTable, entry_vars,
        list_vars, DataOK, FlagIsTrue, RequestInv
  <1>5. CASE SwapIn(p)
    BY <1>5 DEF SwapIn, Goto, Oops, UnlockTable, entry_vars, list_vars, DataOK,
        FlagIsTrue, RequestInv
  <1>6. CASE SwapOut(p)
    <2> DEFINE s == req[p].syscall
    <2>1. s \in Syscall /\ pc[p] # "oops"
      BY <1>6, RequestType DEF SwapOut
    <2>2. CASE writable
      BY <1>6, <2>1, <2>2 DEF SwapOut, Goto, DataOK, FlagIsTrue
    <2>3. CASE ~writable
      BY <1>6, <2>1, <2>3 DEF SwapOut, Goto, Oops, DataOK, FlagIsTrue
    <2> QED BY <2>2, <2>3
  <1>7. CASE UnlockSys(p)
    BY <1>7 DEF UnlockSys, Goto, entry_vars, list_vars, DataOK, FlagIsTrue,
        RequestInv
  <1>8. CASE SetReadOnly(p)
    BY <1>8 DEF SetReadOnly, Goto, Return, entry_vars, list_vars, DataOK,
        FlagIsTrue, RequestInv
  <1>9. CASE StartMonitoring(p)
    BY <1>9 DEF StartMonitoring, Goto, Return, Oops, UnlockTable, Refuse,
        destroy_list, add_pid_sysc, entry_vars, list_vars, DataOK, FlagIsTrue,
        RequestInv
  <1>10. CASE StopMonitoring(p)
    BY <1>10 DEF StopMonitoring, Goto, Return, Oops, UnlockTable, Refuse,
        destroy_list, entry_vars, list_vars, DataOK, FlagIsTrue, RequestInv
  <1>11. CASE Trap(p)
    BY <1>11 DEF Trap, Goto, entry_vars, list_vars, DataOK, FlagIsTrue, RequestInv
  <1>12. CASE CheckMonitored(p)
    BY <1>12 DEF CheckMonitored, Goto, entry_vars, list_vars, DataOK,
        FlagIsTrue, RequestInv
  <1>13. CASE Forward(p)
    BY <1>13 DEF Forward, Goto, Return, entry_vars, list_vars, DataOK,
        FlagIsTrue, RequestInv
  <1>14. CASE ExitCleanUp(p)
    BY <1>14 DEF ExitCleanUp, Goto, del_pid, entry_vars, list_vars, DataOK,
        FlagIsTrue, RequestInv
  <1>15. CASE ExitDie(p)
    BY <1>15 DEF ExitDie, Goto, entry_vars, list_vars, DataOK, FlagIsTrue,
        RequestInv
  <1>16. CASE Killed(p)
    BY <1>16 DEF Killed, Goto, entry_vars, list_vars, DataOK, FlagIsTrue, RequestInv
  <1> QED BY <1>1, <1>2, <1>3, <1>4, <1>5, <1>6, <1>7, <1>8, <1>9, <1>10, <1>11,
      <1>12, <1>13, <1>14, <1>15, <1>16 DEF Step, my_syscall, system_call

\* f never stops being the call's own handler.
LEMMA StepForwards ==
  ASSUME DataOK, RequestInv, HandlersIntact, ForwardsToOwn, NEW p \in Pid, Step(p)
  PROVE  ForwardsToOwn'
  <1>1. CASE Call(p)
    BY <1>1 DEF Call, Goto, entry_vars, list_vars, DataOK, ForwardsToOwn,
        RequestInv, HandlersIntact
  <1>2. CASE LockTable(p)
    BY <1>2 DEF LockTable, Goto, entry_vars, RequestInv, Command, DataOK,
        ForwardsToOwn
  <1>3. CASE Intercept(p)
    BY <1>3 DEF Intercept, Admit, Goto, Return, UnlockTable, entry_vars,
        list_vars, DataOK, ForwardsToOwn, RequestInv, HandlersIntact
  <1>4. CASE Release(p)
    BY <1>4 DEF Release, Admit, Goto, Return, UnlockTable, entry_vars,
        list_vars, DataOK, ForwardsToOwn, RequestInv, HandlersIntact
  <1>5. CASE SwapIn(p)
    BY <1>5 DEF SwapIn, Goto, Oops, UnlockTable, entry_vars, list_vars, DataOK,
        ForwardsToOwn, RequestInv, HandlersIntact
  <1>6. CASE SwapOut(p)
    BY <1>6 DEF SwapOut, Goto, Oops, UnlockTable, entry_vars, list_vars, DataOK,
        ForwardsToOwn, RequestInv, HandlersIntact
  <1>7. CASE UnlockSys(p)
    BY <1>7 DEF UnlockSys, Goto, entry_vars, list_vars, DataOK, ForwardsToOwn,
        RequestInv, HandlersIntact
  <1>8. CASE SetReadOnly(p)
    BY <1>8 DEF SetReadOnly, Goto, Return, entry_vars, list_vars, DataOK,
        ForwardsToOwn, RequestInv, HandlersIntact
  <1>9. CASE StartMonitoring(p)
    BY <1>9 DEF StartMonitoring, Goto, Return, Oops, UnlockTable, Refuse,
        destroy_list, add_pid_sysc, entry_vars, list_vars, DataOK,
        ForwardsToOwn, RequestInv, HandlersIntact
  <1>10. CASE StopMonitoring(p)
    BY <1>10 DEF StopMonitoring, Goto, Return, Oops, UnlockTable, Refuse,
        destroy_list, entry_vars, list_vars, DataOK, ForwardsToOwn, RequestInv,
        HandlersIntact
  <1>11. CASE Trap(p)
    <2>1. PICK s \in Syscall :
            /\ req' = [req EXCEPT ![p] = [cmd |-> "call", syscall |-> s, pid |-> NoPid]]
            /\ \/ sys_call_table[s] = interceptor /\ pc' = [pc EXCEPT ![p] = "intercepted"]
               \/ pc' = [pc EXCEPT ![p] = "exit"]
      BY <1>11 DEF Trap, Goto
    <2>2. sys_call_table[s] = interceptor => f[s] = Original(s)
      BY HandlersDiffer DEF HandlersIntact
    <2>3. req'[p].syscall = s /\ \A q \in Pid : q # p => req'[q] = req[q]
      BY <2>1 DEF DataOK
    <2>4. pc'[p] # "exit" => f[s] = Original(s)
      BY <2>1, <2>2 DEF DataOK
    <2>5. pc'[p] \in {"exit", "intercepted"} /\ \A q \in Pid : q # p => pc'[q] = pc[q]
      BY <2>1 DEF DataOK
    <2> QED BY <1>11, <2>3, <2>4, <2>5 DEF Trap, entry_vars, ForwardsToOwn
  <1>12. CASE CheckMonitored(p)
    BY <1>12 DEF CheckMonitored, Goto, entry_vars, list_vars, DataOK,
        ForwardsToOwn, RequestInv, HandlersIntact
  <1>13. CASE Forward(p)
    BY <1>13 DEF Forward, Goto, Return, entry_vars, list_vars, DataOK,
        ForwardsToOwn, RequestInv, HandlersIntact
  <1>14. CASE ExitCleanUp(p)
    BY <1>14 DEF ExitCleanUp, Goto, del_pid, entry_vars, list_vars, DataOK,
        ForwardsToOwn, RequestInv, HandlersIntact
  <1>15. CASE ExitDie(p)
    BY <1>15 DEF ExitDie, Goto, entry_vars, list_vars, DataOK, ForwardsToOwn,
        RequestInv, HandlersIntact
  <1>16. CASE Killed(p)
    BY <1>16 DEF Killed, Goto, entry_vars, list_vars, DataOK, ForwardsToOwn,
        RequestInv, HandlersIntact
  <1> QED BY <1>1, <1>2, <1>3, <1>4, <1>5, <1>6, <1>7, <1>8, <1>9, <1>10, <1>11,
      <1>12, <1>13, <1>14, <1>15, <1>16 DEF Step, my_syscall, system_call

\* The node that StopMonitoring deletes is the only one of its list.
LEMMA StopEmpties ==
  ASSUME DataOK, CountIsLength, NEW p \in Pid, StopDeletes(p)
  PROVE  /\ my_list' = [my_list EXCEPT ![req[p].syscall] = Empty]
         /\ listcount' = [listcount EXCEPT ![req[p].syscall] = 0]
         /\ monitored' = [monitored EXCEPT ![req[p].syscall] = 0]
  <1> DEFINE s == req[p].syscall
             q == req[p].pid
             after == [my_list[s] EXCEPT ![q] = IF my_list[s][q] > 2 THEN my_list[s][q] - 2 ELSE 0]
  <1>1. s \in Syscall /\ q \in Pid
    BY RequestType DEF StopDeletes
  <1>2. my_list[s] \in [Pid -> Nat] /\ my_list[s][q] = 1 /\ listcount[s] = 1
    BY <1>1, ListOf DEF StopDeletes
  <1>3. \A r \in Pid : r # q => my_list[s][r] = 0
    BY <1>1, <1>2 DEF CountIsLength
  <1>4. after = Empty /\ after[q] = 0
    BY <1>1, <1>2, <1>3 DEF Empty
  <1>5. listcount[s] - (my_list[s][q] - after[q]) = 0
    BY <1>2, <1>4
  <1> HIDE DEF after
  <1>6. /\ my_list' = [my_list EXCEPT ![s] = after]
        /\ listcount' = [listcount EXCEPT ![s] = listcount[s] - (my_list[s][q] - after[q])]
        /\ monitored' = [monitored EXCEPT ![s] =
             IF listcount[s] - (my_list[s][q] - after[q]) = 0 THEN 0 ELSE 1]
    BY DEF StopDeletes, after
  <1> QED BY <1>4, <1>5, <1>6

\* Lists grow only when they are empty and shrink only when they are not.
LEMMA StepCount ==
  ASSUME DataOK, CountIsLength, NEW p \in Pid, Step(p)
  PROVE  CountIsLength'
  <1>1. CASE Call(p)
    BY <1>1 DEF Call, Goto, entry_vars, list_vars, DataOK, CountIsLength
  <1>2. CASE LockTable(p)
    BY <1>2 DEF LockTable, Goto, entry_vars, list_vars, DataOK, CountIsLength
  <1>3. CASE Intercept(p)
    BY <1>3 DEF Intercept, Admit, Goto, Return, UnlockTable, entry_vars,
        list_vars, DataOK, CountIsLength
  <1>4. CASE Release(p)
    BY <1>4 DEF Release, Admit, Goto, Return, UnlockTable, entry_vars,
        list_vars, DataOK, CountIsLength
  <1>5. CASE SwapIn(p)
    BY <1>5 DEF SwapIn, Goto, Oops, UnlockTable, entry_vars, list_vars, DataOK,
        CountIsLength
  <1>6. CASE SwapOut(p)
    BY <1>6 DEF SwapOut, Goto, Oops, UnlockTable, entry_vars, list_vars, DataOK,
        CountIsLength
  <1>7. CASE UnlockSys(p)
    BY <1>7 DEF UnlockSys, Goto, entry_vars, list_vars, DataOK, CountIsLength
  <1>8. CASE SetReadOnly(p)
    BY <1>8 DEF SetReadOnly, Goto, Return, entry_vars, list_vars, DataOK,
        CountIsLength
  <1>9. CASE StartMonitoring(p)
    <2> DEFINE s == req[p].syscall
               q == req[p].pid
    <2>1. s \in Syscall /\ q \in Pid \cup {NoPid}
      BY RequestType
    <2>2. CASE UNCHANGED list_vars
      BY <2>2 DEF list_vars, CountIsLength
    <2>3. CASE destroy_list(s) /\ monitored' = [monitored EXCEPT ![s] = 2]
      BY <2>1, <2>3 DEF destroy_list, Empty, DataOK, CountIsLength
    <2>4. CASE monitored' = [monitored EXCEPT ![s] = 1] /\ UNCHANGED <<my_list, listcount>>
      BY <2>1, <2>4 DEF DataOK, CountIsLength
    <2>5. CASE /\ q # NoPid /\ monitored[s] = 0 /\ add_pid_sysc(q, s)
               /\ monitored' = [monitored EXCEPT ![s] = 1]
      <3>1. listcount[s] = 0 /\ (\A r \in Pid : my_list[s][r] = 0) /\ my_list[s] \in [Pid -> Nat]
        BY <2>1, <2>5 DEF DataOK, CountIsLength
      <3>2. listcount' = [listcount EXCEPT ![s] = 1]
        BY <3>1, <2>5 DEF add_pid_sysc
      <3>3. q \in Pid
        BY <2>1, <2>5
      <3>4. my_list' = [my_list EXCEPT ![s] = [my_list[s] EXCEPT ![q] = 1]]
        <4>1. my_list[s][q] + 1 = 1
          BY <3>1, <3>3
        <4> QED BY <2>5, <4>1 DEF add_pid_sysc
      <3>5. \A r \in Pid : my_list'[s][r] = IF r = q THEN 1 ELSE 0
        BY <2>1, <3>1, <3>3, <3>4 DEF DataOK
      <3>6. /\ listcount'[s] = 1 /\ monitored'[s] = 1
            /\ \A t \in Syscall : t # s =>
                 /\ listcount'[t] = listcount[t] /\ monitored'[t] = monitored[t]
                 /\ my_list'[t] = my_list[t]
        BY <2>1, <2>5, <3>2, <3>4 DEF DataOK
      <3>7. ASSUME NEW t \in Syscall, t # s
            PROVE  /\ listcount'[t] \in {0, 1}
                   /\ listcount'[t] = 0 => \A r \in Pid : my_list'[t][r] = 0
                   /\ listcount'[t] = 1 => \E u \in Pid : \A r \in Pid :
                                             my_list'[t][r] = IF r = u THEN 1 ELSE 0
                   /\ monitored'[t] # 1 => listcount'[t] = 0
        BY <3>6, <3>7 DEF CountIsLength
      <3> QED BY <3>3, <3>5, <3>6, <3>7 DEF CountIsLength
    <2> QED BY <1>9, <2>2, <2>3, <2>4, <2>5, StartCases
  <1>10. CASE StopMonitoring(p)
    <2> DEFINE s == req[p].syscall
    <2>1. s \in Syscall
      BY RequestType
    <2>2. CASE UNCHANGED list_vars
      BY <2>2 DEF list_vars, CountIsLength
    <2>3. CASE destroy_list(s) /\ monitored' = [monitored EXCEPT ![s] = 0]
      BY <2>1, <2>3 DEF destroy_list, Empty, DataOK, CountIsLength
    <2>4. CASE StopDeletes(p)
      <3>1. /\ my_list' = [my_list EXCEPT ![s] = Empty]
            /\ listcount' = [listcount EXCEPT ![s] = 0]
            /\ monitored' = [monitored EXCEPT ![s] = 0]
        BY <2>4, StopEmpties
      <3> QED BY <2>1, <3>1 DEF Empty, DataOK, CountIsLength
    <2> QED BY <1>10, <2>2, <2>3, <2>4, StopCases
  <1>11. CASE Trap(p)
    BY <1>11 DEF Trap, Goto, entry_vars, list_vars, DataOK, CountIsLength
  <1>12. CASE CheckMonitored(p)
    BY <1>12 DEF CheckMonitored, Goto, entry_vars, list_vars, DataOK, CountIsLength
  <1>13. CASE Forward(p)
    BY <1>13 DEF Forward, Goto, Return, entry_vars, list_vars, DataOK, CountIsLength
  <1>14. CASE ExitCleanUp(p)
    <2>1. /\ my_list' = [s \in Syscall |-> [my_list[s] EXCEPT ![p] = 0]]
          /\ listcount' = [s \in Syscall |-> listcount[s] - my_list[s][p]]
          /\ monitored' = [s \in Syscall |-> MonitoredAfter(s, my_list[s][p])]
      BY <1>14 DEF ExitCleanUp, del_pid
    <2> SUFFICES ASSUME NEW s \in Syscall
                 PROVE  /\ listcount'[s] \in {0, 1}
                        /\ listcount'[s] = 0 => \A q \in Pid : my_list'[s][q] = 0
                        /\ listcount'[s] = 1 => \E q \in Pid : \A r \in Pid :
                                                  my_list'[s][r] = IF r = q THEN 1 ELSE 0
                        /\ monitored'[s] # 1 => listcount'[s] = 0
      BY DEF CountIsLength
    <2>2. /\ my_list[s] \in [Pid -> Nat] /\ my_list[s][p] \in {0, 1}
          /\ listcount[s] \in {0, 1} /\ (my_list[s][p] = 1 => listcount[s] = 1)
      BY ListOf
    <2>3. CASE my_list[s][p] = 0
      <3>1. my_list'[s] = my_list[s] /\ listcount'[s] = listcount[s] /\ monitored'[s] = monitored[s]
        BY <2>1, <2>2, <2>3 DEF MonitoredAfter
      <3> QED BY <3>1 DEF CountIsLength
    <2>4. CASE my_list[s][p] = 1
      <3>1. listcount'[s] = 0 /\ my_list'[s] = [my_list[s] EXCEPT ![p] = 0]
        BY <2>1, <2>2, <2>4
      <3>2. \A r \in Pid : r # p => my_list[s][r] = 0
        BY <2>2, <2>4 DEF CountIsLength
      <3> QED BY <2>2, <3>1, <3>2
    <2> QED BY <2>2, <2>3, <2>4
  <1>15. CASE ExitDie(p)
    BY <1>15 DEF ExitDie, Goto, entry_vars, list_vars, DataOK, CountIsLength
  <1>16. CASE Killed(p)
    BY <1>16 DEF Killed, Goto, entry_vars, list_vars, DataOK, CountIsLength
  <1> QED BY <1>1, <1>2, <1>3, <1>4, <1>5, <1>6, <1>7, <1>8, <1>9, <1>10, <1>11,
      <1>12, <1>13, <1>14, <1>15, <1>16 DEF Step, my_syscall, system_call

\* Only these two steps lead a process to its end.
LEMMA OnlyTheseExit ==
  ASSUME DataOK, RequestInv, NEW r \in Pid, pc[r] # "exiting", pc'[r] =
      "exiting", NEW p \in Pid, Step(p)
  PROVE  r = p /\ (Forward(p) \/ ExitCleanUp(p))
  <1>1. CASE Call(p)
    BY <1>1 DEF Call, Goto, entry_vars, list_vars, DataOK
  <1>2. CASE LockTable(p)
    BY <1>2 DEF LockTable, RequestInv, Command, Goto, entry_vars, list_vars, DataOK
  <1>3. CASE Intercept(p)
    BY <1>3 DEF Intercept, Admit, Goto, Return, UnlockTable, entry_vars,
        list_vars, DataOK
  <1>4. CASE Release(p)
    BY <1>4 DEF Release, Admit, Goto, Return, UnlockTable, entry_vars,
        list_vars, DataOK
  <1>5. CASE SwapIn(p)
    BY <1>5 DEF SwapIn, Goto, Oops, UnlockTable, entry_vars, list_vars, DataOK
  <1>6. CASE SwapOut(p)
    BY <1>6 DEF SwapOut, Goto, Oops, UnlockTable, entry_vars, list_vars, DataOK
  <1>7. CASE UnlockSys(p)
    BY <1>7 DEF UnlockSys, Goto, entry_vars, list_vars, DataOK
  <1>8. CASE SetReadOnly(p)
    BY <1>8 DEF SetReadOnly, Goto, Return, entry_vars, list_vars, DataOK
  <1>9. CASE StartMonitoring(p)
    BY <1>9 DEF StartMonitoring, Goto, Return, Oops, UnlockTable, Refuse,
        destroy_list, add_pid_sysc, entry_vars, list_vars, DataOK
  <1>10. CASE StopMonitoring(p)
    BY <1>10 DEF StopMonitoring, Goto, Return, Oops, UnlockTable, Refuse,
        destroy_list, entry_vars, list_vars, DataOK
  <1>11. CASE Trap(p)
    BY <1>11 DEF Trap, Goto, entry_vars, list_vars, DataOK
  <1>12. CASE CheckMonitored(p)
    BY <1>12 DEF CheckMonitored, Goto, entry_vars, list_vars, DataOK
  <1>13. CASE Forward(p)
    BY <1>13 DEF Forward, Goto, Return, entry_vars, list_vars, DataOK
  <1>14. CASE ExitCleanUp(p)
    BY <1>14 DEF ExitCleanUp, Goto, del_pid, entry_vars, list_vars, DataOK
  <1>15. CASE ExitDie(p)
    BY <1>15 DEF ExitDie, Goto, entry_vars, list_vars, DataOK
  <1>16. CASE Killed(p)
    BY <1>16 DEF Killed, Goto, entry_vars, list_vars, DataOK
  <1> QED BY <1>1, <1>2, <1>3, <1>4, <1>5, <1>6, <1>7, <1>8, <1>9, <1>10, <1>11,
      <1>12, <1>13, <1>14, <1>15, <1>16 DEF Step, my_syscall, system_call

-----------------------------------------------------------------------------
\* IInv holds after init_function ...
LEMMA InitIInv == Init => IInv
  <1> SUFFICES ASSUME Init PROVE IInv
    OBVIOUS
  <1>1. TypeOK
    BY PidAssumption, SyscallAssumption
    DEF Init, TypeOK, DataOK, Label, Handler, Request, NoRequest, Kernel
  <1>2. LocksHeld /\ RequestInv /\ GoneAreGone /\ FlagIsTrue /\ ForwardsToOwn
    BY PidAssumption DEF Init, Command, LocksHeld, RequestInv, GoneAreGone,
        FlagIsTrue, ForwardsToOwn
  <1>3. HandlersIntact
    BY DEF Init, HandlersIntact, Original
  <1>4. CountIsLength
    BY DEF Init, CountIsLength
  <1> QED BY <1>1, <1>2, <1>3, <1>4 DEF IInv

\* ... and every step keeps it.
LEMMA StepIInv == IInv /\ [Next]_vars => IInv'
  <1> SUFFICES ASSUME IInv, [Next]_vars PROVE IInv'
    OBVIOUS
  <1>1. CASE UNCHANGED vars
    BY <1>1 DEF vars, entry_vars, list_vars, IInv, TypeOK, LocksHeld, RequestInv,
                DataOK, GoneAreGone, HandlersIntact, FlagIsTrue, ForwardsToOwn, CountIsLength
  <1>2. CASE Next
    <2>1. PICK p \in Pid : Step(p)
      BY <1>2 DEF Next, Step
    <2>2. DataOK
      BY DEF IInv, TypeOK
    <2>3. TypeOK'
      <3>1. DataOK'
        BY <2>1, <2>2, StepType DEF IInv
      <3> QED BY <2>1, <3>1, StepHolder DEF IInv, TypeOK
    <2> QED BY <2>1, <2>2, <2>3, StepLocks, StepRequest, StepGone, StepHandlers,
               StepFlag, StepForwards, StepCount DEF IInv
  <1> QED BY <1>1, <1>2

\* IInv is an invariant: whatever processes do, the locks, the requests in
\* flight, the handlers, the flags and the lists agree with each other.
THEOREM Invariance == Spec => []IInv
  <1> QED BY InitIInv, StepIInv, PTL DEF Spec

\* Every variable has its type; in particular no listcount is negative.
THEOREM TypeCorrect == Spec => []TypeOK
  <1>1. IInv => TypeOK
    BY DEF IInv
  <1> QED BY <1>1, Invariance, PTL

\* my_table_lock and sys_call_table_lock are held where my_syscall holds them.
THEOREM LocksAreHeld == Spec => []LocksHeld
  <1>1. IInv => LocksHeld
    BY DEF IInv
  <1> QED BY <1>1, Invariance, PTL

\* sys_call_table and f lead to the handlers they should.
THEOREM HandlersStayIntact == Spec => []HandlersIntact
  <1>1. IInv => HandlersIntact
    BY DEF IInv
  <1> QED BY <1>1, Invariance, PTL

\* A call that is marked intercepted is.
THEOREM FlagsAreTrue == Spec => []FlagIsTrue
  <1>1. IInv => FlagIsTrue
    BY DEF IInv
  <1> QED BY <1>1, Invariance, PTL

\* interceptor hands every call to that call's own handler.
THEOREM CallsReachTheirHandler == Spec => []ForwardsToOwn
  <1>1. IInv => ForwardsToOwn
    BY DEF IInv
  <1> QED BY <1>1, Invariance, PTL

\* listcount is the length of the list.
THEOREM CountsAreLengths == Spec => []CountIsLength
  <1>1. IInv => CountIsLength
    BY DEF IInv
  <1> QED BY <1>1, Invariance, PTL

\* A process that exits through exit_group has left all lists.
THEOREM ExitLeavesNoPid == Spec => ExitCleansUp
  <1>1. ASSUME IInv, Next, NEW p \in Pid, pc[p] # "exiting", pc'[p] = "exiting"
        PROVE  \A s \in Syscall : my_list'[s][p] = 0
    <2>1. PICK q \in Pid : Step(q)
      BY <1>1 DEF Next, Step
    <2>2. q = p /\ (Forward(p) \/ ExitCleanUp(p))
      <3>1. DataOK /\ RequestInv
        BY <1>1 DEF IInv, TypeOK
      <3> QED BY <1>1, <2>1, <3>1, OnlyTheseExit
    <2>3. ~Forward(p)
      <3>1. /\ Forward(p) => pc[p] = "forward"
            /\ f[req[p].syscall] = Kernel(Exit) \/ ~Forward(p)
        BY <1>1 DEF Forward, Goto, Return, IInv, TypeOK, DataOK
      <3>2. Original(req[p].syscall) # Kernel(Exit)
        BY <1>1, RequestType, HandlersDiffer, SyscallAssumption DEF IInv, TypeOK
      <3> QED BY <1>1, <3>1, <3>2 DEF IInv, ForwardsToOwn
    <2> QED BY <1>1, <2>2, <2>3 DEF ExitCleanUp, del_pid, IInv, TypeOK, DataOK
  <1>2. IInv /\ [Next]_vars =>
          [\A p \in Pid : pc[p] # "exiting" /\ pc'[p] = "exiting" =>
                            \A s \in Syscall : my_list'[s][p] = 0]_vars
    BY <1>1
  <1> QED BY <1>2, Invariance, PTL DEF Spec, ExitCleansUp

-----------------------------------------------------------------------------
(* Unloading the module, for any number of processes and of system calls.    *)

\* Until the module is freed, and after it, a process takes steps of Interceptor.
LEMMA ProcessSteps ==
  ASSUME NEW p \in Pid, Process(p)
  PROVE  Step(p) /\ UNCHANGED <<unload, overlap>>
  BY DEF Process, Step, system_call

\* UnloadInv holds after init_function.
LEMMA InitUnloadInv == UnloadInit => UnloadInv
  <1> SUFFICES ASSUME UnloadInit PROVE UnloadInv
    OBVIOUS
  <1>1. IInv
    BY InitIInv DEF UnloadInit
  <1>2. UnloadOK /\ ExitHolds /\ Quiet
    BY <1>1 DEF UnloadInit, IInv, TypeOK, UnloadOK, ExitHolds, Quiet, Before, After
  <1> QED BY <1>1, <1>2 DEF UnloadInv, IInv

\* What processes do to the locks leaves exit_function those that it holds.
LEMMA ProcessExitHolds ==
  ASSUME UnloadInv, NEW p \in Pid, Step(p), UNCHANGED unload
  PROVE  ExitHolds'
  <1>1. /\ my_table_lock = "exit_function" => my_table_lock' = "exit_function"
        /\ sys_call_table_lock = "exit_function" => sys_call_table_lock' = "exit_function"
    <2>1. /\ my_table_lock = "exit_function" =>
               pc[p] \notin {"intercept", "release", "start", "stop", "swap"}
          /\ sys_call_table_lock = "exit_function" => pc[p] # "unlock_sys"
      BY HolderAssumption DEF UnloadInv, LocksHeld
    <2>2. CASE my_syscall(p)
      BY <2>1, <2>2, HolderAssumption, SMTT(60)
        DEF my_syscall, LockTable, Intercept, Release, Admit, SwapIn, SwapOut, UnlockSys,
            SetReadOnly, StartMonitoring, StopMonitoring, Refuse, UnlockTable
    <2>3. CASE system_call(p) \/ Call(p) \/ Trap(p) \/ Killed(p)
      BY <2>3, HolderAssumption, SMTT(60)
        DEF system_call, Call, Trap, CheckMonitored, Forward, ExitCleanUp, ExitDie, Killed
    <2> QED BY <2>2, <2>3 DEF Step
  <1> QED BY <1>1 DEF UnloadInv, ExitHolds

\* After a quiet restoration a process enters through an intercepted entry only.
LEMMA ProcessQuiet ==
  ASSUME UnloadInv, NEW p \in Pid, Process(p)
  PROVE  Quiet'
  <1> SUFFICES ASSUME unload \in After, ~overlap PROVE Quiet'
    BY ProcessSteps DEF Quiet
  <1> USE DEF UnloadInv, UnloadOK, DataOK
  <1>1. /\ unload' \in After /\ ~overlap'
        /\ \A s \in Syscall :
             \/ sys_call_table[s] = Kernel(s)
             \/ s # Exit /\ intercepted[s] = 1 /\ sys_call_table[s] = interceptor
        /\ \A q \in Pid :
             /\ Inside(q) => pc[q] \in {"intercepted", "forward", "exit"}
             /\ Inside(q) => intercepted[req[q].syscall] = 1
    BY ProcessSteps DEF Quiet
  <1>2. pc[p] \in {"user", "exiting", "oops", "dead", "intercepted", "forward", "exit"}
    BY <1>1 DEF Inside
  <1>3. my_syscall(p) \/ system_call(p) \/ Trap(p) \/ Killed(p)
    BY <1>1 DEF Process, system_call, After
  <1>4. ~my_syscall(p)
    BY <1>2 DEF my_syscall, LockTable, Intercept, Release, Admit, SwapIn, SwapOut,
                UnlockSys, SetReadOnly, StartMonitoring, StopMonitoring
  <1>5. CASE Trap(p)
    <2>1. PICK s \in Syscall :
            /\ \/ sys_call_table[s] = interceptor /\ Goto(p, "intercepted")
               \/ sys_call_table[s] = my_exit_group /\ Goto(p, "exit")
            /\ req' = [req EXCEPT ![p] = [cmd |-> "call", syscall |-> s, pid |-> NoPid]]
      BY <1>5 DEF Trap
    <2>2. intercepted[s] = 1
      BY <1>1, <2>1, HandlersDiffer
    <2>3. /\ pc'[p] \in {"intercepted", "exit"} /\ req'[p].syscall = s
          /\ \A q \in Pid : q # p => pc'[q] = pc[q] /\ req'[q] = req[q]
      BY <2>1 DEF Goto
    <2>4. UNCHANGED <<sys_call_table, intercepted>>
      BY <1>5 DEF Trap, entry_vars
    <2> QED BY <1>1, <2>2, <2>3, <2>4 DEF Quiet, Inside
  <1>6. CASE Forward(p)
    <2>1. /\ \/ pc'[p] \in {"intercepted", "exit"} /\ req' = req
             \/ pc'[p] \in {"user", "exiting"}
          /\ pc[p] = "forward"
          /\ \A q \in Pid : q # p => pc'[q] = pc[q] /\ req'[q] = req[q]
          /\ UNCHANGED <<sys_call_table, intercepted>>
      BY <1>6 DEF Forward, Goto, Return, entry_vars
    <2> QED BY <1>1, <2>1 DEF Quiet, Inside
  <1>7. CASE CheckMonitored(p) \/ ExitCleanUp(p) \/ ExitDie(p) \/ Killed(p)
    <2>1. /\ \/ pc[p] = "intercepted" /\ pc'[p] = "forward" /\ req' = req
             \/ pc'[p] \in {"exiting", "dead"}
          /\ \A q \in Pid : q # p => pc'[q] = pc[q] /\ req'[q] = req[q]
          /\ UNCHANGED <<sys_call_table, intercepted>>
      BY <1>7 DEF CheckMonitored, ExitCleanUp, ExitDie, Killed, Goto, entry_vars
    <2> QED BY <1>1, <2>1 DEF Quiet, Inside
  <1> QED BY <1>3, <1>4, <1>5, <1>6, <1>7 DEF system_call

\* A step of a process keeps UnloadInv.
LEMMA ProcessKeeps ==
  ASSUME UnloadInv, NEW p \in Pid, Process(p)
  PROVE  UnloadInv'
  <1>1. Step(p) /\ UNCHANGED <<unload, overlap>>
    BY ProcessSteps
  <1>2. DataOK /\ LocksHeld /\ RequestInv /\ GoneAreGone /\ CountIsLength
    BY DEF UnloadInv, UnloadOK
  <1>3. DataOK' /\ LocksHeld' /\ RequestInv' /\ GoneAreGone' /\ CountIsLength'
    BY <1>1, <1>2, StepType, StepLocks, StepRequest, StepGone, StepCount
  <1>4. unload' \in Before => HandlersIntact' /\ FlagIsTrue' /\ ForwardsToOwn'
    BY <1>1, <1>2, StepHandlers, StepFlag, StepForwards DEF UnloadInv
  <1>5. UnloadOK'
    BY <1>1, <1>3 DEF UnloadInv, UnloadOK
  <1> QED BY <1>1, <1>3, <1>4, <1>5, ProcessExitHolds, ProcessQuiet DEF UnloadInv

\* A process that runs freed code faults, and changes nothing else.
LEMMA RunFreedKeeps ==
  ASSUME UnloadInv, NEW p \in Pid, RunFreed(p)
  PROVE  UnloadInv'
  <1> USE DEF UnloadInv, UnloadOK, DataOK
  <1>1. /\ pc' = [pc EXCEPT ![p] = "oops"] /\ alive' = alive \ {p} /\ req' = req
        /\ unload = "freed" /\ p \in alive
        /\ UNCHANGED <<my_table_lock, sys_call_table_lock, entry_vars, list_vars, unload, overlap>>
    BY DEF RunFreed, Oops, Goto
  <1>2. UnloadOK'
    BY <1>1 DEF Label, entry_vars, list_vars
  <1>3. LocksHeld' /\ RequestInv' /\ GoneAreGone'
    BY <1>1 DEF LocksHeld, RequestInv, GoneAreGone, Command, entry_vars
  <1>4. CountIsLength'
    BY <1>1 DEF CountIsLength, list_vars
  <1>5. ExitHolds' /\ unload' \notin Before
    BY <1>1 DEF ExitHolds, Before
  <1>6. Quiet'
    BY <1>1 DEF Quiet, Inside, entry_vars
  <1> QED BY <1>2, <1>3, <1>4, <1>5, <1>6

\* exit_function takes a lock that is free and gives back its own only; it
\* writes nothing before it restores the table.
LEMMA ExitLocks ==
  ASSUME UnloadInv, LockForExit \/ OpenForExit \/ CloseForExit \/ UnlockForExit \/ Free
  PROVE  UnloadInv'
  <1> USE DEF UnloadInv, UnloadOK, DataOK
  <1>1. UNCHANGED <<alive, pc, req, sys_call_table, f, intercepted, list_vars, overlap>>
    BY DEF LockForExit, OpenForExit, CloseForExit, UnlockForExit, Free, vars, entry_vars
  <1>2. UnloadOK'
    BY <1>1 DEF LockForExit, OpenForExit, CloseForExit, UnlockForExit, Free, vars,
                entry_vars, list_vars, Before, After
  <1>3. RequestInv' /\ GoneAreGone'
    BY <1>1 DEF RequestInv, GoneAreGone
  <1>4. CountIsLength'
    BY <1>1 DEF CountIsLength, list_vars
  <1>5. LocksHeld' /\ ExitHolds'
    BY <1>1, HolderAssumption, PidAssumption
    DEF LockForExit, OpenForExit, CloseForExit, UnlockForExit, Free, vars, entry_vars,
        LocksHeld, ExitHolds
  <1>6. unload' \in Before => HandlersIntact' /\ FlagIsTrue' /\ ForwardsToOwn'
    <2>1. unload' \in Before => unload \in Before
      BY DEF LockForExit, OpenForExit, CloseForExit, UnlockForExit, Free, Before
    <2> QED BY <1>1, <2>1 DEF HandlersIntact, FlagIsTrue, ForwardsToOwn
  <1>7. Quiet'
    <2>1. unload' \in After => unload \in After
      BY DEF LockForExit, OpenForExit, CloseForExit, UnlockForExit, Free, After
    <2> QED BY <1>1, <2>1 DEF Quiet, Inside
  <1> QED BY <1>2, <1>3, <1>4, <1>5, <1>6, <1>7

\* The table is restored, or the write faults.
LEMMA RestoreKeeps ==
  ASSUME UnloadInv, Restore
  PROVE  UnloadInv'
  <1> USE DEF UnloadInv, UnloadOK, DataOK
  <1>1. /\ unload = "writing" /\ unload \in Before
        /\ overlap' = (overlap \/ \E p \in Pid : Inside(p))
        /\ UNCHANGED <<alive, pc, req, my_table_lock, sys_call_table_lock, writable, f,
                       intercepted, list_vars>>
    BY DEF Restore, Before
  <1>2. CASE writable
    <2>1. unload' = "restored" /\ sys_call_table' = [sys_call_table EXCEPT ![Exit] = Kernel(Exit)]
      BY <1>2 DEF Restore
    <2>2. UnloadOK'
      BY <1>1, <2>1, SyscallAssumption DEF list_vars, After, Handler
    <2>3. LocksHeld' /\ RequestInv' /\ GoneAreGone'
      BY <1>1 DEF LocksHeld, RequestInv, GoneAreGone
    <2>4. CountIsLength'
      BY <1>1 DEF CountIsLength, list_vars
    <2>5. ExitHolds' /\ unload' \notin Before
      BY <1>1, <2>1 DEF ExitHolds, Before
    <2>6. Quiet'
      <3>1. ASSUME NEW s \in Syscall
            PROVE  \/ sys_call_table'[s] = Kernel(s)
                   \/ s # Exit /\ intercepted[s] = 1 /\ sys_call_table'[s] = interceptor
        BY <1>1, <2>1 DEF HandlersIntact, Original
      <3>2. ~overlap' => \A p \in Pid : ~Inside(p)'
        BY <1>1 DEF Inside
      <3> QED BY <1>1, <3>1, <3>2 DEF Quiet
    <2> QED BY <2>2, <2>3, <2>4, <2>5, <2>6
  <1>3. CASE ~writable
    <2>1. unload' = "oops" /\ sys_call_table' = sys_call_table
      BY <1>3 DEF Restore
    <2>2. UnloadOK' /\ unload' \notin After
      BY <1>1, <2>1 DEF list_vars, Before, After
    <2>3. LocksHeld' /\ RequestInv' /\ GoneAreGone' /\ ExitHolds'
      BY <1>1, <2>1 DEF LocksHeld, RequestInv, GoneAreGone, ExitHolds
    <2>4. CountIsLength'
      BY <1>1 DEF CountIsLength, list_vars
    <2>5. HandlersIntact' /\ FlagIsTrue' /\ ForwardsToOwn'
      BY <1>1, <2>1 DEF HandlersIntact, FlagIsTrue, ForwardsToOwn
    <2>6. Quiet'
      BY <2>2 DEF Quiet
    <2> QED BY <2>2, <2>3, <2>4, <2>5, <2>6
  <1> QED BY <1>2, <1>3

\* Every step keeps UnloadInv.
LEMMA StepUnloadInv == UnloadInv /\ [UnloadNext]_unload_vars => UnloadInv'
  <1> SUFFICES ASSUME UnloadInv, [UnloadNext]_unload_vars PROVE UnloadInv'
    OBVIOUS
  <1>1. CASE UNCHANGED unload_vars
    BY <1>1 DEF unload_vars, vars, entry_vars, list_vars, UnloadInv, UnloadOK, DataOK,
                LocksHeld, ExitHolds, RequestInv, GoneAreGone, CountIsLength,
                HandlersIntact, FlagIsTrue, ForwardsToOwn, Quiet, Inside
  <1>2. CASE exit_function
    BY <1>2, ExitLocks, RestoreKeeps DEF exit_function
  <1>3. CASE \E p \in Pid : Process(p) \/ RunFreed(p)
    BY <1>3, ProcessKeeps, RunFreedKeeps
  <1> QED BY <1>1, <1>2, <1>3 DEF UnloadNext

\* UnloadInv is an invariant of the module's last days.
THEOREM UnloadInvariance == UnloadSpec => []UnloadInv
  <1> QED BY InitUnloadInv, StepUnloadInv, PTL DEF UnloadSpec

\* When nobody is inside the module, exit_function leaves no entry that leads
\* into it but those of the calls that are still intercepted, and whoever runs
\* freed code came in through one of them.
THEOREM UnloadingRestores == UnloadSpec => []UnloadRestores
  <1>1. UnloadInv => UnloadRestores
    BY DEF UnloadInv, Quiet, UnloadRestores, After
  <1> QED BY <1>1, UnloadInvariance, PTL

\* No process of the module takes a lock from another, with rmmod at work.
THEOREM LocksAreHeldUnloading == UnloadSpec => []LocksHeld
  <1>1. UnloadInv => LocksHeld
    BY DEF UnloadInv
  <1> QED BY <1>1, UnloadInvariance, PTL

\* The lists keep their counts, with rmmod at work.
THEOREM CountsAreLengthsUnloading == UnloadSpec => []CountIsLength
  <1>1. UnloadInv => CountIsLength
    BY DEF UnloadInv
  <1> QED BY <1>1, UnloadInvariance, PTL
=============================================================================
