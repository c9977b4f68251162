--------------------------- MODULE MCInterceptor ---------------------------
(* Processes and system calls on which TLC checks Interceptor. *)
EXTENDS Interceptor

\* Two processes of root.
TwoRoots == {"r1", "r2"}
Owners   == TwoRoots \X TwoRoots
Calls    == {"read", Exit}
JustExit == {Exit}
=============================================================================
