------------------------------ MODULE MCUnload ------------------------------
(* Processes and system calls on which TLC checks Unload. *)
EXTENDS Unload

\* A process of root, and one of a user who may not watch the other.
Two    == {"r", "u"}
Roots  == {"r"}
Owners == {<<p, p>> : p \in Two}
Calls  == {"read", Exit}
=============================================================================
