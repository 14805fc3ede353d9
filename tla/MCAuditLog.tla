----------------------------- MODULE MCAuditLog ------------------------------
(* Model-checking instances of AuditLog. *)
EXTENDS AuditLog, TLC

\* Processes are interchangeable, and so are the operations recorded.
Symmetry == Permutations(Proc) \cup Permutations(Op)
=============================================================================
