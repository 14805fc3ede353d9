---------------------------- MODULE MCAuditTrail -----------------------------
(* Model-checking instances of AuditTrail. *)
EXTENDS AuditTrail, TLC

\* Processes are interchangeable, and so are the operations recorded.
Symmetry == Permutations(Proc) \cup Permutations(Op)
=============================================================================
