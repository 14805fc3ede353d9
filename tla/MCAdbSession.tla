---------------------------- MODULE MCAdbSession -----------------------------
(* Model-checking instances of AdbSession. *)
EXTENDS AdbSession

CONSTANTS d1, d2, d3

\* Two phones whose storage has the same device number, and a third.
Numbers == [d \in {d1, d2, d3} |-> IF d = d3 THEN 2 ELSE 1]
=============================================================================
