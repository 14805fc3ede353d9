------------------------------ MODULE MCAdbWire ------------------------------
(* A model-checking instance of AdbWire. *)
EXTENDS AdbWire
=============================================================================
