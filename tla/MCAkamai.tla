------------------------------ MODULE MCAkamai ------------------------------
(* Akamai with model values for its tasks. *)
EXTENDS Akamai

CONSTANTS t1, t2
=============================================================================
