------------------------------- MODULE MCAycd -------------------------------
(* Aycd with model values for its requests. *)
EXTENDS Aycd

CONSTANTS r1, r2, r3
=============================================================================
