--------------------------- MODULE MCCaptchaPoll ---------------------------
(* CaptchaPoll with model values for its calls. *)
EXTENDS CaptchaPoll

CONSTANTS c1, c2
=============================================================================
