---------------------------- MODULE MCTaskHandler ----------------------------
(* TaskHandler with model values for its tasks and proxies. *)
EXTENDS TaskHandler

CONSTANTS t1, t2, proxyA, proxyB
==============================================================================
