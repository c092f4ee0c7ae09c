--------------------------- MODULE MCProxyManager ---------------------------
(* Values for the constants of ProxyManager: three tasks, two proxy lines    *)
(* that parse and one that lacks its password.                               *)
EXTENDS ProxyManager, TLC

CONSTANTS t1, t2, t3, lineA, lineB, lineC, hashA, hashB

MCHash == lineA :> hashA @@ lineB :> hashB @@ lineC :> hashB
MCParts == lineA :> 2 @@ lineB :> 4 @@ lineC :> 3
=============================================================================
