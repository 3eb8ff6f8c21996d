--------------------------- MODULE MCProcessTree ----------------------------
(***************************************************************************)
(* ProcessTree.tla for TLC: seven processes, enough for every case of both *)
(* fixup loops on both sides, two of them with the same pid.               *)
(***************************************************************************)
EXTENDS ProcessTree

MCProcesses == 1 .. 7

MCPidOf == [n \in MCProcesses |-> IF n = 7 THEN 4 ELSE n]

MCNIL == 0

MCNULL == 99
=============================================================================
