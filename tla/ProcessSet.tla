----------------------------- MODULE ProcessSet -----------------------------
(***************************************************************************)
(* What the table of processes promises: it is a set of processes, to      *)
(* which one is added or from which one is removed at a time.              *)
(* ProcessTree.tla implements it with a red-black tree.                    *)
(***************************************************************************)
CONSTANT Processes

VARIABLE procs          \* the processes in the table

Add(n) == n \notin procs /\ procs' = procs \cup {n}

Remove(n) == n \in procs /\ procs' = procs \ {n}

ProcessSetSpec ==
    procs = {} /\ [][\E n \in Processes : Add(n) \/ Remove(n)]_procs
=============================================================================
