------------------------------ MODULE MCHeap --------------------------------
(***************************************************************************)
(* Heap.tla with few frames, for TLC.  NIL's color bytes sit in entry 5    *)
(* (16 to 19 in the kernel), beyond the initial blocks as in the kernel.   *)
(***************************************************************************)
EXTENDS Heap

MCRequests == 0 .. 3

MCNilColor == {5}

MCNilLinks == {6}

MCGarbage == {"FREE", "FIRST_NEXT"}

(* The kernel's own layout and request sizes, for NilIsBlack.              *)
KernelRequests == {1}

KernelNilColor == 16 .. 19

KernelNilLinks == {27, 31}

KernelGarbage == {"FREE"}
=============================================================================
