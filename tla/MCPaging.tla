------------------------------ MODULE MCPaging ------------------------------
(***************************************************************************)
(* Paging.tla for TLC: page tables of two entries, two directories, and    *)
(* memory for the boot and a process and a half, so that it runs out at    *)
(* any point of the second process or of the heap's growth.                *)
(***************************************************************************)
EXTENDS Paging

MCRamdisk == <<4>>
=============================================================================
