------------------------------- MODULE MCSmp --------------------------------
(***************************************************************************)
(* Smp.tla for TLC: the BSP and two APs, so that two APs race with each    *)
(* other and with the BSP.  Two ticks make a time slice; a CPU may make a  *)
(* second process, so that the bound is not what keeps an AP from          *)
(* scheduling again.                                                       *)
(***************************************************************************)
EXTENDS Smp

MCCPUS == 0 .. 2

MCBSP == 0
=============================================================================
