----------------------------- MODULE MCSpinlock -----------------------------
(***************************************************************************)
(* Spinlock.tla on a small machine, for TLC.  CPUs are their APIC ids.     *)
(* Three CPUs let one hold the lock, one spin and one be late in           *)
(* release(); one level of interrupts is what the kernel's timer can       *)
(* reach, the interrupt not being acknowledged before the handler ends.    *)
(***************************************************************************)
EXTENDS Spinlock

MCCPUS == 0..2

MCBSP == 0
=============================================================================
