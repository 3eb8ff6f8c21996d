------------------------------ MODULE Spinlock ------------------------------
(***************************************************************************)
(* The kernel's spinlock (sys/spinlock.c) on an SMP machine with           *)
(* interrupts.  Every CPU runs a stack of contexts: the interrupted code   *)
(* at level 0 and the interrupt handlers above it.  Any context may take   *)
(* the lock (rbTreeLock is taken by thread code and, through schedule(),   *)
(* by the timer interrupt).  Each shared memory access of acquire() and    *)
(* release() is one step, so that the accesses of the CPUs interleave.     *)
(***************************************************************************)
EXTENDS Naturals

CONSTANTS
    CPUS,           \* the CPUs, named by their local APIC id
    BSP,            \* the boot processor: APIC id 0, also "no owner" in lock->cpu
    MaxNesting      \* bound: how deep interrupt handlers nest on one CPU

ASSUME BSPAssumption == BSP \in CPUS
ASSUME MaxNestingAssumption == MaxNesting \in Nat

Levels == 0..MaxNesting

Contexts == CPUS \X Levels

(* Where a context stands in acquire() or release().                       *)
Labels == {"out", "acq_owner", "acq_xchg", "acq_set",
           "cs", "rel_owner", "rel_clear", "rel_cpu", "rel_sti"}

(* The context has won the xchg and has not yet cleared lock->locked.      *)
HeldLabels == {"acq_set", "cs", "rel_owner", "rel_clear"}

(* The two complaints spinlock.c writes to the console.                    *)
Messages == {"already holding", "not holding"}

VARIABLES
    locked,     \* lock->locked
    cpu,        \* lock->cpu
    eflagsIF,   \* the interrupt flag of each CPU
    depth,      \* the level of the context each CPU is executing
    pc,         \* where each context of each CPU stands
    msg         \* what each CPU has written to the console

vars == <<locked, cpu, eflagsIF, depth, pc, msg>>

(***************************************************************************)
(* initLock() ran on the boot processor before the others were started.    *)
(***************************************************************************)
initLock ==
    /\ locked = 0
    /\ cpu = BSP

Init ==
    /\ initLock
    /\ eflagsIF = [c \in CPUS |-> 1]
    /\ depth = [c \in CPUS |-> 0]
    /\ pc = [c \in CPUS |-> [k \in Levels |-> "out"]]
    /\ msg = [c \in CPUS |-> {}]

(***************************************************************************)
(* Control flow of the context that CPU c is executing.                    *)
(***************************************************************************)
At(c, l) == pc[c][depth[c]] = l

Goto(c, l) == pc' = [pc EXCEPT ![c] = [@ EXCEPT ![depth[c]] = l]]

Write(c, m) == msg' = [msg EXCEPT ![c] = @ \cup {m}]

cli(c) == eflagsIF' = [eflagsIF EXCEPT ![c] = 0]

sti(c) == eflagsIF' = [eflagsIF EXCEPT ![c] = 1]

(***************************************************************************)
(* Seeded bugs: mutated forms of the steps below, used only to show that   *)
(* the properties notice them.                                             *)
(***************************************************************************)

(* acquire() and holding() without their cli.                              *)
AcquireReadLocked_NoCli(c) ==
    /\ At(c, "out")
    /\ Goto(c, IF locked = 1 THEN "acq_owner" ELSE "acq_xchg")
    /\ UNCHANGED <<locked, cpu, eflagsIF, depth, msg>>

(* A test followed by a store where the code has one atomic xchg: the      *)
(* store happens whatever the lock has become since the test.              *)
AcquireXchg_NotAtomic(c) ==
    /\ At(c, "acq_xchg")
    /\ locked' = 1
    /\ Goto(c, "acq_set")
    /\ UNCHANGED <<cpu, eflagsIF, depth, msg>>

(* release() that forgets lock->cpu = 0.                                   *)
ReleaseClearCpu_Forgotten(c) ==
    /\ At(c, "rel_cpu")
    /\ Goto(c, "rel_sti")
    /\ UNCHANGED <<locked, cpu, eflagsIF, depth, msg>>

(* release() that clears cpu but not locked.                               *)
ReleaseClearLocked_Forgotten(c) ==
    /\ At(c, "rel_clear")
    /\ Goto(c, "rel_cpu")
    /\ UNCHANGED <<locked, cpu, eflagsIF, depth, msg>>

(* release() without its sti.                                              *)
ReleaseSti_Forgotten(c) ==
    /\ At(c, "rel_sti")
    /\ Goto(c, "out")
    /\ UNCHANGED <<locked, cpu, eflagsIF, depth, msg>>

(* An atomic increment in place of the exchange: a spinning CPU keeps      *)
(* counting.                                                               *)
AcquireXchg_Increments(c) ==
    /\ At(c, "acq_xchg")
    /\ locked' = locked + 1
    /\ IF locked = 0 THEN Goto(c, "acq_set") ELSE UNCHANGED pc
    /\ UNCHANGED <<cpu, eflagsIF, depth, msg>>

(***************************************************************************)
(* acquire().  holding() disables interrupts and reads locked, then, only  *)
(* if that was set, cpu; the verdict is printed and otherwise ignored.     *)
(***************************************************************************)
AcquireReadLocked(c) ==
    /\ At(c, "out")
    /\ cli(c)
    /\ Goto(c, IF locked = 1 THEN "acq_owner" ELSE "acq_xchg")
    /\ UNCHANGED <<locked, cpu, depth, msg>>

AcquireReadCpu(c) ==
    /\ At(c, "acq_owner")
    /\ cli(c)
    /\ IF cpu = c THEN Write(c, "already holding") ELSE UNCHANGED msg
    /\ Goto(c, "acq_xchg")
    /\ UNCHANGED <<locked, cpu, depth>>

(* xchg returns 0 exactly when locked was clear; otherwise the loop writes *)
(* the 1 that is there already and tries again.                            *)
AcquireXchg(c) ==
    /\ At(c, "acq_xchg")
    /\ locked = 0
    /\ locked' = 1
    /\ Goto(c, "acq_set")
    /\ UNCHANGED <<cpu, eflagsIF, depth, msg>>

AcquireSetCpu(c) ==
    /\ At(c, "acq_set")
    /\ cpu' = c
    /\ Goto(c, "cs")
    /\ UNCHANGED <<locked, eflagsIF, depth, msg>>

(***************************************************************************)
(* release().  A failed check is printed and the lock is released anyway.  *)
(***************************************************************************)
ReleaseReadLocked(c) ==
    /\ At(c, "cs")
    /\ cli(c)
    /\ IF locked = 1
         THEN Goto(c, "rel_owner") /\ UNCHANGED msg
         ELSE Goto(c, "rel_clear") /\ Write(c, "not holding")
    /\ UNCHANGED <<locked, cpu, depth>>

ReleaseReadCpu(c) ==
    /\ At(c, "rel_owner")
    /\ IF cpu = c THEN UNCHANGED msg ELSE Write(c, "not holding")
    /\ Goto(c, "rel_clear")
    /\ UNCHANGED <<locked, cpu, eflagsIF, depth>>

ReleaseClearLocked(c) ==
    /\ At(c, "rel_clear")
    /\ locked' = 0
    /\ Goto(c, "rel_cpu")
    /\ UNCHANGED <<cpu, eflagsIF, depth, msg>>

(* lock->cpu = 0 comes after the lock was opened.                          *)
ReleaseClearCpu(c) ==
    /\ At(c, "rel_cpu")
    /\ cpu' = BSP
    /\ Goto(c, "rel_sti")
    /\ UNCHANGED <<locked, eflagsIF, depth, msg>>

ReleaseSti(c) ==
    /\ At(c, "rel_sti")
    /\ sti(c)
    /\ Goto(c, "out")
    /\ UNCHANGED <<locked, cpu, depth, msg>>

(***************************************************************************)
(* Interrupts: the stub enters with cli, runs the handler as a context of  *)
(* its own, and leaves with sti and iret.  A handler whose release() did   *)
(* sti may itself be interrupted.                                          *)
(***************************************************************************)
InterruptEntry(c) ==
    /\ eflagsIF[c] = 1
    /\ depth[c] < MaxNesting
    /\ depth' = [depth EXCEPT ![c] = @ + 1]
    /\ cli(c)
    /\ UNCHANGED <<locked, cpu, pc, msg>>

InterruptReturn(c) ==
    /\ depth[c] > 0
    /\ At(c, "out")
    /\ depth' = [depth EXCEPT ![c] = @ - 1]
    /\ sti(c)
    /\ UNCHANGED <<locked, cpu, pc, msg>>

(* The steps of a CPU that is inside acquire(), the critical section or    *)
(* release(): it takes them without anyone's help unless it spins.         *)
LockStep(c) ==
    \/ AcquireReadCpu(c)
    \/ AcquireXchg(c)
    \/ AcquireSetCpu(c)
    \/ ReleaseReadLocked(c)
    \/ ReleaseReadCpu(c)
    \/ ReleaseClearLocked(c)
    \/ ReleaseClearCpu(c)
    \/ ReleaseSti(c)

Next ==
    \E c \in CPUS :
        \/ AcquireReadLocked(c)
        \/ LockStep(c)
        \/ InterruptEntry(c)
        \/ InterruptReturn(c)

SafetySpec == Init /\ [][Next]_vars

(* A CPU keeps executing its instructions, and every critical section of   *)
(* the kernel (one tree insertion or search) ends.                         *)
Spec == SafetySpec /\ \A c \in CPUS : WF_vars(LockStep(c))

-----------------------------------------------------------------------------
TypeOK ==
    /\ locked \in {0, 1}
    /\ cpu \in CPUS
    /\ eflagsIF \in [CPUS -> {0, 1}]
    /\ depth \in [CPUS -> Levels]
    /\ pc \in [CPUS -> [Levels -> Labels]]
    /\ msg \in [CPUS -> SUBSET Messages]

Holds(x) == pc[x[1]][x[2]] \in HeldLabels

(***************************************************************************)
(* Mutual exclusion: the contexts of all CPUs together hold the lock at    *)
(* most once, from the winning xchg to the store that clears locked        *)
(* (acquire() line 41, release() line 59).                                 *)
(***************************************************************************)
MutualExclusion ==
    \A x, y \in Contexts : Holds(x) /\ Holds(y) => x = y

(***************************************************************************)
(* No CPU waits for itself: an interrupt handler never spins on a lock     *)
(* that the code it interrupted has taken.  This is what the cli of        *)
(* acquire() is for ("needed for preventing from deadlocks").              *)
(***************************************************************************)
NoSelfDeadlock ==
    \A c \in CPUS : \A j, k \in Levels :
        pc[c][j] \in HeldLabels /\ j # k => pc[c][k] = "out"

(***************************************************************************)
(* The complaints that are always justified: no CPU ever takes the lock    *)
(* twice, and the check of acquire() never says so of a CPU other than the *)
(* boot processor; the check of release() never accuses the boot processor *)
(* of not holding a lock that it holds.                                    *)
(***************************************************************************)
ChecksTruthful ==
    /\ \A c \in CPUS \ {BSP} : "already holding" \notin msg[c]
    /\ "not holding" \notin msg[BSP]

(***************************************************************************)
(* While some context waits for the lock, the lock is eventually taken:    *)
(* the spinning CPUs never all wait forever (no CPU in particular is       *)
(* promised its turn).                                                     *)
(***************************************************************************)
Waiting == \E x \in Contexts : pc[x[1]][x[2]] = "acq_xchg"

InCriticalSection == \E x \in Contexts : pc[x[1]][x[2]] = "cs"

LockProgress == Waiting ~> InCriticalSection

(***************************************************************************)
(* Interrupts come back on: a CPU that disabled interrupts in acquire()    *)
(* and got the lock runs with interrupts enabled again (the sti that       *)
(* acquire()'s comment promises "in release").                             *)
(***************************************************************************)
InterruptsComeBack ==
    \A c \in CPUS :
        pc[c][depth[c]] \in HeldLabels \cup {"rel_cpu", "rel_sti"} ~> eflagsIF[c] = 1

(***************************************************************************)
(* What release() says of itself: it prints "cpu isnt even holding the     *)
(* lock" when the caller does not hold the lock.  Every caller in the      *)
(* model holds it, so the message must never appear.                       *)
(***************************************************************************)
ReleaseCheckTruthful ==
    \A c \in CPUS : "not holding" \notin msg[c]

(***************************************************************************)
(* The spinlock implements the abstract lock: its owners are the contexts  *)
(* between the winning xchg and the clearing of locked.                    *)
(***************************************************************************)
Owners == {x \in Contexts : Holds(x)}

Abstract == INSTANCE Mutex WITH owners <- Owners

ImplementsMutex == Abstract!MutexSpec
=============================================================================
