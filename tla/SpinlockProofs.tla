--------------------------- MODULE SpinlockProofs ---------------------------
(***************************************************************************)
(* Proofs that the spinlock of sys/spinlock.c is safe for any number of    *)
(* CPUs and any nesting of interrupts.                                     *)
(***************************************************************************)
EXTENDS Spinlock, TLAPS

(***************************************************************************)
(* The inductive invariant.  Mutual exclusion alone is not inductive: it   *)
(* needs that a holder implies locked, and, on one CPU, that only the      *)
(* context being executed is anywhere but outside the lock.                *)
(***************************************************************************)
OnlyTopInside ==
    \A c \in CPUS : \A k \in Levels :
        pc[c][k] # "out" => k = depth[c] /\ eflagsIF[c] = 0

HolderMeansLocked == \A c \in CPUS : \A k \in Levels :
    pc[c][k] \in HeldLabels => locked = 1

OneHolder == \A c, d \in CPUS : \A j, k \in Levels :
    pc[c][j] \in HeldLabels /\ pc[d][k] \in HeldLabels => c = d /\ j = k

(* lock->cpu names an application processor only while it is between       *)
(* acquire()'s store and release()'s store.                                *)
OwnerField == \A c \in CPUS :
    c # BSP /\ cpu = c =>
        pc[c][depth[c]] \in {"cs", "rel_owner", "rel_clear", "rel_cpu"}

(* Nobody else can write another id than 0 while CPU 0 holds the lock.     *)
BspField ==
    pc[BSP][depth[BSP]] \in {"cs", "rel_owner", "rel_clear"} => cpu = BSP

IInv ==
    /\ TypeOK
    /\ OnlyTopInside
    /\ HolderMeansLocked
    /\ OneHolder
    /\ OwnerField
    /\ BspField
    /\ ChecksTruthful

(***************************************************************************)
(* The initial state of the lock satisfies the inductive invariant.        *)
(***************************************************************************)
LEMMA InitIInv == Init => IInv
<1> SUFFICES ASSUME Init PROVE IInv
  OBVIOUS
<1>1. 0 \in Levels
  BY MaxNestingAssumption DEF Levels
<1>2. \A c \in CPUS : \A k \in Levels : pc[c][k] = "out"
  BY DEF Init
<1>3. TypeOK
  BY <1>1, BSPAssumption DEF Init, initLock, TypeOK, Labels, Messages
<1>4. OnlyTopInside /\ HolderMeansLocked /\ OneHolder
  BY <1>2 DEF OnlyTopInside, HolderMeansLocked, OneHolder, HeldLabels
<1>5. OwnerField /\ BspField /\ ChecksTruthful
  BY BSPAssumption DEF Init, initLock, OwnerField, BspField, ChecksTruthful
<1>6. QED
  BY <1>3, <1>4, <1>5 DEF IInv

(***************************************************************************)
(* A context's move to a label keeps pc a function to labels, and moves    *)
(* that context only.                                                      *)
(***************************************************************************)
LEMMA GotoEffect ==
    ASSUME TypeOK, NEW c \in CPUS, NEW l \in Labels, Goto(c, l)
    PROVE  /\ pc' \in [CPUS -> [Levels -> Labels]]
           /\ pc'[c][depth[c]] = l
           /\ \A d \in CPUS : \A k \in Levels :
                d # c \/ k # depth[c] => pc'[d][k] = pc[d][k]
BY DEF TypeOK, Goto

(***************************************************************************)
(* A complaint on the console is added to what its CPU has written.        *)
(***************************************************************************)
LEMMA WriteEffect ==
    ASSUME TypeOK, NEW c \in CPUS, NEW m \in Messages, Write(c, m)
    PROVE  /\ msg' \in [CPUS -> SUBSET Messages]
           /\ msg'[c] = msg[c] \cup {m}
           /\ \A d \in CPUS : d # c => msg'[d] = msg[d]
BY DEF TypeOK, Write

(***************************************************************************)
(* Every step of the lock, and every interrupt, keeps the types.           *)
(***************************************************************************)
LEMMA NextTypeOK == TypeOK /\ [Next]_vars => TypeOK'
<1> SUFFICES ASSUME TypeOK, [Next]_vars PROVE TypeOK'
  OBVIOUS
<1>l. {"out", "acq_owner", "acq_xchg", "acq_set", "cs", "rel_owner",
       "rel_clear", "rel_cpu", "rel_sti"} \subseteq Labels
  BY DEF Labels
<1>m. "already holding" \in Messages /\ "not holding" \in Messages
  BY DEF Messages
<1>1. CASE UNCHANGED vars
  BY <1>1 DEF vars, TypeOK
<1>2. ASSUME NEW c \in CPUS, AcquireReadLocked(c) PROVE TypeOK'
  <2>1. pc' \in [CPUS -> [Levels -> Labels]]
    BY <1>2, <1>l, GotoEffect DEF AcquireReadLocked
  <2>2. QED
    BY <1>2, <2>1, BSPAssumption DEF AcquireReadLocked, TypeOK, cli
<1>3. ASSUME NEW c \in CPUS, AcquireReadCpu(c) PROVE TypeOK'
  <2>1. pc' \in [CPUS -> [Levels -> Labels]]
    BY <1>3, <1>l, GotoEffect DEF AcquireReadCpu
  <2>2. msg' \in [CPUS -> SUBSET Messages]
    BY <1>3, <1>m, WriteEffect DEF AcquireReadCpu, TypeOK
  <2>3. QED
    BY <1>3, <2>1, <2>2 DEF AcquireReadCpu, TypeOK, cli
<1>4. ASSUME NEW c \in CPUS, AcquireXchg(c) PROVE TypeOK'
  <2>1. pc' \in [CPUS -> [Levels -> Labels]]
    BY <1>4, <1>l, GotoEffect DEF AcquireXchg
  <2>2. QED
    BY <1>4, <2>1, BSPAssumption DEF AcquireXchg, TypeOK
<1>5. ASSUME NEW c \in CPUS, AcquireSetCpu(c) PROVE TypeOK'
  <2>1. pc' \in [CPUS -> [Levels -> Labels]]
    BY <1>5, <1>l, GotoEffect DEF AcquireSetCpu
  <2>2. QED
    BY <1>5, <2>1, BSPAssumption DEF AcquireSetCpu, TypeOK
<1>6. ASSUME NEW c \in CPUS, ReleaseReadLocked(c) PROVE TypeOK'
  <2>1. pc' \in [CPUS -> [Levels -> Labels]]
    BY <1>6, <1>l, GotoEffect DEF ReleaseReadLocked
  <2>2. msg' \in [CPUS -> SUBSET Messages]
    BY <1>6, <1>m, WriteEffect DEF ReleaseReadLocked, TypeOK
  <2>3. QED
    BY <1>6, <2>1, <2>2 DEF ReleaseReadLocked, TypeOK, cli
<1>7. ASSUME NEW c \in CPUS, ReleaseReadCpu(c) PROVE TypeOK'
  <2>1. pc' \in [CPUS -> [Levels -> Labels]]
    BY <1>7, <1>l, GotoEffect DEF ReleaseReadCpu
  <2>2. msg' \in [CPUS -> SUBSET Messages]
    BY <1>7, <1>m, WriteEffect DEF ReleaseReadCpu, TypeOK
  <2>3. QED
    BY <1>7, <2>1, <2>2 DEF ReleaseReadCpu, TypeOK
<1>8. ASSUME NEW c \in CPUS, ReleaseClearLocked(c) PROVE TypeOK'
  <2>1. pc' \in [CPUS -> [Levels -> Labels]]
    BY <1>8, <1>l, GotoEffect DEF ReleaseClearLocked
  <2>2. QED
    BY <1>8, <2>1, BSPAssumption DEF ReleaseClearLocked, TypeOK
<1>9. ASSUME NEW c \in CPUS, ReleaseClearCpu(c) PROVE TypeOK'
  <2>1. pc' \in [CPUS -> [Levels -> Labels]]
    BY <1>9, <1>l, GotoEffect DEF ReleaseClearCpu
  <2>2. QED
    BY <1>9, <2>1, BSPAssumption DEF ReleaseClearCpu, TypeOK
<1>10. ASSUME NEW c \in CPUS, ReleaseSti(c) PROVE TypeOK'
  <2>1. pc' \in [CPUS -> [Levels -> Labels]]
    BY <1>10, <1>l, GotoEffect DEF ReleaseSti
  <2>2. QED
    BY <1>10, <2>1, BSPAssumption DEF ReleaseSti, TypeOK, sti
<1>11. ASSUME NEW c \in CPUS, InterruptEntry(c) PROVE TypeOK'
  <2>1. depth[c] + 1 \in Levels
    BY <1>11, MaxNestingAssumption DEF InterruptEntry, TypeOK, Levels
  <2>2. QED
    BY <1>11, <2>1 DEF InterruptEntry, TypeOK, cli, sti
<1>12. ASSUME NEW c \in CPUS, InterruptReturn(c) PROVE TypeOK'
  <2>1. depth[c] - 1 \in Levels
    BY <1>12, MaxNestingAssumption DEF InterruptReturn, TypeOK, Levels
  <2>2. QED
    BY <1>12, <2>1 DEF InterruptReturn, TypeOK, cli, sti
<1>13. QED
  BY <1>1, <1>2, <1>3, <1>4, <1>5, <1>6, <1>7, <1>8, <1>9, <1>10, <1>11, <1>12
  DEF Next, LockStep

(***************************************************************************)
(* Every step keeps the inductive invariant: one step per action, and      *)
(* under it one step per conjunct.                                         *)
(***************************************************************************)
LEMMA NextIInv == IInv /\ [Next]_vars => IInv'
<1> SUFFICES ASSUME IInv, [Next]_vars PROVE IInv'
  OBVIOUS
<1>0. TypeOK /\ TypeOK'
  BY NextTypeOK DEF IInv
<1>a. OnlyTopInside /\ HolderMeansLocked /\ OneHolder
  BY DEF IInv
<1>b. OwnerField /\ BspField /\ ChecksTruthful
  BY DEF IInv
<1>d. \A c \in CPUS : depth[c] \in Levels
  BY <1>0 DEF TypeOK
<1>l. {"out", "acq_owner", "acq_xchg", "acq_set", "cs", "rel_owner",
       "rel_clear", "rel_cpu", "rel_sti"} \subseteq Labels
  BY DEF Labels
<1>m. "already holding" \in Messages /\ "not holding" \in Messages
  BY DEF Messages
<1>1. CASE UNCHANGED vars
  <2>1. OnlyTopInside' /\ HolderMeansLocked' /\ OneHolder'
    BY <1>1, <1>a DEF vars, OnlyTopInside, HolderMeansLocked, OneHolder
  <2>2. OwnerField' /\ BspField'
    BY <1>1, <1>b DEF vars, OwnerField, BspField
  <2>3. ChecksTruthful'
    BY <1>1, <1>b DEF vars, ChecksTruthful
  <2>4. QED
    BY <1>0, <2>1, <2>2, <2>3 DEF IInv
<1>2. ASSUME NEW c \in CPUS, AcquireReadLocked(c) PROVE IInv'
  <2>1. pc[c][depth[c]] = "out"
    BY <1>2 DEF AcquireReadLocked, At
  <2>3. /\ pc'[c][depth[c]] \in {"acq_owner", "acq_xchg"}
        /\ \A d \in CPUS : \A k \in Levels :
             d # c \/ k # depth[c] => pc'[d][k] = pc[d][k]
    BY <1>0, <1>2, <1>l, GotoEffect DEF AcquireReadLocked
  <2>4. /\ locked' = locked /\ cpu' = cpu
        /\ depth' = depth /\ eflagsIF'[c] = 0
        /\ \A d \in CPUS : d # c => eflagsIF'[d] = eflagsIF[d]
    BY <1>0, <1>2 DEF AcquireReadLocked, TypeOK, cli
  <2>5. OnlyTopInside'
    BY <1>0, <1>a, <1>d, <2>1, <2>3, <2>4 DEF OnlyTopInside, TypeOK
  <2>6. HolderMeansLocked'
    BY <1>a, <1>d, <2>1, <2>3, <2>4 DEF HolderMeansLocked, OneHolder, HeldLabels
  <2>7. OneHolder'
    BY <1>a, <1>d, <2>1, <2>3, <2>4 DEF HolderMeansLocked, OneHolder, HeldLabels
  <2>8. OwnerField'
    BY <1>b, <1>d, <2>1, <2>3, <2>4 DEF OwnerField
  <2>9. BspField'
    BY <1>a, <1>b, <1>d, <2>1, <2>3, <2>4, BSPAssumption
    DEF BspField, OneHolder, HeldLabels
  <2>10. ChecksTruthful'
    BY <1>2, <1>b DEF AcquireReadLocked, ChecksTruthful
  <2>11. QED
    BY <1>0, <2>5, <2>6, <2>7, <2>8, <2>9, <2>10 DEF IInv
<1>3. ASSUME NEW c \in CPUS, AcquireReadCpu(c) PROVE IInv'
  <2>1. pc[c][depth[c]] = "acq_owner"
    BY <1>3 DEF AcquireReadCpu, At
  <2>3. /\ pc'[c][depth[c]] = "acq_xchg"
        /\ \A d \in CPUS : \A k \in Levels :
             d # c \/ k # depth[c] => pc'[d][k] = pc[d][k]
    BY <1>0, <1>3, <1>l, GotoEffect DEF AcquireReadCpu
  <2>4. /\ locked' = locked /\ cpu' = cpu
        /\ depth' = depth /\ eflagsIF'[c] = 0
        /\ \A d \in CPUS : d # c => eflagsIF'[d] = eflagsIF[d]
    BY <1>0, <1>3 DEF AcquireReadCpu, TypeOK, cli
  <2>5. OnlyTopInside'
    BY <1>0, <1>a, <1>d, <2>1, <2>3, <2>4 DEF OnlyTopInside, TypeOK
  <2>6. HolderMeansLocked'
    BY <1>a, <1>d, <2>1, <2>3, <2>4 DEF HolderMeansLocked, OneHolder, HeldLabels
  <2>7. OneHolder'
    BY <1>a, <1>d, <2>1, <2>3, <2>4 DEF HolderMeansLocked, OneHolder, HeldLabels
  <2>8. OwnerField'
    BY <1>b, <1>d, <2>1, <2>3, <2>4 DEF OwnerField
  <2>9. BspField'
    BY <1>a, <1>b, <1>d, <2>1, <2>3, <2>4, BSPAssumption
    DEF BspField, OneHolder, HeldLabels
  <2>10. ChecksTruthful'
    <3>1. CASE cpu = c
      <4>1. c = BSP
        BY <1>b, <2>1, <3>1 DEF OwnerField
      <4>2. Write(c, "already holding")
        BY <1>3, <3>1 DEF AcquireReadCpu
      <4>3. msg'[c] = msg[c] \cup {"already holding"}
            /\ \A d \in CPUS : d # c => msg'[d] = msg[d]
        BY <1>0, <1>m, <4>2, WriteEffect
      <4>n. "not holding" \notin msg[c]
        BY <1>b, <4>1 DEF ChecksTruthful
      <4>4. "not holding" \notin msg'[c]
        BY <4>n, <4>3
      <4>5. QED
        BY <1>b, <4>1, <4>3, <4>4 DEF ChecksTruthful
    <3>2. CASE cpu # c
      BY <1>3, <1>b, <3>2 DEF AcquireReadCpu, ChecksTruthful
    <3>3. QED
      BY <3>1, <3>2
  <2>11. QED
    BY <1>0, <2>5, <2>6, <2>7, <2>8, <2>9, <2>10 DEF IInv
<1>4. ASSUME NEW c \in CPUS, AcquireXchg(c) PROVE IInv'
  <2>1. pc[c][depth[c]] = "acq_xchg"
    BY <1>4 DEF AcquireXchg, At
  <2>3. /\ pc'[c][depth[c]] = "acq_set"
        /\ \A d \in CPUS : \A k \in Levels :
             d # c \/ k # depth[c] => pc'[d][k] = pc[d][k]
    BY <1>0, <1>4, <1>l, GotoEffect DEF AcquireXchg
  <2>4. /\ locked = 0 /\ locked' = 1 /\ cpu' = cpu
        /\ depth' = depth /\ eflagsIF'[c] = eflagsIF[c]
        /\ \A d \in CPUS : d # c => eflagsIF'[d] = eflagsIF[d]
    BY <1>0, <1>4 DEF AcquireXchg, TypeOK
  <2>5. OnlyTopInside'
    BY <1>0, <1>a, <1>d, <2>1, <2>3, <2>4 DEF OnlyTopInside, TypeOK
  <2>6. HolderMeansLocked'
    BY <1>a, <1>d, <2>1, <2>3, <2>4 DEF HolderMeansLocked, OneHolder, HeldLabels
  <2>7. OneHolder'
    BY <1>a, <1>d, <2>1, <2>3, <2>4 DEF HolderMeansLocked, OneHolder, HeldLabels
  <2>8. OwnerField'
    BY <1>b, <1>d, <2>1, <2>3, <2>4 DEF OwnerField
  <2>9. BspField'
    BY <1>a, <1>b, <1>d, <2>1, <2>3, <2>4, BSPAssumption
    DEF BspField, OneHolder, HeldLabels
  <2>10. ChecksTruthful'
    BY <1>4, <1>b DEF AcquireXchg, ChecksTruthful
  <2>11. QED
    BY <1>0, <2>5, <2>6, <2>7, <2>8, <2>9, <2>10 DEF IInv
<1>5. ASSUME NEW c \in CPUS, AcquireSetCpu(c) PROVE IInv'
  <2>1. pc[c][depth[c]] = "acq_set"
    BY <1>5 DEF AcquireSetCpu, At
  <2>3. /\ pc'[c][depth[c]] = "cs"
        /\ \A d \in CPUS : \A k \in Levels :
             d # c \/ k # depth[c] => pc'[d][k] = pc[d][k]
    BY <1>0, <1>5, <1>l, GotoEffect DEF AcquireSetCpu
  <2>4. /\ locked' = locked /\ cpu' = c
        /\ depth' = depth /\ eflagsIF'[c] = eflagsIF[c]
        /\ \A d \in CPUS : d # c => eflagsIF'[d] = eflagsIF[d]
    BY <1>0, <1>5 DEF AcquireSetCpu, TypeOK
  <2>5. OnlyTopInside'
    BY <1>0, <1>a, <1>d, <2>1, <2>3, <2>4 DEF OnlyTopInside, TypeOK
  <2>6. HolderMeansLocked'
    BY <1>a, <1>d, <2>1, <2>3, <2>4 DEF HolderMeansLocked, OneHolder, HeldLabels
  <2>7. OneHolder'
    BY <1>a, <1>d, <2>1, <2>3, <2>4 DEF HolderMeansLocked, OneHolder, HeldLabels
  <2>8. OwnerField'
    BY <1>b, <1>d, <2>1, <2>3, <2>4 DEF OwnerField
  <2>9. BspField'
    BY <1>a, <1>b, <1>d, <2>1, <2>3, <2>4, BSPAssumption
    DEF BspField, OneHolder, HeldLabels
  <2>10. ChecksTruthful'
    BY <1>5, <1>b DEF AcquireSetCpu, ChecksTruthful
  <2>11. QED
    BY <1>0, <2>5, <2>6, <2>7, <2>8, <2>9, <2>10 DEF IInv
<1>6. ASSUME NEW c \in CPUS, ReleaseReadLocked(c) PROVE IInv'
  <2>1. pc[c][depth[c]] = "cs" /\ locked = 1
    BY <1>6, <1>a, <1>d DEF ReleaseReadLocked, At, HolderMeansLocked, HeldLabels
  <2>2. Goto(c, "rel_owner") /\ msg' = msg
    BY <1>6, <2>1 DEF ReleaseReadLocked
  <2>3. /\ pc'[c][depth[c]] = "rel_owner"
        /\ \A d \in CPUS : \A k \in Levels :
             d # c \/ k # depth[c] => pc'[d][k] = pc[d][k]
    BY <1>0, <1>l, <2>2, GotoEffect
  <2>4. /\ locked' = locked /\ cpu' = cpu
        /\ depth' = depth /\ eflagsIF'[c] = 0
        /\ \A d \in CPUS : d # c => eflagsIF'[d] = eflagsIF[d]
    BY <1>0, <1>6 DEF ReleaseReadLocked, TypeOK, cli
  <2>5. OnlyTopInside'
    BY <1>0, <1>a, <1>d, <2>1, <2>3, <2>4 DEF OnlyTopInside, TypeOK
  <2>6. HolderMeansLocked'
    BY <1>a, <1>d, <2>1, <2>3, <2>4 DEF HolderMeansLocked, OneHolder, HeldLabels
  <2>7. OneHolder'
    BY <1>a, <1>d, <2>1, <2>3, <2>4 DEF HolderMeansLocked, OneHolder, HeldLabels
  <2>8. OwnerField'
    BY <1>b, <1>d, <2>1, <2>3, <2>4 DEF OwnerField
  <2>9. BspField'
    BY <1>a, <1>b, <1>d, <2>1, <2>3, <2>4, BSPAssumption
    DEF BspField, OneHolder, HeldLabels
  <2>10. ChecksTruthful'
    BY <1>b, <2>2 DEF ChecksTruthful
  <2>11. QED
    BY <1>0, <2>5, <2>6, <2>7, <2>8, <2>9, <2>10 DEF IInv
<1>7. ASSUME NEW c \in CPUS, ReleaseReadCpu(c) PROVE IInv'
  <2>1. pc[c][depth[c]] = "rel_owner"
    BY <1>7 DEF ReleaseReadCpu, At
  <2>3. /\ pc'[c][depth[c]] = "rel_clear"
        /\ \A d \in CPUS : \A k \in Levels :
             d # c \/ k # depth[c] => pc'[d][k] = pc[d][k]
    BY <1>0, <1>7, <1>l, GotoEffect DEF ReleaseReadCpu
  <2>4. /\ locked' = locked /\ cpu' = cpu
        /\ depth' = depth /\ eflagsIF'[c] = eflagsIF[c]
        /\ \A d \in CPUS : d # c => eflagsIF'[d] = eflagsIF[d]
    BY <1>0, <1>7 DEF ReleaseReadCpu, TypeOK
  <2>5. OnlyTopInside'
    BY <1>0, <1>a, <1>d, <2>1, <2>3, <2>4 DEF OnlyTopInside, TypeOK
  <2>6. HolderMeansLocked'
    BY <1>a, <1>d, <2>1, <2>3, <2>4 DEF HolderMeansLocked, OneHolder, HeldLabels
  <2>7. OneHolder'
    BY <1>a, <1>d, <2>1, <2>3, <2>4 DEF HolderMeansLocked, OneHolder, HeldLabels
  <2>8. OwnerField'
    BY <1>b, <1>d, <2>1, <2>3, <2>4 DEF OwnerField
  <2>9. BspField'
    BY <1>a, <1>b, <1>d, <2>1, <2>3, <2>4, BSPAssumption
    DEF BspField, OneHolder, HeldLabels
  <2>10. ChecksTruthful'
    <3>1. CASE cpu # c
      <4>1. c # BSP
        BY <1>b, <2>1, <3>1 DEF BspField
      <4>2. Write(c, "not holding")
        BY <1>7, <3>1 DEF ReleaseReadCpu
      <4>3. msg'[c] = msg[c] \cup {"not holding"}
            /\ \A d \in CPUS : d # c => msg'[d] = msg[d]
        BY <1>0, <1>m, <4>2, WriteEffect
      <4>4. "already holding" \notin msg'[c]
        BY <1>b, <4>1, <4>3 DEF ChecksTruthful
      <4>5. QED
        BY <1>b, <4>1, <4>3, <4>4, BSPAssumption DEF ChecksTruthful
    <3>2. CASE cpu = c
      BY <1>7, <1>b, <3>2 DEF ReleaseReadCpu, ChecksTruthful
    <3>3. QED
      BY <3>1, <3>2
  <2>11. QED
    BY <1>0, <2>5, <2>6, <2>7, <2>8, <2>9, <2>10 DEF IInv
<1>8. ASSUME NEW c \in CPUS, ReleaseClearLocked(c) PROVE IInv'
  <2>1. pc[c][depth[c]] = "rel_clear"
    BY <1>8 DEF ReleaseClearLocked, At
  <2>3. /\ pc'[c][depth[c]] = "rel_cpu"
        /\ \A d \in CPUS : \A k \in Levels :
             d # c \/ k # depth[c] => pc'[d][k] = pc[d][k]
    BY <1>0, <1>8, <1>l, GotoEffect DEF ReleaseClearLocked
  <2>4. /\ locked' = 0 /\ cpu' = cpu
        /\ depth' = depth /\ eflagsIF'[c] = eflagsIF[c]
        /\ \A d \in CPUS : d # c => eflagsIF'[d] = eflagsIF[d]
    BY <1>0, <1>8 DEF ReleaseClearLocked, TypeOK
  <2>5. OnlyTopInside'
    BY <1>0, <1>a, <1>d, <2>1, <2>3, <2>4 DEF OnlyTopInside, TypeOK
  <2>6. HolderMeansLocked'
    BY <1>a, <1>d, <2>1, <2>3, <2>4 DEF HolderMeansLocked, OneHolder, HeldLabels
  <2>7. OneHolder'
    BY <1>a, <1>d, <2>1, <2>3, <2>4 DEF HolderMeansLocked, OneHolder, HeldLabels
  <2>8. OwnerField'
    BY <1>b, <1>d, <2>1, <2>3, <2>4 DEF OwnerField
  <2>9. BspField'
    BY <1>a, <1>b, <1>d, <2>1, <2>3, <2>4, BSPAssumption
    DEF BspField, OneHolder, HeldLabels
  <2>10. ChecksTruthful'
    BY <1>8, <1>b DEF ReleaseClearLocked, ChecksTruthful
  <2>11. QED
    BY <1>0, <2>5, <2>6, <2>7, <2>8, <2>9, <2>10 DEF IInv
<1>9. ASSUME NEW c \in CPUS, ReleaseClearCpu(c) PROVE IInv'
  <2>1. pc[c][depth[c]] = "rel_cpu"
    BY <1>9 DEF ReleaseClearCpu, At
  <2>3. /\ pc'[c][depth[c]] = "rel_sti"
        /\ \A d \in CPUS : \A k \in Levels :
             d # c \/ k # depth[c] => pc'[d][k] = pc[d][k]
    BY <1>0, <1>9, <1>l, GotoEffect DEF ReleaseClearCpu
  <2>4. /\ locked' = locked /\ cpu' = BSP
        /\ depth' = depth /\ eflagsIF'[c] = eflagsIF[c]
        /\ \A d \in CPUS : d # c => eflagsIF'[d] = eflagsIF[d]
    BY <1>0, <1>9 DEF ReleaseClearCpu, TypeOK
  <2>5. OnlyTopInside'
    BY <1>0, <1>a, <1>d, <2>1, <2>3, <2>4 DEF OnlyTopInside, TypeOK
  <2>6. HolderMeansLocked'
    BY <1>a, <1>d, <2>1, <2>3, <2>4 DEF HolderMeansLocked, OneHolder, HeldLabels
  <2>7. OneHolder'
    BY <1>a, <1>d, <2>1, <2>3, <2>4 DEF HolderMeansLocked, OneHolder, HeldLabels
  <2>8. OwnerField'
    BY <1>b, <1>d, <2>1, <2>3, <2>4 DEF OwnerField
  <2>9. BspField'
    BY <1>a, <1>b, <1>d, <2>1, <2>3, <2>4, BSPAssumption
    DEF BspField, OneHolder, HeldLabels
  <2>10. ChecksTruthful'
    BY <1>9, <1>b DEF ReleaseClearCpu, ChecksTruthful
  <2>11. QED
    BY <1>0, <2>5, <2>6, <2>7, <2>8, <2>9, <2>10 DEF IInv
<1>10. ASSUME NEW c \in CPUS, ReleaseSti(c) PROVE IInv'
  <2>1. pc[c][depth[c]] = "rel_sti"
    BY <1>10 DEF ReleaseSti, At
  <2>3. /\ pc'[c][depth[c]] = "out"
        /\ \A d \in CPUS : \A k \in Levels :
             d # c \/ k # depth[c] => pc'[d][k] = pc[d][k]
    BY <1>0, <1>10, <1>l, GotoEffect DEF ReleaseSti
  <2>4. /\ locked' = locked /\ cpu' = cpu
        /\ depth' = depth /\ eflagsIF'[c] = 1
        /\ \A d \in CPUS : d # c => eflagsIF'[d] = eflagsIF[d]
    BY <1>0, <1>10 DEF ReleaseSti, TypeOK, sti
  <2>5. OnlyTopInside'
    BY <1>0, <1>a, <1>d, <2>1, <2>3, <2>4 DEF OnlyTopInside, TypeOK
  <2>6. HolderMeansLocked'
    BY <1>a, <1>d, <2>1, <2>3, <2>4 DEF HolderMeansLocked, OneHolder, HeldLabels
  <2>7. OneHolder'
    BY <1>a, <1>d, <2>1, <2>3, <2>4 DEF HolderMeansLocked, OneHolder, HeldLabels
  <2>8. OwnerField'
    BY <1>b, <1>d, <2>1, <2>3, <2>4 DEF OwnerField
  <2>9. BspField'
    BY <1>a, <1>b, <1>d, <2>1, <2>3, <2>4, BSPAssumption
    DEF BspField, OneHolder, HeldLabels
  <2>10. ChecksTruthful'
    BY <1>10, <1>b DEF ReleaseSti, ChecksTruthful
  <2>11. QED
    BY <1>0, <2>5, <2>6, <2>7, <2>8, <2>9, <2>10 DEF IInv
<1>11. ASSUME NEW c \in CPUS, InterruptEntry(c) PROVE IInv'
  <2>1. \A k \in Levels : pc[c][k] = "out"
    BY <1>11, <1>a DEF InterruptEntry, OnlyTopInside
  <2>2. /\ pc' = pc /\ locked' = locked /\ cpu' = cpu /\ msg' = msg
        /\ \A d \in CPUS : d # c =>
              depth'[d] = depth[d] /\ eflagsIF'[d] = eflagsIF[d]
        /\ \A d \in CPUS : depth'[d] \in Levels
    BY <1>0, <1>11 DEF InterruptEntry, TypeOK, cli, sti
  <2>3. OnlyTopInside' /\ HolderMeansLocked' /\ OneHolder'
    BY <1>a, <2>1, <2>2 DEF OnlyTopInside, HolderMeansLocked, OneHolder
  <2>4. OwnerField' /\ BspField' /\ ChecksTruthful'
    BY <1>b, <1>d, <2>1, <2>2, BSPAssumption DEF OwnerField, BspField, ChecksTruthful
  <2>5. QED
    BY <1>0, <2>3, <2>4 DEF IInv
<1>12. ASSUME NEW c \in CPUS, InterruptReturn(c) PROVE IInv'
  <2>1. \A k \in Levels : pc[c][k] = "out"
    BY <1>12, <1>a, <1>d DEF InterruptReturn, At, OnlyTopInside
  <2>2. /\ pc' = pc /\ locked' = locked /\ cpu' = cpu /\ msg' = msg
        /\ \A d \in CPUS : d # c =>
              depth'[d] = depth[d] /\ eflagsIF'[d] = eflagsIF[d]
        /\ \A d \in CPUS : depth'[d] \in Levels
    BY <1>0, <1>12 DEF InterruptReturn, TypeOK, cli, sti
  <2>3. OnlyTopInside' /\ HolderMeansLocked' /\ OneHolder'
    BY <1>a, <2>1, <2>2 DEF OnlyTopInside, HolderMeansLocked, OneHolder
  <2>4. OwnerField' /\ BspField' /\ ChecksTruthful'
    BY <1>b, <1>d, <2>1, <2>2, BSPAssumption DEF OwnerField, BspField, ChecksTruthful
  <2>5. QED
    BY <1>0, <2>3, <2>4 DEF IInv
<1>13. QED
  BY <1>1, <1>2, <1>3, <1>4, <1>5, <1>6, <1>7, <1>8, <1>9, <1>10, <1>11, <1>12
  DEF Next, LockStep

(***************************************************************************)
(* The lock's state always has its type, and the conjuncts above hold.     *)
(***************************************************************************)
LEMMA IInvInvariant == SafetySpec => []IInv
BY InitIInv, NextIInv, PTL DEF SafetySpec

(***************************************************************************)
(* For any number of CPUs and any interrupt nesting, at most one context   *)
(* is between the winning xchg and the clearing of lock->locked.           *)
(***************************************************************************)
THEOREM MutexHolds == SafetySpec => []MutualExclusion
<1>1. IInv => MutualExclusion
  BY DEF IInv, OneHolder, MutualExclusion, Holds, Contexts
<1>2. QED
  BY <1>1, IInvInvariant, PTL

(***************************************************************************)
(* The cli of acquire() is enough: no interrupt handler can find the lock  *)
(* taken by the code it interrupted.                                       *)
(***************************************************************************)
THEOREM NoSelfDeadlockHolds == SafetySpec => []NoSelfDeadlock
<1>1. IInv => NoSelfDeadlock
  BY DEF IInv, OnlyTopInside, NoSelfDeadlock, HeldLabels
<1>2. QED
  BY <1>1, IInvInvariant, PTL

(***************************************************************************)
(* acquire() never wrongly accuses an application processor, release()     *)
(* never wrongly accuses the boot processor.                               *)
(***************************************************************************)
THEOREM ChecksTruthfulHolds == SafetySpec => []ChecksTruthful
<1>1. IInv => ChecksTruthful
  BY DEF IInv
<1>2. QED
  BY <1>1, IInvInvariant, PTL

(***************************************************************************)
(* The type invariant of the lock, by itself.                              *)
(***************************************************************************)
THEOREM TypeCorrect == SafetySpec => []TypeOK
<1>1. IInv => TypeOK
  BY DEF IInv
<1>2. QED
  BY <1>1, IInvInvariant, PTL

-----------------------------------------------------------------------------
(***************************************************************************)
(* A move of CPU c between two labels that are both inside or both outside *)
(* the held region leaves the owners of the abstract lock alone.           *)
(***************************************************************************)
LEMMA SameOwners ==
    ASSUME TypeOK, NEW c \in CPUS, NEW l \in Labels, Goto(c, l),
           pc[c][depth[c]] \in HeldLabels <=> l \in HeldLabels
    PROVE  Owners' = Owners
<1>1. /\ pc'[c][depth[c]] = l
      /\ \A d \in CPUS : \A k \in Levels :
           d # c \/ k # depth[c] => pc'[d][k] = pc[d][k]
  BY GotoEffect
<1>2. \A d \in CPUS : \A k \in Levels :
        pc'[d][k] \in HeldLabels <=> pc[d][k] \in HeldLabels
  BY <1>1
<1>3. \A x \in Contexts : Holds(x)' <=> Holds(x)
  BY <1>2 DEF Contexts, Holds
<1>4. QED
  BY <1>3 DEF Owners

(***************************************************************************)
(* Every step of the spinlock is a step of the abstract lock or leaves its *)
(* owner alone: the xchg takes it, the clearing of locked gives it back.   *)
(***************************************************************************)
LEMMA StepRefines == IInv /\ [Next]_vars => [Abstract!MutexNext]_Owners
<1> SUFFICES ASSUME IInv, [Next]_vars PROVE Abstract!MutexNext \/ Owners' = Owners
  OBVIOUS
<1>0. TypeOK
  BY DEF IInv
<1>d. \A c \in CPUS : depth[c] \in Levels /\ <<c, depth[c]>> \in Contexts
  BY <1>0 DEF TypeOK, Contexts
<1>l. {"out", "acq_owner", "acq_xchg", "acq_set", "cs", "rel_owner",
       "rel_clear", "rel_cpu", "rel_sti"} \subseteq Labels
  BY DEF Labels
<1>1. CASE UNCHANGED vars
  BY <1>1 DEF vars, Owners, Holds
<1>2. ASSUME NEW c \in CPUS, AcquireReadLocked(c) PROVE Owners' = Owners
  BY <1>0, <1>2, <1>l, SameOwners DEF AcquireReadLocked, At, HeldLabels
<1>3. ASSUME NEW c \in CPUS, AcquireReadCpu(c) PROVE Owners' = Owners
  BY <1>0, <1>3, <1>l, SameOwners DEF AcquireReadCpu, At, HeldLabels
<1>4. ASSUME NEW c \in CPUS, AcquireSetCpu(c) PROVE Owners' = Owners
  BY <1>0, <1>4, <1>l, SameOwners DEF AcquireSetCpu, At, HeldLabels
<1>5. ASSUME NEW c \in CPUS, ReleaseReadCpu(c) PROVE Owners' = Owners
  BY <1>0, <1>5, <1>l, SameOwners DEF ReleaseReadCpu, At, HeldLabels
<1>6. ASSUME NEW c \in CPUS, ReleaseClearCpu(c) PROVE Owners' = Owners
  BY <1>0, <1>6, <1>l, SameOwners DEF ReleaseClearCpu, At, HeldLabels
<1>7. ASSUME NEW c \in CPUS, ReleaseSti(c) PROVE Owners' = Owners
  BY <1>0, <1>7, <1>l, SameOwners DEF ReleaseSti, At, HeldLabels
<1>8. ASSUME NEW c \in CPUS, ReleaseReadLocked(c) PROVE Owners' = Owners
  <2>1. At(c, "cs") /\ (Goto(c, "rel_owner") \/ Goto(c, "rel_clear"))
    BY <1>8 DEF ReleaseReadLocked
  <2>2. QED
    BY <1>0, <1>l, <2>1, SameOwners DEF At, HeldLabels
<1>9. ASSUME NEW c \in CPUS, AcquireXchg(c) PROVE Abstract!Take(<<c, depth[c]>>)
  <2>1. Owners = {}
    BY <1>9 DEF IInv, HolderMeansLocked, AcquireXchg, Owners, Holds, Contexts
  <2>2. /\ pc'[c][depth[c]] = "acq_set"
        /\ \A d \in CPUS : \A k \in Levels :
             d # c \/ k # depth[c] => pc'[d][k] = pc[d][k]
    BY <1>0, <1>9, <1>l, GotoEffect DEF AcquireXchg
  <2>3. \A x \in Contexts : Holds(x)' <=> x = <<c, depth[c]>>
    BY <1>d, <2>1, <2>2 DEF Owners, Holds, Contexts, HeldLabels
  <2>4. Owners' = {<<c, depth[c]>>}
    BY <1>d, <2>3 DEF Owners
  <2>5. QED
    BY <2>1, <2>4 DEF Abstract!Take
<1>10. ASSUME NEW c \in CPUS, ReleaseClearLocked(c) PROVE Abstract!Give(<<c, depth[c]>>)
  <2>1. pc[c][depth[c]] = "rel_clear"
    BY <1>10 DEF ReleaseClearLocked, At
  <2>2. /\ pc'[c][depth[c]] = "rel_cpu"
        /\ \A d \in CPUS : \A k \in Levels :
             d # c \/ k # depth[c] => pc'[d][k] = pc[d][k]
    BY <1>0, <1>10, <1>l, GotoEffect DEF ReleaseClearLocked
  <2>3. Holds(<<c, depth[c]>>)
    BY <2>1 DEF Holds, HeldLabels
  <2>4. \A x \in Contexts : Holds(x)' <=> Holds(x) /\ x # <<c, depth[c]>>
    BY <1>d, <2>2 DEF Holds, Contexts, HeldLabels
  <2>5. Owners' = Owners \ {<<c, depth[c]>>}
    BY <2>4 DEF Owners
  <2>6. QED
    BY <1>d, <2>3, <2>5 DEF Abstract!Give, Owners
<1>11. ASSUME NEW c \in CPUS, InterruptEntry(c) PROVE Owners' = Owners
  BY <1>11 DEF InterruptEntry, Owners, Holds
<1>12. ASSUME NEW c \in CPUS, InterruptReturn(c) PROVE Owners' = Owners
  BY <1>12 DEF InterruptReturn, Owners, Holds
<1>13. QED
  BY <1>d, <1>1, <1>2, <1>3, <1>4, <1>5, <1>6, <1>7, <1>8, <1>9, <1>10, <1>11, <1>12
  DEF Next, LockStep, Abstract!MutexNext

(***************************************************************************)
(* The spinlock implements the safety part of the abstract lock, for any   *)
(* number of CPUs (its fairness part is checked by TLC).                   *)
(***************************************************************************)
THEOREM SpinlockRefinesMutex == SafetySpec => Abstract!MutexSafety
<1>1. Init => Abstract!MutexInit
  BY DEF Init, Abstract!MutexInit, Owners, Holds, Contexts, HeldLabels
<1>2. QED
  BY <1>1, StepRefines, IInvInvariant, PTL DEF SafetySpec, Abstract!MutexSafety
=============================================================================
