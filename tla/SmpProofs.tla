------------------------------ MODULE SmpProofs ------------------------------
(***************************************************************************)
(* Proofs about the kernel on several CPUs, for any finite number of CPUs: *)
(* what the races between the boot processor, which fills the run queues,  *)
(* and the APs, which insert processes and empty their queues, cannot do.  *)
(***************************************************************************)
EXTENDS Smp, FiniteSetTheorems, FunctionTheorems, SequenceTheorems, TLAPS

(***************************************************************************)
(* The inductive invariant.                                                *)
(***************************************************************************)
Making == {"getpid", "storepid", "newthread", "fillthread", "ins_acquire", "insert"}
Enqueueing == {"enq_load", "enq_store", "enq_tail", "enq_slot"}
Dequeueing == {"deq_load", "deq_store", "deq_take"}
Chosen == {"srch_release", "switch", "run", "running"} \cup Dequeueing
Inserted == {"ins_release", "srch_acquire", "search", "fill", "halt"} \cup Chosen \cup Enqueueing
BspPlaces == Making \cup {"ins_release", "fill", "halt"} \cup Enqueueing
ApPlaces == Making \cup {"loop", "ins_release", "srch_acquire", "search"} \cup Chosen

(* The types, without bounds on pids.                                      *)
PcTypes == pc \in [CPUS -> BspPlaces \cup ApPlaces]
ProcTypes ==
    /\ KProcessID \in Nat /\ reg \in [CPUS -> Nat] /\ round \in [CPUS -> 0 .. MaxRounds]
    /\ pid \in [Objects -> Nat] /\ state \in [Objects -> States]
TreeTypes ==
    /\ tree \subseteq Objects /\ lock \subseteq CPUS
    /\ found \in [CPUS -> Objects \cup {None}] /\ disturbed \in BOOLEAN
SchedTypes ==
    /\ queue \in [CPUS -> Seq(Objects \cup {None})] /\ head \in [CPUS -> Nat]
    /\ load \in [CPUS -> 0 .. (WORD - 1)] /\ current \in [CPUS -> Objects \cup {None}]
    /\ ticks \in [CPUS -> 0 .. TIME_SLICE_TICKS] /\ inService \in [CPUS -> BOOLEAN]
FillTypes ==
    /\ visited \subseteq Objects /\ given \subseteq Objects /\ early \subseteq Objects
    /\ enq \in [thread : Objects \cup {None}, cpu : CPUS]
Types == PcTypes /\ ProcTypes /\ TreeTypes /\ SchedTypes /\ FillTypes

(* Each CPU makes one process: an AP leaves its loop with the timer        *)
(* interrupt in service for ever, so that schedule() has no old thread.    *)
Control ==
    /\ pc[BSP] \in BspPlaces /\ round[BSP] = 1
    /\ \A c \in APS : pc[c] \in ApPlaces
    /\ \A c \in APS : pc[c] = "loop" => round[c] = 0 /\ ticks[c] < TIME_SLICE_TICKS
    /\ \A c \in APS : pc[c] # "loop" => round[c] = 1 /\ inService[c]
    /\ \A c \in CPUS : current[c] # None => pc[c] = "running" /\ current[c] = found[c]

(* What is in the tree is finished, and what is run or queued is in it.    *)
Made ==
    /\ \A o \in tree : o = <<o[1], 1>> /\ o[1] \in CPUS /\ pc[o[1]] \in Inserted
    /\ \A c \in CPUS : pc[c] \in Inserted => mine(c) \in tree
    /\ \A o \in tree : state[o] \in {"RUNNABLE", "RUNNING"}
    /\ \A c \in CPUS : pc[c] \in {"ins_acquire", "insert"} => state[mine(c)] \in {"RUNNABLE", "RUNNING"}
    /\ \A c \in CPUS : pc[c] \in Chosen => found[c] \in tree

Slots(c) == 1 .. Len(queue[c])

(* What the traversal handed out is in one slot of one queue; the only     *)
(* slot without a thread is the one the BSP is about to write.             *)
Handed ==
    /\ given \subseteq visited /\ visited \subseteq tree /\ early \subseteq given
    /\ pc[BSP] \in Enqueueing => enq.thread \in visited \ given
    /\ \A c \in CPUS : \A i \in Slots(c) : queue[c][i] # None => queue[c][i] \in given
    /\ \A c \in CPUS : \A i \in Slots(c) : queue[c][i] = None =>
            pc[BSP] = "enq_slot" /\ c = enq.cpu /\ i = Len(queue[c])
    /\ pc[BSP] = "enq_slot" => Len(queue[enq.cpu]) # 0 /\ queue[enq.cpu][Len(queue[enq.cpu])] = None
    /\ \A c, d \in CPUS : \A i \in Slots(c), j \in Slots(d) :
            queue[c][i] = queue[d][j] /\ queue[c][i] # None => c = d /\ i = j
    /\ \A o \in given : \E c \in CPUS : \E i \in Slots(c) : queue[c][i] = o

(* An AP takes one thread at most; what it runs is what it took, or a      *)
(* process with the pid of its own.                                        *)
Taken ==
    /\ \A c \in CPUS : head[c] <= Len(queue[c]) /\ head[c] <= 1
    /\ \A c \in CPUS : pc[c] \in Dequeueing => head[c] < Len(queue[c])
    /\ \A c \in CPUS : pc[c] \notin {"run", "running"} => head[c] = 0
    /\ \A c \in CPUS : head[c] = 1 /\ queue[c][1] # None /\ queue[c][1] \notin early =>
            found[c] = queue[c][1]
    /\ \A c \in CPUS : pc[c] \in Chosen => found[c] \in given \/ pid[found[c]] = pid[mine(c)]

Taking(c) == IF pc[c] = "deq_take" THEN 1 ELSE 0
Coming(c) == IF pc[BSP] = "enq_tail" /\ enq.cpu = c THEN 1 ELSE 0

(* The load counts, with what is on its way in or out.                     *)
Loads ==
    /\ \A c \in CPUS : load[c] <= 1
    /\ \A c \in CPUS : load[c] + head[c] + Taking(c) = Len(queue[c]) + Coming(c)
    /\ pc[BSP] \in {"enq_load", "enq_store"} => load[enq.cpu] = 0
    /\ pc[BSP] = "enq_store" => reg[BSP] = 0
    /\ \A c \in CPUS : pc[c] = "deq_store" => reg[c] = 1

(* Pids grow by one for each process that gets one, at most.               *)
Numbered == {o \in Objects : pid[o] # 0}
MaxPid == FIRST_PID + Cardinality(Numbered)

PidsBounded ==
    /\ KProcessID <= MaxPid
    /\ \A c \in CPUS : reg[c] <= MaxPid \/ reg[c] < WORD
    /\ \A c \in CPUS : pc[c] = "storepid" => reg[c] <= MaxPid
    /\ \A o \in Objects : pid[o] <= MaxPid
    /\ \A c \in CPUS : pc[c] \in {"loop", "getpid", "storepid"} => pid[<<c, 1>>] = 0

KInv == Types /\ Control /\ Made /\ Handed /\ Taken /\ Loads /\ PidsBounded

-----------------------------------------------------------------------------
(***************************************************************************)
(* A process is not the null pointer; the tree's processes are numbers.    *)
(***************************************************************************)
LEMMA NotNone == None \notin Objects
BY DEF None, Objects

(***************************************************************************)
(* process.c: the process a CPU makes is a process, once it makes one.     *)
(***************************************************************************)
LEMMA MineType ==
    ASSUME Types, Control, NEW c \in CPUS, pc[c] # "loop"
    PROVE  mine(c) = <<c, 1>> /\ mine(c) \in Objects
<1>1. round[c] = 1
  BY DEF Control, APS
<1>2. 1 \in 1 .. MaxRounds
  BY BoundsAssumption
<1>3. QED
  BY <1>1, <1>2 DEF mine, Objects

(***************************************************************************)
(* idt.c, sched.c: schedule() finds no old thread, since its call by the   *)
(* timer handler was the first and is the last on its CPU: nothing is put  *)
(* back, a thread is taken if one is there.                                *)
(***************************************************************************)
LEMMA NoRequeue ==
    ASSUME Types, Control, NEW c \in CPUS, dequeueThread(c)
    PROVE  /\ pc[c] = "switch"
           /\ pc' = [pc EXCEPT ![c] = IF head[c] < Len(queue[c]) THEN "deq_load" ELSE "run"]
           /\ UNCHANGED <<procVars, treeVars, schedVars, fillVars>>
<1>1. ~Requeues(c)
  BY DEF Requeues, dequeueThread, Control
<1>2. [queue EXCEPT ![c] = queue[c]] = queue
  BY DEF Types, SchedTypes
<1>3. QED
  BY <1>1, <1>2 DEF dequeueThread, Goto, procVars, treeVars, schedVars, fillVars

(***************************************************************************)
(* sched.c, dequeueThread(): the slot that is read is below tail.          *)
(***************************************************************************)
LEMMA TakenSlot ==
    ASSUME Types, Taken, NEW c \in CPUS, pc[c] = "deq_take"
    PROVE  /\ head[c] = 0 /\ Len(queue[c]) \in Nat \ {0} /\ 1 \in Slots(c)
           /\ queue[c][head[c] + 1] = queue[c][1] /\ queue[c][1] \in Objects \cup {None}
<1>1. queue[c] \in Seq(Objects \cup {None})
  BY DEF Types, SchedTypes
<1>2. Len(queue[c]) \in Nat
  BY <1>1, LenProperties
<1>3. head[c] = 0 /\ head[c] < Len(queue[c])
  BY DEF Taken, Dequeueing
<1>4. QED
  BY <1>1, <1>2, <1>3, ElementOfSeq DEF Slots

(***************************************************************************)
(* The places of a CPU, by name.                                           *)
(***************************************************************************)
LEMMA Places ==
    /\ {"getpid", "storepid", "newthread", "fillthread", "ins_acquire", "insert", "ins_release",
        "srch_acquire", "search", "srch_release", "switch", "deq_load", "deq_store", "deq_take",
        "run", "running"} \subseteq ApPlaces
    /\ {"fill", "halt", "enq_load", "enq_store", "enq_tail", "enq_slot"} \subseteq BspPlaces
BY DEF ApPlaces, BspPlaces, Making, Chosen, Dequeueing, Enqueueing

(***************************************************************************)
(* The types of what a step leaves alone.                                  *)
(***************************************************************************)
LEMMA SameTypes ==
    ASSUME Types
    PROVE  /\ UNCHANGED procVars => ProcTypes'
           /\ UNCHANGED treeVars => TreeTypes'
           /\ UNCHANGED schedVars => SchedTypes'
           /\ UNCHANGED fillVars => FillTypes'
           /\ \A c \in CPUS : \A l \in BspPlaces \cup ApPlaces : Goto(c, l) => PcTypes'
<1>1. UNCHANGED procVars => ProcTypes'
  BY DEF Types, procVars, ProcTypes
<1>2. UNCHANGED treeVars => TreeTypes'
  BY DEF Types, treeVars, TreeTypes
<1>3. UNCHANGED schedVars => SchedTypes'
  BY DEF Types, schedVars, SchedTypes
<1>4. UNCHANGED fillVars => FillTypes'
  BY DEF Types, fillVars, FillTypes
<1>5. \A c \in CPUS : \A l \in BspPlaces \cup ApPlaces : Goto(c, l) => PcTypes'
  BY DEF Types, PcTypes, Goto
<1>6. QED
  BY <1>1, <1>2, <1>3, <1>4, <1>5

(***************************************************************************)
(* sched.c: the width of threadsPerCPU is no limit here, and counting up   *)
(* from 0 and down from 1 does not wrap.                                   *)
(***************************************************************************)
LEMMA WordFacts ==
    /\ WORD \in Nat /\ WORD >= 2
    /\ \A n \in Nat : n % WORD \in 0 .. (WORD - 1)
    /\ (0 + 1) % WORD = 1
    /\ (1 + WORD - 1) % WORD = 0
<1>1. Cardinality(CPUS) \in Nat /\ Cardinality(CPUS) # 0
  BY CpusAssumption, FS_CardinalityType, FS_EmptySet
<1>2. \A a, b \in Nat : a # 0 /\ b # 0 => a * b >= 1
  OBVIOUS
<1>3. Cardinality(CPUS) * MaxRounds >= 1 /\ Cardinality(CPUS) * MaxRounds \in Nat
  BY <1>1, <1>2, BoundsAssumption
<1>4. WORD \in Nat /\ WORD >= 2
  BY <1>3, BoundsAssumption
<1>5. QED
  BY <1>4

(***************************************************************************)
(* Every step of every CPU keeps the types.                                *)
(***************************************************************************)
LEMMA NextTypes ==
    ASSUME Types, Control, Handed, Taken, [Next]_vars
    PROVE  Types'
<1> USE Places, CpusAssumption
<1>1. ASSUME NEW c \in CPUS, getProcessIDLoad(c) PROVE Types'
  <2>1. PcTypes'
    BY <1>1, SameTypes DEF getProcessIDLoad
  <2>2. ProcTypes'
    BY <1>1 DEF getProcessIDLoad, Types, ProcTypes, PcTypes
  <2>3. TreeTypes'
    BY <1>1, SameTypes DEF getProcessIDLoad, treeVars
  <2>4. SchedTypes'
    BY <1>1, SameTypes DEF getProcessIDLoad, schedVars
  <2>5. FillTypes'
    BY <1>1, SameTypes DEF getProcessIDLoad, fillVars
  <2>6. QED
    BY <2>1, <2>2, <2>3, <2>4, <2>5 DEF Types
<1>2. ASSUME NEW c \in CPUS, getProcessIDStore(c) PROVE Types'
  <2>1. PcTypes'
    BY <1>2, SameTypes DEF getProcessIDStore
  <2>2. ProcTypes'
    BY <1>2, MineType DEF getProcessIDStore, Types, ProcTypes, PcTypes
  <2>3. TreeTypes'
    BY <1>2, SameTypes DEF getProcessIDStore, treeVars
  <2>4. SchedTypes'
    BY <1>2, SameTypes DEF getProcessIDStore, schedVars
  <2>5. FillTypes'
    BY <1>2, SameTypes DEF getProcessIDStore, fillVars
  <2>6. QED
    BY <2>1, <2>2, <2>3, <2>4, <2>5 DEF Types
<1>3. ASSUME NEW c \in CPUS, createKernelThreadBegin(c) PROVE Types'
  <2>1. PcTypes'
    BY <1>3, SameTypes DEF createKernelThreadBegin
  <2>2. ProcTypes'
    BY <1>3, MineType DEF createKernelThreadBegin, Types, ProcTypes, PcTypes, States
  <2>3. TreeTypes'
    BY <1>3, SameTypes DEF createKernelThreadBegin, treeVars
  <2>4. SchedTypes'
    BY <1>3, SameTypes DEF createKernelThreadBegin, schedVars
  <2>5. FillTypes'
    BY <1>3, SameTypes DEF createKernelThreadBegin, fillVars
  <2>6. QED
    BY <2>1, <2>2, <2>3, <2>4, <2>5 DEF Types
<1>4. ASSUME NEW c \in CPUS, createKernelThreadEnd(c) PROVE Types'
  <2>1. PcTypes'
    BY <1>4, SameTypes DEF createKernelThreadEnd
  <2>2. ProcTypes'
    BY <1>4, MineType DEF createKernelThreadEnd, Types, ProcTypes, PcTypes, States
  <2>3. TreeTypes'
    BY <1>4, SameTypes DEF createKernelThreadEnd, treeVars
  <2>4. SchedTypes'
    BY <1>4, SameTypes DEF createKernelThreadEnd, schedVars
  <2>5. FillTypes'
    BY <1>4, SameTypes DEF createKernelThreadEnd, fillVars
  <2>6. QED
    BY <2>1, <2>2, <2>3, <2>4, <2>5 DEF Types
<1>5. ASSUME NEW c \in CPUS, InsertAcquire(c) PROVE Types'
  <2>1. PcTypes'
    BY <1>5, SameTypes DEF InsertAcquire
  <2>2. ProcTypes'
    BY <1>5, SameTypes DEF InsertAcquire, procVars
  <2>3. TreeTypes'
    BY <1>5 DEF InsertAcquire, Types, TreeTypes, PcTypes
  <2>4. SchedTypes'
    BY <1>5, SameTypes DEF InsertAcquire, schedVars
  <2>5. FillTypes'
    BY <1>5, SameTypes DEF InsertAcquire, fillVars
  <2>6. QED
    BY <2>1, <2>2, <2>3, <2>4, <2>5 DEF Types
<1>6. ASSUME NEW c \in CPUS, rbInsert(c) PROVE Types'
  <2>1. PcTypes'
    BY <1>6, SameTypes DEF rbInsert
  <2>2. ProcTypes'
    BY <1>6, SameTypes DEF rbInsert, procVars
  <2>3. TreeTypes'
    BY <1>6, MineType DEF rbInsert, Types, TreeTypes, PcTypes
  <2>4. SchedTypes'
    BY <1>6, SameTypes DEF rbInsert, schedVars
  <2>5. FillTypes'
    BY <1>6, SameTypes DEF rbInsert, fillVars
  <2>6. QED
    BY <2>1, <2>2, <2>3, <2>4, <2>5 DEF Types
<1>7. ASSUME NEW c \in CPUS, InsertRelease(c) PROVE Types'
  <2>1. PcTypes'
    BY <1>7, SameTypes DEF InsertRelease
  <2>2. ProcTypes'
    BY <1>7, SameTypes DEF InsertRelease, procVars
  <2>3. TreeTypes'
    BY <1>7 DEF InsertRelease, Types, TreeTypes, PcTypes
  <2>4. SchedTypes'
    BY <1>7, SameTypes DEF InsertRelease, schedVars
  <2>5. FillTypes'
    BY <1>7, SameTypes DEF InsertRelease, fillVars
  <2>6. QED
    BY <2>1, <2>2, <2>3, <2>4, <2>5 DEF Types
<1>8. ASSUME NEW c \in CPUS, SearchAcquire(c) PROVE Types'
  <2>1. PcTypes'
    BY <1>8, SameTypes DEF SearchAcquire
  <2>2. ProcTypes'
    BY <1>8, SameTypes DEF SearchAcquire, procVars
  <2>3. TreeTypes'
    BY <1>8 DEF SearchAcquire, Types, TreeTypes, PcTypes
  <2>4. SchedTypes'
    BY <1>8, SameTypes DEF SearchAcquire, schedVars
  <2>5. FillTypes'
    BY <1>8, SameTypes DEF SearchAcquire, fillVars
  <2>6. QED
    BY <2>1, <2>2, <2>3, <2>4, <2>5 DEF Types
<1>9. ASSUME NEW c \in CPUS, rbSearch(c) PROVE Types'
  <2>1. PcTypes'
    BY <1>9, SameTypes DEF rbSearch
  <2>2. ProcTypes'
    BY <1>9, SameTypes DEF rbSearch, procVars
  <2>3. TreeTypes'
    <3>1. PICK o \in (IF Matches(c) = {} THEN {None} ELSE Matches(c)) :
                found' = [found EXCEPT ![c] = o]
      BY <1>9 DEF rbSearch
    <3>2. o \in Objects \cup {None}
      BY DEF Matches, Types, TreeTypes
    <3>3. QED
      BY <1>9, <3>1, <3>2 DEF rbSearch, Types, TreeTypes
  <2>4. SchedTypes'
    BY <1>9, SameTypes DEF rbSearch, schedVars
  <2>5. FillTypes'
    BY <1>9, SameTypes DEF rbSearch, fillVars
  <2>6. QED
    BY <2>1, <2>2, <2>3, <2>4, <2>5 DEF Types
<1>10. ASSUME NEW c \in CPUS, SearchRelease(c) PROVE Types'
  <2>1. PcTypes'
    BY <1>10, SameTypes DEF SearchRelease
  <2>2. ProcTypes'
    BY <1>10, SameTypes DEF SearchRelease, procVars
  <2>3. TreeTypes'
    BY <1>10 DEF SearchRelease, Types, TreeTypes, PcTypes
  <2>4. SchedTypes'
    BY <1>10, SameTypes DEF SearchRelease, schedVars
  <2>5. FillTypes'
    BY <1>10, SameTypes DEF SearchRelease, fillVars
  <2>6. QED
    BY <2>1, <2>2, <2>3, <2>4, <2>5 DEF Types
<1>11. ASSUME NEW c \in CPUS, dequeueThread(c) PROVE Types'
  <2>1. PcTypes'
    BY <1>11, SameTypes, NoRequeue DEF Goto
  <2>2. ProcTypes'
    BY <1>11, SameTypes, NoRequeue DEF procVars
  <2>3. TreeTypes'
    BY <1>11, SameTypes, NoRequeue DEF treeVars
  <2>4. SchedTypes'
    BY <1>11, SameTypes, NoRequeue DEF schedVars
  <2>5. FillTypes'
    BY <1>11, SameTypes, NoRequeue DEF fillVars
  <2>6. QED
    BY <2>1, <2>2, <2>3, <2>4, <2>5 DEF Types
<1>12. ASSUME NEW c \in CPUS, DequeueCountLoad(c) PROVE Types'
  <2>1. PcTypes'
    BY <1>12, SameTypes DEF DequeueCountLoad
  <2>2. ProcTypes'
    <3>1. load[c] \in Nat
      BY WordFacts DEF Types, SchedTypes
    <3>2. QED
      BY <1>12, <3>1 DEF DequeueCountLoad, Types, ProcTypes
  <2>3. TreeTypes'
    BY <1>12, SameTypes DEF DequeueCountLoad, treeVars
  <2>4. SchedTypes'
    BY <1>12, SameTypes DEF DequeueCountLoad, schedVars
  <2>5. FillTypes'
    BY <1>12, SameTypes DEF DequeueCountLoad, fillVars
  <2>6. QED
    BY <2>1, <2>2, <2>3, <2>4, <2>5 DEF Types
<1>13. ASSUME NEW c \in CPUS, DequeueCountStore(c) PROVE Types'
  <2>1. PcTypes'
    BY <1>13, SameTypes DEF DequeueCountStore
  <2>2. ProcTypes'
    BY <1>13, SameTypes DEF DequeueCountStore, procVars
  <2>3. TreeTypes'
    BY <1>13, SameTypes DEF DequeueCountStore, treeVars
  <2>4. SchedTypes'
    <3>1. reg[c] + WORD - 1 \in Nat
      BY WordFacts DEF Types, ProcTypes
    <3>2. PICK n \in 0 .. (WORD - 1) : n = (reg[c] + WORD - 1) % WORD
      BY <3>1, WordFacts
    <3>3. load' = [load EXCEPT ![c] = n]
      BY <1>13, <3>2 DEF DequeueCountStore
    <3>4. QED
      BY <1>13, <3>3 DEF DequeueCountStore, Types, SchedTypes
  <2>5. FillTypes'
    BY <1>13, SameTypes DEF DequeueCountStore, fillVars
  <2>6. QED
    BY <2>1, <2>2, <2>3, <2>4, <2>5 DEF Types
<1>14. ASSUME NEW c \in CPUS, DequeueTake(c) PROVE Types'
  <2>1. PcTypes'
    BY <1>14, SameTypes DEF DequeueTake
  <2>2. ProcTypes'
    BY <1>14, SameTypes DEF DequeueTake, procVars
  <2>3. TreeTypes'
    BY <1>14, TakenSlot DEF DequeueTake, Types, TreeTypes, PcTypes
  <2>4. SchedTypes'
    <3>1. head' \in [CPUS -> Nat]
      BY <1>14 DEF DequeueTake, Types, SchedTypes
    <3>2. QED
      BY <1>14, <3>1 DEF DequeueTake, Types, SchedTypes
  <2>5. FillTypes'
    BY <1>14, SameTypes DEF DequeueTake, fillVars
  <2>6. QED
    BY <2>1, <2>2, <2>3, <2>4, <2>5 DEF Types
<1>15. ASSUME NEW c \in CPUS, switchTask(c) PROVE Types'
  <2>1. PcTypes'
    BY <1>15, SameTypes DEF switchTask
  <2>2. ProcTypes'
    BY <1>15, BoundsAssumption DEF switchTask, Types, ProcTypes, PcTypes, States
  <2>3. TreeTypes'
    BY <1>15, SameTypes DEF switchTask, treeVars
  <2>4. SchedTypes'
    <3>1. current' \in [CPUS -> Objects \cup {None}]
      BY <1>15 DEF switchTask, Types, SchedTypes, TreeTypes
    <3>2. ticks' \in [CPUS -> 0 .. TIME_SLICE_TICKS]
      BY <1>15, BoundsAssumption DEF switchTask, Types, SchedTypes
    <3>3. QED
      BY <1>15, <3>1, <3>2 DEF switchTask, Types, SchedTypes
  <2>5. FillTypes'
    BY <1>15, SameTypes DEF switchTask, fillVars
  <2>6. QED
    BY <2>1, <2>2, <2>3, <2>4, <2>5 DEF Types
<1>16. ASSUME fillRunqueuesFromBST PROVE Types'
  <2>1. PcTypes'
    BY <1>16, SameTypes DEF fillRunqueuesFromBST, enqueueRunnableThread, Types, PcTypes
  <2>2. ProcTypes'
    BY <1>16, SameTypes DEF fillRunqueuesFromBST, procVars
  <2>3. TreeTypes'
    BY <1>16, SameTypes DEF fillRunqueuesFromBST, treeVars
  <2>4. SchedTypes'
    BY <1>16, SameTypes DEF fillRunqueuesFromBST, schedVars
  <2>5. FillTypes'
    <3>1. enq' \in [thread : Objects \cup {None}, cpu : CPUS]
      <4>1. PICK o \in Objects : enqueueRunnableThread(o)
        BY <1>16 DEF fillRunqueuesFromBST
      <4>2. QED
        BY <4>1 DEF enqueueRunnableThread, Types, FillTypes
    <3>2. visited' \subseteq Objects
      BY <1>16 DEF fillRunqueuesFromBST, Types, FillTypes
    <3>3. QED
      BY <1>16, <3>1, <3>2 DEF fillRunqueuesFromBST, Types, FillTypes
  <2>6. QED
    BY <2>1, <2>2, <2>3, <2>4, <2>5 DEF Types
<1>17. ASSUME EnqueueCountLoad PROVE Types'
  <2>1. PcTypes'
    BY <1>17, SameTypes DEF EnqueueCountLoad
  <2>2. ProcTypes'
    <3>1. enq.cpu \in CPUS
      BY DEF Types, FillTypes
    <3>2. \A d \in CPUS : load[d] \in Nat
      BY WordFacts DEF Types, SchedTypes
    <3>3. QED
      BY <1>17, <3>1, <3>2 DEF EnqueueCountLoad, Types, ProcTypes
  <2>3. TreeTypes'
    BY <1>17, SameTypes DEF EnqueueCountLoad, treeVars
  <2>4. SchedTypes'
    BY <1>17, SameTypes DEF EnqueueCountLoad, schedVars
  <2>5. FillTypes'
    BY <1>17, SameTypes DEF EnqueueCountLoad, fillVars
  <2>6. QED
    BY <2>1, <2>2, <2>3, <2>4, <2>5 DEF Types
<1>18. ASSUME EnqueueCountStore PROVE Types'
  <2>1. PcTypes'
    BY <1>18, SameTypes DEF EnqueueCountStore
  <2>2. ProcTypes'
    BY <1>18, SameTypes DEF EnqueueCountStore, procVars
  <2>3. TreeTypes'
    BY <1>18, SameTypes DEF EnqueueCountStore, treeVars
  <2>4. SchedTypes'
    <3>1. reg[BSP] + 1 \in Nat /\ enq.cpu \in CPUS
      BY DEF Types, ProcTypes, FillTypes
    <3>2. PICK n \in 0 .. (WORD - 1) : n = (reg[BSP] + 1) % WORD
      BY <3>1, WordFacts
    <3>3. load' = [load EXCEPT ![enq.cpu] = n]
      BY <1>18, <3>2 DEF EnqueueCountStore
    <3>4. QED
      BY <1>18, <3>1, <3>3 DEF EnqueueCountStore, Types, SchedTypes
  <2>5. FillTypes'
    BY <1>18, SameTypes DEF EnqueueCountStore, fillVars
  <2>6. QED
    BY <2>1, <2>2, <2>3, <2>4, <2>5 DEF Types
<1>19. ASSUME EnqueueSlotThenTail PROVE Types'
  <2>1. PcTypes'
    BY <1>19, SameTypes DEF EnqueueSlotThenTail
  <2>2. ProcTypes'
    BY <1>19, SameTypes DEF EnqueueSlotThenTail, procVars
  <2>3. TreeTypes'
    BY <1>19, SameTypes DEF EnqueueSlotThenTail, treeVars
  <2>4. SchedTypes'
    <3>1. enq.cpu \in CPUS /\ enq.thread \in Objects \cup {None}
      BY DEF Types, FillTypes
    <3>2. queue[enq.cpu] \in Seq(Objects \cup {None})
      BY <3>1 DEF Types, SchedTypes
    <3>3. PICK q \in Seq(Objects \cup {None}) : q = Append(queue[enq.cpu], enq.thread)
      BY <3>1, <3>2, AppendProperties
    <3>4. queue' = [queue EXCEPT ![enq.cpu] = q]
      BY <1>19, <3>3 DEF EnqueueSlotThenTail
    <3>5. QED
      BY <1>19, <3>1, <3>4 DEF EnqueueSlotThenTail, Types, SchedTypes
  <2>5. FillTypes'
    <3>1. enq.thread \in Objects
      BY <1>19 DEF EnqueueSlotThenTail, Handed, Enqueueing, Types, FillTypes
    <3>2. QED
      BY <1>19, <3>1 DEF EnqueueSlotThenTail, Types, FillTypes
  <2>6. QED
    BY <2>1, <2>2, <2>3, <2>4, <2>5 DEF Types
<1>20. ASSUME EnqueueTailFirst PROVE Types'
  <2>1. PcTypes'
    BY <1>20, SameTypes DEF EnqueueTailFirst
  <2>2. ProcTypes'
    BY <1>20, SameTypes DEF EnqueueTailFirst, procVars
  <2>3. TreeTypes'
    BY <1>20, SameTypes DEF EnqueueTailFirst, treeVars
  <2>4. SchedTypes'
    <3>1. enq.cpu \in CPUS /\ None \in Objects \cup {None}
      BY DEF Types, FillTypes
    <3>2. queue[enq.cpu] \in Seq(Objects \cup {None})
      BY <3>1 DEF Types, SchedTypes
    <3>3. PICK q \in Seq(Objects \cup {None}) : q = Append(queue[enq.cpu], None)
      BY <3>1, <3>2, AppendProperties
    <3>4. queue' = [queue EXCEPT ![enq.cpu] = q]
      BY <1>20, <3>3 DEF EnqueueTailFirst
    <3>5. QED
      BY <1>20, <3>1, <3>4 DEF EnqueueTailFirst, Types, SchedTypes
  <2>5. FillTypes'
    BY <1>20, SameTypes DEF EnqueueTailFirst, fillVars
  <2>6. QED
    BY <2>1, <2>2, <2>3, <2>4, <2>5 DEF Types
<1>21. ASSUME EnqueueSlotLast PROVE Types'
  <2>1. PcTypes'
    BY <1>21, SameTypes DEF EnqueueSlotLast
  <2>2. ProcTypes'
    BY <1>21, SameTypes DEF EnqueueSlotLast, procVars
  <2>3. TreeTypes'
    BY <1>21, SameTypes DEF EnqueueSlotLast, treeVars
  <2>4. SchedTypes'
    <3>1. enq.cpu \in CPUS /\ enq.thread \in Objects \cup {None}
      BY DEF Types, FillTypes
    <3>2. queue[enq.cpu] \in Seq(Objects \cup {None})
      BY <3>1 DEF Types, SchedTypes
    <3>3. [queue[enq.cpu] EXCEPT ![Len(queue[enq.cpu])] = enq.thread] \in Seq(Objects \cup {None})
      <4>1. Len(queue[enq.cpu]) \in Nat /\ Len(queue[enq.cpu]) # 0
        BY <1>21, <3>2, LenProperties DEF EnqueueSlotLast, Handed
      <4>2. QED
        BY <3>1, <3>2, <4>1, ExceptSeq
    <3>4. PICK q \in Seq(Objects \cup {None}) :
                q = [queue[enq.cpu] EXCEPT ![Len(queue[enq.cpu])] = enq.thread]
      BY <3>3
    <3>5. queue' = [queue EXCEPT ![enq.cpu] = q]
      BY <1>21, <3>4 DEF EnqueueSlotLast
    <3>6. QED
      BY <1>21, <3>1, <3>5 DEF EnqueueSlotLast, Types, SchedTypes
  <2>5. FillTypes'
    <3>1. enq.thread \in Objects
      BY <1>21 DEF EnqueueSlotLast, Handed, Enqueueing, Types, FillTypes
    <3>2. QED
      BY <1>21, <3>1 DEF EnqueueSlotLast, Types, FillTypes
  <2>6. QED
    BY <2>1, <2>2, <2>3, <2>4, <2>5 DEF Types
<1>22. ASSUME FillEnds PROVE Types'
  <2>1. PcTypes'
    BY <1>22, SameTypes DEF FillEnds
  <2>2. ProcTypes'
    BY <1>22, SameTypes DEF FillEnds, procVars
  <2>3. TreeTypes'
    BY <1>22, SameTypes DEF FillEnds, treeVars
  <2>4. SchedTypes'
    BY <1>22, SameTypes DEF FillEnds, schedVars
  <2>5. FillTypes'
    BY <1>22, SameTypes DEF FillEnds, fillVars
  <2>6. QED
    BY <2>1, <2>2, <2>3, <2>4, <2>5 DEF Types
<1>23. ASSUME NEW c \in APS, TimerCounts(c) PROVE Types'
  <2>1. PcTypes'
    BY <1>23 DEF TimerCounts, Types, PcTypes
  <2>2. ProcTypes'
    BY <1>23, SameTypes DEF TimerCounts, procVars
  <2>3. TreeTypes'
    BY <1>23, SameTypes DEF TimerCounts, treeVars
  <2>4. SchedTypes'
    <3>1. c \in CPUS /\ ticks[c] + 1 \in 0 .. TIME_SLICE_TICKS
      BY <1>23, BoundsAssumption DEF TimerCounts, APS, Types, SchedTypes
    <3>2. QED
      BY <1>23, <3>1 DEF TimerCounts, Types, SchedTypes
  <2>5. FillTypes'
    BY <1>23, SameTypes DEF TimerCounts, fillVars
  <2>6. QED
    BY <2>1, <2>2, <2>3, <2>4, <2>5 DEF Types
<1>24. ASSUME NEW c \in APS, TimerSchedules(c) PROVE Types'
  <2>1. PcTypes'
    BY <1>24, SameTypes DEF TimerSchedules, APS
  <2>2. ProcTypes'
    <3>1. c \in CPUS /\ round[c] + 1 \in 0 .. MaxRounds
      BY <1>24, BoundsAssumption DEF TimerSchedules, APS, Types, ProcTypes
    <3>2. QED
      BY <1>24, <3>1 DEF TimerSchedules, Types, ProcTypes
  <2>3. TreeTypes'
    BY <1>24, SameTypes DEF TimerSchedules, treeVars
  <2>4. SchedTypes'
    <3>1. c \in CPUS /\ ticks[c] + 1 \in 0 .. TIME_SLICE_TICKS
      <4>1. ticks[c] < TIME_SLICE_TICKS
        BY <1>24 DEF TimerSchedules, Control
      <4>2. QED
        BY <4>1, BoundsAssumption DEF APS, Types, SchedTypes
    <3>2. QED
      BY <1>24, <3>1 DEF TimerSchedules, Types, SchedTypes
  <2>5. FillTypes'
    BY <1>24, SameTypes DEF TimerSchedules, fillVars
  <2>6. QED
    BY <2>1, <2>2, <2>3, <2>4, <2>5 DEF Types
<1>25. CASE UNCHANGED vars
  BY <1>25 DEF vars, Types, PcTypes, ProcTypes, TreeTypes, SchedTypes, FillTypes
<1>26. QED
  BY <1>1, <1>2, <1>3, <1>4, <1>5, <1>6, <1>7, <1>8, <1>9, <1>10, <1>11, <1>12, <1>13, <1>14, <1>15, <1>16, <1>17, <1>18, <1>19, <1>20, <1>21, <1>22, <1>23, <1>24, <1>25 DEF Next, CpuStep, FillStep, Timer

(***************************************************************************)
(* Where the BSP and where the APs never are.                              *)
(***************************************************************************)
LEMMA Where ==
    ASSUME Control
    PROVE  /\ pc[BSP] \notin {"loop", "srch_acquire", "search", "srch_release", "switch", "deq_load",
                              "deq_store", "deq_take", "run", "running"}
           /\ \A c \in APS : pc[c] \notin {"fill", "halt", "enq_load", "enq_store", "enq_tail", "enq_slot"}
BY DEF Control, BspPlaces, ApPlaces, Making, Chosen, Dequeueing, Enqueueing

(***************************************************************************)
(* A CPU that is past its loop and does not run a thread yet goes on to    *)
(* another place: it is still in its one round, with no current thread.    *)
(***************************************************************************)
LEMMA GotoControl ==
    ASSUME Types, Control, NEW c \in CPUS, NEW l, Goto(c, l),
           pc[c] # "loop", pc[c] # "running", l # "loop",
           c = BSP => l \in BspPlaces, c # BSP => l \in ApPlaces,
           round' = round, inService' = inService, ticks' = ticks, current' = current,
           \A d \in CPUS : d # c => found'[d] = found[d]
    PROVE  Control'
<1> USE CpusAssumption
<1>1. \A d \in CPUS : pc'[d] = IF d = c THEN l ELSE pc[d]
  BY DEF Goto, Types, PcTypes
<1>2. current[c] = None
  BY DEF Control
<1>3. QED
  BY <1>1, <1>2 DEF Control, APS

(***************************************************************************)
(* Every step keeps each CPU in its one round.                             *)
(***************************************************************************)
LEMMA NextControl ==
    ASSUME Types, Control, [Next]_vars
    PROVE  Control'
<1> USE Places, CpusAssumption
<1> USE Where
<1>1. ASSUME NEW c \in CPUS, getProcessIDLoad(c) PROVE Control'
  BY <1>1, GotoControl DEF getProcessIDLoad, procVars, treeVars, schedVars, APS, BspPlaces, ApPlaces, Making
<1>2. ASSUME NEW c \in CPUS, getProcessIDStore(c) PROVE Control'
  BY <1>2, GotoControl DEF getProcessIDStore, procVars, treeVars, schedVars, APS, BspPlaces, ApPlaces, Making
<1>3. ASSUME NEW c \in CPUS, createKernelThreadBegin(c) PROVE Control'
  BY <1>3, GotoControl DEF createKernelThreadBegin, procVars, treeVars, schedVars, APS, BspPlaces, ApPlaces, Making
<1>4. ASSUME NEW c \in CPUS, createKernelThreadEnd(c) PROVE Control'
  BY <1>4, GotoControl DEF createKernelThreadEnd, procVars, treeVars, schedVars, APS, BspPlaces, ApPlaces, Making
<1>5. ASSUME NEW c \in CPUS, InsertAcquire(c) PROVE Control'
  BY <1>5, GotoControl DEF InsertAcquire, procVars, treeVars, schedVars, APS, BspPlaces, ApPlaces, Making
<1>6. ASSUME NEW c \in CPUS, rbInsert(c) PROVE Control'
  BY <1>6, GotoControl DEF rbInsert, procVars, treeVars, schedVars, APS, BspPlaces, ApPlaces, Making
<1>7. ASSUME NEW c \in CPUS, InsertRelease(c) PROVE Control'
  BY <1>7, GotoControl DEF InsertRelease, procVars, treeVars, schedVars, APS, BspPlaces, ApPlaces, Making
<1>8. ASSUME NEW c \in CPUS, SearchAcquire(c) PROVE Control'
  BY <1>8, GotoControl DEF SearchAcquire, procVars, treeVars, schedVars, APS, BspPlaces, ApPlaces, Making
<1>9. ASSUME NEW c \in CPUS, rbSearch(c) PROVE Control'
  <2>1. \A d \in CPUS : d # c => found'[d] = found[d]
    BY <1>9 DEF rbSearch, Types, TreeTypes
  <2>2. QED
    BY <1>9, <2>1, GotoControl DEF rbSearch, procVars, schedVars, APS
<1>10. ASSUME NEW c \in CPUS, SearchRelease(c) PROVE Control'
  BY <1>10, GotoControl DEF SearchRelease, procVars, treeVars, schedVars, APS, BspPlaces, ApPlaces, Making
<1>11. ASSUME NEW c \in CPUS, dequeueThread(c) PROVE Control'
  <2>1. PICK l \in {"deq_load", "run"} : Goto(c, l)
    BY <1>11, NoRequeue DEF Goto
  <2>2. pc[c] = "switch" /\ UNCHANGED <<procVars, treeVars, schedVars, fillVars>>
    BY <1>11, NoRequeue
  <2>3. QED
    BY <2>1, <2>2, GotoControl DEF procVars, treeVars, schedVars, APS
<1>12. ASSUME NEW c \in CPUS, DequeueCountLoad(c) PROVE Control'
  BY <1>12, GotoControl DEF DequeueCountLoad, procVars, treeVars, schedVars, APS, BspPlaces, ApPlaces, Making
<1>13. ASSUME NEW c \in CPUS, DequeueCountStore(c) PROVE Control'
  BY <1>13, GotoControl DEF DequeueCountStore, procVars, treeVars, schedVars, APS, BspPlaces, ApPlaces, Making
<1>14. ASSUME NEW c \in CPUS, DequeueTake(c) PROVE Control'
  <2>1. \A d \in CPUS : d # c => found'[d] = found[d]
    BY <1>14 DEF DequeueTake, Types, TreeTypes
  <2>2. QED
    BY <1>14, <2>1, GotoControl DEF DequeueTake, procVars, schedVars, APS
<1>15. ASSUME NEW c \in CPUS, switchTask(c) PROVE Control'
  <2>1. \A d \in CPUS : pc'[d] = IF d = c THEN "running" ELSE pc[d]
    BY <1>15 DEF switchTask, Goto, Types, PcTypes
  <2>2. \A d \in CPUS : current'[d] = IF d = c THEN found[c] ELSE current[d]
    BY <1>15 DEF switchTask, Types, SchedTypes
  <2>3. \A d \in CPUS : d # c => ticks'[d] = ticks[d]
    BY <1>15 DEF switchTask, Types, SchedTypes
  <2>4. c # BSP /\ UNCHANGED <<round, inService, found>> /\ pc[c] = "run"
    BY <1>15 DEF switchTask, treeVars
  <2>5. QED
    BY <2>1, <2>2, <2>3, <2>4 DEF Control, APS
<1>16. ASSUME fillRunqueuesFromBST PROVE Control'
  <2>1. CASE Goto(BSP, "enq_load")
    BY <1>16, <2>1, GotoControl DEF fillRunqueuesFromBST, procVars, treeVars, schedVars
  <2>2. CASE UNCHANGED pc
    BY <1>16, <2>2 DEF fillRunqueuesFromBST, procVars, treeVars, schedVars, Control
  <2>3. QED
    BY <1>16, <2>1, <2>2 DEF fillRunqueuesFromBST, enqueueRunnableThread
<1>17. ASSUME EnqueueCountLoad PROVE Control'
  BY <1>17, GotoControl DEF EnqueueCountLoad, procVars, treeVars, schedVars, APS, BspPlaces, ApPlaces, Making
<1>18. ASSUME EnqueueCountStore PROVE Control'
  BY <1>18, GotoControl DEF EnqueueCountStore, procVars, treeVars, schedVars, APS, BspPlaces, ApPlaces, Making
<1>19. ASSUME EnqueueSlotThenTail PROVE Control'
  BY <1>19, GotoControl DEF EnqueueSlotThenTail, procVars, treeVars, schedVars, APS, BspPlaces, ApPlaces, Making
<1>20. ASSUME EnqueueTailFirst PROVE Control'
  BY <1>20, GotoControl DEF EnqueueTailFirst, procVars, treeVars, schedVars, APS, BspPlaces, ApPlaces, Making
<1>21. ASSUME EnqueueSlotLast PROVE Control'
  BY <1>21, GotoControl DEF EnqueueSlotLast, procVars, treeVars, schedVars, APS, BspPlaces, ApPlaces, Making
<1>22. ASSUME FillEnds PROVE Control'
  BY <1>22, GotoControl DEF FillEnds, procVars, treeVars, schedVars, APS, BspPlaces, ApPlaces, Making
<1>23. ASSUME NEW c \in APS, TimerCounts(c) PROVE Control'
  <2>1. c \in CPUS /\ ticks'[c] < TIME_SLICE_TICKS
    BY <1>23 DEF TimerCounts, APS, Types, SchedTypes
  <2>2. \A d \in CPUS : d # c => ticks'[d] = ticks[d]
    BY <1>23 DEF TimerCounts, Types, SchedTypes
  <2>3. UNCHANGED <<pc, round, inService, current, found>>
    BY <1>23 DEF TimerCounts, procVars, treeVars
  <2>4. QED
    BY <2>1, <2>2, <2>3 DEF Control, APS
<1>24. ASSUME NEW c \in APS, TimerSchedules(c) PROVE Control'
  <2>1. c \in CPUS /\ c # BSP /\ pc[c] = "loop" /\ round[c] = 0 /\ current[c] = None
    BY <1>24 DEF TimerSchedules, Control, APS
  <2>2. \A d \in CPUS : pc'[d] = IF d = c THEN "getpid" ELSE pc[d]
    BY <1>24, <2>1 DEF TimerSchedules, Goto, Types, PcTypes
  <2>3. \A d \in CPUS : d # c => ticks'[d] = ticks[d]
    BY <1>24 DEF TimerSchedules, Types, SchedTypes
  <2>4. inService'[c] /\ \A d \in CPUS : d # c => inService'[d] = inService[d]
    BY <1>24, <2>1 DEF TimerSchedules, Types, SchedTypes
  <2>5. \A d \in CPUS : round'[d] = IF d = c THEN 1 ELSE round[d]
    BY <1>24, <2>1 DEF TimerSchedules, Types, ProcTypes
  <2>6. UNCHANGED <<current, found>>
    BY <1>24 DEF TimerSchedules, treeVars
  <2>7. "getpid" \in ApPlaces
    BY DEF ApPlaces, Making
  <2>8. QED
    BY <2>1, <2>2, <2>3, <2>4, <2>5, <2>6, <2>7 DEF Control, APS
<1>25. CASE UNCHANGED vars
  BY <1>25 DEF vars, Control
<1>26. QED
  BY <1>1, <1>2, <1>3, <1>4, <1>5, <1>6, <1>7, <1>8, <1>9, <1>10, <1>11, <1>12, <1>13, <1>14, <1>15, <1>16, <1>17, <1>18, <1>19, <1>20, <1>21, <1>22, <1>23, <1>24, <1>25 DEF Next, CpuStep, FillStep, Timer

(***************************************************************************)
(* A CPU goes from place to place, with the tree and the threads' states   *)
(* as they were.                                                           *)
(***************************************************************************)
LEMMA GotoMade ==
    ASSUME Types, Made, NEW c \in CPUS, NEW l, Goto(c, l),
           round' = round, state' = state, tree' = tree,
           pc[c] \in Inserted <=> l \in Inserted,
           l \in {"ins_acquire", "insert"} => pc[c] \in {"ins_acquire", "insert"} \/ state[mine(c)] \in {"RUNNABLE", "RUNNING"},
           l \in Chosen => found'[c] \in tree,
           \A d \in CPUS : d # c => found'[d] = found[d]
    PROVE  Made'
<1>1. \A d \in CPUS : pc'[d] = IF d = c THEN l ELSE pc[d]
  BY DEF Goto, Types, PcTypes
<1>2. \A d \in CPUS : mine(d)' = mine(d)
  BY DEF mine
<1>3. (\A o \in tree : o = <<o[1], 1>> /\ o[1] \in CPUS /\ pc[o[1]] \in Inserted)'
  BY <1>1 DEF Made
<1>4. (\A d \in CPUS : pc[d] \in Inserted => mine(d) \in tree)'
  BY <1>1, <1>2 DEF Made
<1>5. (\A d \in CPUS : pc[d] \in {"ins_acquire", "insert"} => state[mine(d)] \in {"RUNNABLE", "RUNNING"})'
  BY <1>1, <1>2 DEF Made
<1>6. (\A d \in CPUS : pc[d] \in Chosen => found[d] \in tree)'
  BY <1>1 DEF Made
<1>7. QED
  BY <1>3, <1>4, <1>5, <1>6 DEF Made

(***************************************************************************)
(* rbInsert(), createKernelThread(): a process that is being made is not   *)
(* in the tree, and no other CPU makes it.                                 *)
(***************************************************************************)
LEMMA NotYetIn ==
    ASSUME Types, Control, Made, NEW c \in CPUS, pc[c] # "loop", pc[c] \notin Inserted
    PROVE  mine(c) \notin tree /\ \A d \in CPUS : d # c => mine(d) # mine(c)
BY MineType DEF Made, mine

(***************************************************************************)
(* Every step keeps unfinished processes out of the tree.                  *)
(***************************************************************************)
LEMMA NextMade ==
    ASSUME Types, Control, Made, Handed, Taken, [Next]_vars
    PROVE  Made'
<1> USE CpusAssumption
<1>1. ASSUME NEW c \in CPUS, getProcessIDLoad(c) PROVE Made'
  BY <1>1, GotoMade DEF getProcessIDLoad, procVars, treeVars, schedVars, Inserted, Chosen, Dequeueing, Enqueueing
<1>2. ASSUME NEW c \in CPUS, getProcessIDStore(c) PROVE Made'
  BY <1>2, GotoMade DEF getProcessIDStore, procVars, treeVars, schedVars, Inserted, Chosen, Dequeueing, Enqueueing
<1>3. ASSUME NEW c \in CPUS, createKernelThreadBegin(c) PROVE Made'
  <2>1. pc[c] # "loop" /\ pc[c] \notin Inserted
    BY <1>3 DEF createKernelThreadBegin, Inserted, Chosen, Dequeueing, Enqueueing
  <2>2. mine(c) \notin tree /\ \A d \in CPUS : d # c => mine(d) # mine(c)
    BY <2>1, NotYetIn
  <2>3. mine(c) \in Objects
    BY <2>1, MineType
  <2>4. \A o \in Objects : state'[o] = IF o = mine(c) THEN "EMBRYO" ELSE state[o]
    BY <1>3, <2>3 DEF createKernelThreadBegin, Types, ProcTypes
  <2>5. \A d \in CPUS : pc'[d] = IF d = c THEN "fillthread" ELSE pc[d]
    BY <1>3 DEF createKernelThreadBegin, Goto, Types, PcTypes
  <2>6. UNCHANGED <<round, tree, found>>
    BY <1>3 DEF createKernelThreadBegin, treeVars
  <2>7. \A d \in CPUS : mine(d)' = mine(d)
    BY <2>6 DEF mine
  <2>8. (\A o \in tree : o = <<o[1], 1>> /\ o[1] \in CPUS /\ pc[o[1]] \in Inserted)'
    BY <2>1, <2>5, <2>6 DEF Made
  <2>9. (\A d \in CPUS : pc[d] \in Inserted => mine(d) \in tree)'
    BY <2>5, <2>6, <2>7 DEF Made, Inserted, Chosen, Dequeueing, Enqueueing
  <2>10. (\A o \in tree : state[o] \in {"RUNNABLE", "RUNNING"})'
    BY <2>2, <2>4, <2>6 DEF Made, Types, TreeTypes
  <2>11. (\A d \in CPUS : pc[d] \in {"ins_acquire", "insert"} => state[mine(d)] \in {"RUNNABLE", "RUNNING"})'
    <3>1. SUFFICES ASSUME NEW d \in CPUS, pc'[d] \in {"ins_acquire", "insert"}
                   PROVE  state'[mine(d)] \in {"RUNNABLE", "RUNNING"}
      BY <2>7
    <3>2. CASE d = c
      BY <2>3, <2>4, <2>5, <3>1, <3>2
    <3>3. CASE d # c
      <4>1. pc[d] \in {"ins_acquire", "insert"}
        BY <2>5, <3>1, <3>3
      <4>2. mine(d) \in Objects /\ mine(d) # mine(c)
        BY <2>2, <3>3, <4>1, MineType
      <4>3. QED
        BY <2>4, <4>1, <4>2 DEF Made
    <3>4. QED
      BY <3>2, <3>3
  <2>12. (\A d \in CPUS : pc[d] \in Chosen => found[d] \in tree)'
    BY <2>5, <2>6 DEF Made, Chosen, Dequeueing
  <2>13. QED
    BY <2>8, <2>9, <2>10, <2>11, <2>12 DEF Made
<1>4. ASSUME NEW c \in CPUS, createKernelThreadEnd(c) PROVE Made'
  <2>1. pc[c] # "loop" /\ pc[c] \notin Inserted
    BY <1>4 DEF createKernelThreadEnd, Inserted, Chosen, Dequeueing, Enqueueing
  <2>2. mine(c) \notin tree /\ \A d \in CPUS : d # c => mine(d) # mine(c)
    BY <2>1, NotYetIn
  <2>3. mine(c) \in Objects
    BY <2>1, MineType
  <2>4. \A o \in Objects : state'[o] = IF o = mine(c) THEN "RUNNABLE" ELSE state[o]
    BY <1>4, <2>3 DEF createKernelThreadEnd, Types, ProcTypes
  <2>5. \A d \in CPUS : pc'[d] = IF d = c THEN "ins_acquire" ELSE pc[d]
    BY <1>4 DEF createKernelThreadEnd, Goto, Types, PcTypes
  <2>6. UNCHANGED <<round, tree, found>>
    BY <1>4 DEF createKernelThreadEnd, treeVars
  <2>7. \A d \in CPUS : mine(d)' = mine(d)
    BY <2>6 DEF mine
  <2>8. (\A o \in tree : o = <<o[1], 1>> /\ o[1] \in CPUS /\ pc[o[1]] \in Inserted)'
    BY <2>1, <2>5, <2>6 DEF Made
  <2>9. (\A d \in CPUS : pc[d] \in Inserted => mine(d) \in tree)'
    BY <2>5, <2>6, <2>7 DEF Made, Inserted, Chosen, Dequeueing, Enqueueing
  <2>10. (\A o \in tree : state[o] \in {"RUNNABLE", "RUNNING"})'
    BY <2>2, <2>4, <2>6 DEF Made, Types, TreeTypes
  <2>11. (\A d \in CPUS : pc[d] \in {"ins_acquire", "insert"} => state[mine(d)] \in {"RUNNABLE", "RUNNING"})'
    <3>1. SUFFICES ASSUME NEW d \in CPUS, pc'[d] \in {"ins_acquire", "insert"}
                   PROVE  state'[mine(d)] \in {"RUNNABLE", "RUNNING"}
      BY <2>7
    <3>2. CASE d = c
      BY <2>3, <2>4, <2>5, <3>1, <3>2
    <3>3. CASE d # c
      <4>1. pc[d] \in {"ins_acquire", "insert"}
        BY <2>5, <3>1, <3>3
      <4>2. mine(d) \in Objects /\ mine(d) # mine(c)
        BY <2>2, <3>3, <4>1, MineType
      <4>3. QED
        BY <2>4, <4>1, <4>2 DEF Made
    <3>4. QED
      BY <3>2, <3>3
  <2>12. (\A d \in CPUS : pc[d] \in Chosen => found[d] \in tree)'
    BY <2>5, <2>6 DEF Made, Chosen, Dequeueing
  <2>13. QED
    BY <2>8, <2>9, <2>10, <2>11, <2>12 DEF Made
<1>5. ASSUME NEW c \in CPUS, InsertAcquire(c) PROVE Made'
  BY <1>5, GotoMade DEF InsertAcquire, procVars, treeVars, schedVars, Inserted, Chosen, Dequeueing, Enqueueing
<1>6. ASSUME NEW c \in CPUS, rbInsert(c) PROVE Made'
  <2>1. pc[c] # "loop" /\ pc[c] = "insert"
    BY <1>6 DEF rbInsert
  <2>2. mine(c) = <<c, 1>> /\ mine(c) \in Objects
    BY <2>1, MineType
  <2>3. \A d \in CPUS : pc'[d] = IF d = c THEN "ins_release" ELSE pc[d]
    BY <1>6 DEF rbInsert, Goto, Types, PcTypes
  <2>4. UNCHANGED <<round, state, found>> /\ tree' = tree \cup {mine(c)}
    BY <1>6 DEF rbInsert, procVars
  <2>5. \A d \in CPUS : mine(d)' = mine(d)
    BY <2>4 DEF mine
  <2>6. (\A o \in tree : o = <<o[1], 1>> /\ o[1] \in CPUS /\ pc[o[1]] \in Inserted)'
    <3>1. \A o \in tree : o = <<o[1], 1>> /\ o[1] \in CPUS /\ pc'[o[1]] \in Inserted
      BY <2>3 DEF Made, Inserted
    <3>2. <<c, 1>>[1] = c /\ pc'[c] \in Inserted
      BY <2>3 DEF Inserted
    <3>3. QED
      BY <2>2, <2>4, <3>1, <3>2
  <2>7. (\A d \in CPUS : pc[d] \in Inserted => mine(d) \in tree)'
    BY <2>3, <2>4, <2>5 DEF Made
  <2>8. (\A o \in tree : state[o] \in {"RUNNABLE", "RUNNING"})'
    BY <2>1, <2>4 DEF Made
  <2>9. (\A d \in CPUS : pc[d] \in {"ins_acquire", "insert"} => state[mine(d)] \in {"RUNNABLE", "RUNNING"})'
    BY <2>3, <2>4, <2>5 DEF Made
  <2>10. (\A d \in CPUS : pc[d] \in Chosen => found[d] \in tree)'
    BY <2>3, <2>4 DEF Made, Chosen, Dequeueing
  <2>11. QED
    BY <2>6, <2>7, <2>8, <2>9, <2>10 DEF Made
<1>7. ASSUME NEW c \in CPUS, InsertRelease(c) PROVE Made'
  BY <1>7, GotoMade DEF InsertRelease, procVars, treeVars, schedVars, Inserted, Chosen, Dequeueing, Enqueueing
<1>8. ASSUME NEW c \in CPUS, SearchAcquire(c) PROVE Made'
  BY <1>8, GotoMade DEF SearchAcquire, procVars, treeVars, schedVars, Inserted, Chosen, Dequeueing, Enqueueing
<1>9. ASSUME NEW c \in CPUS, rbSearch(c) PROVE Made'
  <2>1. mine(c) \in tree
    BY <1>9 DEF rbSearch, Made, Inserted
  <2>2. mine(c) \in Matches(c)
    BY <2>1 DEF Matches
  <2>3. PICK o \in Matches(c) : found' = [found EXCEPT ![c] = o]
    BY <1>9, <2>2 DEF rbSearch
  <2>4. found'[c] \in tree /\ \A d \in CPUS : d # c => found'[d] = found[d]
    BY <2>3 DEF Matches, Types, TreeTypes
  <2>5. QED
    BY <1>9, <2>4, GotoMade DEF rbSearch, procVars, Inserted, Chosen, Dequeueing, Enqueueing
<1>10. ASSUME NEW c \in CPUS, SearchRelease(c) PROVE Made'
  <2>1. found[c] \in tree
    BY <1>10 DEF SearchRelease, Made, Chosen, Dequeueing
  <2>2. QED
    BY <1>10, <2>1, GotoMade DEF SearchRelease, procVars, treeVars, Inserted, Chosen, Dequeueing, Enqueueing
<1>11. ASSUME NEW c \in CPUS, dequeueThread(c) PROVE Made'
  <2>1. PICK l \in {"deq_load", "run"} : Goto(c, l)
    BY <1>11, NoRequeue DEF Goto
  <2>2. pc[c] = "switch" /\ UNCHANGED <<procVars, treeVars, schedVars, fillVars>>
    BY <1>11, NoRequeue
  <2>3. found[c] \in tree
    BY <2>2 DEF Made, Chosen
  <2>4. QED
    BY <2>1, <2>2, <2>3, GotoMade DEF procVars, treeVars, Inserted, Chosen, Dequeueing, Enqueueing
<1>12. ASSUME NEW c \in CPUS, DequeueCountLoad(c) PROVE Made'
  <2>1. found[c] \in tree
    BY <1>12 DEF DequeueCountLoad, Made, Chosen, Dequeueing
  <2>2. QED
    BY <1>12, <2>1, GotoMade DEF DequeueCountLoad, procVars, treeVars, Inserted, Chosen, Dequeueing, Enqueueing
<1>13. ASSUME NEW c \in CPUS, DequeueCountStore(c) PROVE Made'
  <2>1. found[c] \in tree
    BY <1>13 DEF DequeueCountStore, Made, Chosen, Dequeueing
  <2>2. QED
    BY <1>13, <2>1, GotoMade DEF DequeueCountStore, procVars, treeVars, Inserted, Chosen, Dequeueing, Enqueueing
<1>14. ASSUME NEW c \in CPUS, DequeueTake(c) PROVE Made'
  <2>1. queue[c][1] # None => queue[c][1] \in tree
    BY <1>14, TakenSlot DEF DequeueTake, Handed
  <2>2. found[c] \in tree
    BY <1>14 DEF DequeueTake, Made, Chosen, Dequeueing
  <2>3. \A d \in CPUS : found'[d] = IF d = c /\ queue[c][1] # None THEN queue[c][1] ELSE found[d]
    BY <1>14, TakenSlot DEF DequeueTake, Types, TreeTypes
  <2>4. found'[c] \in tree /\ \A d \in CPUS : d # c => found'[d] = found[d]
    BY <2>1, <2>2, <2>3
  <2>5. QED
    BY <1>14, <2>4, GotoMade DEF DequeueTake, procVars, Inserted, Chosen, Dequeueing, Enqueueing
<1>15. ASSUME NEW c \in CPUS, switchTask(c) PROVE Made'
  <2>1. pc[c] = "run" /\ found[c] \in tree
    BY <1>15 DEF switchTask, Made, Chosen
  <2>2. \A o \in Objects : state'[o] = IF o = found[c] THEN "RUNNING" ELSE state[o]
    BY <1>15 DEF switchTask, Types, ProcTypes
  <2>3. \A d \in CPUS : pc'[d] = IF d = c THEN "running" ELSE pc[d]
    BY <1>15 DEF switchTask, Goto, Types, PcTypes
  <2>4. UNCHANGED <<round, tree, found>>
    BY <1>15 DEF switchTask, treeVars
  <2>5. \A d \in CPUS : mine(d)' = mine(d)
    BY <2>4 DEF mine
  <2>6. (\A o \in tree : o = <<o[1], 1>> /\ o[1] \in CPUS /\ pc[o[1]] \in Inserted)'
    BY <2>3, <2>4 DEF Made, Inserted, Chosen
  <2>7. (\A d \in CPUS : pc[d] \in Inserted => mine(d) \in tree)'
    BY <2>1, <2>3, <2>4, <2>5 DEF Made, Inserted, Chosen
  <2>8. (\A o \in tree : state[o] \in {"RUNNABLE", "RUNNING"})'
    BY <2>2, <2>4 DEF Made, Types, TreeTypes
  <2>9. (\A d \in CPUS : pc[d] \in {"ins_acquire", "insert"} => state[mine(d)] \in {"RUNNABLE", "RUNNING"})'
    <3>1. SUFFICES ASSUME NEW d \in CPUS, pc'[d] \in {"ins_acquire", "insert"}
                   PROVE  state'[mine(d)] \in {"RUNNABLE", "RUNNING"}
      BY <2>5
    <3>2. pc[d] \in {"ins_acquire", "insert"}
      BY <2>3, <3>1
    <3>3. mine(d) \in Objects
      BY <3>2, MineType
    <3>4. QED
      BY <2>2, <3>2, <3>3 DEF Made
  <2>10. (\A d \in CPUS : pc[d] \in Chosen => found[d] \in tree)'
    BY <2>1, <2>3, <2>4 DEF Made
  <2>11. QED
    BY <2>6, <2>7, <2>8, <2>9, <2>10 DEF Made
<1>16. ASSUME fillRunqueuesFromBST PROVE Made'
  <2>1. CASE Goto(BSP, "enq_load")
    BY <1>16, <2>1, GotoMade DEF fillRunqueuesFromBST, procVars, treeVars, Inserted, Chosen, Dequeueing, Enqueueing
  <2>2. CASE UNCHANGED pc
    BY <1>16, <2>2 DEF fillRunqueuesFromBST, procVars, treeVars, Made, mine
  <2>3. QED
    BY <1>16, <2>1, <2>2 DEF fillRunqueuesFromBST, enqueueRunnableThread
<1>17. ASSUME EnqueueCountLoad PROVE Made'
  BY <1>17, GotoMade DEF EnqueueCountLoad, procVars, treeVars, schedVars, Inserted, Chosen, Dequeueing, Enqueueing
<1>18. ASSUME EnqueueCountStore PROVE Made'
  BY <1>18, GotoMade DEF EnqueueCountStore, procVars, treeVars, schedVars, Inserted, Chosen, Dequeueing, Enqueueing
<1>19. ASSUME EnqueueSlotThenTail PROVE Made'
  BY <1>19, GotoMade DEF EnqueueSlotThenTail, procVars, treeVars, schedVars, Inserted, Chosen, Dequeueing, Enqueueing
<1>20. ASSUME EnqueueTailFirst PROVE Made'
  BY <1>20, GotoMade DEF EnqueueTailFirst, procVars, treeVars, schedVars, Inserted, Chosen, Dequeueing, Enqueueing
<1>21. ASSUME EnqueueSlotLast PROVE Made'
  BY <1>21, GotoMade DEF EnqueueSlotLast, procVars, treeVars, schedVars, Inserted, Chosen, Dequeueing, Enqueueing
<1>22. ASSUME FillEnds PROVE Made'
  BY <1>22, GotoMade DEF FillEnds, procVars, treeVars, schedVars, Inserted, Chosen, Dequeueing, Enqueueing
<1>23. ASSUME NEW c \in APS, TimerCounts(c) PROVE Made'
  BY <1>23 DEF TimerCounts, procVars, treeVars, Made, mine
<1>24. ASSUME NEW c \in APS, TimerSchedules(c) PROVE Made'
  <2>1. c \in CPUS /\ pc[c] = "loop"
    BY <1>24 DEF TimerSchedules, Control, APS
  <2>2. \A d \in CPUS : pc'[d] = IF d = c THEN "getpid" ELSE pc[d]
    BY <1>24, <2>1 DEF TimerSchedules, Goto, Types, PcTypes
  <2>3. UNCHANGED <<state, tree, found>>
    BY <1>24 DEF TimerSchedules, treeVars
  <2>4. \A d \in CPUS : d # c => mine(d)' = mine(d)
    BY <1>24 DEF TimerSchedules, mine, Types, ProcTypes
  <2>5. (\A o \in tree : o = <<o[1], 1>> /\ o[1] \in CPUS /\ pc[o[1]] \in Inserted)'
    BY <2>1, <2>2, <2>3 DEF Made, Inserted, Chosen, Dequeueing, Enqueueing
  <2>6. (\A d \in CPUS : pc[d] \in Inserted => mine(d) \in tree)'
    BY <2>2, <2>3, <2>4 DEF Made, Inserted, Chosen, Dequeueing, Enqueueing
  <2>7. (\A d \in CPUS : pc[d] \in {"ins_acquire", "insert"} => state[mine(d)] \in {"RUNNABLE", "RUNNING"})'
    BY <2>2, <2>3, <2>4 DEF Made
  <2>8. (\A d \in CPUS : pc[d] \in Chosen => found[d] \in tree)'
    BY <2>2, <2>3 DEF Made, Chosen, Dequeueing
  <2>9. QED
    BY <2>3, <2>5, <2>6, <2>7, <2>8 DEF Made
<1>25. CASE UNCHANGED vars
  BY <1>25 DEF vars, Made, mine
<1>26. QED
  BY <1>1, <1>2, <1>3, <1>4, <1>5, <1>6, <1>7, <1>8, <1>9, <1>10, <1>11, <1>12, <1>13, <1>14, <1>15, <1>16, <1>17, <1>18, <1>19, <1>20, <1>21, <1>22, <1>23, <1>24, <1>25 DEF Next, CpuStep, FillStep, Timer

(***************************************************************************)
(* The run queues are sequences of threads and empty slots.                *)
(***************************************************************************)
LEMMA QueueTypes ==
    ASSUME Types, NEW c \in CPUS
    PROVE  /\ queue[c] \in Seq(Objects \cup {None}) /\ Len(queue[c]) \in Nat
           /\ \A i \in Slots(c) : queue[c][i] \in Objects \cup {None} /\ i \in Nat
<1>1. queue[c] \in Seq(Objects \cup {None})
  BY DEF Types, SchedTypes
<1>2. QED
  BY <1>1, LenProperties, ElementOfSeq DEF Slots

(***************************************************************************)
(* enqueueThread(): tail moves up by one, over a slot that holds x.        *)
(***************************************************************************)
LEMMA Appended ==
    ASSUME Types, NEW k \in CPUS, NEW x \in Objects \cup {None},
           queue' = [queue EXCEPT ![k] = Append(@, x)]
    PROVE  /\ \A c \in CPUS : c # k => queue'[c] = queue[c] /\ Slots(c)' = Slots(c)
           /\ Len(queue'[k]) = Len(queue[k]) + 1
           /\ Slots(k)' = Slots(k) \cup {Len(queue[k]) + 1}
           /\ \A i \in Slots(k) : queue'[k][i] = queue[k][i]
           /\ queue'[k][Len(queue[k]) + 1] = x
<1>1. \A c \in CPUS : c # k => queue'[c] = queue[c] /\ Slots(c)' = Slots(c)
  BY DEF Types, SchedTypes, Slots
<1>2. queue'[k] = Append(queue[k], x)
  BY DEF Types, SchedTypes
<1>3. Len(queue'[k]) = Len(queue[k]) + 1 /\ Len(queue[k]) \in Nat
  BY <1>2, QueueTypes, AppendProperties
<1>4. Slots(k)' = Slots(k) \cup {Len(queue[k]) + 1}
  BY <1>3 DEF Slots
<1>5. (\A i \in Slots(k) : queue'[k][i] = queue[k][i]) /\ queue'[k][Len(queue[k]) + 1] = x
  BY <1>2, QueueTypes, AppendProperties DEF Slots
<1>6. QED
  BY <1>1, <1>3, <1>4, <1>5

(***************************************************************************)
(* enqueueThread(): the slot below tail is written after tail.             *)
(***************************************************************************)
LEMMA Overwritten ==
    ASSUME Types, NEW k \in CPUS, NEW x \in Objects \cup {None}, Len(queue[k]) # 0,
           EnqueueSlotLast, k = enq.cpu, x = enq.thread
    PROVE  /\ \A c \in CPUS : c # k => queue'[c] = queue[c]
           /\ \A c \in CPUS : Slots(c)' = Slots(c) /\ Len(queue'[c]) = Len(queue[c])
           /\ \A i \in Slots(k) : queue'[k][i] = IF i = Len(queue[k]) THEN x ELSE queue[k][i]
           /\ Len(queue[k]) \in Slots(k)
<1>1. \A c \in CPUS : c # k => queue'[c] = queue[c] /\ Slots(c)' = Slots(c)
  BY DEF EnqueueSlotLast, Types, SchedTypes, Slots
<1>2. queue'[k] = [queue[k] EXCEPT ![Len(queue[k])] = x]
  BY DEF EnqueueSlotLast, Types, SchedTypes
<1>3. Len(queue[k]) \in Nat /\ Len(queue[k]) \in 1 .. Len(queue[k])
  BY QueueTypes
<1>4. Len(queue'[k]) = Len(queue[k])
  BY <1>2, <1>3, QueueTypes, ExceptSeq
<1>5. \A i \in Slots(k) : queue'[k][i] = IF i = Len(queue[k]) THEN x ELSE queue[k][i]
  BY <1>2, <1>3, QueueTypes, ExceptSeq DEF Slots
<1>6. QED
  BY <1>1, <1>3, <1>4, <1>5 DEF Slots

(***************************************************************************)
(* What the traversal has handed out does not depend on what the APs do,   *)
(* beyond inserting more processes, nor on the process it looks at.        *)
(***************************************************************************)
LEMMA KeepQueued ==
    ASSUME Handed, queue' = queue, given' = given, early' = early,
           visited \subseteq visited', visited' \subseteq tree',
           pc'[BSP] \in Enqueueing => enq'.thread \in visited' \ given,
           pc'[BSP] = "enq_slot" <=> pc[BSP] = "enq_slot",
           pc[BSP] = "enq_slot" => enq' = enq
    PROVE  Handed'
<1>1. \A c \in CPUS : Slots(c)' = Slots(c)
  BY DEF Slots
<1>2. (given \subseteq visited /\ visited \subseteq tree /\ early \subseteq given)'
  BY DEF Handed
<1>3. (\A c \in CPUS : \A i \in Slots(c) : queue[c][i] # None => queue[c][i] \in given)'
  BY <1>1 DEF Handed
<1>4. (\A c \in CPUS : \A i \in Slots(c) : queue[c][i] = None =>
            pc[BSP] = "enq_slot" /\ c = enq.cpu /\ i = Len(queue[c]))'
  BY <1>1 DEF Handed
<1>5. (pc[BSP] = "enq_slot" => Len(queue[enq.cpu]) # 0 /\ queue[enq.cpu][Len(queue[enq.cpu])] = None)'
  BY DEF Handed
<1>6. (\A c, d \in CPUS : \A i \in Slots(c), j \in Slots(d) :
            queue[c][i] = queue[d][j] /\ queue[c][i] # None => c = d /\ i = j)'
  BY <1>1 DEF Handed
<1>7. (\A o \in given : \E c \in CPUS : \E i \in Slots(c) : queue[c][i] = o)'
  BY <1>1 DEF Handed
<1>8. QED
  BY <1>2, <1>3, <1>4, <1>5, <1>6, <1>7 DEF Handed

(***************************************************************************)
(* In particular the steps of the APs keep it.                             *)
(***************************************************************************)
LEMMA KeepHanded ==
    ASSUME Handed, queue' = queue, enq' = enq, visited' = visited, given' = given, early' = early,
           tree \subseteq tree', pc'[BSP] \in Enqueueing => pc[BSP] \in Enqueueing,
           pc'[BSP] = "enq_slot" <=> pc[BSP] = "enq_slot"
    PROVE  Handed'
<1>1. visited' \subseteq tree' /\ (pc'[BSP] \in Enqueueing => enq'.thread \in visited' \ given)
  BY DEF Handed
<1>2. QED
  BY <1>1, KeepQueued

(***************************************************************************)
(* Every step keeps what the traversal handed out in one slot each.        *)
(***************************************************************************)
LEMMA NextHanded ==
    ASSUME Types, Control, Made, Handed, [Next]_vars
    PROVE  Handed'
<1> USE CpusAssumption
<1>1. ASSUME NEW c \in CPUS, getProcessIDLoad(c) PROVE Handed'
  <2>1. pc'[BSP] \in Enqueueing => pc[BSP] \in Enqueueing
    BY <1>1 DEF getProcessIDLoad, Goto, Types, PcTypes, Enqueueing
  <2>2. pc'[BSP] = "enq_slot" <=> pc[BSP] = "enq_slot"
    BY <1>1 DEF getProcessIDLoad, Goto, Types, PcTypes
  <2>3. QED
    BY <1>1, <2>1, <2>2, KeepHanded DEF getProcessIDLoad, treeVars, schedVars, fillVars
<1>2. ASSUME NEW c \in CPUS, getProcessIDStore(c) PROVE Handed'
  <2>1. pc'[BSP] \in Enqueueing => pc[BSP] \in Enqueueing
    BY <1>2 DEF getProcessIDStore, Goto, Types, PcTypes, Enqueueing
  <2>2. pc'[BSP] = "enq_slot" <=> pc[BSP] = "enq_slot"
    BY <1>2 DEF getProcessIDStore, Goto, Types, PcTypes
  <2>3. QED
    BY <1>2, <2>1, <2>2, KeepHanded DEF getProcessIDStore, treeVars, schedVars, fillVars
<1>3. ASSUME NEW c \in CPUS, createKernelThreadBegin(c) PROVE Handed'
  <2>1. pc'[BSP] \in Enqueueing => pc[BSP] \in Enqueueing
    BY <1>3 DEF createKernelThreadBegin, Goto, Types, PcTypes, Enqueueing
  <2>2. pc'[BSP] = "enq_slot" <=> pc[BSP] = "enq_slot"
    BY <1>3 DEF createKernelThreadBegin, Goto, Types, PcTypes
  <2>3. QED
    BY <1>3, <2>1, <2>2, KeepHanded DEF createKernelThreadBegin, treeVars, schedVars, fillVars
<1>4. ASSUME NEW c \in CPUS, createKernelThreadEnd(c) PROVE Handed'
  <2>1. pc'[BSP] \in Enqueueing => pc[BSP] \in Enqueueing
    BY <1>4 DEF createKernelThreadEnd, Goto, Types, PcTypes, Enqueueing
  <2>2. pc'[BSP] = "enq_slot" <=> pc[BSP] = "enq_slot"
    BY <1>4 DEF createKernelThreadEnd, Goto, Types, PcTypes
  <2>3. QED
    BY <1>4, <2>1, <2>2, KeepHanded DEF createKernelThreadEnd, treeVars, schedVars, fillVars
<1>5. ASSUME NEW c \in CPUS, InsertAcquire(c) PROVE Handed'
  <2>1. pc'[BSP] \in Enqueueing => pc[BSP] \in Enqueueing
    BY <1>5 DEF InsertAcquire, Goto, Types, PcTypes, Enqueueing
  <2>2. pc'[BSP] = "enq_slot" <=> pc[BSP] = "enq_slot"
    BY <1>5 DEF InsertAcquire, Goto, Types, PcTypes
  <2>3. QED
    BY <1>5, <2>1, <2>2, KeepHanded DEF InsertAcquire, treeVars, schedVars, fillVars
<1>6. ASSUME NEW c \in CPUS, rbInsert(c) PROVE Handed'
  <2>1. pc'[BSP] \in Enqueueing => pc[BSP] \in Enqueueing
    BY <1>6 DEF rbInsert, Goto, Types, PcTypes, Enqueueing
  <2>2. pc'[BSP] = "enq_slot" <=> pc[BSP] = "enq_slot"
    BY <1>6 DEF rbInsert, Goto, Types, PcTypes
  <2>3. QED
    BY <1>6, <2>1, <2>2, KeepHanded DEF rbInsert, treeVars, schedVars, fillVars
<1>7. ASSUME NEW c \in CPUS, InsertRelease(c) PROVE Handed'
  <2>1. pc'[BSP] \in Enqueueing => pc[BSP] \in Enqueueing
    BY <1>7 DEF InsertRelease, Goto, Types, PcTypes, Enqueueing
  <2>2. pc'[BSP] = "enq_slot" <=> pc[BSP] = "enq_slot"
    BY <1>7 DEF InsertRelease, Goto, Types, PcTypes
  <2>3. QED
    BY <1>7, <2>1, <2>2, KeepHanded DEF InsertRelease, treeVars, schedVars, fillVars
<1>8. ASSUME NEW c \in CPUS, SearchAcquire(c) PROVE Handed'
  <2>1. pc'[BSP] \in Enqueueing => pc[BSP] \in Enqueueing
    BY <1>8 DEF SearchAcquire, Goto, Types, PcTypes, Enqueueing
  <2>2. pc'[BSP] = "enq_slot" <=> pc[BSP] = "enq_slot"
    BY <1>8 DEF SearchAcquire, Goto, Types, PcTypes
  <2>3. QED
    BY <1>8, <2>1, <2>2, KeepHanded DEF SearchAcquire, treeVars, schedVars, fillVars
<1>9. ASSUME NEW c \in CPUS, rbSearch(c) PROVE Handed'
  <2>1. pc'[BSP] \in Enqueueing => pc[BSP] \in Enqueueing
    BY <1>9 DEF rbSearch, Goto, Types, PcTypes, Enqueueing
  <2>2. pc'[BSP] = "enq_slot" <=> pc[BSP] = "enq_slot"
    BY <1>9 DEF rbSearch, Goto, Types, PcTypes
  <2>3. QED
    BY <1>9, <2>1, <2>2, KeepHanded DEF rbSearch, treeVars, schedVars, fillVars
<1>10. ASSUME NEW c \in CPUS, SearchRelease(c) PROVE Handed'
  <2>1. pc'[BSP] \in Enqueueing => pc[BSP] \in Enqueueing
    BY <1>10 DEF SearchRelease, Goto, Types, PcTypes, Enqueueing
  <2>2. pc'[BSP] = "enq_slot" <=> pc[BSP] = "enq_slot"
    BY <1>10 DEF SearchRelease, Goto, Types, PcTypes
  <2>3. QED
    BY <1>10, <2>1, <2>2, KeepHanded DEF SearchRelease, treeVars, schedVars, fillVars
<1>11. ASSUME NEW c \in CPUS, dequeueThread(c) PROVE Handed'
  <2>1. PICK l \in {"deq_load", "run"} : Goto(c, l)
    BY <1>11, NoRequeue DEF Goto
  <2>2. pc[c] = "switch" /\ UNCHANGED <<procVars, treeVars, schedVars, fillVars>>
    BY <1>11, NoRequeue
  <2>3. pc'[BSP] = pc[BSP]
    BY <2>1, <2>2, Where DEF Goto, Types, PcTypes
  <2>4. QED
    BY <2>2, <2>3, KeepHanded DEF treeVars, schedVars, fillVars
<1>12. ASSUME NEW c \in CPUS, DequeueCountLoad(c) PROVE Handed'
  <2>1. pc'[BSP] \in Enqueueing => pc[BSP] \in Enqueueing
    BY <1>12 DEF DequeueCountLoad, Goto, Types, PcTypes, Enqueueing
  <2>2. pc'[BSP] = "enq_slot" <=> pc[BSP] = "enq_slot"
    BY <1>12 DEF DequeueCountLoad, Goto, Types, PcTypes
  <2>3. QED
    BY <1>12, <2>1, <2>2, KeepHanded DEF DequeueCountLoad, treeVars, schedVars, fillVars
<1>13. ASSUME NEW c \in CPUS, DequeueCountStore(c) PROVE Handed'
  <2>1. pc'[BSP] \in Enqueueing => pc[BSP] \in Enqueueing
    BY <1>13 DEF DequeueCountStore, Goto, Types, PcTypes, Enqueueing
  <2>2. pc'[BSP] = "enq_slot" <=> pc[BSP] = "enq_slot"
    BY <1>13 DEF DequeueCountStore, Goto, Types, PcTypes
  <2>3. QED
    BY <1>13, <2>1, <2>2, KeepHanded DEF DequeueCountStore, treeVars, schedVars, fillVars
<1>14. ASSUME NEW c \in CPUS, DequeueTake(c) PROVE Handed'
  <2>1. pc'[BSP] \in Enqueueing => pc[BSP] \in Enqueueing
    BY <1>14 DEF DequeueTake, Goto, Types, PcTypes, Enqueueing
  <2>2. pc'[BSP] = "enq_slot" <=> pc[BSP] = "enq_slot"
    BY <1>14 DEF DequeueTake, Goto, Types, PcTypes
  <2>3. QED
    BY <1>14, <2>1, <2>2, KeepHanded DEF DequeueTake, treeVars, schedVars, fillVars
<1>15. ASSUME NEW c \in CPUS, switchTask(c) PROVE Handed'
  <2>1. pc'[BSP] \in Enqueueing => pc[BSP] \in Enqueueing
    BY <1>15 DEF switchTask, Goto, Types, PcTypes, Enqueueing
  <2>2. pc'[BSP] = "enq_slot" <=> pc[BSP] = "enq_slot"
    BY <1>15 DEF switchTask, Goto, Types, PcTypes
  <2>3. QED
    BY <1>15, <2>1, <2>2, KeepHanded DEF switchTask, treeVars, schedVars, fillVars
<1>16. ASSUME fillRunqueuesFromBST PROVE Handed'
  <2>1. PICK o \in Objects : NextInOrder(o) /\ enqueueRunnableThread(o) /\ visited' = visited \cup {o}
    BY <1>16 DEF fillRunqueuesFromBST
  <2>2. o \in tree \ visited
    BY <2>1 DEF NextInOrder, Ahead
  <2>3. pc[BSP] = "fill" /\ UNCHANGED <<tree, queue, given, early>>
    BY <1>16 DEF fillRunqueuesFromBST, treeVars, schedVars
  <2>4. \/ pc' = pc
        \/ pc'[BSP] = "enq_load" /\ enq'.thread = o
    BY <2>1 DEF enqueueRunnableThread, Goto, Types, PcTypes
  <2>5. (given \subseteq visited /\ visited \subseteq tree /\ early \subseteq given)'
    BY <2>1, <2>2, <2>3 DEF Handed
  <2>6. (pc[BSP] \in Enqueueing => enq.thread \in visited \ given)'
    BY <2>1, <2>2, <2>3, <2>4 DEF Handed, Enqueueing
  <2>7. visited \subseteq visited' /\ pc'[BSP] # "enq_slot"
    BY <2>1, <2>3, <2>4
  <2>8. QED
    BY <2>3, <2>5, <2>6, <2>7, KeepQueued
<1>17. ASSUME EnqueueCountLoad PROVE Handed'
  <2>1. pc'[BSP] \in Enqueueing => pc[BSP] \in Enqueueing
    BY <1>17 DEF EnqueueCountLoad, Goto, Types, PcTypes, Enqueueing
  <2>2. pc'[BSP] = "enq_slot" <=> pc[BSP] = "enq_slot"
    BY <1>17 DEF EnqueueCountLoad, Goto, Types, PcTypes
  <2>3. QED
    BY <1>17, <2>1, <2>2, KeepHanded DEF EnqueueCountLoad, treeVars, schedVars, fillVars
<1>18. ASSUME EnqueueCountStore PROVE Handed'
  <2>1. pc'[BSP] \in Enqueueing => pc[BSP] \in Enqueueing
    BY <1>18 DEF EnqueueCountStore, Goto, Types, PcTypes, Enqueueing
  <2>2. pc'[BSP] = "enq_slot" <=> pc[BSP] = "enq_slot"
    BY <1>18 DEF EnqueueCountStore, Goto, Types, PcTypes
  <2>3. QED
    BY <1>18, <2>1, <2>2, KeepHanded DEF EnqueueCountStore, treeVars, schedVars, fillVars
<1>19. ASSUME EnqueueSlotThenTail PROVE Handed'
  <2>1. enq.cpu \in CPUS /\ enq.thread \in visited \ given
    BY <1>19 DEF EnqueueSlotThenTail, Types, FillTypes, Handed, Enqueueing
  <2>2. enq.thread \in Objects /\ enq.thread # None
    BY <2>1, NotNone DEF Types, FillTypes
  <2>3. PICK k \in CPUS : k = enq.cpu
    BY <2>1
  <2>4. PICK t \in Objects : t = enq.thread
    BY <2>2
  <2>5. PICK n \in Nat : n = Len(queue[k])
    BY QueueTypes
  <2>6. /\ \A c \in CPUS : c # k => queue'[c] = queue[c] /\ Slots(c)' = Slots(c)
        /\ Len(queue'[k]) = n + 1
        /\ Slots(k)' = Slots(k) \cup {n + 1}
        /\ \A i \in Slots(k) : queue'[k][i] = queue[k][i]
        /\ queue'[k][n + 1] = t
    <3>1. queue' = [queue EXCEPT ![k] = Append(@, t)]
      BY <1>19, <2>3, <2>4 DEF EnqueueSlotThenTail
    <3>2. QED
      BY ZenonT(60), <2>5, <3>1, Appended
  <2>7. UNCHANGED <<tree, visited, enq, early>> /\ given' = given \cup {t} /\ pc'[BSP] = "fill" /\ pc[BSP] = "enq_tail"
    BY <1>19, <2>4 DEF EnqueueSlotThenTail, treeVars, Goto, Types, PcTypes
  <2>8. t \notin given /\ t # None /\ t \in visited
    BY <2>1, <2>2, <2>4
  <2>9. \A c \in CPUS : \A i \in Slots(c) : queue[c][i] \in given
    BY <2>7 DEF Handed
  <2>10. \A c \in CPUS : \A i \in Slots(c)' :
            \/ c = k /\ i = n + 1 /\ queue'[c][i] = t
            \/ i \in Slots(c) /\ queue'[c][i] = queue[c][i]
    <3>1. TAKE c \in CPUS
    <3>2. TAKE i \in Slots(c)'
    <3>3. CASE c = k
      <4>1. i \in Slots(k) \cup {n + 1}
        BY <2>6, <3>3
      <4>2. CASE i = n + 1
        BY <2>6, <3>3, <4>2
      <4>3. CASE i \in Slots(k)
        BY <2>6, <3>3, <4>3
      <4>4. QED
        BY <4>1, <4>2, <4>3
    <3>4. CASE c # k
      BY <2>6, <3>4
    <3>5. QED
      BY <3>3, <3>4
  <2>11. \A c \in CPUS : \A i \in Slots(c) : i \in Slots(c)' /\ queue'[c][i] = queue[c][i]
    BY <2>6
  <2>12. (given \subseteq visited /\ visited \subseteq tree /\ early \subseteq given)'
    BY <2>7, <2>8 DEF Handed
  <2>13. (\A c, d \in CPUS : \A i \in Slots(c), j \in Slots(d) :
            queue[c][i] = queue[d][j] /\ queue[c][i] # None => c = d /\ i = j)'
    BY <2>8, <2>9, <2>10 DEF Handed
  <2>14. (\A o \in given : \E c \in CPUS : \E i \in Slots(c) : queue[c][i] = o)'
    <3>1. \A o \in given : \E c \in CPUS : \E i \in Slots(c)' : queue'[c][i] = o
      BY <2>11 DEF Handed
    <3>2. \E c \in CPUS : \E i \in Slots(c)' : queue'[c][i] = t
      BY <2>6
    <3>3. QED
      BY <2>7, <3>1, <3>2
  <2>15. (\A c \in CPUS : \A i \in Slots(c) : queue[c][i] \in given)'
    BY <2>7, <2>9, <2>10
  <2>16. None \notin given'
    BY <2>8, <2>7, NotNone DEF Types, FillTypes
  <2>17. QED
    BY <2>7, <2>12, <2>13, <2>14, <2>15, <2>16 DEF Handed, Enqueueing
<1>20. ASSUME EnqueueTailFirst PROVE Handed'
  <2>1. enq.cpu \in CPUS /\ enq.thread \in visited \ given
    BY <1>20 DEF EnqueueTailFirst, Types, FillTypes, Handed, Enqueueing
  <2>2. enq.thread \in Objects /\ enq.thread # None
    BY <2>1, NotNone DEF Types, FillTypes
  <2>3. PICK k \in CPUS : k = enq.cpu
    BY <2>1
  <2>4. PICK t \in Objects : t = enq.thread
    BY <2>2
  <2>5. PICK n \in Nat : n = Len(queue[k])
    BY QueueTypes
  <2>6. /\ \A c \in CPUS : c # k => queue'[c] = queue[c] /\ Slots(c)' = Slots(c)
        /\ Len(queue'[k]) = n + 1
        /\ Slots(k)' = Slots(k) \cup {n + 1}
        /\ \A i \in Slots(k) : queue'[k][i] = queue[k][i]
        /\ queue'[k][n + 1] = None
    <3>1. queue' = [queue EXCEPT ![k] = Append(@, None)]
      BY <1>20, <2>3 DEF EnqueueTailFirst
    <3>2. QED
      BY ZenonT(60), <2>5, <3>1, Appended
  <2>7. UNCHANGED <<tree, visited, enq, early, given>> /\ pc'[BSP] = "enq_slot" /\ pc[BSP] = "enq_tail"
    BY <1>20 DEF EnqueueTailFirst, treeVars, fillVars, Goto, Types, PcTypes
  <2>8. \A c \in CPUS : \A i \in Slots(c) : queue[c][i] \in given /\ queue[c][i] # None
    BY <2>7 DEF Handed
  <2>9. \A c \in CPUS : \A i \in Slots(c)' :
            \/ c = k /\ i = n + 1 /\ queue'[c][i] = None
            \/ i \in Slots(c) /\ queue'[c][i] = queue[c][i]
    <3>1. TAKE c \in CPUS
    <3>2. TAKE i \in Slots(c)'
    <3>3. CASE c = k
      <4>1. i \in Slots(k) \cup {n + 1}
        BY <2>6, <3>3
      <4>2. CASE i = n + 1
        BY <2>6, <3>3, <4>2
      <4>3. CASE i \in Slots(k)
        BY <2>6, <3>3, <4>3
      <4>4. QED
        BY <4>1, <4>2, <4>3
    <3>4. CASE c # k
      BY <2>6, <3>4
    <3>5. QED
      BY <3>3, <3>4
  <2>10. \A c \in CPUS : \A i \in Slots(c) : i \in Slots(c)' /\ queue'[c][i] = queue[c][i]
    BY <2>6
  <2>11. (given \subseteq visited /\ visited \subseteq tree /\ early \subseteq given)'
    BY <2>7 DEF Handed
  <2>12. (\A c, d \in CPUS : \A i \in Slots(c), j \in Slots(d) :
            queue[c][i] = queue[d][j] /\ queue[c][i] # None => c = d /\ i = j)'
    BY <2>8, <2>9 DEF Handed
  <2>13. (\A o \in given : \E c \in CPUS : \E i \in Slots(c) : queue[c][i] = o)'
    BY <2>7, <2>10 DEF Handed
  <2>14. (\A c \in CPUS : \A i \in Slots(c) : queue[c][i] # None => queue[c][i] \in given)'
    BY <2>7, <2>8, <2>9
  <2>15. (\A c \in CPUS : \A i \in Slots(c) : queue[c][i] = None =>
            pc[BSP] = "enq_slot" /\ c = enq.cpu /\ i = Len(queue[c]))'
    BY <2>3, <2>6, <2>7, <2>8, <2>9
  <2>16. (pc[BSP] = "enq_slot" => Len(queue[enq.cpu]) # 0 /\ queue[enq.cpu][Len(queue[enq.cpu])] = None)'
    BY <2>3, <2>6, <2>7
  <2>17. (pc[BSP] \in Enqueueing => enq.thread \in visited \ given)'
    BY <2>1, <2>7
  <2>18. QED
    BY <2>11, <2>12, <2>13, <2>14, <2>15, <2>16, <2>17 DEF Handed
<1>21. ASSUME EnqueueSlotLast PROVE Handed'
  <2>1. enq.cpu \in CPUS /\ enq.thread \in visited \ given
    BY <1>21 DEF EnqueueSlotLast, Types, FillTypes, Handed, Enqueueing
  <2>2. enq.thread \in Objects /\ enq.thread # None
    BY <2>1, NotNone DEF Types, FillTypes
  <2>3. PICK k \in CPUS : k = enq.cpu
    BY <2>1
  <2>4. PICK t \in Objects : t = enq.thread
    BY <2>2
  <2>5. PICK n \in Nat : n = Len(queue[k])
    BY QueueTypes
  <2>6. pc[BSP] = "enq_slot" /\ n # 0 /\ queue[k][n] = None
    BY <1>21, <2>3, <2>5 DEF EnqueueSlotLast, Handed
  <2>7. /\ \A c \in CPUS : c # k => queue'[c] = queue[c]
        /\ \A c \in CPUS : Slots(c)' = Slots(c) /\ Len(queue'[c]) = Len(queue[c])
        /\ \A i \in Slots(k) : queue'[k][i] = IF i = n THEN t ELSE queue[k][i]
        /\ n \in Slots(k)
    <3>1. Len(queue[k]) # 0 /\ t \in Objects \cup {None}
      BY <2>5, <2>6
    <3>2. /\ \A c \in CPUS : c # k => queue'[c] = queue[c]
          /\ \A c \in CPUS : Slots(c)' = Slots(c) /\ Len(queue'[c]) = Len(queue[c])
          /\ \A i \in Slots(k) : queue'[k][i] = IF i = Len(queue[k]) THEN t ELSE queue[k][i]
          /\ Len(queue[k]) \in Slots(k)
      BY <1>21, <2>3, <2>4, <3>1, Overwritten
    <3>3. QED
      BY <2>5, <3>2
  <2>8. UNCHANGED <<tree, visited, enq>> /\ given' = given \cup {t} /\ pc'[BSP] = "fill"
    BY <1>21, <2>4 DEF EnqueueSlotLast, treeVars, Goto, Types, PcTypes
  <2>9. t \notin given /\ t # None /\ t \in visited
    BY <2>1, <2>2, <2>4
  <2>10. \A c \in CPUS : \A i \in Slots(c) : c # k \/ i # n => queue[c][i] \in given
    BY <2>3, <2>5 DEF Handed
  <2>11. \A c \in CPUS : \A i \in Slots(c)' :
            \/ c = k /\ i = n /\ queue'[c][i] = t
            \/ i \in Slots(c) /\ (c # k \/ i # n) /\ queue'[c][i] = queue[c][i]
    BY <2>7
  <2>12. \A c \in CPUS : \A i \in Slots(c) : c # k \/ i # n => i \in Slots(c)' /\ queue'[c][i] = queue[c][i]
    BY <2>7
  <2>13. (given \subseteq visited /\ visited \subseteq tree /\ early \subseteq given)'
    <3>1. early' \subseteq early \cup {t}
      BY <1>21, <2>4 DEF EnqueueSlotLast
    <3>2. QED
      BY <2>8, <2>9, <3>1 DEF Handed
  <2>14. (\A c, d \in CPUS : \A i \in Slots(c), j \in Slots(d) :
            queue[c][i] = queue[d][j] /\ queue[c][i] # None => c = d /\ i = j)'
    BY <2>9, <2>10, <2>11 DEF Handed
  <2>15. (\A o \in given : \E c \in CPUS : \E i \in Slots(c) : queue[c][i] = o)'
    <3>1. ASSUME NEW o \in given PROVE \E c \in CPUS : \E i \in Slots(c)' : queue'[c][i] = o
      <4>1. PICK c \in CPUS : \E i \in Slots(c) : queue[c][i] = o
        BY DEF Handed
      <4>2. PICK i \in Slots(c) : queue[c][i] = o
        BY <4>1
      <4>3. o # None
        BY NotNone DEF Types, FillTypes
      <4>4. QED
        BY <2>6, <2>12, <4>2, <4>3
    <3>2. \E c \in CPUS : \E i \in Slots(c)' : queue'[c][i] = t
      BY <2>7
    <3>3. QED
      BY <2>8, <3>1, <3>2
  <2>16. (\A c \in CPUS : \A i \in Slots(c) : queue[c][i] \in given)'
    BY <2>8, <2>10, <2>11
  <2>17. None \notin given'
    BY <2>8, <2>9, NotNone DEF Types, FillTypes
  <2>18. QED
    BY <2>8, <2>13, <2>14, <2>15, <2>16, <2>17 DEF Handed, Enqueueing
<1>22. ASSUME FillEnds PROVE Handed'
  <2>1. pc'[BSP] \in Enqueueing => pc[BSP] \in Enqueueing
    BY <1>22 DEF FillEnds, Goto, Types, PcTypes, Enqueueing
  <2>2. pc'[BSP] = "enq_slot" <=> pc[BSP] = "enq_slot"
    BY <1>22 DEF FillEnds, Goto, Types, PcTypes
  <2>3. QED
    BY <1>22, <2>1, <2>2, KeepHanded DEF FillEnds, treeVars, schedVars, fillVars
<1>23. ASSUME NEW c \in APS, TimerCounts(c) PROVE Handed'
  BY <1>23, KeepHanded DEF TimerCounts, treeVars, fillVars
<1>24. ASSUME NEW c \in APS, TimerSchedules(c) PROVE Handed'
  <2>1. pc'[BSP] = pc[BSP]
    BY <1>24 DEF TimerSchedules, Goto, APS, Types, PcTypes
  <2>2. QED
    BY <1>24, <2>1, KeepHanded DEF TimerSchedules, treeVars, fillVars
<1>25. CASE UNCHANGED vars
  BY <1>25, KeepHanded DEF vars
<1>26. QED
  BY <1>1, <1>2, <1>3, <1>4, <1>5, <1>6, <1>7, <1>8, <1>9, <1>10, <1>11, <1>12, <1>13, <1>14, <1>15, <1>16, <1>17, <1>18, <1>19, <1>20, <1>21, <1>22, <1>23, <1>24, <1>25 DEF Next, CpuStep, FillStep, Timer

(***************************************************************************)
(* Slots are not taken, at most a slot that was taken empty is written:    *)
(* what each CPU took and will run is as before.                           *)
(***************************************************************************)
LEMMA KeepTaken ==
    ASSUME Types, Types', Taken, head' = head, early \subseteq early',
           \A d \in CPUS : Len(queue[d]) <= Len(queue'[d]),
           \A d \in CPUS : head[d] = 1 => /\ found'[d] = found[d]
                                          /\ queue'[d][1] = queue[d][1] \/ queue'[d][1] \in early',
           \A d \in CPUS : pc'[d] \in Dequeueing => pc[d] \in Dequeueing \/ head[d] < Len(queue[d]),
           \A d \in CPUS : pc[d] \in {"run", "running"} => pc'[d] \in {"run", "running"},
           \A d \in CPUS : pc'[d] \in Chosen => found'[d] \in given' \/ pid'[found'[d]] = pid'[mine(d)']
    PROVE  Taken'
<1>1. \A d \in CPUS : Len(queue[d]) \in Nat /\ head[d] \in Nat
  BY QueueTypes DEF Types, SchedTypes
<1>2. \A d \in CPUS : Len(queue'[d]) \in Nat
  <2>1. \A d \in CPUS : queue'[d] \in Seq(Objects \cup {None})
    BY DEF Types, SchedTypes
  <2>2. QED
    BY <2>1, LenProperties
<1>3. (\A d \in CPUS : head[d] <= Len(queue[d]) /\ head[d] <= 1)'
  BY <1>1, <1>2 DEF Taken
<1>4. (\A d \in CPUS : pc[d] \in Dequeueing => head[d] < Len(queue[d]))'
  BY <1>1, <1>2 DEF Taken
<1>5. (\A d \in CPUS : pc[d] \notin {"run", "running"} => head[d] = 0)'
  BY DEF Taken
<1>6. (\A d \in CPUS : head[d] = 1 /\ queue[d][1] # None /\ queue[d][1] \notin early =>
            found[d] = queue[d][1])'
  BY DEF Taken
<1>7. QED
  BY <1>3, <1>4, <1>5, <1>6 DEF Taken

(***************************************************************************)
(* A CPU goes from place to place without touching queues and processes.   *)
(***************************************************************************)
LEMMA GotoTaken ==
    ASSUME Types, Types', Taken, NEW c \in CPUS, NEW l, Goto(c, l),
           head' = head, queue' = queue, early' = early, given' = given,
           pid' = pid, round' = round, found' = found,
           l \in Dequeueing => pc[c] \in Dequeueing \/ head[c] < Len(queue[c]),
           l \in Chosen => pc[c] \in Chosen,
           pc[c] \in {"run", "running"} => l \in {"run", "running"}
    PROVE  Taken'
<1>1. \A d \in CPUS : pc'[d] = IF d = c THEN l ELSE pc[d]
  BY DEF Goto, Types, PcTypes
<1>2. \A d \in CPUS : mine(d)' = mine(d)
  BY DEF mine
<1>3. \A d \in CPUS : pc'[d] \in Chosen => found'[d] \in given' \/ pid'[found'[d]] = pid'[mine(d)']
  BY <1>1, <1>2 DEF Taken
<1>4. \A d \in CPUS : Len(queue[d]) <= Len(queue'[d])
  BY QueueTypes
<1>5. QED
  BY <1>1, <1>3, <1>4, KeepTaken

(***************************************************************************)
(* The BSP changes the queues: it runs no thread itself.                   *)
(***************************************************************************)
LEMMA FillTaken ==
    ASSUME Types, Types', Control, Taken, NEW l \in {"fill", "enq_slot"}, Goto(BSP, l),
           head' = head, found' = found, pid' = pid, round' = round,
           early \subseteq early', given \subseteq given',
           \A d \in CPUS : Len(queue[d]) <= Len(queue'[d]),
           \A d \in CPUS : head[d] = 1 => queue'[d][1] = queue[d][1] \/ queue'[d][1] \in early'
    PROVE  Taken'
<1>1. BSP \in CPUS /\ pc[BSP] \notin {"run", "running"}
  BY CpusAssumption, Where
<1>2. \A d \in CPUS : pc'[d] = IF d = BSP THEN l ELSE pc[d]
  BY <1>1 DEF Goto, Types, PcTypes
<1>3. \A d \in CPUS : mine(d)' = mine(d)
  BY DEF mine
<1>4. \A d \in CPUS : pc'[d] \in Chosen => d # BSP /\ pc[d] \in Chosen
  BY <1>2 DEF Chosen, Dequeueing
<1>5. \A d \in CPUS : pc'[d] \in Dequeueing => pc[d] \in Dequeueing
  BY <1>2 DEF Dequeueing
<1>6. \A d \in CPUS : pc'[d] \in Chosen => found'[d] \in given' \/ pid'[found'[d]] = pid'[mine(d)']
  BY <1>3, <1>4 DEF Taken
<1>7. \A d \in CPUS : pc[d] \in {"run", "running"} => pc'[d] \in {"run", "running"}
  BY <1>1, <1>2
<1>8. QED
  BY <1>5, <1>6, <1>7, KeepTaken

(***************************************************************************)
(* A CPU that has not taken a thread finds another one to run.             *)
(***************************************************************************)
LEMMA NextTaken ==
    ASSUME Types, Types', Control, Made, Handed, Taken, [Next]_vars
    PROVE  Taken'
<1> USE CpusAssumption
<1>1. ASSUME NEW c \in CPUS, getProcessIDLoad(c) PROVE Taken'
  BY <1>1, GotoTaken DEF getProcessIDLoad, procVars, treeVars, schedVars, fillVars, Chosen, Dequeueing
<1>2. ASSUME NEW c \in CPUS, getProcessIDStore(c) PROVE Taken'
  <2>1. pc[c] # "loop" /\ pc[c] \notin Inserted
    BY <1>2 DEF getProcessIDStore, Inserted, Chosen, Dequeueing, Enqueueing
  <2>2. mine(c) \notin tree /\ \A d \in CPUS : d # c => mine(d) # mine(c)
    BY <2>1, NotYetIn
  <2>3. \A d \in CPUS : pc'[d] = IF d = c THEN "newthread" ELSE pc[d]
    BY <1>2 DEF getProcessIDStore, Goto, Types, PcTypes
  <2>4. UNCHANGED <<round, tree, found, queue, head, early, given>>
    BY <1>2 DEF getProcessIDStore, treeVars, schedVars, fillVars
  <2>5. \A d \in CPUS : mine(d)' = mine(d)
    BY <2>4 DEF mine
  <2>6. \A o \in Objects : o # mine(c) => pid'[o] = pid[o]
    BY <1>2 DEF getProcessIDStore, Types, ProcTypes
  <2>7. ASSUME NEW d \in CPUS, pc'[d] \in Chosen
        PROVE  found'[d] \in given' \/ pid'[found'[d]] = pid'[mine(d)']
    <3>1. d # c /\ pc[d] \in Chosen
      BY <2>3, <2>7 DEF Chosen, Dequeueing
    <3>2. found[d] \in Objects /\ found[d] # mine(c)
      BY <2>2, <3>1 DEF Made, Types, TreeTypes
    <3>3. mine(d) \in Objects /\ mine(d) # mine(c)
      <4>1. pc[d] # "loop"
        BY <3>1 DEF Chosen, Dequeueing
      <4>2. QED
        BY <2>2, <3>1, <4>1, MineType
    <3>4. pid'[found[d]] = pid[found[d]] /\ pid'[mine(d)] = pid[mine(d)]
      BY <2>6, <3>2, <3>3
    <3>5. QED
      BY <2>4, <2>5, <3>1, <3>4 DEF Taken
  <2>8. \A d \in CPUS : Len(queue[d]) <= Len(queue'[d])
    <3>1. \A d \in CPUS : Len(queue[d]) \in Nat
      BY QueueTypes
    <3>2. QED
      BY <2>4, <3>1
  <2>9. \A d \in CPUS : pc'[d] \in Dequeueing => pc[d] \in Dequeueing
    BY <2>3 DEF Dequeueing
  <2>10. \A d \in CPUS : pc[d] \in {"run", "running"} => pc'[d] \in {"run", "running"}
    BY <1>2, <2>3 DEF getProcessIDStore
  <2>11. QED
    BY <2>4, <2>7, <2>8, <2>9, <2>10, KeepTaken
<1>3. ASSUME NEW c \in CPUS, createKernelThreadBegin(c) PROVE Taken'
  BY <1>3, GotoTaken DEF createKernelThreadBegin, procVars, treeVars, schedVars, fillVars, Chosen, Dequeueing
<1>4. ASSUME NEW c \in CPUS, createKernelThreadEnd(c) PROVE Taken'
  BY <1>4, GotoTaken DEF createKernelThreadEnd, procVars, treeVars, schedVars, fillVars, Chosen, Dequeueing
<1>5. ASSUME NEW c \in CPUS, InsertAcquire(c) PROVE Taken'
  BY <1>5, GotoTaken DEF InsertAcquire, procVars, treeVars, schedVars, fillVars, Chosen, Dequeueing
<1>6. ASSUME NEW c \in CPUS, rbInsert(c) PROVE Taken'
  BY <1>6, GotoTaken DEF rbInsert, procVars, treeVars, schedVars, fillVars, Chosen, Dequeueing
<1>7. ASSUME NEW c \in CPUS, InsertRelease(c) PROVE Taken'
  <2>1. PICK l \in {"fill", "srch_acquire"} : Goto(c, l)
    BY <1>7 DEF InsertRelease
  <2>2. QED
    BY <1>7, <2>1, GotoTaken DEF InsertRelease, procVars, schedVars, fillVars, Chosen, Dequeueing
<1>8. ASSUME NEW c \in CPUS, SearchAcquire(c) PROVE Taken'
  BY <1>8, GotoTaken DEF SearchAcquire, procVars, treeVars, schedVars, fillVars, Chosen, Dequeueing
<1>9. ASSUME NEW c \in CPUS, rbSearch(c) PROVE Taken'
  <2>1. mine(c) \in Matches(c)
    BY <1>9 DEF rbSearch, Made, Inserted, Matches
  <2>2. PICK o \in Matches(c) : found' = [found EXCEPT ![c] = o]
    BY <1>9, <2>1 DEF rbSearch
  <2>3. found'[c] = o /\ \A d \in CPUS : d # c => found'[d] = found[d]
    BY <2>2 DEF Types, TreeTypes
  <2>4. pid[o] = pid[mine(c)]
    BY <2>2 DEF Matches
  <2>5. \A d \in CPUS : pc'[d] = IF d = c THEN "srch_release" ELSE pc[d]
    BY <1>9 DEF rbSearch, Goto, Types, PcTypes
  <2>6. UNCHANGED <<round, pid, queue, head, early, given>> /\ head[c] = 0
    BY <1>9 DEF rbSearch, procVars, schedVars, fillVars, Taken
  <2>7. \A d \in CPUS : mine(d)' = mine(d)
    BY <2>6 DEF mine
  <2>8. \A d \in CPUS : pc'[d] \in Chosen => found'[d] \in given' \/ pid'[found'[d]] = pid'[mine(d)']
    <3>1. found'[c] \in given' \/ pid'[found'[c]] = pid'[mine(c)']
      BY <2>3, <2>4, <2>6, <2>7
    <3>2. \A d \in CPUS : d # c /\ pc'[d] \in Chosen => pc[d] \in Chosen
      BY <2>5
    <3>3. \A d \in CPUS : pc[d] \in Chosen => found[d] \in given \/ pid[found[d]] = pid[mine(d)]
      BY DEF Taken
    <3>4. \A d \in CPUS : d # c /\ pc'[d] \in Chosen => found'[d] \in given' \/ pid'[found'[d]] = pid'[mine(d)']
      BY <2>3, <2>6, <2>7, <3>2, <3>3
    <3>5. QED
      BY <3>1, <3>4
  <2>9. \A d \in CPUS : Len(queue[d]) <= Len(queue'[d])
    BY <2>6, QueueTypes
  <2>10. \A d \in CPUS : pc'[d] \in Dequeueing => pc[d] \in Dequeueing
    BY <2>5 DEF Dequeueing
  <2>11. \A d \in CPUS : pc[d] \in {"run", "running"} => pc'[d] \in {"run", "running"}
    BY <1>9, <2>5 DEF rbSearch
  <2>12. \A d \in CPUS : head[d] = 1 => found'[d] = found[d]
    BY <2>3, <2>6 DEF Types, SchedTypes
  <2>13. QED
    BY <2>6, <2>8, <2>9, <2>10, <2>11, <2>12, KeepTaken
<1>10. ASSUME NEW c \in CPUS, SearchRelease(c) PROVE Taken'
  BY <1>10, GotoTaken DEF SearchRelease, procVars, treeVars, schedVars, fillVars, Chosen, Dequeueing
<1>11. ASSUME NEW c \in CPUS, dequeueThread(c) PROVE Taken'
  <2>1. pc[c] = "switch" /\ UNCHANGED <<procVars, treeVars, schedVars, fillVars>>
    BY <1>11, NoRequeue
  <2>2. PICK l \in {"deq_load", "run"} : Goto(c, l) /\ (l = "deq_load" => head[c] < Len(queue[c]))
    BY <1>11, NoRequeue DEF Goto
  <2>3. QED
    BY <2>1, <2>2, GotoTaken DEF procVars, treeVars, schedVars, fillVars, Chosen, Dequeueing
<1>12. ASSUME NEW c \in CPUS, DequeueCountLoad(c) PROVE Taken'
  BY <1>12, GotoTaken DEF DequeueCountLoad, procVars, treeVars, schedVars, fillVars, Chosen, Dequeueing
<1>13. ASSUME NEW c \in CPUS, DequeueCountStore(c) PROVE Taken'
  BY <1>13, GotoTaken DEF DequeueCountStore, procVars, treeVars, schedVars, fillVars, Chosen, Dequeueing
<1>14. ASSUME NEW c \in CPUS, DequeueTake(c) PROVE Taken'
  <2>1. head[c] = 0 /\ Len(queue[c]) \in Nat \ {0} /\ 1 \in Slots(c) /\ queue[c][head[c] + 1] = queue[c][1]
    BY <1>14, TakenSlot DEF DequeueTake
  <2>2. \A d \in CPUS : found'[d] = IF d = c /\ queue[c][1] # None THEN queue[c][1] ELSE found[d]
    BY <1>14, <2>1 DEF DequeueTake, Types, TreeTypes
  <2>3. \A d \in CPUS : head'[d] = IF d = c THEN 1 ELSE head[d]
    BY <1>14, <2>1 DEF DequeueTake, Types, SchedTypes
  <2>4. \A d \in CPUS : pc'[d] = IF d = c THEN "run" ELSE pc[d]
    BY <1>14 DEF DequeueTake, Goto, Types, PcTypes
  <2>5. UNCHANGED <<round, pid, queue, early, given>> /\ pc[c] = "deq_take"
    BY <1>14 DEF DequeueTake, procVars, fillVars
  <2>6. \A d \in CPUS : mine(d)' = mine(d)
    BY <2>5 DEF mine
  <2>7. (\A d \in CPUS : head[d] <= Len(queue[d]) /\ head[d] <= 1)'
    BY <2>1, <2>3, <2>5 DEF Taken
  <2>8. (\A d \in CPUS : pc[d] \in Dequeueing => head[d] < Len(queue[d]))'
    BY <2>3, <2>4, <2>5 DEF Taken, Dequeueing
  <2>9. (\A d \in CPUS : pc[d] \notin {"run", "running"} => head[d] = 0)'
    BY <2>3, <2>4 DEF Taken
  <2>10. (\A d \in CPUS : head[d] = 1 /\ queue[d][1] # None /\ queue[d][1] \notin early =>
            found[d] = queue[d][1])'
    BY <2>2, <2>3, <2>5 DEF Taken
  <2>11. ASSUME NEW d \in CPUS, pc'[d] \in Chosen
         PROVE  found'[d] \in given' \/ pid'[found'[d]] = pid'[mine(d)']
    <3>1. pc[d] \in Chosen
      BY <2>4, <2>5, <2>11 DEF Chosen, Dequeueing
    <3>2. CASE d = c /\ queue[c][1] # None
      BY <2>1, <2>2, <2>5, <3>2 DEF Handed
    <3>3. CASE ~(d = c /\ queue[c][1] # None)
      BY <2>2, <2>5, <2>6, <3>1, <3>3 DEF Taken
    <3>4. QED
      BY <3>2, <3>3
  <2>12. QED
    BY <2>7, <2>8, <2>9, <2>10, <2>11 DEF Taken
<1>15. ASSUME NEW c \in CPUS, switchTask(c) PROVE Taken'
  BY <1>15, GotoTaken DEF switchTask, procVars, treeVars, schedVars, fillVars, Chosen, Dequeueing
<1>16. ASSUME fillRunqueuesFromBST PROVE Taken'
  <2>1. CASE Goto(BSP, "enq_load")
    BY <1>16, <2>1, GotoTaken DEF fillRunqueuesFromBST, procVars, treeVars, schedVars, Chosen, Dequeueing
  <2>2. CASE UNCHANGED pc
    <3>1. UNCHANGED <<pc, head, queue, early, given, pid, round, found>>
      BY <1>16, <2>2 DEF fillRunqueuesFromBST, procVars, treeVars, schedVars
    <3>2. QED
      BY <3>1 DEF Taken, mine
  <2>3. QED
    BY <1>16, <2>1, <2>2 DEF fillRunqueuesFromBST, enqueueRunnableThread
<1>17. ASSUME EnqueueCountLoad PROVE Taken'
  BY <1>17, GotoTaken DEF EnqueueCountLoad, procVars, treeVars, schedVars, fillVars, Chosen, Dequeueing
<1>18. ASSUME EnqueueCountStore PROVE Taken'
  BY <1>18, GotoTaken DEF EnqueueCountStore, procVars, treeVars, schedVars, fillVars, Chosen, Dequeueing
<1>19. ASSUME EnqueueSlotThenTail PROVE Taken'
  <2>1. enq.cpu \in CPUS /\ enq.thread \in Objects \cup {None}
    BY DEF Types, FillTypes
  <2>2. PICK k \in CPUS, t \in Objects \cup {None} : k = enq.cpu /\ t = enq.thread
    BY <2>1
  <2>3. queue' = [queue EXCEPT ![k] = Append(@, t)]
    BY <1>19, <2>2 DEF EnqueueSlotThenTail
  <2>4. /\ \A d \in CPUS : d # k => queue'[d] = queue[d]
        /\ Len(queue'[k]) = Len(queue[k]) + 1
        /\ \A i \in Slots(k) : queue'[k][i] = queue[k][i]
    BY <2>3, Appended
  <2>5. \A d \in CPUS : Len(queue[d]) \in Nat /\ Len(queue[d]) <= Len(queue'[d])
    <3>1. \A d \in CPUS : Len(queue[d]) \in Nat
      BY QueueTypes
    <3>2. QED
      BY <2>4, <3>1
  <2>6. \A d \in CPUS : head[d] = 1 => queue'[d][1] = queue[d][1]
    <3>1. \A d \in CPUS : head[d] = 1 => 1 \in Slots(d)
      BY <2>5 DEF Taken, Slots
    <3>2. head[k] = 1 => queue'[k][1] = queue[k][1]
      BY <2>4, <3>1
    <3>3. \A d \in CPUS : d # k => queue'[d][1] = queue[d][1]
      BY <2>4
    <3>4. QED
      BY <3>2, <3>3
  <2>7. QED
    BY <1>19, <2>5, <2>6, FillTaken DEF EnqueueSlotThenTail, procVars, treeVars, fillVars
<1>20. ASSUME EnqueueTailFirst PROVE Taken'
  <2>1. enq.cpu \in CPUS /\ enq.thread \in Objects \cup {None}
    BY DEF Types, FillTypes
  <2>2. PICK k \in CPUS, t \in Objects \cup {None} : k = enq.cpu /\ t = enq.thread
    BY <2>1
  <2>3. queue' = [queue EXCEPT ![k] = Append(@, None)]
    BY <1>20, <2>2 DEF EnqueueTailFirst
  <2>4. /\ \A d \in CPUS : d # k => queue'[d] = queue[d]
        /\ Len(queue'[k]) = Len(queue[k]) + 1
        /\ \A i \in Slots(k) : queue'[k][i] = queue[k][i]
    BY <2>3, Appended
  <2>5. \A d \in CPUS : Len(queue[d]) \in Nat /\ Len(queue[d]) <= Len(queue'[d])
    <3>1. \A d \in CPUS : Len(queue[d]) \in Nat
      BY QueueTypes
    <3>2. QED
      BY <2>4, <3>1
  <2>6. \A d \in CPUS : head[d] = 1 => queue'[d][1] = queue[d][1]
    <3>1. \A d \in CPUS : head[d] = 1 => 1 \in Slots(d)
      BY <2>5 DEF Taken, Slots
    <3>2. head[k] = 1 => queue'[k][1] = queue[k][1]
      BY <2>4, <3>1
    <3>3. \A d \in CPUS : d # k => queue'[d][1] = queue[d][1]
      BY <2>4
    <3>4. QED
      BY <3>2, <3>3
  <2>7. QED
    BY <1>20, <2>5, <2>6, FillTaken DEF EnqueueTailFirst, procVars, treeVars, fillVars
<1>21. ASSUME EnqueueSlotLast PROVE Taken'
  <2>1. enq.cpu \in CPUS /\ enq.thread \in Objects \cup {None}
    BY DEF Types, FillTypes
  <2>2. PICK k \in CPUS, t \in Objects \cup {None} : k = enq.cpu /\ t = enq.thread
    BY <2>1
  <2>3. PICK n \in Nat : n = Len(queue[k])
    BY QueueTypes
  <2>4. n # 0
    BY <1>21, <2>2, <2>3 DEF EnqueueSlotLast, Handed
  <2>5. /\ \A d \in CPUS : d # k => queue'[d] = queue[d]
        /\ \A d \in CPUS : Len(queue'[d]) = Len(queue[d])
        /\ \A i \in Slots(k) : queue'[k][i] = IF i = Len(queue[k]) THEN t ELSE queue[k][i]
    <3>1. Len(queue[k]) # 0
      BY <2>3, <2>4
    <3>2. QED
      BY <1>21, <2>2, <3>1, Overwritten
  <2>6. \A d \in CPUS : Len(queue[d]) \in Nat /\ Len(queue[d]) <= Len(queue'[d])
    <3>1. \A d \in CPUS : Len(queue[d]) \in Nat
      BY QueueTypes
    <3>2. \A d \in CPUS : Len(queue'[d]) = Len(queue[d])
      BY <2>5
    <3>3. QED
      BY <3>1, <3>2
  <2>7. early \subseteq early' /\ (head[k] >= n => t \in early')
    BY <1>21, <2>2, <2>3 DEF EnqueueSlotLast
  <2>8. \A d \in CPUS : head[d] = 1 => queue'[d][1] = queue[d][1] \/ queue'[d][1] \in early'
    <3>1. 1 \in Slots(k) /\ (n = 1 => queue'[k][1] = t) /\ (n # 1 => queue'[k][1] = queue[k][1])
      <4>1. 1 \in Slots(k)
        BY <2>3, <2>4 DEF Slots
      <4>2. queue'[k][1] = IF 1 = n THEN t ELSE queue[k][1]
        BY <2>3, <2>5, <4>1
      <4>3. QED
        BY <4>1, <4>2
    <3>2. head[k] = 1 => queue'[k][1] = queue[k][1] \/ queue'[k][1] \in early'
      BY <2>7, <3>1
    <3>3. QED
      BY <2>5, <3>2
  <2>9. given \subseteq given' /\ head' = head /\ found' = found /\ pid' = pid /\ round' = round /\ Goto(BSP, "fill")
    BY <1>21 DEF EnqueueSlotLast, procVars, treeVars
  <2>10. QED
    BY <2>6, <2>7, <2>8, <2>9, FillTaken
<1>22. ASSUME FillEnds PROVE Taken'
  BY <1>22, GotoTaken DEF FillEnds, procVars, treeVars, schedVars, fillVars, Chosen, Dequeueing
<1>23. ASSUME NEW c \in APS, TimerCounts(c) PROVE Taken'
  <2>1. UNCHANGED <<pc, head, queue, early, given, pid, round, found>>
    BY <1>23 DEF TimerCounts, procVars, treeVars, fillVars
  <2>2. QED
    BY <2>1 DEF Taken, mine
<1>24. ASSUME NEW c \in APS, TimerSchedules(c) PROVE Taken'
  <2>1. c \in CPUS /\ pc[c] = "loop"
    BY <1>24 DEF TimerSchedules, Control, APS
  <2>2. \A d \in CPUS : pc'[d] = IF d = c THEN "getpid" ELSE pc[d]
    BY <1>24, <2>1 DEF TimerSchedules, Goto, Types, PcTypes
  <2>3. UNCHANGED <<head, queue, early, given, pid, found>>
    BY <1>24 DEF TimerSchedules, treeVars, fillVars
  <2>4. \A d \in CPUS : d # c => mine(d)' = mine(d)
    BY <1>24 DEF TimerSchedules, mine, Types, ProcTypes
  <2>5. \A d \in CPUS : pc'[d] \in Chosen => d # c /\ pc[d] \in Chosen
    BY <2>2 DEF Chosen, Dequeueing
  <2>6. \A d \in CPUS : pc'[d] \in Chosen => found'[d] \in given' \/ pid'[found'[d]] = pid'[mine(d)']
    BY <2>3, <2>4, <2>5 DEF Taken
  <2>7. \A d \in CPUS : pc'[d] \in Dequeueing => pc[d] \in Dequeueing
    BY <2>2 DEF Dequeueing
  <2>8. \A d \in CPUS : pc[d] \in {"run", "running"} => pc'[d] \in {"run", "running"}
    BY <2>1, <2>2
  <2>9. \A d \in CPUS : Len(queue[d]) <= Len(queue'[d])
    BY <2>3, QueueTypes
  <2>10. QED
    BY <2>3, <2>6, <2>7, <2>8, <2>9, KeepTaken
<1>25. CASE UNCHANGED vars
  BY <1>25 DEF vars, Taken, mine
<1>26. QED
  BY <1>1, <1>2, <1>3, <1>4, <1>5, <1>6, <1>7, <1>8, <1>9, <1>10, <1>11, <1>12, <1>13, <1>14, <1>15, <1>16, <1>17, <1>18, <1>19, <1>20, <1>21, <1>22, <1>23, <1>24, <1>25 DEF Next, CpuStep, FillStep, Timer

(***************************************************************************)
(* The terms of the load equation are numbers.                             *)
(***************************************************************************)
LEMMA LoadTerms ==
    ASSUME Types
    PROVE  \A d \in CPUS : /\ load[d] \in Nat /\ head[d] \in Nat /\ Len(queue[d]) \in Nat
                           /\ Taking(d) \in Nat /\ Coming(d) \in Nat
<1>1. \A d \in CPUS : load[d] \in Nat /\ head[d] \in Nat
  BY WordFacts DEF Types, SchedTypes
<1>2. \A d \in CPUS : Len(queue[d]) \in Nat
  BY QueueTypes
<1>3. QED
  BY <1>1, <1>2 DEF Taking, Coming

(***************************************************************************)
(* sched.c, dequeueThread(): when an AP is about to lower its count, the   *)
(* count is 1, and the BSP is not about to raise it.                       *)
(***************************************************************************)
LEMMA CountIsOne ==
    ASSUME Types, Taken, Loads, NEW c \in CPUS, pc[c] \in {"deq_load", "deq_store"}
    PROVE  load[c] = 1 /\ Coming(c) = 0 /\ head[c] = 0 /\ Taking(c) = 0 /\ Len(queue[c]) = 1
<1>1. head[c] = 0 /\ head[c] < Len(queue[c]) /\ Taking(c) = 0
  BY DEF Taken, Dequeueing, Taking
<1>2. load[c] <= 1 /\ load[c] + head[c] + Taking(c) = Len(queue[c]) + Coming(c)
  BY DEF Loads
<1>3. load[c] \in Nat /\ Len(queue[c]) \in Nat /\ Coming(c) \in Nat
  BY LoadTerms
<1>4. load[c] = Len(queue[c]) + Coming(c)
  BY <1>1, <1>2, <1>3
<1>5. 0 < Len(queue[c]) /\ load[c] <= 1
  BY <1>1, <1>2
<1>6. \A x, y, z \in Nat : x <= 1 /\ 0 < y /\ x = y + z => x = 1 /\ y = 1 /\ z = 0
  OBVIOUS
<1>7. load[c] = 1 /\ Len(queue[c]) = 1 /\ Coming(c) = 0
  BY <1>3, <1>4, <1>5, <1>6
<1>8. QED
  BY <1>1, <1>7

(***************************************************************************)
(* sched.c, leastLoadedCPU(): a CPU without a queued thread is found when  *)
(* the traversal meets a process.  If every CPU had one, as many different *)
(* processes would have been handed out as there are CPUs, and each CPU    *)
(* makes one: there would be none left to meet.                            *)
(***************************************************************************)
LEMMA LeastIsZero ==
    ASSUME Types, Made, Handed, Taken, Loads, pc[BSP] = "fill",
           NEW o \in tree \ visited, NEW k \in CPUS, leastLoadedCPU(k)
    PROVE  load[k] = 0
<1>1. SUFFICES ASSUME load[k] # 0 PROVE FALSE
  OBVIOUS
<1>2. \A d \in CPUS : load[d] >= 1
  BY <1>1, LoadTerms DEF leastLoadedCPU
<1>3. \A d \in CPUS : Coming(d) = 0
  BY DEF Coming
<1>4. \A d \in CPUS : Len(queue[d]) \in Nat /\ Len(queue[d]) >= 1
  BY <1>2, <1>3, LoadTerms DEF Loads
<1>5. \A d \in CPUS : 1 \in Slots(d)
  BY <1>4 DEF Slots
<1>6. \A d \in CPUS : queue[d][1] \in given
  BY <1>5 DEF Handed
<1>7. \A d \in CPUS : queue[d][1] \in tree
  BY <1>6 DEF Handed
<1>8. \A d \in CPUS : queue[d][1] = <<queue[d][1][1], 1>> /\ queue[d][1][1] \in CPUS
  BY <1>7 DEF Made
<1>9. o = <<o[1], 1>> /\ o[1] \in CPUS /\ o \notin given
  BY DEF Made, Handed
<1>10. \A d \in CPUS : queue[d][1][1] # o[1]
  BY <1>6, <1>8, <1>9
<1> DEFINE g == [d \in CPUS |-> queue[d][1][1]]
<1>11. g \in [CPUS -> CPUS \ {o[1]}]
  BY <1>8, <1>10
<1>12. IsFiniteSet(CPUS \ {o[1]}) /\ Cardinality(CPUS \ {o[1]}) = Cardinality(CPUS) - 1
       /\ Cardinality(CPUS) \in Nat
  BY <1>9, CpusAssumption, FS_RemoveElement, FS_CardinalityType
<1>13. \E x, y \in CPUS : x # y /\ g[x] = g[y]
  <2> HIDE DEF g
  <2>1. Cardinality(CPUS \ {o[1]}) < Cardinality(CPUS)
    BY <1>12
  <2>2. PICK T : T = CPUS \ {o[1]}
    OBVIOUS
  <2>3. IsFiniteSet(T) /\ Cardinality(T) < Cardinality(CPUS) /\ g \in [CPUS -> T]
    BY <1>11, <1>12, <2>1, <2>2
  <2>4. IsFiniteSet(CPUS)
    BY CpusAssumption
  <2>5. QED
    BY <2>3, <2>4, FS_PigeonHole, SMTT(20)
<1>14. PICK x \in CPUS, y \in CPUS : x # y /\ queue[x][1][1] = queue[y][1][1]
  BY <1>13
<1>15. queue[x][1] = queue[y][1] /\ queue[x][1] # None
  BY <1>6, <1>8, <1>14, NotNone DEF Types, FillTypes
<1>16. QED
  BY <1>5, <1>14, <1>15 DEF Handed

(***************************************************************************)
(* A CPU goes from place to place, away from the places where a count and  *)
(* a queue differ or a loaded count is held.                               *)
(***************************************************************************)
LEMMA GotoLoads ==
    ASSUME Types, Loads, NEW c \in CPUS, NEW l, Goto(c, l),
           load' = load, head' = head, enq' = enq,
           \A d \in CPUS : Len(queue'[d]) = Len(queue[d]),
           \A d \in CPUS : d # c => reg'[d] = reg[d],
           pc[c] \notin {"deq_take", "enq_tail"},
           l \notin {"deq_store", "deq_take", "enq_load", "enq_store", "enq_tail"}
    PROVE  Loads'
<1> USE CpusAssumption
<1>1. \A d \in CPUS : pc'[d] = IF d = c THEN l ELSE pc[d]
  BY DEF Goto, Types, PcTypes
<1>2. \A d \in CPUS : Taking(d)' = Taking(d)
  BY <1>1 DEF Taking
<1>3. \A d \in CPUS : Coming(d)' = Coming(d)
  BY <1>1 DEF Coming
<1>4. (\A d \in CPUS : load[d] <= 1)'
  BY DEF Loads
<1>5. (\A d \in CPUS : load[d] + head[d] + Taking(d) = Len(queue[d]) + Coming(d))'
  BY <1>2, <1>3 DEF Loads
<1>6. (pc[BSP] \in {"enq_load", "enq_store"} => load[enq.cpu] = 0)'
  BY <1>1 DEF Loads
<1>7. (pc[BSP] = "enq_store" => reg[BSP] = 0)' /\ (\A d \in CPUS : pc[d] = "deq_store" => reg[d] = 1)'
  BY <1>1 DEF Loads
<1>8. QED
  BY <1>4, <1>5, <1>6, <1>7 DEF Loads

(***************************************************************************)
(* Every step of either side of the unlocked counts keeps them right.      *)
(***************************************************************************)
LEMMA NextLoads ==
    ASSUME Types, Control, Made, Handed, Taken, Loads, [Next]_vars
    PROVE  Loads'
<1> USE CpusAssumption
<1>1. ASSUME NEW c \in CPUS, getProcessIDLoad(c) PROVE Loads'
  <2>1. \A d \in CPUS : d # c => reg'[d] = reg[d]
    BY <1>1 DEF getProcessIDLoad, Types, ProcTypes
  <2>2. QED
    BY <1>1, <2>1, GotoLoads DEF getProcessIDLoad, schedVars, fillVars
<1>2. ASSUME NEW c \in CPUS, getProcessIDStore(c) PROVE Loads'
  BY <1>2, GotoLoads DEF getProcessIDStore, procVars, schedVars, fillVars
<1>3. ASSUME NEW c \in CPUS, createKernelThreadBegin(c) PROVE Loads'
  BY <1>3, GotoLoads DEF createKernelThreadBegin, procVars, schedVars, fillVars
<1>4. ASSUME NEW c \in CPUS, createKernelThreadEnd(c) PROVE Loads'
  BY <1>4, GotoLoads DEF createKernelThreadEnd, procVars, schedVars, fillVars
<1>5. ASSUME NEW c \in CPUS, InsertAcquire(c) PROVE Loads'
  BY <1>5, GotoLoads DEF InsertAcquire, procVars, schedVars, fillVars
<1>6. ASSUME NEW c \in CPUS, rbInsert(c) PROVE Loads'
  BY <1>6, GotoLoads DEF rbInsert, procVars, schedVars, fillVars
<1>7. ASSUME NEW c \in CPUS, InsertRelease(c) PROVE Loads'
  <2>1. PICK l \in {"fill", "srch_acquire"} : Goto(c, l)
    BY <1>7 DEF InsertRelease
  <2>2. QED
    BY <1>7, <2>1, GotoLoads DEF InsertRelease, procVars, schedVars, fillVars
<1>8. ASSUME NEW c \in CPUS, SearchAcquire(c) PROVE Loads'
  BY <1>8, GotoLoads DEF SearchAcquire, procVars, schedVars, fillVars
<1>9. ASSUME NEW c \in CPUS, rbSearch(c) PROVE Loads'
  BY <1>9, GotoLoads DEF rbSearch, procVars, schedVars, fillVars
<1>10. ASSUME NEW c \in CPUS, SearchRelease(c) PROVE Loads'
  BY <1>10, GotoLoads DEF SearchRelease, procVars, schedVars, fillVars
<1>11. ASSUME NEW c \in CPUS, dequeueThread(c) PROVE Loads'
  <2>1. pc[c] = "switch" /\ UNCHANGED <<procVars, treeVars, schedVars, fillVars>>
    BY <1>11, NoRequeue
  <2>2. PICK l \in {"deq_load", "run"} : Goto(c, l)
    BY <1>11, NoRequeue DEF Goto
  <2>3. QED
    BY <2>1, <2>2, GotoLoads DEF procVars, schedVars, fillVars
<1>12. ASSUME NEW c \in CPUS, DequeueCountLoad(c) PROVE Loads'
  <2>1. load[c] = 1 /\ c # BSP
    BY <1>12, CountIsOne, Where DEF DequeueCountLoad
  <2>2. \A d \in CPUS : pc'[d] = IF d = c THEN "deq_store" ELSE pc[d]
    BY <1>12 DEF DequeueCountLoad, Goto, Types, PcTypes
  <2>3. \A d \in CPUS : reg'[d] = IF d = c THEN 1 ELSE reg[d]
    BY <1>12, <2>1 DEF DequeueCountLoad, Types, ProcTypes
  <2>4. UNCHANGED <<load, head, queue, enq>> /\ pc[c] = "deq_load"
    BY <1>12 DEF DequeueCountLoad, schedVars, fillVars
  <2>5. \A d \in CPUS : Taking(d)' = Taking(d) /\ Coming(d)' = Coming(d)
    BY <2>1, <2>2, <2>4 DEF Taking, Coming
  <2>6. (\A d \in CPUS : load[d] <= 1)'
    BY <2>4 DEF Loads
  <2>7. (\A d \in CPUS : load[d] + head[d] + Taking(d) = Len(queue[d]) + Coming(d))'
    BY <2>4, <2>5 DEF Loads
  <2>8. (pc[BSP] \in {"enq_load", "enq_store"} => load[enq.cpu] = 0)' /\ (pc[BSP] = "enq_store" => reg[BSP] = 0)'
    BY <2>1, <2>2, <2>3, <2>4 DEF Loads
  <2>9. (\A d \in CPUS : pc[d] = "deq_store" => reg[d] = 1)'
    BY <2>2, <2>3 DEF Loads
  <2>10. QED
    BY <2>6, <2>7, <2>8, <2>9 DEF Loads
<1>13. ASSUME NEW c \in CPUS, DequeueCountStore(c) PROVE Loads'
  <2>1. c # BSP /\ pc[c] = "deq_store" /\ reg[c] = 1
    BY <1>13, Where DEF DequeueCountStore, Loads
  <2>2. load[c] = 1 /\ Coming(c) = 0 /\ head[c] = 0 /\ Taking(c) = 0 /\ Len(queue[c]) = 1
    BY <2>1, CountIsOne
  <2>3. \A d \in CPUS : pc'[d] = IF d = c THEN "deq_take" ELSE pc[d]
    BY <1>13 DEF DequeueCountStore, Goto, Types, PcTypes
  <2>4. \A d \in CPUS : load'[d] = IF d = c THEN 0 ELSE load[d]
    <3>1. (reg[c] + WORD - 1) % WORD = 0
      BY <2>1, WordFacts
    <3>2. QED
      BY <1>13, <3>1 DEF DequeueCountStore, Types, SchedTypes
  <2>5. UNCHANGED <<reg, head, queue, enq>>
    BY <1>13 DEF DequeueCountStore, procVars, fillVars
  <2>6. \A d \in CPUS : Coming(d)' = Coming(d)
    BY <2>1, <2>3, <2>5 DEF Coming
  <2>7. Taking(c)' = 1 /\ \A d \in CPUS : d # c => Taking(d)' = Taking(d)
    BY <2>3 DEF Taking
  <2>8. (\A d \in CPUS : load[d] <= 1)'
    BY <2>4 DEF Loads
  <2>9. (\A d \in CPUS : load[d] + head[d] + Taking(d) = Len(queue[d]) + Coming(d))'
    <3>1. \A d \in CPUS : d # c => (load[d] + head[d] + Taking(d) = Len(queue[d]) + Coming(d))'
      BY <2>4, <2>5, <2>6, <2>7 DEF Loads
    <3>2. (load[c] + head[c] + Taking(c) = Len(queue[c]) + Coming(c))'
      <4>1. load'[c] = 0 /\ head'[c] = 0 /\ Len(queue'[c]) = 1
        BY <2>2, <2>4, <2>5
      <4>2. Coming(c)' = 0 /\ Taking(c)' = 1
        BY <2>2, <2>6, <2>7
      <4>3. QED
        BY <4>1, <4>2
    <3>3. QED
      BY <3>1, <3>2
  <2>10. (pc[BSP] \in {"enq_load", "enq_store"} => load[enq.cpu] = 0)'
    <3>1. enq.cpu \in CPUS
      BY DEF Types, FillTypes
    <3>2. QED
      BY <2>1, <2>3, <2>4, <2>5, <3>1 DEF Loads
  <2>11. (pc[BSP] = "enq_store" => reg[BSP] = 0)' /\ (\A d \in CPUS : pc[d] = "deq_store" => reg[d] = 1)'
    BY <2>1, <2>3, <2>5 DEF Loads
  <2>12. QED
    BY <2>8, <2>9, <2>10, <2>11 DEF Loads
<1>14. ASSUME NEW c \in CPUS, DequeueTake(c) PROVE Loads'
  <2>1. c # BSP /\ pc[c] = "deq_take" /\ head[c] = 0 /\ Taking(c) = 1
    BY <1>14, Where, TakenSlot DEF DequeueTake, Taking
  <2>2. \A d \in CPUS : pc'[d] = IF d = c THEN "run" ELSE pc[d]
    BY <1>14 DEF DequeueTake, Goto, Types, PcTypes
  <2>3. \A d \in CPUS : head'[d] = IF d = c THEN 1 ELSE head[d]
    BY <1>14, <2>1 DEF DequeueTake, Types, SchedTypes
  <2>4. UNCHANGED <<reg, load, queue, enq>>
    BY <1>14 DEF DequeueTake, procVars, fillVars
  <2>5. \A d \in CPUS : Coming(d)' = Coming(d)
    BY <2>1, <2>2, <2>4 DEF Coming
  <2>6. Taking(c)' = 0 /\ \A d \in CPUS : d # c => Taking(d)' = Taking(d)
    BY <2>2 DEF Taking
  <2>7. (\A d \in CPUS : load[d] + head[d] + Taking(d) = Len(queue[d]) + Coming(d))'
    <3>1. \A d \in CPUS : d # c => (load[d] + head[d] + Taking(d) = Len(queue[d]) + Coming(d))'
      BY <2>3, <2>4, <2>5, <2>6 DEF Loads
    <3>2. load[c] + 0 + 1 = Len(queue[c]) + Coming(c)
      BY <2>1 DEF Loads
    <3>3. (load[c] + head[c] + Taking(c) = Len(queue[c]) + Coming(c))'
      BY <2>3, <2>4, <2>5, <2>6, <3>2, LoadTerms
    <3>4. QED
      BY <3>1, <3>3
  <2>8. (\A d \in CPUS : load[d] <= 1)'
    BY <2>4 DEF Loads
  <2>9. (pc[BSP] \in {"enq_load", "enq_store"} => load[enq.cpu] = 0)'
    BY <2>1, <2>2, <2>4 DEF Loads
  <2>10. (pc[BSP] = "enq_store" => reg[BSP] = 0)' /\ (\A d \in CPUS : pc[d] = "deq_store" => reg[d] = 1)'
    BY <2>1, <2>2, <2>4 DEF Loads
  <2>11. QED
    BY <2>7, <2>8, <2>9, <2>10 DEF Loads
<1>15. ASSUME NEW c \in CPUS, switchTask(c) PROVE Loads'
  BY <1>15, GotoLoads DEF switchTask, procVars, schedVars, fillVars
<1>16. ASSUME fillRunqueuesFromBST PROVE Loads'
  <2>1. PICK o \in Objects : NextInOrder(o) /\ enqueueRunnableThread(o)
    BY <1>16 DEF fillRunqueuesFromBST
  <2>2. pc[BSP] = "fill" /\ UNCHANGED <<reg, load, head, queue>>
    BY <1>16 DEF fillRunqueuesFromBST, procVars, schedVars
  <2>3. o \in tree \ visited
    BY <2>1 DEF NextInOrder, Ahead
  <2>4. CASE state[o] = "RUNNABLE"
    <3>1. PICK k \in CPUS : leastLoadedCPU(k) /\ enq' = [thread |-> o, cpu |-> k]
      BY <2>1, <2>4 DEF enqueueRunnableThread
    <3>2. load[k] = 0
      BY <2>2, <2>3, <3>1, LeastIsZero
    <3>3. \A d \in CPUS : pc'[d] = IF d = BSP THEN "enq_load" ELSE pc[d]
      BY <2>1, <2>4 DEF enqueueRunnableThread, Goto, Types, PcTypes
    <3>4. \A d \in CPUS : Coming(d)' = Coming(d)
      BY <2>2, <3>3 DEF Coming
    <3>5. \A d \in CPUS : Taking(d)' = Taking(d)
      BY <2>2, <3>3 DEF Taking
    <3>6. (\A d \in CPUS : load[d] + head[d] + Taking(d) = Len(queue[d]) + Coming(d))'
      BY <2>2, <3>4, <3>5 DEF Loads
    <3>7. enq'.cpu = k
      BY <3>1
    <3>8. (\A d \in CPUS : load[d] <= 1)'
      BY <2>2 DEF Loads
    <3>9. (pc[BSP] \in {"enq_load", "enq_store"} => load[enq.cpu] = 0)'
      BY <2>2, <3>2, <3>7
    <3>10. (pc[BSP] = "enq_store" => reg[BSP] = 0)' /\ (\A d \in CPUS : pc[d] = "deq_store" => reg[d] = 1)'
      BY <2>2, <3>3 DEF Loads
    <3>11. QED
      BY <3>6, <3>8, <3>9, <3>10 DEF Loads
  <2>5. CASE state[o] # "RUNNABLE"
    <3>1. UNCHANGED <<pc, enq>>
      BY <2>1, <2>5 DEF enqueueRunnableThread
    <3>2. QED
      BY <2>2, <3>1 DEF Loads, Taking, Coming
  <2>6. QED
    BY <2>4, <2>5
<1>17. ASSUME EnqueueCountLoad PROVE Loads'
  <2>1. pc[BSP] = "enq_load" /\ load[enq.cpu] = 0
    BY <1>17 DEF EnqueueCountLoad, Loads
  <2>2. \A d \in CPUS : pc'[d] = IF d = BSP THEN "enq_store" ELSE pc[d]
    BY <1>17 DEF EnqueueCountLoad, Goto, Types, PcTypes
  <2>3. \A d \in CPUS : reg'[d] = IF d = BSP THEN 0 ELSE reg[d]
    BY <1>17, <2>1 DEF EnqueueCountLoad, Types, ProcTypes
  <2>4. UNCHANGED <<load, head, queue, enq>>
    BY <1>17 DEF EnqueueCountLoad, schedVars, fillVars
  <2>5. \A d \in CPUS : Taking(d)' = Taking(d) /\ Coming(d)' = Coming(d)
    BY <2>1, <2>2, <2>4 DEF Taking, Coming
  <2>6. (\A d \in CPUS : load[d] + head[d] + Taking(d) = Len(queue[d]) + Coming(d))'
    BY <2>4, <2>5 DEF Loads
  <2>7. (\A d \in CPUS : load[d] <= 1)' /\ (pc[BSP] \in {"enq_load", "enq_store"} => load[enq.cpu] = 0)'
    BY <2>1, <2>4 DEF Loads
  <2>8. (pc[BSP] = "enq_store" => reg[BSP] = 0)' /\ (\A d \in CPUS : pc[d] = "deq_store" => reg[d] = 1)'
    BY <2>2, <2>3 DEF Loads
  <2>9. QED
    BY <2>6, <2>7, <2>8 DEF Loads
<1>18. ASSUME EnqueueCountStore PROVE Loads'
  <2>1. enq.cpu \in CPUS
    BY DEF Types, FillTypes
  <2>2. PICK k \in CPUS : k = enq.cpu
    BY <2>1
  <2>3. pc[BSP] = "enq_store" /\ load[k] = 0 /\ reg[BSP] = 0
    BY <1>18, <2>2 DEF EnqueueCountStore, Loads
  <2>4. \A d \in CPUS : load'[d] = IF d = k THEN 1 ELSE load[d]
    <3>1. (reg[BSP] + 1) % WORD = 1
      BY <2>3, WordFacts
    <3>2. QED
      BY <1>18, <2>2, <3>1 DEF EnqueueCountStore, Types, SchedTypes
  <2>5. \A d \in CPUS : pc'[d] = IF d = BSP THEN "enq_tail" ELSE pc[d]
    BY <1>18 DEF EnqueueCountStore, Goto, Types, PcTypes
  <2>6. UNCHANGED <<reg, head, queue, enq>>
    BY <1>18 DEF EnqueueCountStore, procVars, fillVars
  <2>7. \A d \in CPUS : Taking(d)' = Taking(d)
    BY <2>3, <2>5 DEF Taking
  <2>8. Coming(k)' = 1 /\ Coming(k) = 0 /\ \A d \in CPUS : d # k => Coming(d)' = Coming(d)
    BY <2>2, <2>3, <2>5, <2>6 DEF Coming
  <2>9. (\A d \in CPUS : load[d] + head[d] + Taking(d) = Len(queue[d]) + Coming(d))'
    <3>1. \A d \in CPUS : d # k => (load[d] + head[d] + Taking(d) = Len(queue[d]) + Coming(d))'
      BY <2>4, <2>6, <2>7, <2>8 DEF Loads
    <3>2. 0 + head[k] + Taking(k) = Len(queue[k]) + 0
      BY <2>3, <2>8 DEF Loads
    <3>3. (load[k] + head[k] + Taking(k) = Len(queue[k]) + Coming(k))'
      BY SMTT(30), <2>4, <2>6, <2>7, <2>8, <3>2, LoadTerms
    <3>4. QED
      BY <3>1, <3>3
  <2>10. (\A d \in CPUS : load[d] <= 1)'
    BY <2>4 DEF Loads
  <2>11. pc'[BSP] = "enq_tail" /\ (\A d \in CPUS : pc[d] = "deq_store" => reg[d] = 1)'
    BY <2>5, <2>6 DEF Loads
  <2>12. QED
    BY <2>9, <2>10, <2>11 DEF Loads
<1>19. ASSUME EnqueueSlotThenTail PROVE Loads'
  <2>1. enq.cpu \in CPUS /\ enq.thread \in Objects \cup {None}
    BY DEF Types, FillTypes
  <2>2. PICK k \in CPUS, t \in Objects \cup {None} : k = enq.cpu /\ t = enq.thread
    BY <2>1
  <2>3. queue' = [queue EXCEPT ![k] = Append(@, t)]
    BY <1>19, <2>2 DEF EnqueueSlotThenTail
  <2>4. Len(queue'[k]) = Len(queue[k]) + 1 /\ \A d \in CPUS : d # k => Len(queue'[d]) = Len(queue[d])
    BY <2>3, Appended
  <2>5. pc[BSP] = "enq_tail" /\ \A d \in CPUS : pc'[d] = IF d = BSP THEN "fill" ELSE pc[d]
    BY <1>19 DEF EnqueueSlotThenTail, Goto, Types, PcTypes
  <2>6. UNCHANGED <<reg, head, load, enq>>
    BY <1>19 DEF EnqueueSlotThenTail, procVars, fillVars
  <2>7. \A d \in CPUS : Taking(d)' = Taking(d)
    BY <2>5 DEF Taking
  <2>8. Coming(k)' = 0 /\ Coming(k) = 1 /\ \A d \in CPUS : d # k => Coming(d)' = Coming(d)
    BY <2>2, <2>5, <2>6 DEF Coming
  <2>9. (\A d \in CPUS : load[d] + head[d] + Taking(d) = Len(queue[d]) + Coming(d))'
    <3>1. \A d \in CPUS : d # k => (load[d] + head[d] + Taking(d) = Len(queue[d]) + Coming(d))'
      BY <2>4, <2>6, <2>7, <2>8 DEF Loads
    <3>2. load[k] + head[k] + Taking(k) = Len(queue[k]) + 1
      BY <2>8 DEF Loads
    <3>3. (load[k] + head[k] + Taking(k) = Len(queue[k]) + Coming(k))'
      BY <2>4, <2>6, <2>7, <2>8, <3>2, LoadTerms
    <3>4. QED
      BY <3>1, <3>3
  <2>10. (\A d \in CPUS : load[d] <= 1)'
    BY <2>6 DEF Loads
  <2>11. pc'[BSP] = "fill" /\ (\A d \in CPUS : pc[d] = "deq_store" => reg[d] = 1)'
    BY <2>5, <2>6 DEF Loads
  <2>12. QED
    BY <2>9, <2>10, <2>11 DEF Loads
<1>20. ASSUME EnqueueTailFirst PROVE Loads'
  <2>1. enq.cpu \in CPUS /\ enq.thread \in Objects \cup {None}
    BY DEF Types, FillTypes
  <2>2. PICK k \in CPUS, t \in Objects \cup {None} : k = enq.cpu /\ t = enq.thread
    BY <2>1
  <2>3. queue' = [queue EXCEPT ![k] = Append(@, None)]
    BY <1>20, <2>2 DEF EnqueueTailFirst
  <2>4. Len(queue'[k]) = Len(queue[k]) + 1 /\ \A d \in CPUS : d # k => Len(queue'[d]) = Len(queue[d])
    BY <2>3, Appended
  <2>5. pc[BSP] = "enq_tail" /\ \A d \in CPUS : pc'[d] = IF d = BSP THEN "enq_slot" ELSE pc[d]
    BY <1>20 DEF EnqueueTailFirst, Goto, Types, PcTypes
  <2>6. UNCHANGED <<reg, head, load, enq>>
    BY <1>20 DEF EnqueueTailFirst, procVars, fillVars
  <2>7. \A d \in CPUS : Taking(d)' = Taking(d)
    BY <2>5 DEF Taking
  <2>8. Coming(k)' = 0 /\ Coming(k) = 1 /\ \A d \in CPUS : d # k => Coming(d)' = Coming(d)
    BY <2>2, <2>5, <2>6 DEF Coming
  <2>9. (\A d \in CPUS : load[d] + head[d] + Taking(d) = Len(queue[d]) + Coming(d))'
    <3>1. \A d \in CPUS : d # k => (load[d] + head[d] + Taking(d) = Len(queue[d]) + Coming(d))'
      BY <2>4, <2>6, <2>7, <2>8 DEF Loads
    <3>2. load[k] + head[k] + Taking(k) = Len(queue[k]) + 1
      BY <2>8 DEF Loads
    <3>3. (load[k] + head[k] + Taking(k) = Len(queue[k]) + Coming(k))'
      BY <2>4, <2>6, <2>7, <2>8, <3>2, LoadTerms
    <3>4. QED
      BY <3>1, <3>3
  <2>10. (\A d \in CPUS : load[d] <= 1)'
    BY <2>6 DEF Loads
  <2>11. pc'[BSP] = "enq_slot" /\ (\A d \in CPUS : pc[d] = "deq_store" => reg[d] = 1)'
    BY <2>5, <2>6 DEF Loads
  <2>12. QED
    BY <2>9, <2>10, <2>11 DEF Loads
<1>21. ASSUME EnqueueSlotLast PROVE Loads'
  <2>1. enq.cpu \in CPUS /\ enq.thread \in Objects \cup {None}
    BY DEF Types, FillTypes
  <2>2. PICK k \in CPUS, t \in Objects \cup {None} : k = enq.cpu /\ t = enq.thread
    BY <2>1
  <2>3. Len(queue[k]) # 0
    BY <1>21, <2>2 DEF EnqueueSlotLast, Handed
  <2>4. \A d \in CPUS : Len(queue'[d]) = Len(queue[d])
    BY <1>21, <2>2, <2>3, Overwritten
  <2>5. QED
    BY <1>21, <2>4, GotoLoads DEF EnqueueSlotLast, procVars
<1>22. ASSUME FillEnds PROVE Loads'
  BY <1>22, GotoLoads DEF FillEnds, procVars, schedVars, fillVars
<1>23. ASSUME NEW c \in APS, TimerCounts(c) PROVE Loads'
  <2>1. UNCHANGED <<pc, reg, load, head, queue, enq>>
    BY <1>23 DEF TimerCounts, procVars, fillVars
  <2>2. QED
    BY <2>1 DEF Loads, Taking, Coming
<1>24. ASSUME NEW c \in APS, TimerSchedules(c) PROVE Loads'
  <2>1. c \in CPUS /\ pc[c] = "loop"
    BY <1>24 DEF TimerSchedules, Control, APS
  <2>2. QED
    BY <1>24, <2>1, GotoLoads DEF TimerSchedules, fillVars
<1>25. CASE UNCHANGED vars
  BY <1>25 DEF vars, Loads, Taking, Coming
<1>26. QED
  BY <1>1, <1>2, <1>3, <1>4, <1>5, <1>6, <1>7, <1>8, <1>9, <1>10, <1>11, <1>12, <1>13, <1>14, <1>15, <1>16, <1>17, <1>18, <1>19, <1>20, <1>21, <1>22, <1>23, <1>24, <1>25 DEF Next, CpuStep, FillStep, Timer

(***************************************************************************)
(* There are finitely many processes.                                      *)
(***************************************************************************)
LEMMA FiniteObjects ==
    /\ IsFiniteSet(Objects) /\ Cardinality(Objects) \in Nat
    /\ IsFiniteSet(Numbered) /\ Cardinality(Numbered) \in Nat
    /\ Cardinality(Numbered) <= Cardinality(Objects)
<1>1. MaxRounds \in Nat /\ 1 \in Int /\ MaxRounds \in Int
  BY BoundsAssumption
<1>2. IsFiniteSet(1 .. MaxRounds)
  BY <1>1, FS_Interval
<1>3. IsFiniteSet(CPUS \X (1 .. MaxRounds))
  BY <1>2, CpusAssumption, FS_Product
<1>4. IsFiniteSet(Objects)
  BY <1>3 DEF Objects
<1>5. Numbered \subseteq Objects
  BY DEF Numbered
<1>6. QED
  BY <1>4, <1>5, FS_Subset, FS_CardinalityType

(***************************************************************************)
(* A count is below the word's limit.                                      *)
(***************************************************************************)
LEMMA LoadBelow ==
    ASSUME Types
    PROVE  \A d \in CPUS : load[d] < WORD
<1>1. WORD \in Nat
  BY BoundsAssumption
<1>2. load \in [CPUS -> 0 .. (WORD - 1)]
  BY DEF Types, SchedTypes
<1>3. QED
  BY <1>1, <1>2

(***************************************************************************)
(* No pid is given out: the bound stays.                                   *)
(***************************************************************************)
LEMMA GotoPids ==
    ASSUME Types, PidsBounded, NEW c \in CPUS, NEW l, Goto(c, l), pid' = pid, KProcessID' = KProcessID,
           \A d \in CPUS : d # c => reg'[d] = reg[d],
           reg'[c] <= MaxPid \/ reg'[c] < WORD, l = "storepid" => reg'[c] <= MaxPid,
           l \in {"loop", "getpid", "storepid"} => pc[c] \in {"loop", "getpid", "storepid"}
    PROVE  PidsBounded'
<1>1. \A d \in CPUS : pc'[d] = IF d = c THEN l ELSE pc[d]
  BY DEF Goto, Types, PcTypes
<1>2. MaxPid' = MaxPid
  BY DEF MaxPid, Numbered
<1>3. (KProcessID <= MaxPid /\ \A o \in Objects : pid[o] <= MaxPid)'
  BY <1>2 DEF PidsBounded
<1>4. (\A d \in CPUS : reg[d] <= MaxPid \/ reg[d] < WORD)'
  BY <1>2 DEF PidsBounded
<1>5. (\A d \in CPUS : pc[d] = "storepid" => reg[d] <= MaxPid)'
  BY <1>1, <1>2 DEF PidsBounded
<1>6. (\A d \in CPUS : pc[d] \in {"loop", "getpid", "storepid"} => pid[<<d, 1>>] = 0)'
  BY <1>1 DEF PidsBounded
<1>7. QED
  BY <1>3, <1>4, <1>5, <1>6 DEF PidsBounded

(***************************************************************************)
(* Every step keeps pids and counter below the number of pids given out.   *)
(***************************************************************************)
LEMMA NextPids ==
    ASSUME Types, Control, PidsBounded, [Next]_vars
    PROVE  PidsBounded'
<1> USE CpusAssumption
<1>0. \A d \in CPUS : reg[d] <= MaxPid \/ reg[d] < WORD
  BY DEF PidsBounded
<1>1. ASSUME NEW c \in CPUS, getProcessIDLoad(c) PROVE PidsBounded'
  <2>1. reg'[c] = KProcessID /\ \A d \in CPUS : d # c => reg'[d] = reg[d]
    BY <1>1 DEF getProcessIDLoad, Types, ProcTypes
  <2>2. reg'[c] <= MaxPid
    BY <2>1 DEF PidsBounded
  <2>3. QED
    BY <1>1, <2>1, <2>2, GotoPids DEF getProcessIDLoad
<1>2. ASSUME NEW c \in CPUS, getProcessIDStore(c) PROVE PidsBounded'
  <2>1. pc[c] = "storepid" /\ mine(c) = <<c, 1>> /\ mine(c) \in Objects
    BY <1>2, MineType DEF getProcessIDStore
  <2>2. pid[mine(c)] = 0 /\ reg[c] \in Nat /\ reg[c] <= MaxPid
    BY <2>1 DEF PidsBounded, Types, ProcTypes
  <2>3. \A o \in Objects : pid'[o] = IF o = mine(c) THEN reg[c] + 1 ELSE pid[o]
    BY <1>2, <2>1 DEF getProcessIDStore, Types, ProcTypes
  <2>4. Numbered' = Numbered \cup {mine(c)} /\ mine(c) \notin Numbered
    BY <2>1, <2>2, <2>3 DEF Numbered
  <2>5. Cardinality(Numbered') = Cardinality(Numbered) + 1
    BY <2>4, FiniteObjects, FS_AddElement
  <2>6. MaxPid \in Nat /\ MaxPid' = MaxPid + 1
    BY <2>5, FiniteObjects DEF MaxPid, FIRST_PID
  <2>7. \A d \in CPUS : pc'[d] = IF d = c THEN "newthread" ELSE pc[d]
    BY <1>2 DEF getProcessIDStore, Goto, Types, PcTypes
  <2>8. UNCHANGED reg /\ KProcessID' = reg[c] + 1
    BY <1>2 DEF getProcessIDStore
  <2>9. \A d \in CPUS : reg[d] \in Nat
    BY DEF Types, ProcTypes
  <2>10. (KProcessID <= MaxPid)'
    BY <2>2, <2>6, <2>8
  <2>11. (\A o \in Objects : pid[o] <= MaxPid)'
    <3>1. \A o \in Objects : pid[o] \in Nat /\ pid[o] <= MaxPid
      BY DEF PidsBounded, Types, ProcTypes
    <3>2. \A o \in Objects : pid'[o] <= MaxPid + 1
      BY <2>2, <2>3, <2>6, <3>1
    <3>3. QED
      BY <2>6, <3>2
  <2>12. (\A d \in CPUS : reg[d] <= MaxPid \/ reg[d] < WORD)'
    BY <1>0, <2>6, <2>8, <2>9
  <2>13. (\A d \in CPUS : pc[d] = "storepid" => reg[d] <= MaxPid)'
    BY <2>6, <2>7, <2>8, <2>9 DEF PidsBounded
  <2>14. (\A d \in CPUS : pc[d] \in {"loop", "getpid", "storepid"} => pid[<<d, 1>>] = 0)'
    <3>1. SUFFICES ASSUME NEW d \in CPUS, pc'[d] \in {"loop", "getpid", "storepid"}
                   PROVE  pid'[<<d, 1>>] = 0
      OBVIOUS
    <3>2. d # c /\ pid[<<d, 1>>] = 0
      BY <2>7, <3>1 DEF PidsBounded
    <3>3. <<d, 1>> \in Objects /\ <<d, 1>> # mine(c)
      BY <2>1, <3>2, BoundsAssumption DEF Objects
    <3>4. QED
      BY <2>3, <3>2, <3>3
  <2>15. QED
    BY <2>10, <2>11, <2>12, <2>13, <2>14 DEF PidsBounded
<1>3. ASSUME NEW c \in CPUS, createKernelThreadBegin(c) PROVE PidsBounded'
  BY <1>3, <1>0, GotoPids DEF createKernelThreadBegin, procVars
<1>4. ASSUME NEW c \in CPUS, createKernelThreadEnd(c) PROVE PidsBounded'
  BY <1>4, <1>0, GotoPids DEF createKernelThreadEnd, procVars
<1>5. ASSUME NEW c \in CPUS, InsertAcquire(c) PROVE PidsBounded'
  BY <1>5, <1>0, GotoPids DEF InsertAcquire, procVars
<1>6. ASSUME NEW c \in CPUS, rbInsert(c) PROVE PidsBounded'
  BY <1>6, <1>0, GotoPids DEF rbInsert, procVars
<1>7. ASSUME NEW c \in CPUS, InsertRelease(c) PROVE PidsBounded'
  <2>1. PICK l \in {"fill", "srch_acquire"} : Goto(c, l)
    BY <1>7 DEF InsertRelease
  <2>2. QED
    BY <1>7, <1>0, <2>1, GotoPids DEF InsertRelease, procVars
<1>8. ASSUME NEW c \in CPUS, SearchAcquire(c) PROVE PidsBounded'
  BY <1>8, <1>0, GotoPids DEF SearchAcquire, procVars
<1>9. ASSUME NEW c \in CPUS, rbSearch(c) PROVE PidsBounded'
  BY <1>9, <1>0, GotoPids DEF rbSearch, procVars
<1>10. ASSUME NEW c \in CPUS, SearchRelease(c) PROVE PidsBounded'
  BY <1>10, <1>0, GotoPids DEF SearchRelease, procVars
<1>11. ASSUME NEW c \in CPUS, dequeueThread(c) PROVE PidsBounded'
  <2>1. pc[c] = "switch" /\ UNCHANGED <<procVars, treeVars, schedVars, fillVars>>
    BY <1>11, NoRequeue
  <2>2. PICK l \in {"deq_load", "run"} : Goto(c, l)
    BY <1>11, NoRequeue DEF Goto
  <2>3. QED
    BY <1>0, <2>1, <2>2, GotoPids DEF procVars
<1>12. ASSUME NEW c \in CPUS, DequeueCountLoad(c) PROVE PidsBounded'
  <2>1. reg'[c] = load[c] /\ \A d \in CPUS : d # c => reg'[d] = reg[d]
    BY <1>12 DEF DequeueCountLoad, Types, ProcTypes
  <2>2. reg'[c] < WORD
    BY <2>1, LoadBelow
  <2>3. QED
    BY <1>12, <2>1, <2>2, GotoPids DEF DequeueCountLoad
<1>13. ASSUME NEW c \in CPUS, DequeueCountStore(c) PROVE PidsBounded'
  BY <1>13, <1>0, GotoPids DEF DequeueCountStore, procVars
<1>14. ASSUME NEW c \in CPUS, DequeueTake(c) PROVE PidsBounded'
  BY <1>14, <1>0, GotoPids DEF DequeueTake, procVars
<1>15. ASSUME NEW c \in CPUS, switchTask(c) PROVE PidsBounded'
  BY <1>15, <1>0, GotoPids DEF switchTask, procVars
<1>16. ASSUME fillRunqueuesFromBST PROVE PidsBounded'
  <2>1. CASE Goto(BSP, "enq_load")
    BY <1>16, <1>0, <2>1, GotoPids DEF fillRunqueuesFromBST, procVars
  <2>2. CASE UNCHANGED pc
    BY <1>16, <2>2 DEF fillRunqueuesFromBST, procVars, PidsBounded, MaxPid, Numbered
  <2>3. QED
    BY <1>16, <2>1, <2>2 DEF fillRunqueuesFromBST, enqueueRunnableThread
<1>17. ASSUME EnqueueCountLoad PROVE PidsBounded'
  <2>1. reg'[BSP] = load[enq.cpu] /\ \A d \in CPUS : d # BSP => reg'[d] = reg[d]
    BY <1>17 DEF EnqueueCountLoad, Types, ProcTypes
  <2>2. reg'[BSP] < WORD
    <3>1. enq.cpu \in CPUS
      BY DEF Types, FillTypes
    <3>2. \A d \in CPUS : load[d] < WORD
      BY LoadBelow
    <3>3. QED
      BY <2>1, <3>1, <3>2
  <2>3. QED
    BY <1>17, <2>1, <2>2, GotoPids DEF EnqueueCountLoad
<1>18. ASSUME EnqueueCountStore PROVE PidsBounded'
  BY <1>18, <1>0, GotoPids DEF EnqueueCountStore, procVars
<1>19. ASSUME EnqueueSlotThenTail PROVE PidsBounded'
  BY <1>19, <1>0, GotoPids DEF EnqueueSlotThenTail, procVars
<1>20. ASSUME EnqueueTailFirst PROVE PidsBounded'
  BY <1>20, <1>0, GotoPids DEF EnqueueTailFirst, procVars
<1>21. ASSUME EnqueueSlotLast PROVE PidsBounded'
  BY <1>21, <1>0, GotoPids DEF EnqueueSlotLast, procVars
<1>22. ASSUME FillEnds PROVE PidsBounded'
  BY <1>22, <1>0, GotoPids DEF FillEnds, procVars
<1>23. ASSUME NEW c \in APS, TimerCounts(c) PROVE PidsBounded'
  BY <1>23 DEF TimerCounts, procVars, PidsBounded, MaxPid, Numbered
<1>24. ASSUME NEW c \in APS, TimerSchedules(c) PROVE PidsBounded'
  <2>1. c \in CPUS /\ pc[c] = "loop"
    BY <1>24 DEF TimerSchedules, Control, APS
  <2>2. QED
    BY <1>24, <1>0, <2>1, GotoPids DEF TimerSchedules
<1>25. CASE UNCHANGED vars
  BY <1>25 DEF vars, PidsBounded, MaxPid, Numbered
<1>26. QED
  BY <1>1, <1>2, <1>3, <1>4, <1>5, <1>6, <1>7, <1>8, <1>9, <1>10, <1>11, <1>12, <1>13, <1>14, <1>15, <1>16, <1>17, <1>18, <1>19, <1>20, <1>21, <1>22, <1>23, <1>24, <1>25 DEF Next, CpuStep, FillStep, Timer

(***************************************************************************)
(* kernel_main() after smpInit(): the invariant holds at first.            *)
(***************************************************************************)
LEMMA InitKInv == Init => KInv
<1> SUFFICES ASSUME Init PROVE KInv
  OBVIOUS
<1> USE CpusAssumption
<1>1. PcTypes
  BY DEF Init, PcTypes, BspPlaces, ApPlaces, Making
<1>2. ProcTypes
  BY BoundsAssumption DEF Init, ProcTypes, FIRST_PID, States
<1>3. TreeTypes
  BY DEF Init, TreeTypes
<1>4. SchedTypes
  <2>1. 0 \in 0 .. (WORD - 1) /\ 0 \in 0 .. TIME_SLICE_TICKS
    <3>1. WORD \in Nat /\ WORD >= 2
      BY WordFacts
    <3>2. QED
      BY <3>1, BoundsAssumption
  <2>2. load \in [CPUS -> 0 .. (WORD - 1)] /\ ticks \in [CPUS -> 0 .. TIME_SLICE_TICKS]
    BY <2>1 DEF Init
  <2>3. <<>> \in Seq(Objects \cup {None})
    OBVIOUS
  <2>4. queue \in [CPUS -> Seq(Objects \cup {None})]
    BY <2>3 DEF Init
  <2>5. QED
    BY <2>2, <2>4 DEF Init, SchedTypes
<1>5. FillTypes
  BY DEF Init, FillTypes
<1>6. Types
  BY <1>1, <1>2, <1>3, <1>4, <1>5 DEF Types
<1>7. Control
  BY BoundsAssumption DEF Init, Control, APS, BspPlaces, ApPlaces, Making
<1>8. \A c \in CPUS : pc[c] \in {"getpid", "loop"} /\ head[c] = 0 /\ load[c] = 0 /\ reg[c] = 0
  BY DEF Init
<1>9. \A c \in CPUS : queue[c] = <<>> /\ Slots(c) = {} /\ Len(queue[c]) = 0
  BY DEF Init, Slots
<1>10. Made
  BY <1>8 DEF Init, Made, Inserted, Chosen, Dequeueing, Enqueueing
<1>11. Handed
  BY <1>8, <1>9 DEF Init, Handed, Enqueueing
<1>12. Taken
  <2>1. \A c \in CPUS : head[c] <= Len(queue[c]) /\ head[c] <= 1 /\ head[c] # 1
    BY <1>8, <1>9
  <2>2. \A c \in CPUS : pc[c] \notin Dequeueing /\ pc[c] \notin Chosen
    BY <1>8 DEF Chosen, Dequeueing
  <2>3. QED
    BY <1>8, <2>1, <2>2 DEF Taken
<1>13. Loads
  <2>1. \A c \in CPUS : Taking(c) = 0 /\ Coming(c) = 0
    BY <1>8 DEF Taking, Coming
  <2>2. \A c \in CPUS : load[c] <= 1 /\ load[c] + head[c] + Taking(c) = Len(queue[c]) + Coming(c)
    BY <1>8, <1>9, <2>1
  <2>3. \A c \in CPUS : pc[c] \notin {"enq_load", "enq_store", "deq_store"}
    BY <1>8
  <2>4. QED
    BY <2>2, <2>3 DEF Loads
<1>14. PidsBounded
  <2>1. \A o \in Objects : pid[o] = 0
    BY DEF Init
  <2>2. MaxPid \in Nat /\ MaxPid >= FIRST_PID /\ KProcessID = FIRST_PID /\ FIRST_PID \in Nat
    BY FiniteObjects DEF MaxPid, FIRST_PID, Init
  <2>3. \A c \in CPUS : <<c, 1>> \in Objects
    BY BoundsAssumption DEF Objects
  <2>4. KProcessID <= MaxPid /\ 0 <= MaxPid
    BY <2>2
  <2>5. \A c \in CPUS : pc[c] # "storepid" /\ pid[<<c, 1>>] = 0
    BY <1>8, <2>1, <2>3
  <2>6. QED
    BY <1>8, <2>1, <2>4, <2>5 DEF PidsBounded
<1>15. QED
  BY <1>6, <1>7, <1>10, <1>11, <1>12, <1>13, <1>14 DEF KInv

(***************************************************************************)
(* The whole kernel, with any finite number of CPUs: in every interleaving *)
(* of the boot processor's traversal and the APs' schedule() each CPU      *)
(* makes one process, no unfinished process is in the tree, what is handed *)
(* out is in one slot, an AP takes one thread, and the unlocked counts     *)
(* follow the queues.                                                      *)
(***************************************************************************)
THEOREM KernelInv == Spec => []KInv
<1>1. Init => KInv
  BY InitKInv
<1>2. KInv /\ [Next]_vars => KInv'
  <2>1. SUFFICES ASSUME KInv, [Next]_vars PROVE KInv'
    OBVIOUS
  <2>2. Types /\ Control /\ Made /\ Handed /\ Taken /\ Loads /\ PidsBounded
    BY <2>1 DEF KInv
  <2>3. Types'
    BY <2>1, <2>2, NextTypes
  <2>4. Control' /\ Made' /\ Handed'
    BY <2>1, <2>2, NextControl, NextMade, NextHanded
  <2>5. Taken' /\ Loads' /\ PidsBounded'
    BY <2>1, <2>2, <2>3, NextTaken, NextLoads, NextPids
  <2>6. QED
    BY <2>3, <2>4, <2>5 DEF KInv
<1>3. QED
  BY <1>1, <1>2, PTL DEF Spec

-----------------------------------------------------------------------------
(***************************************************************************)
(* sched.c, schedule(): rbSearch(initIdle()) finds a process on every CPU, *)
(* whatever the others insert: its result may be used without a test.      *)
(***************************************************************************)
THEOREM IdleProcessFound == Spec => []SearchNeverNil
<1>1. KInv => SearchNeverNil
  BY NotNone DEF KInv, Types, TreeTypes, Made, SearchNeverNil, Chosen
<1>2. QED
  BY <1>1, KernelInv, PTL

(***************************************************************************)
(* process.c, sched.c: no thread that is still being made can be met by    *)
(* the unlocked traversal, queued or run.                                  *)
(***************************************************************************)
THEOREM UnfinishedStayHidden == Spec => []OnlyFinishedThreads
<1>1. KInv => OnlyFinishedThreads
  <2>1. SUFFICES ASSUME KInv, NEW o \in Objects,
                        \/ o \in tree
                        \/ \E c \in CPUS : current[c] = o \/ \E i \in DOMAIN queue[c] : queue[c][i] = o
                 PROVE  state[o] \in {"RUNNABLE", "RUNNING"}
    BY DEF OnlyFinishedThreads
  <2>2. o # None
    BY NotNone
  <2>3. CASE o \in tree
    BY <2>1, <2>3 DEF KInv, Made
  <2>4. ASSUME NEW c \in CPUS, current[c] = o PROVE o \in tree
    BY <2>1, <2>2, <2>4 DEF KInv, Control, Made, Chosen
  <2>5. ASSUME NEW c \in CPUS, NEW i \in DOMAIN queue[c], queue[c][i] = o PROVE o \in tree
    <3>1. i \in Slots(c)
      BY <2>1, LenProperties DEF KInv, Types, SchedTypes, Slots
    <3>2. QED
      BY <2>1, <2>2, <2>5, <3>1 DEF KInv, Handed
  <2>6. QED
    BY <2>1, <2>3, <2>4, <2>5 DEF KInv, Made
<1>2. QED
  BY <1>1, KernelInv, PTL

(***************************************************************************)
(* sched.c: a thread is in at most one slot of one CPU's run queue.        *)
(***************************************************************************)
THEOREM NeverQueuedTwice == Spec => []QueuedOnce
<1>1. KInv => QueuedOnce
  <2>1. SUFFICES ASSUME KInv PROVE QueuedOnce
    OBVIOUS
  <2>2. \A c \in CPUS : DOMAIN queue[c] = Slots(c)
    BY <2>1, LenProperties DEF KInv, Types, SchedTypes, Slots
  <2>3. QED
    BY <2>1, <2>2 DEF KInv, Handed, QueuedOnce
<1>2. QED
  BY <1>1, KernelInv, PTL

(***************************************************************************)
(* The types: pids grow by one at most for each process that gets one.     *)
(***************************************************************************)
LEMMA KernelTypes == KInv => TypeOK
<1>1. SUFFICES ASSUME KInv PROVE TypeOK
  OBVIOUS
<1>2. Types /\ Taken /\ PidsBounded
  BY <1>1 DEF KInv
<1>3. PICK N \in Nat : N = Cardinality(Objects)
  BY FiniteObjects
<1>4. MaxPid \in Nat /\ MaxPid <= FIRST_PID + N
  BY <1>3, FiniteObjects DEF MaxPid, FIRST_PID
<1>5. Pids = 0 .. (FIRST_PID + N) /\ FIRST_PID \in Nat
  BY <1>3 DEF Pids, FIRST_PID
<1>6. \A n \in Nat : n <= MaxPid => n \in Pids
  BY <1>4, <1>5
<1>7. KProcessID \in Pids
  BY <1>2, <1>6 DEF Types, ProcTypes, PidsBounded
<1>8. pid \in [Objects -> Pids]
  BY <1>2, <1>6 DEF Types, ProcTypes, PidsBounded
<1>9. reg \in [CPUS -> Pids \cup 0 .. (WORD - 1)]
  <2>1. WORD \in Nat
    BY BoundsAssumption
  <2>2. \A c \in CPUS : reg[c] \in Nat /\ (reg[c] <= MaxPid \/ reg[c] < WORD)
    BY <1>2 DEF Types, ProcTypes, PidsBounded
  <2>3. \A c \in CPUS : reg[c] \in Pids \cup 0 .. (WORD - 1)
    BY <1>6, <2>1, <2>2
  <2>4. QED
    BY <1>2, <2>3 DEF Types, ProcTypes
<1>10. \A c \in CPUS : head[c] \in 0 .. Len(queue[c])
  <2>1. \A c \in CPUS : head[c] \in Nat /\ Len(queue[c]) \in Nat /\ head[c] <= Len(queue[c])
    BY <1>2, QueueTypes DEF Taken, Types, SchedTypes
  <2>2. QED
    BY <2>1
<1>11. pc \in [CPUS -> {"loop", "getpid", "storepid", "newthread", "fillthread",
                        "ins_acquire", "insert", "ins_release", "srch_acquire",
                        "search", "srch_release", "switch", "deq_load", "deq_store",
                        "deq_take", "run", "running", "fill", "enq_load",
                        "enq_store", "enq_tail", "enq_slot", "halt"}]
  BY <1>2 DEF Types, PcTypes, BspPlaces, ApPlaces, Making, Chosen, Dequeueing, Enqueueing
<1>12. QED
  BY <1>2, <1>7, <1>8, <1>9, <1>10, <1>11 DEF TypeOK, Types, ProcTypes, TreeTypes, SchedTypes, FillTypes

(***************************************************************************)
(* sched.c: threadsPerCPU, which the BSP raises and an AP lowers by        *)
(* unlocked loads and stores, is the number of queued threads whenever     *)
(* neither is in the middle of an update, and never wraps.                 *)
(***************************************************************************)
THEOREM UnlockedCountsExact == Spec => []LoadCountsExact
<1>1. KInv => LoadCountsExact
  <2>1. SUFFICES ASSUME KInv, NEW c \in APS, pc[BSP] \in {"fill", "halt"},
                        pc[c] \notin {"deq_load", "deq_store", "deq_take"}
                 PROVE  load[c] = Len(queue[c]) - head[c]
    BY KernelTypes DEF LoadCountsExact
  <2>2. c \in CPUS /\ Types /\ Loads
    BY <2>1 DEF APS, KInv
  <2>3. Coming(c) = 0 /\ Taking(c) = 0
    BY <2>1 DEF Coming, Taking
  <2>4. load[c] + head[c] + 0 = Len(queue[c]) + 0
    BY <2>2, <2>3 DEF Loads
  <2>5. load[c] \in Nat /\ head[c] \in Nat /\ Len(queue[c]) \in Nat
    BY <2>2, LoadTerms
  <2>6. QED
    BY <2>4, <2>5
<1>2. QED
  BY <1>1, KernelInv, PTL

(***************************************************************************)
(* sched.c: a thread that was enqueued is in its queue or with the CPU     *)
(* that took it, unless its slot was taken before it was written.          *)
(***************************************************************************)
THEOREM EnqueuedNotLost == Spec => []EnqueuedThreadsKept
<1>1. KInv => EnqueuedThreadsKept
  <2>1. SUFFICES ASSUME KInv, NEW o \in given \ early
                 PROVE  \E c \in CPUS : o \in Pending(c) \/ o = found[c] \/ o = current[c]
    BY DEF EnqueuedThreadsKept
  <2>2. Types /\ Handed /\ Taken
    BY <2>1 DEF KInv
  <2>3. o # None
    BY <2>2, NotNone DEF Types, FillTypes
  <2>4. PICK c \in CPUS : \E i \in Slots(c) : queue[c][i] = o
    BY <2>2 DEF Handed
  <2>5. PICK i \in Slots(c) : queue[c][i] = o
    BY <2>4
  <2>6. i \in Nat /\ 1 <= i /\ i <= Len(queue[c]) /\ head[c] \in Nat /\ Len(queue[c]) \in Nat /\ head[c] <= 1
    BY <2>2, QueueTypes DEF Slots, Taken, Types, SchedTypes
  <2>7. CASE head[c] < i
    <3>1. i \in (head[c] + 1) .. Len(queue[c])
      BY <2>6, <2>7
    <3>2. QED
      BY <2>5, <3>1 DEF Pending
  <2>8. CASE ~(head[c] < i)
    <3>1. i = 1 /\ head[c] = 1
      BY <2>6, <2>8
    <3>2. found[c] = o
      BY <2>2, <2>3, <2>5, <3>1 DEF Taken
    <3>3. QED
      BY <3>2
  <2>9. QED
    BY <2>7, <2>8
<1>2. QED
  BY <1>1, KernelInv, PTL

(***************************************************************************)
(* idt.c, sched.c, process.c: two CPUs are on one kernel stack only where  *)
(* two processes in the tree have one pid, or where the thread is one the  *)
(* traversal handed out.                                                   *)
(***************************************************************************)
THEOREM DoubleRunsExplained == Spec => []DoubleRunHasCause
<1>1. KInv => DoubleRunHasCause
  <2>1. SUFFICES ASSUME KInv, NEW c \in CPUS, NEW d \in CPUS,
                        c # d, current[c] = current[d], current[c] # None, current[c] \notin given
                 PROVE  PidClash
    BY DEF DoubleRunHasCause
  <2>2. Types /\ Control /\ Made /\ Taken
    BY <2>1 DEF KInv
  <2>3. pc[c] = "running" /\ pc[d] = "running" /\ found[c] = current[c] /\ found[d] = current[c]
    BY <2>1, <2>2 DEF Control
  <2>4. pid[current[c]] = pid[mine(c)] /\ pid[current[c]] = pid[mine(d)]
    BY <2>1, <2>2, <2>3 DEF Taken, Chosen
  <2>5. mine(c) \in tree /\ mine(d) \in tree
    BY <2>2, <2>3 DEF Made, Inserted, Chosen
  <2>6. mine(c) # mine(d)
    BY <2>1 DEF mine
  <2>7. QED
    BY <2>4, <2>5, <2>6 DEF PidClash
<1>2. QED
  BY <1>1, KernelInv, PTL
=============================================================================
