-------------------------------- MODULE Smp ---------------------------------
(***************************************************************************)
(* The kernel on several CPUs, from the moment the application processors  *)
(* (APs) have been started (kernel_main() after smpInit()).  The boot      *)
(* processor (BSP) makes its idle process, fills the run queues from the   *)
(* process tree and halts.  Each AP spins in initializeAP() until its      *)
(* local APIC timer has ticked TIME_SLICE_TICKS times; its handler then    *)
(* calls schedule(), which makes an idle process of its own, looks it up   *)
(* in the tree, and switches to a thread without ever returning.           *)
(*                                                                         *)
(* Composed here: process creation and the tree (process.c), the tree's    *)
(* lock (Mutex, as Spinlock.tla implements it), the run queues, shared by  *)
(* the BSP that fills them and the AP that empties its own without a lock  *)
(* (sched.c), and the timer interrupt (idt.c).  Every thread is made with  *)
(* priority 0, so that one FIFO per CPU is all of a run queue that is used *)
(* here: Sched.tla has the priorities.                                     *)
(***************************************************************************)
EXTENDS Naturals, Sequences, FiniteSets

CONSTANTS
    CPUS,               \* APIC ids; numbers, since leastLoadedCPU scans them in order
    BSP,                \* the boot processor, id 0
    TIME_SLICE_TICKS,   \* ticks before the handler calls schedule()
    WORD,               \* threadsPerCPU counts modulo this (2^32 in the code)
    MaxRounds           \* bound: processes one CPU makes

ASSUME CpusAssumption == CPUS \subseteq Nat /\ IsFiniteSet(CPUS) /\ BSP \in CPUS
ASSUME BoundsAssumption ==
    /\ TIME_SLICE_TICKS \in Nat \ {0}
    /\ MaxRounds \in Nat \ {0}
    /\ WORD \in Nat /\ WORD > Cardinality(CPUS) * MaxRounds

APS == CPUS \ {BSP}

(* A process made by a CPU in one of its rounds; it has one thread, so the *)
(* same name stands for process and thread.                                *)
Objects == CPUS \X (1 .. MaxRounds)

None == <<>>

FIRST_PID == 20         \* KProcessID at boot

VARIABLES
    pc,         \* where each CPU stands
    KProcessID, \* the pid counter
    reg,        \* the counter a CPU has loaded and not yet stored
    round,      \* how many processes each CPU has begun to make
    pid,        \* pid of each process, 0 while it has none
    state,      \* state of each thread
    tree,       \* processes linked into the red-black tree
    lock,       \* contexts (CPUs) that own rbTreeLock: {} or one
    found,      \* the thread schedule() is going to run on each CPU
    queue,      \* slots below tail of each CPU's run queue; None: not yet written
    head,       \* how many of them have been taken
    load,       \* threadsPerCPU
    enq,        \* the thread the BSP is enqueueing, and on which CPU
    current,    \* currentThread[cpu]
    ticks,      \* ticksSinceLastSwitch[cpu]
    inService,  \* the timer interrupt is delivered and not acknowledged
    visited,    \* processes fillRunqueuesFromBST() has met
    disturbed,  \* the tree changed under that traversal
    given,      \* threads the traversal has put on a run queue
    early       \* those whose slot was taken before it was written

vars == <<pc, KProcessID, reg, round, pid, state, tree, lock, found, queue, head,
          load, enq, current, ticks, inService, visited, disturbed, given, early>>

procVars == <<KProcessID, reg, round, pid, state>>
treeVars == <<tree, lock, found, disturbed>>
schedVars == <<queue, head, load, current, ticks, inService>>
fillVars == <<visited, given, enq, early>>

Init ==
    /\ pc = [c \in CPUS |-> IF c = BSP THEN "getpid" ELSE "loop"]
    /\ KProcessID = FIRST_PID
    /\ reg = [c \in CPUS |-> 0]
    /\ round = [c \in CPUS |-> IF c = BSP THEN 1 ELSE 0]
    /\ pid = [o \in Objects |-> 0]
    /\ state = [o \in Objects |-> "UNUSED"]
    /\ tree = {}
    /\ lock = {}
    /\ found = [c \in CPUS |-> None]
    /\ queue = [c \in CPUS |-> <<>>]
    /\ head = [c \in CPUS |-> 0]
    /\ load = [c \in CPUS |-> 0]
    /\ enq = [thread |-> None, cpu |-> BSP]
    /\ current = [c \in CPUS |-> None]
    /\ ticks = [c \in CPUS |-> 0]
    /\ inService = [c \in CPUS |-> FALSE]
    /\ visited = {}
    /\ disturbed = FALSE
    /\ given = {}
    /\ early = {}

Goto(c, l) == pc' = [pc EXCEPT ![c] = l]

(* The process CPU c is making, or has just made.                          *)
mine(c) == <<c, round[c]>>

(***************************************************************************)
(* createKernelProcess(idle).  getProcessID() reads and writes the counter *)
(* in two accesses, with nothing to keep other CPUs out.                   *)
(***************************************************************************)
getProcessIDLoad(c) ==
    /\ pc[c] = "getpid"
    /\ reg' = [reg EXCEPT ![c] = KProcessID]
    /\ Goto(c, "storepid")
    /\ UNCHANGED <<KProcessID, round, pid, state, treeVars, schedVars, fillVars>>

getProcessIDStore(c) ==
    /\ pc[c] = "storepid"
    /\ KProcessID' = reg[c] + 1
    /\ pid' = [pid EXCEPT ![mine(c)] = reg[c] + 1]
    /\ Goto(c, "newthread")
    /\ UNCHANGED <<reg, round, state, treeVars, schedVars, fillVars>>

(* createKernelThread(): EMBRYO while it is being filled in, then RUNNABLE *)
createKernelThreadBegin(c) ==
    /\ pc[c] = "newthread"
    /\ state' = [state EXCEPT ![mine(c)] = "EMBRYO"]
    /\ Goto(c, "fillthread")
    /\ UNCHANGED <<KProcessID, reg, round, pid, treeVars, schedVars, fillVars>>

(* Seeded bug: the thread is never made RUNNABLE.                          *)
createKernelThreadEnd_Forgotten(c) ==
    /\ pc[c] = "fillthread"
    /\ Goto(c, "ins_acquire")
    /\ UNCHANGED <<procVars, treeVars, schedVars, fillVars>>

createKernelThreadEnd(c) ==
    /\ pc[c] = "fillthread"
    /\ state' = [state EXCEPT ![mine(c)] = "RUNNABLE"]
    /\ Goto(c, "ins_acquire")
    /\ UNCHANGED <<KProcessID, reg, round, pid, treeVars, schedVars, fillVars>>

InsertAcquire(c) ==
    /\ pc[c] = "ins_acquire"
    /\ lock = {}
    /\ lock' = {c}
    /\ Goto(c, "insert")
    /\ UNCHANGED <<procVars, tree, found, disturbed, schedVars, fillVars>>

(* Seeded bug: the insertion does not happen.                              *)
rbInsert_Forgotten(c) ==
    /\ pc[c] = "insert"
    /\ Goto(c, "ins_release")
    /\ UNCHANGED <<procVars, treeVars, schedVars, fillVars>>

rbInsert(c) ==
    /\ pc[c] = "insert"
    /\ tree' = tree \cup {mine(c)}
    /\ disturbed' = (disturbed \/ (c # BSP /\ pc[BSP] = "fill"))
    /\ Goto(c, "ins_release")
    /\ UNCHANGED <<procVars, lock, found, schedVars, fillVars>>

(* Seeded bug: the lock is left locked.                                    *)
InsertRelease_Forgotten(c) ==
    /\ pc[c] = "ins_release"
    /\ Goto(c, IF c = BSP THEN "fill" ELSE "srch_acquire")
    /\ UNCHANGED <<procVars, treeVars, schedVars, fillVars>>

InsertRelease(c) ==
    /\ pc[c] = "ins_release"
    /\ lock' = lock \ {c}
    /\ Goto(c, IF c = BSP THEN "fill" ELSE "srch_acquire")
    /\ UNCHANGED <<procVars, tree, found, disturbed, schedVars, fillVars>>

(***************************************************************************)
(* schedule(): rbSearch(initIdle()), under the lock.  With equal pids in   *)
(* the tree the search may meet any of them first.                         *)
(***************************************************************************)
SearchAcquire(c) ==
    /\ pc[c] = "srch_acquire"
    /\ lock = {}
    /\ lock' = {c}
    /\ Goto(c, "search")
    /\ UNCHANGED <<procVars, tree, found, disturbed, schedVars, fillVars>>

Matches(c) == {o \in tree : pid[o] = pid[mine(c)]}

(* Seeded bug: the search returns whatever process it looked at last.      *)
rbSearch_AnyProcess(c) ==
    /\ pc[c] = "search"
    /\ \E o \in tree : found' = [found EXCEPT ![c] = o]
    /\ Goto(c, "srch_release")
    /\ UNCHANGED <<procVars, tree, lock, disturbed, schedVars, fillVars>>

rbSearch(c) ==
    /\ pc[c] = "search"
    /\ \E o \in IF Matches(c) = {} THEN {None} ELSE Matches(c) :
         found' = [found EXCEPT ![c] = o]
    /\ Goto(c, "srch_release")
    /\ UNCHANGED <<procVars, tree, lock, disturbed, schedVars, fillVars>>

SearchRelease(c) ==
    /\ pc[c] = "srch_release"
    /\ lock' = lock \ {c}
    /\ Goto(c, "switch")
    /\ UNCHANGED <<procVars, tree, found, disturbed, schedVars, fillVars>>

(***************************************************************************)
(* The rest of schedule().  The old thread, if any, goes back to the queue *)
(* (an AP has one only from its second call of schedule() on; the step is  *)
(* not split).  dequeueThread() takes the next slot, if head < tail, and   *)
(* lowers the CPU's load by an unlocked load and store.                    *)
(***************************************************************************)
Requeues(c) == current[c] # None /\ state[current[c]] = "RUNNING"

dequeueThread(c) ==
    LET q == IF Requeues(c) THEN Append(queue[c], current[c]) ELSE queue[c]
    IN  /\ pc[c] = "switch"
        /\ queue' = [queue EXCEPT ![c] = q]
        /\ load' = IF Requeues(c) THEN [load EXCEPT ![c] = (@ + 1) % WORD] ELSE load
        /\ state' = IF Requeues(c) THEN [state EXCEPT ![current[c]] = "RUNNABLE"] ELSE state
        /\ Goto(c, IF head[c] < Len(q) THEN "deq_load" ELSE "run")
        /\ UNCHANGED <<KProcessID, reg, round, pid, treeVars, head, current, ticks,
                       inService, fillVars>>

DequeueCountLoad(c) ==
    /\ pc[c] = "deq_load"
    /\ reg' = [reg EXCEPT ![c] = load[c]]
    /\ Goto(c, "deq_store")
    /\ UNCHANGED <<KProcessID, round, pid, state, treeVars, schedVars, fillVars>>

(* Seeded bug: threadsPerCPU is not decremented.                           *)
DequeueCountStore_Forgotten(c) ==
    /\ pc[c] = "deq_store"
    /\ Goto(c, "deq_take")
    /\ UNCHANGED <<procVars, treeVars, schedVars, fillVars>>

DequeueCountStore(c) ==
    /\ pc[c] = "deq_store"
    /\ load' = [load EXCEPT ![c] = (reg[c] + WORD - 1) % WORD]
    /\ Goto(c, "deq_take")
    /\ UNCHANGED <<procVars, treeVars, queue, head, current, ticks, inService, fillVars>>

(* Seeded bug: head is incremented twice.                                  *)
DequeueTake_SkipsOne(c) ==
    /\ pc[c] = "deq_take"
    /\ head' = [head EXCEPT ![c] = @ + 2]
    /\ found' = [found EXCEPT ![c] =
                    IF head[c] + 2 <= Len(queue[c]) THEN queue[c][head[c] + 2] ELSE @]
    /\ Goto(c, "run")
    /\ UNCHANGED <<procVars, tree, lock, disturbed, queue, load, current, ticks,
                   inService, fillVars>>

(* A slot that is still empty reads as NULL: the idle thread found above   *)
(* runs instead, and head has moved past the slot.                         *)
DequeueTake(c) ==
    LET t == queue[c][head[c] + 1]
    IN  /\ pc[c] = "deq_take"
        /\ head' = [head EXCEPT ![c] = @ + 1]
        /\ found' = [found EXCEPT ![c] = IF t = None THEN @ ELSE t]
        /\ Goto(c, "run")
        /\ UNCHANGED <<procVars, tree, lock, disturbed, queue, load, current, ticks,
                       inService, fillVars>>

(* switchTask() ends in an iret into the thread: the call does not return, *)
(* so that eoi(), which follows it in the timer handler, is not reached.   *)
switchTask(c) ==
    /\ pc[c] = "run"
    /\ state' = [state EXCEPT ![found[c]] = "RUNNING"]
    /\ current' = [current EXCEPT ![c] = found[c]]
    /\ ticks' = [ticks EXCEPT ![c] = 0]
    /\ Goto(c, "running")
    /\ UNCHANGED <<KProcessID, reg, round, pid, treeVars, queue, head, load,
                   inService, fillVars>>

(***************************************************************************)
(* apicTimerHandler() on an AP, entered when the local APIC has no         *)
(* unacknowledged interrupt of this priority.  Before the time slice is    *)
(* over it counts and acknowledges; at its end it goes on to schedule().   *)
(***************************************************************************)
(* Seeded bug: the handler forgets eoi().                                  *)
TimerCounts_NoEoi(c) ==
    /\ pc[c] \in {"loop", "running"}
    /\ ~inService[c]
    /\ ticks[c] + 1 < TIME_SLICE_TICKS
    /\ ticks' = [ticks EXCEPT ![c] = @ + 1]
    /\ inService' = [inService EXCEPT ![c] = TRUE]
    /\ UNCHANGED <<pc, procVars, treeVars, queue, head, load, current, fillVars>>

TimerCounts(c) ==
    /\ pc[c] \in {"loop", "running"}
    /\ ~inService[c]
    /\ ticks[c] + 1 < TIME_SLICE_TICKS
    /\ ticks' = [ticks EXCEPT ![c] = @ + 1]
    /\ UNCHANGED <<pc, procVars, treeVars, queue, head, load, current, inService, fillVars>>

TimerSchedules(c) ==
    /\ pc[c] \in {"loop", "running"}
    /\ ~inService[c]
    /\ ticks[c] + 1 >= TIME_SLICE_TICKS
    /\ round[c] < MaxRounds
    /\ ticks' = [ticks EXCEPT ![c] = @ + 1]
    /\ inService' = [inService EXCEPT ![c] = TRUE]
    /\ round' = [round EXCEPT ![c] = @ + 1]
    /\ Goto(c, "getpid")
    /\ UNCHANGED <<KProcessID, reg, pid, state, treeVars, queue, head, load, current, fillVars>>

(***************************************************************************)
(* fillRunqueuesFromBST() on the BSP walks the tree in pid order without   *)
(* the lock, while APs insert.  Undisturbed it meets every process in      *)
(* turn; a rotation under it may make it miss some, but never go back.     *)
(***************************************************************************)

(* The lowest-numbered CPU with the smallest count.                        *)
leastLoadedCPU(c) ==
    \A d \in CPUS : /\ load[c] <= load[d]
                    /\ load[d] = load[c] => c <= d

Ahead == {o \in tree \ visited : \A p \in visited : pid[p] <= pid[o]}

NextInOrder(o) ==
    /\ o \in Ahead
    /\ disturbed \/ \A p \in Ahead : pid[o] <= pid[p]

(* The traversal meets a process: a RUNNABLE thread gets a CPU.            *)
enqueueRunnableThread(o) ==
    IF state[o] = "RUNNABLE"
      THEN /\ \E c \in CPUS : leastLoadedCPU(c) /\ enq' = [thread |-> o, cpu |-> c]
           /\ Goto(BSP, "enq_load")
      ELSE UNCHANGED <<pc, enq>>

(* Seeded bug: the traversal goes down the same side twice.                *)
fillRunqueuesFromBST_Again ==
    /\ pc[BSP] = "fill"
    /\ \E o \in tree : enqueueRunnableThread(o)
    /\ UNCHANGED <<procVars, treeVars, schedVars, visited, given, early>>

fillRunqueuesFromBST ==
    /\ pc[BSP] = "fill"
    /\ \E o \in Objects :
        /\ NextInOrder(o)
        /\ enqueueRunnableThread(o)
        /\ visited' = visited \cup {o}
    /\ UNCHANGED <<procVars, treeVars, schedVars, given, early>>

(***************************************************************************)
(* enqueueThread() on the BSP, access by access: threadsPerCPU[cpu]++ is a *)
(* load and a store, and the compiler may store tail before the slot (gcc  *)
(* -O2 emits count, tail, slot).  The queues hold more slots than there    *)
(* are threads, so that "Runqueue full" does not arise.                    *)
(***************************************************************************)
EnqueueCountLoad ==
    /\ pc[BSP] = "enq_load"
    /\ reg' = [reg EXCEPT ![BSP] = load[enq.cpu]]
    /\ Goto(BSP, "enq_store")
    /\ UNCHANGED <<KProcessID, round, pid, state, treeVars, schedVars, fillVars>>

EnqueueCountStore ==
    /\ pc[BSP] = "enq_store"
    /\ load' = [load EXCEPT ![enq.cpu] = (reg[BSP] + 1) % WORD]
    /\ Goto(BSP, "enq_tail")
    /\ UNCHANGED <<procVars, treeVars, queue, head, current, ticks, inService, fillVars>>

EnqueueSlotThenTail ==
    /\ pc[BSP] = "enq_tail"
    /\ queue' = [queue EXCEPT ![enq.cpu] = Append(@, enq.thread)]
    /\ given' = given \cup {enq.thread}
    /\ Goto(BSP, "fill")
    /\ UNCHANGED <<procVars, treeVars, head, load, current, ticks, inService, visited,
                   enq, early>>

EnqueueTailFirst ==
    /\ pc[BSP] = "enq_tail"
    /\ queue' = [queue EXCEPT ![enq.cpu] = Append(@, None)]
    /\ Goto(BSP, "enq_slot")
    /\ UNCHANGED <<procVars, treeVars, head, load, current, ticks, inService, fillVars>>

EnqueueSlotLast ==
    LET n == Len(queue[enq.cpu])
    IN  /\ pc[BSP] = "enq_slot"
        /\ queue' = [queue EXCEPT ![enq.cpu][n] = enq.thread]
        /\ given' = given \cup {enq.thread}
        /\ early' = IF head[enq.cpu] >= n THEN early \cup {enq.thread} ELSE early
        /\ Goto(BSP, "fill")
        /\ UNCHANGED <<procVars, treeVars, head, load, current, ticks, inService,
                       visited, enq>>

FillEnds ==
    /\ pc[BSP] = "fill"
    /\ disturbed \/ Ahead = {}
    /\ Goto(BSP, "halt")
    /\ UNCHANGED <<procVars, treeVars, schedVars, fillVars>>

-----------------------------------------------------------------------------
CpuStep(c) ==
    \/ getProcessIDLoad(c)
    \/ getProcessIDStore(c)
    \/ createKernelThreadBegin(c)
    \/ createKernelThreadEnd(c)
    \/ InsertAcquire(c)
    \/ rbInsert(c)
    \/ InsertRelease(c)
    \/ SearchAcquire(c)
    \/ rbSearch(c)
    \/ SearchRelease(c)
    \/ dequeueThread(c)
    \/ DequeueCountLoad(c)
    \/ DequeueCountStore(c)
    \/ DequeueTake(c)
    \/ switchTask(c)

FillStep ==
    \/ fillRunqueuesFromBST
    \/ EnqueueCountLoad
    \/ EnqueueCountStore
    \/ EnqueueSlotThenTail
    \/ EnqueueTailFirst
    \/ EnqueueSlotLast
    \/ FillEnds

Timer(c) == TimerCounts(c) \/ TimerSchedules(c)

Next ==
    \/ \E c \in CPUS : CpuStep(c)
    \/ FillStep
    \/ \E c \in APS : Timer(c)

(* Every CPU goes on executing, and every AP's periodic timer goes on      *)
(* firing whenever it can be delivered.  The lock needs no stronger        *)
(* fairness: each CPU takes it a bounded number of times.                  *)
Spec ==
    /\ Init /\ [][Next]_vars
    /\ \A c \in CPUS : WF_vars(CpuStep(c))
    /\ WF_vars(FillStep)
    /\ \A c \in APS : WF_vars(Timer(c))

-----------------------------------------------------------------------------
States == {"UNUSED", "EMBRYO", "RUNNABLE", "RUNNING"}

Pids == 0 .. (FIRST_PID + Cardinality(Objects))

TypeOK ==
    /\ pc \in [CPUS -> {"loop", "getpid", "storepid", "newthread", "fillthread",
                        "ins_acquire", "insert", "ins_release", "srch_acquire",
                        "search", "srch_release", "switch", "deq_load", "deq_store",
                        "deq_take", "run", "running", "fill", "enq_load",
                        "enq_store", "enq_tail", "enq_slot", "halt"}]
    /\ KProcessID \in Pids
    /\ reg \in [CPUS -> Pids \cup 0 .. (WORD - 1)]
    /\ round \in [CPUS -> 0 .. MaxRounds]
    /\ pid \in [Objects -> Pids]
    /\ state \in [Objects -> States]
    /\ tree \subseteq Objects
    /\ lock \subseteq CPUS
    /\ found \in [CPUS -> Objects \cup {None}]
    /\ queue \in [CPUS -> Seq(Objects \cup {None})]
    /\ \A c \in CPUS : head[c] \in 0 .. Len(queue[c])
    /\ load \in [CPUS -> 0 .. (WORD - 1)]
    /\ enq \in [thread : Objects \cup {None}, cpu : CPUS]
    /\ current \in [CPUS -> Objects \cup {None}]
    /\ ticks \in [CPUS -> 0 .. TIME_SLICE_TICKS]
    /\ inService \in [CPUS -> BOOLEAN]
    /\ visited \subseteq Objects
    /\ disturbed \in BOOLEAN
    /\ given \subseteq Objects
    /\ early \subseteq Objects

(***************************************************************************)
(* rbSearch(initIdle()) in schedule() always finds a process: the result   *)
(* is used (idleProcess->head_thread) without a test for NIL.              *)
(***************************************************************************)
SearchNeverNil ==
    \A c \in CPUS : pc[c] \in {"srch_release", "switch", "run"} => found[c] # None

(***************************************************************************)
(* No thread that is still being made is queued or run: a process is in    *)
(* the tree, where the BSP's unlocked traversal sees it, only after its    *)
(* thread has left the EMBRYO state.                                       *)
(***************************************************************************)
OnlyFinishedThreads ==
    \A o \in Objects :
        \/ o \in tree
        \/ \E c \in CPUS : current[c] = o \/ \E i \in DOMAIN queue[c] : queue[c][i] = o
        => state[o] \in {"RUNNABLE", "RUNNING"}

(***************************************************************************)
(* A thread is queued at most once, on one CPU: the traversal and the APs  *)
(* never put the same thread on two queues.                                *)
(***************************************************************************)
QueuedOnce ==
    \A c, d \in CPUS : \A i \in DOMAIN queue[c], j \in DOMAIN queue[d] :
        queue[c][i] = queue[d][j] /\ queue[c][i] # None => c = d /\ i = j

(***************************************************************************)
(* Once the BSP is not enqueueing and an AP is not dequeueing, the AP's    *)
(* load count is the number of threads in its queue, although the two      *)
(* update it by unlocked loads and stores: leastLoadedCPU() gives an AP a  *)
(* second thread only when its count is back at zero, that is, after the   *)
(* AP's own store.  The count is unsigned and head stays within the queue  *)
(* at every step between.                                                  *)
(***************************************************************************)
LoadCountsExact ==
    /\ TypeOK
    /\ \A c \in APS :
        pc[BSP] \in {"fill", "halt"} /\ pc[c] \notin {"deq_load", "deq_store", "deq_take"}
            => load[c] = Len(queue[c]) - head[c]

Pending(c) == {queue[c][i] : i \in (head[c] + 1) .. Len(queue[c])}

(***************************************************************************)
(* A thread that was enqueued stays in its queue until a CPU takes it to   *)
(* run it, unless the AP took its slot between the BSP's stores of tail    *)
(* and of the slot.                                                        *)
(***************************************************************************)
EnqueuedThreadsKept ==
    \A o \in given \ early :
        \E c \in CPUS : o \in Pending(c) \/ o = found[c] \/ o = current[c]

PidClash == \E o, p \in tree : o # p /\ pid[o] = pid[p]

(***************************************************************************)
(* The same thread, with its one kernel stack, runs on two CPUs only after *)
(* one of the two races of this code: two processes got the same pid, or   *)
(* the BSP's traversal met an AP's idle thread between its insertion and   *)
(* the moment the AP switched to it.                                       *)
(***************************************************************************)
DoubleRunHasCause ==
    \A c, d \in CPUS :
        c # d /\ current[c] = current[d] /\ current[c] # None
            => PidClash \/ current[c] \in given

(***************************************************************************)
(* Every AP gets out of the loop of initializeAP() and runs a thread,      *)
(* whatever the contention for the tree's lock.                            *)
(***************************************************************************)
EveryAPRuns == \A c \in APS : <>(pc[c] = "running")

(***************************************************************************)
(* The BSP finishes its traversal of the tree and halts.                   *)
(***************************************************************************)
BootCompletes == <>[](pc[BSP] = "halt")

(***************************************************************************)
(* "Returns a new process id" (process.c, getProcessID): no two processes  *)
(* have the same pid.                                                      *)
(***************************************************************************)
PidsUnique ==
    \A o, p \in Objects : o # p /\ pid[o] # 0 => pid[o] # pid[p]

(***************************************************************************)
(* "handling for the old running thread" (sched.c, schedule): a thread     *)
(* that runs on an AP is eventually preempted by a further call of         *)
(* schedule() (with a round left for it in the model).                     *)
(***************************************************************************)
RunningIsPreempted ==
    \A c \in APS :
        pc[c] = "running" /\ round[c] < MaxRounds ~> pc[c] = "switch"
=============================================================================
