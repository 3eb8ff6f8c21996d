------------------------------- MODULE Sched --------------------------------
(***************************************************************************)
(* The scheduler's run queues (sys/sched.c): MAX_PRIORITY arrays per CPU,  *)
(* filled at tail and emptied at head, neither of which ever goes back.    *)
(* A CPU touches its own queues only, at the end of each of its time       *)
(* slices; the boot processor hands new threads to any CPU.  Smp.tla has   *)
(* the interleaving of those two, this module what a long sequence of      *)
(* calls does to the queues, and so lets every time slice end.             *)
(***************************************************************************)
EXTENDS Naturals, Sequences, FiniteSets

CONSTANTS
    CPUS,               \* APIC ids, numbers: leastLoadedCPU() scans them in order
    Threads,            \* threads that can ever be made
    NoThread,           \* the null pointer
    MAX_PRIORITY,       \* number of priorities, 0 the best (5 in the code)
    MAX_RUNQUEUE_SIZE,  \* slots of each array (64 in the code)
    AGE_THRESHOLD,      \* waiting calls before a thread ages (50 in the code)
    WORD                \* a priority is a number modulo WORD (2^32 in the code)

ASSUME CpusAssumption == CPUS \subseteq Nat
ASSUME SizesAssumption ==
    /\ MAX_PRIORITY \in Nat \ {0}
    /\ MAX_RUNQUEUE_SIZE \in Nat
    /\ AGE_THRESHOLD \in Nat
    /\ WORD \in Nat /\ WORD > MAX_PRIORITY
ASSUME NoThreadAssumption == NoThread \notin Threads

Priorities == 0 .. (MAX_PRIORITY - 1)

VARIABLES
    queue,      \* slots head to tail-1 of each array of each CPU
    tail,       \* tail of each array: how many threads it ever took
    threadsPerCPU,
    currentThread,
    state,      \* state of each thread, UNUSED until it is made
    prio,       \* dynamicPriority
    waitTicks,
    refused     \* threads "Runqueue full" was printed for

vars == <<queue, tail, threadsPerCPU, currentThread, state, prio, waitTicks, refused>>

Init ==
    /\ queue = [c \in CPUS |-> [p \in Priorities |-> <<>>]]
    /\ tail = [c \in CPUS |-> [p \in Priorities |-> 0]]
    /\ threadsPerCPU = [c \in CPUS |-> 0]
    /\ currentThread = [c \in CPUS |-> NoThread]
    /\ state = [t \in Threads |-> "UNUSED"]
    /\ prio = [t \in Threads |-> 0]
    /\ waitTicks = [t \in Threads |-> 0]
    /\ refused = {}

(***************************************************************************)
(* A CPU's run queue as one value, so that the calls of schedule() can be  *)
(* composed: its arrays, their tails, its count, and the threads refused.  *)
(***************************************************************************)
RunqueueOf(c) == [q |-> queue[c], tail |-> tail[c], n |-> threadsPerCPU[c], full |-> refused]

(* The array for a priority.                                               *)
Level(pr) == IF pr >= MAX_PRIORITY THEN MAX_PRIORITY - 1 ELSE pr

(* Seeded bug: the thread is counted before the test.                      *)
enqueueThread_CountsFirst(rq, t, pr) ==
    LET p == Level(pr)
    IN  IF rq.tail[p] >= MAX_RUNQUEUE_SIZE
          THEN [rq EXCEPT !.full = @ \cup {t}, !.n = @ + 1]
          ELSE [rq EXCEPT !.q[p] = Append(@, t), !.tail[p] = @ + 1, !.n = @ + 1]

(* A full array takes no thread ever again, since tail only grows.         *)
enqueueThread(rq, t, pr) ==
    LET p == Level(pr)
    IN  IF rq.tail[p] >= MAX_RUNQUEUE_SIZE
          THEN [rq EXCEPT !.full = @ \cup {t}]
          ELSE [rq EXCEPT !.q[p] = Append(@, t), !.tail[p] = @ + 1, !.n = @ + 1]

(* The best priority that has a thread waiting.                            *)
BestLevel(rq, p) ==
    /\ rq.q[p] # <<>>
    /\ \A r \in 0 .. (p - 1) : rq.q[r] = <<>>

Empty(rq) == \A p \in Priorities : rq.q[p] = <<>>

(* Seeded bug: head is not advanced.                                       *)
dequeueThread_KeepsHead(rq, p) == [rq EXCEPT !.n = @ - 1]

(* The run queue after dequeueThread() took the first thread of level p.   *)
dequeueThread(rq, p) == [rq EXCEPT !.q[p] = Tail(@), !.n = @ - 1]

demotePriority(pr) == IF pr < MAX_PRIORITY - 1 THEN pr + 1 ELSE pr

leastLoadedCPU(c) ==
    \A d \in CPUS : /\ threadsPerCPU[c] <= threadsPerCPU[d]
                    /\ threadsPerCPU[d] = threadsPerCPU[c] => c <= d

SetRunqueue(c, rq) ==
    /\ queue' = [queue EXCEPT ![c] = rq.q]
    /\ tail' = [tail EXCEPT ![c] = rq.tail]
    /\ threadsPerCPU' = [threadsPerCPU EXCEPT ![c] = rq.n]
    /\ refused' = rq.full

(***************************************************************************)
(* enqueueRunnableThread(): the traversal of the process tree meets a new  *)
(* thread.                                                                 *)
(***************************************************************************)
enqueueRunnableThread(t) ==
    /\ state[t] = "UNUSED"
    /\ state' = [state EXCEPT ![t] = "RUNNABLE"]
    /\ \E c \in CPUS :
        /\ leastLoadedCPU(c)
        /\ SetRunqueue(c, enqueueThread(RunqueueOf(c), t, prio[t]))
    /\ UNCHANGED <<currentThread, prio, waitTicks>>

(***************************************************************************)
(* ageThreads(): a thread that has waited long gets a better number, but   *)
(* keeps its place; priority 0 does not age.  The number is decremented    *)
(* below 0 as well.                                                        *)
(***************************************************************************)
Waiting(c) ==
    {t \in Threads : \E p \in Priorities \ {0} : \E i \in DOMAIN queue[c][p] : queue[c][p][i] = t}

Ages(c, t) == t \in Waiting(c) /\ state[t] = "RUNNABLE" /\ waitTicks[t] > AGE_THRESHOLD

agedTicks(c) ==
    [t \in Threads |-> IF Ages(c, t) THEN 0
                       ELSE IF t \in Waiting(c) THEN waitTicks[t] + 1 ELSE waitTicks[t]]

agedPrio(c) ==
    [t \in Threads |-> IF Ages(c, t) THEN (prio[t] + WORD - 1) % WORD ELSE prio[t]]

(***************************************************************************)
(* schedule(), at the end of a time slice, after ageThreads().             *)
(***************************************************************************)
OldThread(c) ==
    IF currentThread[c] # NoThread /\ state[currentThread[c]] = "RUNNING"
      THEN {currentThread[c]} ELSE {}

(* The old thread is demoted and goes to the end of its new priority.      *)
PrioAfter(c) ==
    [t \in Threads |-> IF t \in OldThread(c) THEN demotePriority(agedPrio(c)[t])
                       ELSE agedPrio(c)[t]]

(* Seeded bug: the old thread is not put back.                             *)
RunqueueAfter_NoRequeue(c) == RunqueueOf(c)

RunqueueAfter(c) ==
    IF OldThread(c) = {} THEN RunqueueOf(c)
    ELSE enqueueThread(RunqueueOf(c), currentThread[c], PrioAfter(c)[currentThread[c]])

Run(c, t) ==
    /\ state' = [u \in Threads |-> IF u = t THEN "RUNNING"
                                   ELSE IF u \in OldThread(c) THEN "RUNNABLE" ELSE state[u]]
    /\ waitTicks' = [agedTicks(c) EXCEPT ![t] = 0]
    /\ prio' = PrioAfter(c)
    /\ currentThread' = [currentThread EXCEPT ![c] = t]

(* A queued thread runs.  The idle thread that schedule() made for this    *)
(* call is in no queue and is never met again: it is left out.             *)
ScheduleQueued(c) ==
    \E p \in Priorities :
        /\ BestLevel(RunqueueAfter(c), p)
        /\ SetRunqueue(c, dequeueThread(RunqueueAfter(c), p))
        /\ Run(c, Head(RunqueueAfter(c).q[p]))

(* The queues are empty: the new idle thread runs.                         *)
ScheduleIdle(c) ==
    /\ Empty(RunqueueAfter(c))
    /\ SetRunqueue(c, RunqueueAfter(c))
    /\ \E t \in Threads : state[t] = "UNUSED" /\ Run(c, t)

Next ==
    \/ \E t \in Threads : enqueueRunnableThread(t)
    \/ \E c \in CPUS : ScheduleQueued(c) \/ ScheduleIdle(c)

Spec == Init /\ [][Next]_vars

-----------------------------------------------------------------------------
TypeOK ==
    /\ queue \in [CPUS -> [Priorities -> Seq(Threads)]]
    /\ tail \in [CPUS -> [Priorities -> 0 .. MAX_RUNQUEUE_SIZE]]
    /\ threadsPerCPU \in [CPUS -> Nat]
    /\ currentThread \in [CPUS -> Threads \cup {NoThread}]
    /\ state \in [Threads -> {"UNUSED", "RUNNABLE", "RUNNING"}]
    /\ prio \in [Threads -> 0 .. (WORD - 1)]
    /\ waitTicks \in [Threads -> Nat]
    /\ refused \subseteq Threads

(* The slots between head and tail, by array and place in it.              *)
Occupied(c) == {x \in Priorities \X (1 .. MAX_RUNQUEUE_SIZE) : x[2] \in DOMAIN queue[c][x[1]]}

(***************************************************************************)
(* threadsPerCPU, which leastLoadedCPU() balances by, is the number of     *)
(* threads in the CPU's queues, whatever was refused, demoted or dequeued; *)
(* and no tail leaves its array.                                           *)
(***************************************************************************)
CountsMatchQueues ==
    /\ TypeOK
    /\ \A c \in CPUS : threadsPerCPU[c] = Cardinality(Occupied(c))
    /\ \A c \in CPUS, p \in Priorities : Len(queue[c][p]) <= MAX_RUNQUEUE_SIZE

Places(t) ==
    {x \in CPUS \X Priorities \X (1 .. MAX_RUNQUEUE_SIZE) :
        x[3] \in DOMAIN queue[x[1]][x[2]] /\ queue[x[1]][x[2]][x[3]] = t}

(***************************************************************************)
(* A thread, which has one stack, is in one place: in one slot of one      *)
(* queue or running on one CPU, never both.                                *)
(***************************************************************************)
OnePlace ==
    \A t \in Threads :
        /\ \A x, y \in Places(t) : x = y
        /\ \A c, d \in CPUS : currentThread[c] = t /\ currentThread[d] = t => c = d
        /\ Places(t) # {} => state[t] = "RUNNABLE"
        /\ state[t] = "RUNNING" => \E c \in CPUS : currentThread[c] = t

(***************************************************************************)
(* A thread that can run and is in no queue was refused, with a message,   *)
(* by a full array: schedule() loses no other.                             *)
(***************************************************************************)
LostOnlyIfRefused ==
    \A t \in Threads :
        state[t] = "RUNNABLE" /\ Places(t) = {} => t \in refused
=============================================================================
