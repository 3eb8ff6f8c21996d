----------------------------- MODULE SchedProofs -----------------------------
(***************************************************************************)
(* Proofs about the run queues of sys/sched.c, for any numbers of CPUs,    *)
(* threads, priorities and slots: load counts match the queues, a thread   *)
(* is in one place, and none is lost without having been refused.          *)
(***************************************************************************)
EXTENDS Sched, FiniteSetTheorems, SequenceTheorems, TLAPS

(***************************************************************************)
(* The inductive invariant, about queues Q, tails tl and counts ns so that *)
(* it can be said of the queues between the two halves of schedule() too.  *)
(***************************************************************************)
Queues == [CPUS -> [Priorities -> Seq(Threads)]]
Tails == [CPUS -> [Priorities -> 0 .. MAX_RUNQUEUE_SIZE]]

OccupiedIn(Q, c) == {x \in Priorities \X (1 .. MAX_RUNQUEUE_SIZE) : x[2] \in DOMAIN Q[c][x[1]]}

(* Some queue has thread t.                                                *)
Queued(Q, t) == \E c \in CPUS, p \in Priorities : \E i \in 1 .. Len(Q[c][p]) : Q[c][p][i] = t

(* No thread is queued twice.                                              *)
Distinct(Q) ==
    \A c, d \in CPUS, p, r \in Priorities :
        \A i \in 1 .. Len(Q[c][p]), j \in 1 .. Len(Q[d][r]) :
            Q[c][p][i] = Q[d][r][j] => c = d /\ p = r /\ i = j

(* Arrays hold at most the threads they ever took, and are counted right.  *)
QueuesOK(Q, tl, ns) ==
    /\ Q \in Queues /\ tl \in Tails /\ ns \in [CPUS -> Nat]
    /\ \A c \in CPUS, p \in Priorities : Len(Q[c][p]) <= tl[c][p]
    /\ \A c \in CPUS : ns[c] = Cardinality(OccupiedIn(Q, c))
    /\ Distinct(Q)

(* What the states of threads say of their places.                         *)
ThreadsOK ==
    /\ \A c \in CPUS : currentThread[c] # NoThread => state[currentThread[c]] = "RUNNING"
    /\ \A c, d \in CPUS : currentThread[c] # NoThread /\ currentThread[c] = currentThread[d] => c = d
    /\ \A t \in Threads : state[t] = "RUNNING" => \E c \in CPUS : currentThread[c] = t
    /\ \A t \in Threads : Queued(queue, t) => state[t] = "RUNNABLE"
    /\ \A t \in Threads : state[t] = "RUNNABLE" => Queued(queue, t) \/ t \in refused

SInv == TypeOK /\ QueuesOK(queue, tail, threadsPerCPU) /\ ThreadsOK

-----------------------------------------------------------------------------
(***************************************************************************)
(* The slots in use are finitely many.                                     *)
(***************************************************************************)
LEMMA OccupiedFinite ==
    ASSUME NEW Q \in Queues, NEW c \in CPUS,
           \A p \in Priorities : Len(Q[c][p]) <= MAX_RUNQUEUE_SIZE
    PROVE  IsFiniteSet(OccupiedIn(Q, c))
<1>1. IsFiniteSet(Priorities) /\ IsFiniteSet(1 .. MAX_RUNQUEUE_SIZE)
  BY FS_Interval, SizesAssumption DEF Priorities
<1>2. IsFiniteSet(Priorities \X (1 .. MAX_RUNQUEUE_SIZE))
  BY <1>1, FS_Product
<1>3. QED
  BY <1>2, FS_Subset DEF OccupiedIn

(* Thread t at the end of queue p of CPU c; queue p without its first.     *)
Put(Q, c, p, t) == [Q EXCEPT ![c] = [Q[c] EXCEPT ![p] = Append(Q[c][p], t)]]
Take(Q, c, p) == [Q EXCEPT ![c] = [Q[c] EXCEPT ![p] = Tail(Q[c][p])]]

(***************************************************************************)
(* sched.c, enqueueThread(): the arrays after a thread was put into one.   *)
(***************************************************************************)
LEMMA PutQueues ==
    ASSUME NEW Q \in Queues, NEW c \in CPUS, NEW p \in Priorities, NEW t \in Threads
    PROVE  /\ Put(Q, c, p, t) \in Queues
           /\ Put(Q, c, p, t)[c][p] = Append(Q[c][p], t)
           /\ \A d \in CPUS, r \in Priorities : d # c \/ r # p => Put(Q, c, p, t)[d][r] = Q[d][r]
           /\ Len(Put(Q, c, p, t)[c][p]) = Len(Q[c][p]) + 1
           /\ \A i \in 1 .. Len(Q[c][p]) : Put(Q, c, p, t)[c][p][i] = Q[c][p][i]
           /\ Put(Q, c, p, t)[c][p][Len(Q[c][p]) + 1] = t
<1>1. Q[c] \in [Priorities -> Seq(Threads)] /\ Q[c][p] \in Seq(Threads)
  BY DEF Queues
<1>2. Put(Q, c, p, t)[c][p] = Append(Q[c][p], t)
  BY <1>1 DEF Put, Queues
<1>3. \A d \in CPUS, r \in Priorities : d # c \/ r # p => Put(Q, c, p, t)[d][r] = Q[d][r]
  BY <1>1 DEF Put, Queues
<1>4. Append(Q[c][p], t) \in Seq(Threads)
  BY <1>1
<1>5. Put(Q, c, p, t) \in Queues
  BY <1>1, <1>4 DEF Put, Queues
<1>6. QED
  BY <1>1, <1>2, <1>3, <1>5

(***************************************************************************)
(* sched.c, dequeueThread(): the arrays after the first thread of one was  *)
(* taken.                                                                  *)
(***************************************************************************)
LEMMA TakeQueues ==
    ASSUME NEW Q \in Queues, NEW c \in CPUS, NEW p \in Priorities, Q[c][p] # <<>>
    PROVE  /\ Take(Q, c, p) \in Queues
           /\ \A d \in CPUS, r \in Priorities : d # c \/ r # p => Take(Q, c, p)[d][r] = Q[d][r]
           /\ Len(Q[c][p]) \in Nat \ {0} /\ Len(Take(Q, c, p)[c][p]) = Len(Q[c][p]) - 1
           /\ \A i \in 1 .. Len(Q[c][p]) - 1 : Take(Q, c, p)[c][p][i] = Q[c][p][i + 1]
           /\ Head(Q[c][p]) = Q[c][p][1] /\ Head(Q[c][p]) \in Threads
<1>1. Q[c] \in [Priorities -> Seq(Threads)] /\ Q[c][p] \in Seq(Threads)
  BY DEF Queues
<1>2. Take(Q, c, p)[c][p] = Tail(Q[c][p])
  BY <1>1 DEF Take, Queues
<1>3. \A d \in CPUS, r \in Priorities : d # c \/ r # p => Take(Q, c, p)[d][r] = Q[d][r]
  BY <1>1 DEF Take, Queues
<1>4. /\ Tail(Q[c][p]) \in Seq(Threads) /\ Len(Q[c][p]) \in Nat \ {0}
      /\ Len(Tail(Q[c][p])) = Len(Q[c][p]) - 1
      /\ \A i \in 1 .. Len(Q[c][p]) - 1 : Tail(Q[c][p])[i] = Q[c][p][i + 1]
      /\ Head(Q[c][p]) = Q[c][p][1] /\ Head(Q[c][p]) \in Threads
  BY <1>1, HeadTailProperties, ElementOfSeq
<1>5. Take(Q, c, p) \in Queues
  BY <1>1, <1>4 DEF Take, Queues
<1>6. QED
  BY <1>2, <1>3, <1>4, <1>5

(***************************************************************************)
(* sched.c, enqueueThread(): a thread that was in no queue is in one, the  *)
(* others where they were, and its CPU's count has grown by one.           *)
(***************************************************************************)
LEMMA PutOK ==
    ASSUME NEW Q, NEW tl, NEW ns, QueuesOK(Q, tl, ns),
           NEW c \in CPUS, NEW p \in Priorities, NEW t \in Threads,
           ~Queued(Q, t), tl[c][p] < MAX_RUNQUEUE_SIZE
    PROVE  /\ QueuesOK(Put(Q, c, p, t), [tl EXCEPT ![c] = [tl[c] EXCEPT ![p] = @ + 1]],
                       [ns EXCEPT ![c] = @ + 1])
           /\ \A u : Queued(Put(Q, c, p, t), u) <=> Queued(Q, u) \/ u = t
<1> DEFINE R   == Put(Q, c, p, t)
           n   == Len(Q[c][p])
           tl2 == [tl EXCEPT ![c] = [tl[c] EXCEPT ![p] = @ + 1]]
           ns2 == [ns EXCEPT ![c] = @ + 1]
<1>1. /\ Q \in Queues /\ tl \in Tails /\ ns \in [CPUS -> Nat]
      /\ \A d \in CPUS, r \in Priorities : Len(Q[d][r]) <= tl[d][r]
      /\ \A d \in CPUS : ns[d] = Cardinality(OccupiedIn(Q, d))
      /\ Distinct(Q)
  BY DEF QueuesOK
<1>2. /\ R \in Queues
      /\ \A d \in CPUS, r \in Priorities : d # c \/ r # p => R[d][r] = Q[d][r]
      /\ Len(R[c][p]) = n + 1
      /\ \A i \in 1 .. n : R[c][p][i] = Q[c][p][i]
      /\ R[c][p][n + 1] = t
  BY <1>1, PutQueues
<1>3. /\ \A d \in CPUS, r \in Priorities : Q[d][r] \in Seq(Threads) /\ Len(Q[d][r]) \in Nat
      /\ \A d \in CPUS, r \in Priorities : R[d][r] \in Seq(Threads)
      /\ n \in Nat
  <2>1. \A d \in CPUS, r \in Priorities : Q[d][r] \in Seq(Threads) /\ R[d][r] \in Seq(Threads)
    BY <1>1, <1>2 DEF Queues
  <2>2. QED
    BY <2>1, LenProperties
<1>4. /\ tl \in [CPUS -> [Priorities -> 0 .. MAX_RUNQUEUE_SIZE]] /\ tl2 \in Tails
      /\ tl2[c][p] = tl[c][p] + 1
      /\ \A d \in CPUS, r \in Priorities : d # c \/ r # p => tl2[d][r] = tl[d][r]
      /\ tl[c][p] \in Nat /\ MAX_RUNQUEUE_SIZE \in Nat
  <2>1. tl[c] \in [Priorities -> 0 .. MAX_RUNQUEUE_SIZE] /\ tl[c][p] \in 0 .. MAX_RUNQUEUE_SIZE
    BY <1>1 DEF Tails
  <2>2. tl[c][p] + 1 \in 0 .. MAX_RUNQUEUE_SIZE
    BY <2>1, SizesAssumption
  <2>3. QED
    BY <1>1, <2>1, <2>2, SizesAssumption DEF Tails
<1> HIDE DEF R, n, tl2
<1>5. \A d \in CPUS, r \in Priorities : Len(R[d][r]) <= tl2[d][r]
  <2>1. Len(R[c][p]) <= tl2[c][p]
    <3>1. n <= tl[c][p]
      BY <1>1 DEF n
    <3>2. QED
      BY <1>2, <1>3, <1>4, <3>1
  <2>2. ASSUME NEW d \in CPUS, NEW r \in Priorities, d # c \/ r # p PROVE Len(R[d][r]) <= tl2[d][r]
    BY <1>1, <1>2, <1>4, <2>2
  <2>3. QED
    BY <2>1, <2>2
<1>6. \A d \in CPUS : d # c => OccupiedIn(R, d) = OccupiedIn(Q, d)
  BY <1>2 DEF OccupiedIn
<1>7. OccupiedIn(R, c) = OccupiedIn(Q, c) \cup {<<p, n + 1>>} /\ <<p, n + 1>> \notin OccupiedIn(Q, c)
  <2>1. \A r \in Priorities : DOMAIN Q[c][r] = 1 .. Len(Q[c][r]) /\ DOMAIN R[c][r] = 1 .. Len(R[c][r])
    BY <1>3, LenProperties
  <2>2. n + 1 \in 1 .. MAX_RUNQUEUE_SIZE
    BY <1>1, <1>3, <1>4 DEF n
  <2>3. \A r \in Priorities, k \in 1 .. MAX_RUNQUEUE_SIZE :
            k \in DOMAIN R[c][r] <=> k \in DOMAIN Q[c][r] \/ (r = p /\ k = n + 1)
    BY <1>2, <1>3, <2>1 DEF n
  <2>4. n + 1 \notin DOMAIN Q[c][p]
    BY <1>3, <2>1 DEF n
  <2>5. \A x : x \in OccupiedIn(R, c) <=> x \in OccupiedIn(Q, c) \/ x = <<p, n + 1>>
    BY <2>2, <2>3 DEF OccupiedIn
  <2>6. QED
    BY <2>4, <2>5 DEF OccupiedIn
<1>8. ns2 \in [CPUS -> Nat] /\ \A d \in CPUS : ns2[d] = Cardinality(OccupiedIn(R, d))
  <2>1. \A r \in Priorities : Len(Q[c][r]) <= MAX_RUNQUEUE_SIZE
    <3>1. \A r \in Priorities : tl[c][r] <= MAX_RUNQUEUE_SIZE /\ tl[c][r] \in Nat
      BY <1>4
    <3>2. QED
      BY <1>1, <1>3, <1>4, <3>1
  <2>2. IsFiniteSet(OccupiedIn(Q, c))
    BY <1>1, <2>1, OccupiedFinite
  <2>3. Cardinality(OccupiedIn(R, c)) = Cardinality(OccupiedIn(Q, c)) + 1
    BY <1>7, <2>2, FS_AddElement
  <2>4. QED
    BY <1>1, <1>6, <2>3
<1>9. Distinct(R)
  <2> SUFFICES ASSUME NEW d \in CPUS, NEW e \in CPUS, NEW r \in Priorities, NEW s \in Priorities,
                      NEW i \in 1 .. Len(R[d][r]), NEW j \in 1 .. Len(R[e][s]), R[d][r][i] = R[e][s][j]
               PROVE  d = e /\ r = s /\ i = j
    BY DEF Distinct
  <2>1. ASSUME NEW f \in CPUS, NEW o \in Priorities, NEW k \in 1 .. Len(R[f][o])
        PROVE  \/ f = c /\ o = p /\ k = n + 1 /\ R[f][o][k] = t
               \/ k \in 1 .. Len(Q[f][o]) /\ R[f][o][k] = Q[f][o][k] /\ R[f][o][k] # t
    <3>1. CASE f = c /\ o = p /\ k = n + 1
      BY <1>2, <3>1
    <3>2. CASE ~(f = c /\ o = p /\ k = n + 1)
      <4>1. CASE f = c /\ o = p
        <5>1. k \in 1 .. n + 1 /\ k # n + 1
          BY <1>2, <2>1, <3>2, <4>1
        <5>2. k \in 1 .. n
          BY <1>3, <5>1
        <5>3. R[f][o][k] = Q[f][o][k]
          BY <1>2, <4>1, <5>2
        <5>4. k \in 1 .. Len(Q[f][o])
          BY <4>1, <5>2 DEF n
        <5>5. QED
          BY <5>3, <5>4 DEF Queued
      <4>2. CASE ~(f = c /\ o = p)
        <5>1. R[f][o] = Q[f][o]
          BY <1>2, <4>2
        <5>2. QED
          BY <2>1, <5>1 DEF Queued
      <4>3. QED
        BY <4>1, <4>2
    <3>3. QED
      BY <3>1, <3>2
  <2>2. CASE R[d][r][i] = t
    <3>1. d = c /\ r = p /\ i = n + 1
      BY <2>1, <2>2
    <3>2. e = c /\ s = p /\ j = n + 1
      <4>1. R[e][s][j] = t
        BY <2>2
      <4>2. QED
        BY <2>1, <4>1
    <3>3. QED
      BY <3>1, <3>2
  <2>3. CASE R[d][r][i] # t
    <3>1. i \in 1 .. Len(Q[d][r]) /\ R[d][r][i] = Q[d][r][i]
      BY <2>1, <2>3
    <3>2. j \in 1 .. Len(Q[e][s]) /\ R[e][s][j] = Q[e][s][j]
      BY <2>1, <2>3
    <3>3. Q[d][r][i] = Q[e][s][j]
      BY <3>1, <3>2
    <3>4. QED
      BY <1>1, <3>1, <3>2, <3>3 DEF Distinct
  <2>4. QED
    BY <2>2, <2>3
<1>10. \A u : Queued(R, u) <=> Queued(Q, u) \/ u = t
  <2>1. ASSUME NEW u, Queued(R, u) PROVE Queued(Q, u) \/ u = t
    <3>1. PICK d \in CPUS, r \in Priorities : \E i \in 1 .. Len(R[d][r]) : R[d][r][i] = u
      BY <2>1 DEF Queued
    <3>2. PICK i \in 1 .. Len(R[d][r]) : R[d][r][i] = u
      BY <3>1
    <3>3. CASE d = c /\ r = p
      <4>1. i \in 1 .. n + 1
        BY <1>2, <3>3
      <4>2. i = n + 1 \/ i \in 1 .. n
        BY <1>3, <4>1
      <4>3. ASSUME i \in 1 .. n PROVE i \in 1 .. Len(Q[d][r]) /\ Q[d][r][i] = u
        BY <1>2, <3>2, <3>3, <4>3 DEF n
      <4>4. QED
        BY <1>2, <3>2, <3>3, <4>2, <4>3 DEF Queued
    <3>4. CASE ~(d = c /\ r = p)
      BY <1>2, <3>2, <3>4 DEF Queued
    <3>5. QED
      BY <3>3, <3>4
  <2>2. ASSUME NEW u, Queued(Q, u) PROVE Queued(R, u)
    <3>1. PICK d \in CPUS, r \in Priorities : \E i \in 1 .. Len(Q[d][r]) : Q[d][r][i] = u
      BY <2>2 DEF Queued
    <3>2. PICK i \in 1 .. Len(Q[d][r]) : Q[d][r][i] = u
      BY <3>1
    <3>3. i \in 1 .. Len(R[d][r]) /\ R[d][r][i] = u
      <4>1. CASE d = c /\ r = p
        <5>1. i \in 1 .. n
          BY <3>2, <4>1 DEF n
        <5>2. i \in 1 .. n + 1
          BY <1>3, <5>1
        <5>3. QED
          BY <1>2, <3>2, <4>1, <5>1, <5>2
      <4>2. CASE ~(d = c /\ r = p)
        BY <1>2, <3>2, <4>2
      <4>3. QED
        BY <4>1, <4>2
    <3>4. QED
      BY <3>3 DEF Queued
  <2>3. Queued(R, t)
    <3>1. n + 1 \in 1 .. Len(R[c][p])
      BY <1>2, <1>3
    <3>2. QED
      BY <1>2, <3>1 DEF Queued
  <2>4. QED
    BY <2>1, <2>2, <2>3
<1>11. QED
  BY <1>2, <1>4, <1>5, <1>8, <1>9, <1>10 DEF QueuesOK, R, tl2

(***************************************************************************)
(* sched.c, dequeueThread(): the first thread of an array is in no queue   *)
(* any more, the others are, and the CPU's count has shrunk by one.        *)
(***************************************************************************)
LEMMA TakeOK ==
    ASSUME NEW Q, NEW tl, NEW ns, QueuesOK(Q, tl, ns),
           NEW c \in CPUS, NEW p \in Priorities, Q[c][p] # <<>>
    PROVE  /\ QueuesOK(Take(Q, c, p), tl, [ns EXCEPT ![c] = @ - 1])
           /\ \A u : Queued(Take(Q, c, p), u) <=> Queued(Q, u) /\ u # Head(Q[c][p])
           /\ Queued(Q, Head(Q[c][p])) /\ Head(Q[c][p]) \in Threads
<1> DEFINE R   == Take(Q, c, p)
           n   == Len(Q[c][p])
           h   == Head(Q[c][p])
           ns2 == [ns EXCEPT ![c] = @ - 1]
<1>1. /\ Q \in Queues /\ tl \in Tails /\ ns \in [CPUS -> Nat]
      /\ \A d \in CPUS, r \in Priorities : Len(Q[d][r]) <= tl[d][r]
      /\ \A d \in CPUS : ns[d] = Cardinality(OccupiedIn(Q, d))
      /\ Distinct(Q)
  BY DEF QueuesOK
<1>2. /\ R \in Queues
      /\ \A d \in CPUS, r \in Priorities : d # c \/ r # p => R[d][r] = Q[d][r]
      /\ n \in Nat \ {0} /\ Len(R[c][p]) = n - 1
      /\ \A i \in 1 .. n - 1 : R[c][p][i] = Q[c][p][i + 1]
      /\ h = Q[c][p][1] /\ h \in Threads
  BY <1>1, TakeQueues
<1>3. /\ \A d \in CPUS, r \in Priorities : Q[d][r] \in Seq(Threads) /\ Len(Q[d][r]) \in Nat
      /\ \A d \in CPUS, r \in Priorities : R[d][r] \in Seq(Threads)
  <2>1. \A d \in CPUS, r \in Priorities : Q[d][r] \in Seq(Threads) /\ R[d][r] \in Seq(Threads)
    BY <1>1, <1>2 DEF Queues
  <2>2. QED
    BY <2>1, LenProperties
<1>4. \A d \in CPUS, r \in Priorities : tl[d][r] \in Nat /\ tl[d][r] <= MAX_RUNQUEUE_SIZE
  BY <1>1, SizesAssumption DEF Tails
<1> HIDE DEF R, n, h
<1>5. \A d \in CPUS, r \in Priorities : Len(R[d][r]) <= tl[d][r]
  <2>1. Len(R[c][p]) <= tl[c][p]
    <3>1. n <= tl[c][p]
      BY <1>1 DEF n
    <3>2. QED
      BY <1>2, <1>4, <3>1
  <2>2. ASSUME NEW d \in CPUS, NEW r \in Priorities, d # c \/ r # p PROVE Len(R[d][r]) <= tl[d][r]
    BY <1>1, <1>2, <2>2
  <2>3. QED
    BY <2>1, <2>2
<1>6. \A d \in CPUS : d # c => OccupiedIn(R, d) = OccupiedIn(Q, d)
  BY <1>2 DEF OccupiedIn
<1>7. OccupiedIn(R, c) = OccupiedIn(Q, c) \ {<<p, n>>} /\ <<p, n>> \in OccupiedIn(Q, c)
  <2>1. \A r \in Priorities : DOMAIN Q[c][r] = 1 .. Len(Q[c][r]) /\ DOMAIN R[c][r] = 1 .. Len(R[c][r])
    BY <1>3, LenProperties
  <2>2. n \in 1 .. MAX_RUNQUEUE_SIZE /\ n \in DOMAIN Q[c][p]
    <3>1. n <= tl[c][p] /\ tl[c][p] \in Nat /\ tl[c][p] <= MAX_RUNQUEUE_SIZE
      BY <1>1, <1>4 DEF n
    <3>2. QED
      BY <1>2, <2>1, <3>1, SizesAssumption DEF n
  <2>3. \A r \in Priorities, k \in 1 .. MAX_RUNQUEUE_SIZE :
            k \in DOMAIN R[c][r] <=> k \in DOMAIN Q[c][r] /\ ~(r = p /\ k = n)
    BY <1>2, <1>3, <2>1 DEF n
  <2>4. \A x : x \in OccupiedIn(R, c) <=> x \in OccupiedIn(Q, c) /\ x # <<p, n>>
    BY <2>2, <2>3 DEF OccupiedIn
  <2>5. QED
    BY <2>2, <2>4 DEF OccupiedIn
<1>8. ns2 \in [CPUS -> Nat] /\ \A d \in CPUS : ns2[d] = Cardinality(OccupiedIn(R, d))
  <2>1. \A r \in Priorities : Len(Q[c][r]) <= MAX_RUNQUEUE_SIZE
    BY <1>1, <1>3, <1>4, SizesAssumption
  <2>2. IsFiniteSet(OccupiedIn(Q, c))
    BY <1>1, <2>1, OccupiedFinite
  <2>3. Cardinality(OccupiedIn(R, c)) = Cardinality(OccupiedIn(Q, c)) - 1
    BY <1>7, <2>2, FS_RemoveElement
  <2>4. Cardinality(OccupiedIn(R, c)) \in Nat
    BY <1>7, <2>2, FS_RemoveElement, FS_CardinalityType
  <2>5. QED
    BY <1>1, <1>6, <2>3, <2>4
<1>9. ASSUME NEW d \in CPUS, NEW r \in Priorities, NEW i \in 1 .. Len(R[d][r])
      PROVE  \E k \in 1 .. Len(Q[d][r]) :
                /\ R[d][r][i] = Q[d][r][k]
                /\ k = IF d = c /\ r = p THEN i + 1 ELSE i
                /\ R[d][r][i] # h
  <2> DEFINE k == IF d = c /\ r = p THEN i + 1 ELSE i
  <2>1. k \in 1 .. Len(Q[d][r]) /\ R[d][r][i] = Q[d][r][k] /\ (d = c /\ r = p => k # 1)
    BY SMTT(30), <1>2, <1>3, <1>9 DEF n
  <2> HIDE DEF k
  <2>2. 1 \in 1 .. Len(Q[c][p])
    BY <1>2 DEF n
  <2>3. Q[d][r][k] # h
    BY <1>1, <1>2, <2>1, <2>2 DEF Distinct
  <2>4. QED
    BY <2>1, <2>3 DEF k
<1>10. Distinct(R)
  <2> SUFFICES ASSUME NEW d \in CPUS, NEW e \in CPUS, NEW r \in Priorities, NEW s \in Priorities,
                      NEW i \in 1 .. Len(R[d][r]), NEW j \in 1 .. Len(R[e][s]), R[d][r][i] = R[e][s][j]
               PROVE  d = e /\ r = s /\ i = j
    BY DEF Distinct
  <2>1. PICK k \in 1 .. Len(Q[d][r]) :
            R[d][r][i] = Q[d][r][k] /\ k = IF d = c /\ r = p THEN i + 1 ELSE i
    BY SMTT(30), <1>9
  <2>2. PICK l \in 1 .. Len(Q[e][s]) :
            R[e][s][j] = Q[e][s][l] /\ l = IF e = c /\ s = p THEN j + 1 ELSE j
    BY <1>9
  <2>3. d = e /\ r = s /\ k = l
    <3>1. Q[d][r][k] = Q[e][s][l]
      BY <2>1, <2>2
    <3>2. QED
      BY <1>1, <3>1 DEF Distinct
  <2>4. i \in Int /\ j \in Int
    BY <1>2, <1>3
  <2>5. QED
    BY <2>1, <2>2, <2>3, <2>4
<1>11. Queued(Q, h)
  <2>1. 1 \in 1 .. Len(Q[c][p])
    BY <1>2 DEF n
  <2>2. QED
    BY <1>2, <2>1 DEF Queued
<1>12. \A u : Queued(R, u) <=> Queued(Q, u) /\ u # h
  <2>1. ASSUME NEW u, Queued(R, u) PROVE Queued(Q, u) /\ u # h
    <3>1. PICK d \in CPUS, r \in Priorities : \E i \in 1 .. Len(R[d][r]) : R[d][r][i] = u
      BY <2>1 DEF Queued
    <3>2. QED
      BY SMTT(30), <1>9, <3>1 DEF Queued
  <2>2. ASSUME NEW u, Queued(Q, u), u # h PROVE Queued(R, u)
    <3>1. PICK d \in CPUS, r \in Priorities : \E i \in 1 .. Len(Q[d][r]) : Q[d][r][i] = u
      BY <2>2 DEF Queued
    <3>2. PICK i \in 1 .. Len(Q[d][r]) : Q[d][r][i] = u
      BY <3>1
    <3>3. CASE d = c /\ r = p
      <4>1. i # 1
        BY <1>2, <2>2, <3>2, <3>3
      <4>2. i - 1 \in 1 .. Len(R[d][r]) /\ (i - 1) + 1 = i
        BY <1>2, <3>3, <4>1 DEF n
      <4>3. R[d][r][i - 1] = u
        BY <1>2, <3>2, <3>3, <4>2
      <4>4. QED
        BY <4>2, <4>3 DEF Queued
    <3>4. CASE ~(d = c /\ r = p)
      BY <1>2, <3>2, <3>4 DEF Queued
    <3>5. QED
      BY <3>3, <3>4
  <2>3. QED
    BY <2>1, <2>2
<1>13. QED
  BY <1>1, <1>2, <1>5, <1>8, <1>10, <1>11, <1>12 DEF QueuesOK, R, h

-----------------------------------------------------------------------------
(* The threads in O were given to CPU c, whose run queue is then rq: each  *)
(* is queued, or refused.                                                  *)
Given(c, rq, O) ==
    /\ QueuesOK([queue EXCEPT ![c] = rq.q], [tail EXCEPT ![c] = rq.tail],
                [threadsPerCPU EXCEPT ![c] = rq.n])
    /\ \E S \in SUBSET O :
        /\ \A u : Queued([queue EXCEPT ![c] = rq.q], u) <=> Queued(queue, u) \/ u \in S
        /\ rq.full = refused \cup (O \ S)

(***************************************************************************)
(* sched.c: giving a CPU no thread changes nothing.                        *)
(***************************************************************************)
LEMMA NoneGiven ==
    ASSUME QueuesOK(queue, tail, threadsPerCPU), NEW c \in CPUS
    PROVE  Given(c, RunqueueOf(c), {})
<1>1. queue \in Queues /\ tail \in Tails /\ threadsPerCPU \in [CPUS -> Nat]
  BY DEF QueuesOK
<1>2. /\ [queue EXCEPT ![c] = RunqueueOf(c).q] = queue
      /\ [tail EXCEPT ![c] = RunqueueOf(c).tail] = tail
      /\ [threadsPerCPU EXCEPT ![c] = RunqueueOf(c).n] = threadsPerCPU
      /\ RunqueueOf(c).full = refused
  BY <1>1 DEF RunqueueOf, Queues, Tails
<1>3. QED
  BY <1>2 DEF Given

(***************************************************************************)
(* sched.c, enqueueThread(): the array for a priority is one of the        *)
(* arrays.                                                                 *)
(***************************************************************************)
LEMMA LevelType == ASSUME NEW pr \in Nat PROVE Level(pr) \in Priorities
BY SizesAssumption DEF Level, Priorities

(***************************************************************************)
(* sched.c, enqueueThread(): a thread that is in no queue is put into one, *)
(* or refused by a full one.                                               *)
(***************************************************************************)
LEMMA EnqueueGives ==
    ASSUME QueuesOK(queue, tail, threadsPerCPU), NEW c \in CPUS, NEW t \in Threads,
           NEW pr \in Nat, ~Queued(queue, t)
    PROVE  Given(c, enqueueThread(RunqueueOf(c), t, pr), {t})
<1> DEFINE p == Level(pr)
           rq == enqueueThread(RunqueueOf(c), t, pr)
<1>1. p \in Priorities
  BY LevelType
<1>2. queue \in Queues /\ tail \in Tails /\ threadsPerCPU \in [CPUS -> Nat]
  BY DEF QueuesOK
<1>3. tail[c][p] \in Nat /\ MAX_RUNQUEUE_SIZE \in Nat
  BY <1>1, <1>2, SizesAssumption DEF Tails
<1>4. CASE tail[c][p] >= MAX_RUNQUEUE_SIZE
  <2>1. /\ rq.q = queue[c] /\ rq.tail = tail[c] /\ rq.n = threadsPerCPU[c]
        /\ rq.full = refused \cup {t}
    BY <1>4 DEF enqueueThread, RunqueueOf
  <2> HIDE DEF rq
  <2>2. /\ [queue EXCEPT ![c] = rq.q] = queue /\ [tail EXCEPT ![c] = rq.tail] = tail
        /\ [threadsPerCPU EXCEPT ![c] = rq.n] = threadsPerCPU
    BY <1>2, <2>1 DEF Queues, Tails
  <2>3. {} \in SUBSET {t} /\ {t} \ {} = {t}
    OBVIOUS
  <2>4. Given(c, rq, {t})
    BY <2>1, <2>2, <2>3 DEF Given
  <2>5. QED
    BY <2>4 DEF rq
<1>5. CASE tail[c][p] < MAX_RUNQUEUE_SIZE
  <2>1. /\ rq.q = [queue[c] EXCEPT ![p] = Append(queue[c][p], t)]
        /\ rq.tail = [tail[c] EXCEPT ![p] = @ + 1]
        /\ rq.n = threadsPerCPU[c] + 1
        /\ rq.full = refused
    BY <1>3, <1>5 DEF enqueueThread, RunqueueOf
  <2> HIDE DEF rq, p
  <2>2. /\ [queue EXCEPT ![c] = rq.q] = Put(queue, c, p, t)
        /\ [tail EXCEPT ![c] = rq.tail] = [tail EXCEPT ![c] = [tail[c] EXCEPT ![p] = @ + 1]]
        /\ [threadsPerCPU EXCEPT ![c] = rq.n] = [threadsPerCPU EXCEPT ![c] = @ + 1]
    BY <2>1 DEF Put
  <2>3. /\ QueuesOK(Put(queue, c, p, t), [tail EXCEPT ![c] = [tail[c] EXCEPT ![p] = @ + 1]],
                    [threadsPerCPU EXCEPT ![c] = @ + 1])
        /\ \A u : Queued(Put(queue, c, p, t), u) <=> Queued(queue, u) \/ u = t
    BY <1>1, <1>5, PutOK
  <2>4. {t} \in SUBSET {t} /\ refused \cup ({t} \ {t}) = refused
    OBVIOUS
  <2>5. \A u : Queued([queue EXCEPT ![c] = rq.q], u) <=> Queued(queue, u) \/ u \in {t}
    BY <2>2, <2>3
  <2>6. Given(c, rq, {t})
    BY <2>1, <2>2, <2>3, <2>4, <2>5 DEF Given
  <2>7. QED
    BY <2>6 DEF rq
<1>6. QED
  BY <1>3, <1>4, <1>5

(***************************************************************************)
(* sched.c, ageThreads(), demotePriority(): a priority stays a number of   *)
(* the word it is kept in, also when it is decremented below 0.            *)
(***************************************************************************)
LEMMA Priority ==
    ASSUME TypeOK, NEW c \in CPUS
    PROVE  /\ PrioAfter(c) \in [Threads -> 0 .. (WORD - 1)]
           /\ agedTicks(c) \in [Threads -> Nat]
<1>1. \A n \in 0 .. (WORD - 1) : (n + WORD - 1) % WORD \in 0 .. (WORD - 1)
  BY SizesAssumption
<1>2. agedPrio(c) \in [Threads -> 0 .. (WORD - 1)]
  BY <1>1 DEF TypeOK, agedPrio
<1>3. \A n \in 0 .. (WORD - 1) : demotePriority(n) \in 0 .. (WORD - 1)
  BY SizesAssumption DEF demotePriority
<1>4. PrioAfter(c) \in [Threads -> 0 .. (WORD - 1)]
  BY <1>2, <1>3 DEF PrioAfter
<1>5. agedTicks(c) \in [Threads -> Nat]
  BY DEF TypeOK, agedTicks
<1>6. QED
  BY <1>4, <1>5

(***************************************************************************)
(* sched.c, schedule(): the thread whose time slice ends is put back, or   *)
(* refused; it was in no queue while it ran.                               *)
(***************************************************************************)
LEMMA AfterGives ==
    ASSUME SInv, NEW c \in CPUS
    PROVE  /\ Given(c, RunqueueAfter(c), OldThread(c))
           /\ OldThread(c) \subseteq Threads
           /\ \A t \in OldThread(c) : currentThread[c] = t /\ state[t] = "RUNNING" /\ ~Queued(queue, t)
<1>1. QueuesOK(queue, tail, threadsPerCPU) /\ TypeOK /\ ThreadsOK
  BY DEF SInv
<1>2. OldThread(c) \subseteq Threads
  BY <1>1 DEF TypeOK, OldThread
<1>3. \A t \in OldThread(c) : currentThread[c] = t /\ state[t] = "RUNNING" /\ ~Queued(queue, t)
  BY <1>1, <1>2 DEF ThreadsOK, OldThread
<1>4. CASE OldThread(c) = {}
  BY <1>1, <1>2, <1>3, <1>4, NoneGiven DEF RunqueueAfter
<1>5. CASE OldThread(c) # {}
  <2> DEFINE t == currentThread[c]
             pr == PrioAfter(c)[t]
  <2>1. OldThread(c) = {t} /\ t \in Threads /\ ~Queued(queue, t)
    BY <1>2, <1>3, <1>5 DEF OldThread
  <2>2. pr \in Nat
    BY <1>1, <2>1, Priority
  <2>3. RunqueueAfter(c) = enqueueThread(RunqueueOf(c), t, pr)
    BY <1>5 DEF RunqueueAfter
  <2> HIDE DEF t, pr
  <2>4. QED
    BY <1>1, <1>2, <1>3, <2>1, <2>2, <2>3, EnqueueGives
<1>6. QED
  BY <1>4, <1>5

(* A run queue as one value.                                               *)
Runqueue == [q : [Priorities -> Seq(Threads)], tail : [Priorities -> Nat], n : Nat,
             full : SUBSET Threads]

(***************************************************************************)
(* sched.c, schedule(): between its halves it has a run queue.             *)
(***************************************************************************)
LEMMA RunqueueType ==
    ASSUME TypeOK, NEW c \in CPUS
    PROVE  RunqueueAfter(c) \in Runqueue
<1>1. RunqueueOf(c) \in Runqueue
  BY SizesAssumption DEF TypeOK, RunqueueOf, Runqueue
<1>2. ASSUME NEW rq \in Runqueue, NEW t \in Threads, NEW pr \in Nat
      PROVE  enqueueThread(rq, t, pr) \in Runqueue
  <2> DEFINE p == Level(pr)
  <2>1. p \in Priorities
    BY LevelType
  <2>2. rq.q[p] \in Seq(Threads) /\ rq.tail[p] + 1 \in Nat /\ rq.n + 1 \in Nat
    BY <2>1 DEF Runqueue
  <2>3. Append(rq.q[p], t) \in Seq(Threads)
    BY <2>2
  <2>4. CASE rq.tail[p] >= MAX_RUNQUEUE_SIZE
    BY <2>4 DEF enqueueThread, Runqueue
  <2>5. CASE ~(rq.tail[p] >= MAX_RUNQUEUE_SIZE)
    <3>1. enqueueThread(rq, t, pr) =
            [rq EXCEPT !.q[p] = Append(@, t), !.tail[p] = @ + 1, !.n = @ + 1]
      BY <2>5 DEF enqueueThread
    <3> HIDE DEF p
    <3>2. [rq.q EXCEPT ![p] = Append(rq.q[p], t)] \in [Priorities -> Seq(Threads)]
      BY <2>1, <2>3 DEF Runqueue
    <3>3. [rq.tail EXCEPT ![p] = rq.tail[p] + 1] \in [Priorities -> Nat]
      BY <2>1, <2>2 DEF Runqueue
    <3> DEFINE q2 == [rq.q EXCEPT ![p] = Append(rq.q[p], t)]
               tail2 == [rq.tail EXCEPT ![p] = rq.tail[p] + 1]
    <3>4. enqueueThread(rq, t, pr) = [rq EXCEPT !.q = q2, !.tail = tail2, !.n = rq.n + 1]
      BY <3>1
    <3> HIDE DEF q2, tail2
    <3>5. q2 \in [Priorities -> Seq(Threads)] /\ tail2 \in [Priorities -> Nat]
      BY <3>2, <3>3 DEF q2, tail2
    <3>6. QED
      BY <2>2, <3>4, <3>5 DEF Runqueue
  <2>6. QED
    BY <2>4, <2>5
<1>3. currentThread[c] \in OldThread(c) => currentThread[c] \in Threads
  BY NoThreadAssumption DEF TypeOK, OldThread
<1>4. OldThread(c) # {} => currentThread[c] \in Threads /\ PrioAfter(c)[currentThread[c]] \in Nat
  BY <1>3, Priority DEF OldThread
<1>5. QED
  BY <1>1, <1>2, <1>4 DEF RunqueueAfter

(***************************************************************************)
(* sched.c, schedule(): whichever thread h runs next, one that was queued  *)
(* or put back, or the new idle thread, each thread keeps one place.       *)
(***************************************************************************)
LEMMA RunKeeps ==
    ASSUME SInv, NEW c \in CPUS, NEW h \in Threads, Run(c, h), NEW S \in SUBSET OldThread(c),
           \A u : Queued(queue', u) <=> (Queued(queue, u) \/ u \in S) /\ u # h,
           refused' = refused \cup (OldThread(c) \ S),
           h \in S \/ Queued(queue, h) \/ state[h] = "UNUSED"
    PROVE  ThreadsOK'
<1>1. TypeOK /\ ThreadsOK
  BY DEF SInv
<1>2. /\ OldThread(c) \subseteq Threads
      /\ \A t \in OldThread(c) : currentThread[c] = t /\ state[t] = "RUNNING"
  BY AfterGives
<1>3. /\ currentThread'[c] = h
      /\ \A d \in CPUS : d # c => currentThread'[d] = currentThread[d]
      /\ state'[h] = "RUNNING"
      /\ \A u \in OldThread(c) : u # h => state'[u] = "RUNNABLE"
      /\ \A u \in Threads : u # h /\ u \notin OldThread(c) => state'[u] = state[u]
  BY <1>1, <1>2 DEF Run, TypeOK
<1>4. /\ h \notin OldThread(c) => state[h] # "RUNNING"
      /\ h \in OldThread(c) => currentThread[c] = h
      /\ h # NoThread
  BY <1>1, <1>2, NoThreadAssumption DEF ThreadsOK
<1>5. \A d \in CPUS : d # c /\ currentThread[d] # NoThread =>
            /\ currentThread[d] # h /\ currentThread[d] \notin OldThread(c)
            /\ currentThread[d] \in Threads
  BY <1>1, <1>2, <1>4 DEF ThreadsOK, TypeOK
<1>6. \A d \in CPUS : currentThread'[d] # NoThread => state'[currentThread'[d]] = "RUNNING"
  <2>1. ASSUME NEW d \in CPUS, d # c, currentThread[d] # NoThread
        PROVE  state'[currentThread[d]] = "RUNNING"
    BY <1>1, <1>3, <1>5, <2>1 DEF ThreadsOK
  <2>2. QED
    BY <1>3, <2>1
<1>7. \A d, e \in CPUS : currentThread'[d] # NoThread /\ currentThread'[d] = currentThread'[e] => d = e
  BY <1>1, <1>3, <1>5 DEF ThreadsOK
<1>8. \A t \in Threads : state'[t] = "RUNNING" => \E d \in CPUS : currentThread'[d] = t
  <2> SUFFICES ASSUME NEW t \in Threads, state'[t] = "RUNNING"
               PROVE  \E d \in CPUS : currentThread'[d] = t
    OBVIOUS
  <2>1. CASE t = h
    BY <1>3, <2>1
  <2>2. CASE t # h
    <3>1. t \notin OldThread(c) /\ state[t] = "RUNNING"
      BY <1>3, <2>2
    <3>2. PICK d \in CPUS : currentThread[d] = t
      BY <1>1, <3>1 DEF ThreadsOK
    <3>3. d # c
      BY <3>1, <3>2, NoThreadAssumption DEF OldThread
    <3>4. QED
      BY <1>3, <3>2, <3>3
  <2>3. QED
    BY <2>1, <2>2
<1>9. \A t \in Threads : Queued(queue', t) => state'[t] = "RUNNABLE"
  <2> SUFFICES ASSUME NEW t \in Threads, Queued(queue', t) PROVE state'[t] = "RUNNABLE"
    OBVIOUS
  <2>1. t # h /\ (Queued(queue, t) \/ t \in S)
    OBVIOUS
  <2>2. CASE t \in OldThread(c)
    BY <1>3, <2>1, <2>2
  <2>3. CASE t \notin OldThread(c)
    BY <1>1, <1>3, <2>1, <2>3 DEF ThreadsOK
  <2>4. QED
    BY <2>2, <2>3
<1>10. \A t \in Threads : state'[t] = "RUNNABLE" => Queued(queue', t) \/ t \in refused'
  <2> SUFFICES ASSUME NEW t \in Threads, state'[t] = "RUNNABLE", t \notin refused'
               PROVE  Queued(queue', t)
    OBVIOUS
  <2>1. t # h
    BY <1>3
  <2>2. CASE t \in OldThread(c)
    BY <2>1, <2>2
  <2>3. CASE t \notin OldThread(c)
    BY <1>1, <1>3, <2>1, <2>3 DEF ThreadsOK
  <2>4. QED
    BY <2>2, <2>3
<1>11. QED
  BY <1>6, <1>7, <1>8, <1>9, <1>10 DEF ThreadsOK

(***************************************************************************)
(* sched.c, schedule(): the types of what a thread that starts changes.    *)
(***************************************************************************)
LEMMA RunTypes ==
    ASSUME TypeOK, NEW c \in CPUS, NEW h \in Threads, Run(c, h), QueuesOK(queue', tail', threadsPerCPU'),
           NEW S, refused' = refused \cup (OldThread(c) \ S)
    PROVE  TypeOK'
<1>1. PrioAfter(c) \in [Threads -> 0 .. (WORD - 1)] /\ agedTicks(c) \in [Threads -> Nat]
  BY Priority
<1>2. OldThread(c) \subseteq Threads
  BY DEF TypeOK, OldThread
<1>3. /\ currentThread' \in [CPUS -> Threads \cup {NoThread}]
      /\ state' \in [Threads -> {"UNUSED", "RUNNABLE", "RUNNING"}]
      /\ prio' \in [Threads -> 0 .. (WORD - 1)]
      /\ waitTicks' \in [Threads -> Nat]
      /\ refused' \subseteq Threads
  BY <1>1, <1>2 DEF Run, TypeOK
<1>4. QED
  BY <1>3 DEF QueuesOK, Queues, Tails, TypeOK

(***************************************************************************)
(* sched.c, schedule(): a queued thread runs next.                         *)
(***************************************************************************)
LEMMA ScheduleQueuedInv ==
    ASSUME SInv, NEW c \in CPUS, ScheduleQueued(c)
    PROVE  SInv'
<1> DEFINE rq == RunqueueAfter(c)
           Q  == [queue EXCEPT ![c] = rq.q]
           tl == [tail EXCEPT ![c] = rq.tail]
           ns == [threadsPerCPU EXCEPT ![c] = rq.n]
<1>1. PICK p \in Priorities :
        /\ rq.q[p] # <<>>
        /\ SetRunqueue(c, dequeueThread(rq, p))
        /\ Run(c, Head(rq.q[p]))
  BY DEF ScheduleQueued, BestLevel
<1> DEFINE h == Head(rq.q[p])
<1>2. /\ Given(c, rq, OldThread(c)) /\ OldThread(c) \subseteq Threads
      /\ \A t \in OldThread(c) : ~Queued(queue, t)
  BY AfterGives
<1> HIDE DEF rq
<1>3. PICK S \in SUBSET OldThread(c) :
        /\ \A u : Queued(Q, u) <=> Queued(queue, u) \/ u \in S
        /\ rq.full = refused \cup (OldThread(c) \ S)
  BY <1>2 DEF Given
<1>4. QueuesOK(Q, tl, ns)
  BY <1>2 DEF Given
<1>5. queue \in Queues /\ tail \in Tails /\ threadsPerCPU \in [CPUS -> Nat]
  BY DEF SInv, QueuesOK
<1>6. Q[c] = rq.q /\ tl[c] = rq.tail /\ ns[c] = rq.n
  BY <1>5 DEF Queues, Tails
<1>7. rq \in Runqueue
  BY RunqueueType DEF rq, SInv
<1>8. /\ queue' = [queue EXCEPT ![c] = [rq.q EXCEPT ![p] = Tail(@)]]
      /\ tail' = tl
      /\ threadsPerCPU' = [threadsPerCPU EXCEPT ![c] = rq.n - 1]
      /\ refused' = rq.full
  BY <1>1, <1>7 DEF SetRunqueue, dequeueThread, Runqueue
<1>9. queue' = Take(Q, c, p) /\ threadsPerCPU' = [ns EXCEPT ![c] = @ - 1]
  BY <1>5, <1>6, <1>8 DEF Take, Queues
<1>10. Q[c][p] # <<>> /\ Head(Q[c][p]) = h
  BY <1>1, <1>6
<1> HIDE DEF Q, tl, ns, h
<1>11. /\ QueuesOK(queue', tail', threadsPerCPU')
       /\ \A u : Queued(queue', u) <=> Queued(Q, u) /\ u # h
       /\ Queued(Q, h) /\ h \in Threads
  <2>1. /\ QueuesOK(Take(Q, c, p), tl, [ns EXCEPT ![c] = @ - 1])
        /\ \A u : Queued(Take(Q, c, p), u) <=> Queued(Q, u) /\ u # Head(Q[c][p])
        /\ Queued(Q, Head(Q[c][p])) /\ Head(Q[c][p]) \in Threads
    BY <1>4, <1>10, TakeOK
  <2>2. QED
    BY <1>8, <1>9, <1>10, <2>1
<1>12. Run(c, h)
  BY <1>1 DEF h
<1>13. ThreadsOK'
  BY ZenonT(60), <1>3, <1>8, <1>11, <1>12, RunKeeps
<1>14. TypeOK'
  BY <1>3, <1>8, <1>11, <1>12, RunTypes DEF SInv
<1>15. QED
  BY <1>11, <1>13, <1>14 DEF SInv

(***************************************************************************)
(* sched.c, schedule(), process.c, initIdle(): the new idle thread runs.   *)
(***************************************************************************)
LEMMA ScheduleIdleInv ==
    ASSUME SInv, NEW c \in CPUS, ScheduleIdle(c)
    PROVE  SInv'
<1> DEFINE rq == RunqueueAfter(c)
<1>1. PICK h \in Threads : SetRunqueue(c, rq) /\ state[h] = "UNUSED" /\ Run(c, h)
  BY DEF ScheduleIdle
<1>2. Given(c, rq, OldThread(c)) /\ \A t \in OldThread(c) : state[t] = "RUNNING"
  BY AfterGives
<1> HIDE DEF rq
<1>3. QueuesOK(queue', tail', threadsPerCPU')
  BY <1>1, <1>2 DEF Given, SetRunqueue
<1>4. PICK S \in SUBSET OldThread(c) :
        /\ \A u : Queued(queue', u) <=> Queued(queue, u) \/ u \in S
        /\ refused' = refused \cup (OldThread(c) \ S)
  BY <1>1, <1>2 DEF Given, SetRunqueue
<1>5. ~Queued(queue, h) /\ h \notin S
  BY <1>1, <1>2 DEF SInv, ThreadsOK
<1>6. \A u : Queued(queue', u) <=> (Queued(queue, u) \/ u \in S) /\ u # h
  BY <1>4, <1>5
<1>7. ThreadsOK'
  BY <1>1, <1>4, <1>6, RunKeeps
<1>8. TypeOK'
  BY <1>1, <1>3, <1>4, RunTypes DEF SInv
<1>9. QED
  BY <1>3, <1>7, <1>8 DEF SInv

(***************************************************************************)
(* sched.c, enqueueRunnableThread(): a new thread is queued, or refused.   *)
(***************************************************************************)
LEMMA EnqueueInv ==
    ASSUME SInv, NEW t \in Threads, enqueueRunnableThread(t)
    PROVE  SInv'
<1>1. TypeOK /\ ThreadsOK /\ QueuesOK(queue, tail, threadsPerCPU)
  BY DEF SInv
<1>2. PICK c \in CPUS : SetRunqueue(c, enqueueThread(RunqueueOf(c), t, prio[t]))
  BY DEF enqueueRunnableThread
<1>3. ~Queued(queue, t) /\ state[t] = "UNUSED"
  BY <1>1 DEF enqueueRunnableThread, ThreadsOK
<1>4. prio[t] \in Nat
  BY <1>1 DEF TypeOK
<1> DEFINE rq == enqueueThread(RunqueueOf(c), t, prio[t])
<1>5. Given(c, rq, {t})
  BY <1>1, <1>3, <1>4, EnqueueGives
<1>6. SetRunqueue(c, rq)
  BY <1>2
<1> HIDE DEF rq
<1>7. QueuesOK(queue', tail', threadsPerCPU')
  BY <1>5, <1>6 DEF Given, SetRunqueue
<1>8. PICK S \in SUBSET {t} :
        /\ \A u : Queued(queue', u) <=> Queued(queue, u) \/ u \in S
        /\ refused' = refused \cup ({t} \ S)
  BY <1>5, <1>6 DEF Given, SetRunqueue
<1>9. /\ currentThread' = currentThread /\ prio' = prio /\ waitTicks' = waitTicks
      /\ state'[t] = "RUNNABLE" /\ \A u \in Threads : u # t => state'[u] = state[u]
      /\ state' \in [Threads -> {"UNUSED", "RUNNABLE", "RUNNING"}]
  BY <1>1 DEF enqueueRunnableThread, TypeOK
<1>10. TypeOK'
  BY <1>1, <1>7, <1>8, <1>9 DEF TypeOK, QueuesOK, Queues, Tails
<1>11. \A c1 \in CPUS : currentThread[c1] # NoThread => currentThread[c1] \in Threads /\ currentThread[c1] # t
  BY <1>1, <1>3 DEF TypeOK, ThreadsOK
<1>12. ThreadsOK'
  <2>1. \A d \in CPUS : currentThread'[d] # NoThread => state'[currentThread'[d]] = "RUNNING"
    BY <1>1, <1>9, <1>11 DEF ThreadsOK
  <2>2. \A d, e \in CPUS : currentThread'[d] # NoThread /\ currentThread'[d] = currentThread'[e] => d = e
    BY <1>1, <1>9 DEF ThreadsOK
  <2>3. \A u \in Threads : state'[u] = "RUNNING" => \E d \in CPUS : currentThread'[d] = u
    BY <1>1, <1>9 DEF ThreadsOK
  <2>4. \A u \in Threads : Queued(queue', u) => state'[u] = "RUNNABLE"
    BY <1>1, <1>8, <1>9 DEF ThreadsOK
  <2>5. \A u \in Threads : state'[u] = "RUNNABLE" => Queued(queue', u) \/ u \in refused'
    BY <1>1, <1>8, <1>9 DEF ThreadsOK
  <2>6. QED
    BY <2>1, <2>2, <2>3, <2>4, <2>5 DEF ThreadsOK
<1>13. QED
  BY <1>7, <1>10, <1>12 DEF SInv

(***************************************************************************)
(* Before the first thread all queues are empty.                           *)
(***************************************************************************)
LEMMA InitSInv == Init => SInv
<1> SUFFICES ASSUME Init PROVE SInv
  OBVIOUS
<1>1. TypeOK
  BY SizesAssumption DEF Init, TypeOK
<1>2. \A c \in CPUS, p \in Priorities : queue[c][p] = <<>> /\ Len(queue[c][p]) = 0 /\ tail[c][p] = 0
  BY DEF Init
<1>3. \A t : ~Queued(queue, t)
  BY <1>2 DEF Queued
<1>4. \A c \in CPUS : OccupiedIn(queue, c) = {}
  <2>1. \A c \in CPUS, p \in Priorities : DOMAIN queue[c][p] = {}
    BY <1>2
  <2>2. QED
    BY <2>1 DEF OccupiedIn
<1>5. QueuesOK(queue, tail, threadsPerCPU)
  <2>1. Distinct(queue)
    BY <1>2 DEF Distinct
  <2>2. \A c \in CPUS : threadsPerCPU[c] = Cardinality(OccupiedIn(queue, c))
    BY <1>4, FS_EmptySet DEF Init
  <2>3. QED
    BY <1>1, <1>2, <2>1, <2>2 DEF QueuesOK, Queues, Tails, TypeOK
<1>6. ThreadsOK
  BY <1>3 DEF Init, ThreadsOK
<1>7. QED
  BY <1>1, <1>5, <1>6 DEF SInv

(***************************************************************************)
(* Every call of the scheduler keeps the invariant.                        *)
(***************************************************************************)
LEMMA NextSInv == SInv /\ [Next]_vars => SInv'
<1> SUFFICES ASSUME SInv, [Next]_vars PROVE SInv'
  OBVIOUS
<1>1. CASE UNCHANGED vars
  BY <1>1 DEF vars, SInv, TypeOK, QueuesOK, ThreadsOK, Distinct, OccupiedIn, Queued, Queues, Tails
<1>2. ASSUME NEW t \in Threads, enqueueRunnableThread(t) PROVE SInv'
  BY <1>2, EnqueueInv
<1>3. ASSUME NEW c \in CPUS, ScheduleQueued(c) PROVE SInv'
  BY <1>3, ScheduleQueuedInv
<1>4. ASSUME NEW c \in CPUS, ScheduleIdle(c) PROVE SInv'
  BY <1>4, ScheduleIdleInv
<1>5. QED
  BY <1>1, <1>2, <1>3, <1>4 DEF Next

(***************************************************************************)
(* The places of a thread, as the invariant counts them.                   *)
(***************************************************************************)
LEMMA PlacesQueued ==
    ASSUME SInv, NEW t \in Threads
    PROVE  /\ Places(t) # {} <=> Queued(queue, t)
           /\ \A x, y \in Places(t) : x = y
<1>1. /\ queue \in [CPUS -> [Priorities -> Seq(Threads)]]
      /\ \A c \in CPUS, p \in Priorities : Len(queue[c][p]) <= tail[c][p]
      /\ \A c \in CPUS, p \in Priorities : tail[c][p] \in 0 .. MAX_RUNQUEUE_SIZE
      /\ Distinct(queue)
  BY DEF SInv, QueuesOK, Queues, Tails
<1>2. \A c \in CPUS, p \in Priorities :
        /\ DOMAIN queue[c][p] = 1 .. Len(queue[c][p]) /\ Len(queue[c][p]) \in Nat
        /\ Len(queue[c][p]) <= MAX_RUNQUEUE_SIZE
  <2> SUFFICES ASSUME NEW c \in CPUS, NEW p \in Priorities
               PROVE  /\ DOMAIN queue[c][p] = 1 .. Len(queue[c][p]) /\ Len(queue[c][p]) \in Nat
                      /\ Len(queue[c][p]) <= MAX_RUNQUEUE_SIZE
    OBVIOUS
  <2>1. queue[c][p] \in Seq(Threads)
    BY <1>1
  <2>2. DOMAIN queue[c][p] = 1 .. Len(queue[c][p]) /\ Len(queue[c][p]) \in Nat
    BY <2>1, LenProperties
  <2>3. Len(queue[c][p]) <= tail[c][p] /\ tail[c][p] \in Int /\ tail[c][p] <= MAX_RUNQUEUE_SIZE
    BY <1>1, SizesAssumption
  <2>4. QED
    BY <2>2, <2>3, SizesAssumption
<1>3. ASSUME NEW c \in CPUS, NEW p \in Priorities, NEW i \in 1 .. Len(queue[c][p]), queue[c][p][i] = t
      PROVE  <<c, p, i>> \in Places(t)
  <2>1. i \in 1 .. MAX_RUNQUEUE_SIZE
    BY <1>2, SizesAssumption
  <2>2. QED
    BY <1>2, <1>3, <2>1 DEF Places
<1>4. ASSUME NEW x \in Places(t)
      PROVE  /\ x[1] \in CPUS /\ x[2] \in Priorities /\ x[3] \in 1 .. Len(queue[x[1]][x[2]])
             /\ queue[x[1]][x[2]][x[3]] = t /\ x = <<x[1], x[2], x[3]>>
  BY <1>2 DEF Places
<1>5. Places(t) # {} <=> Queued(queue, t)
  <2>1. ASSUME Queued(queue, t) PROVE Places(t) # {}
    BY <1>3, <2>1 DEF Queued
  <2>2. ASSUME NEW x \in Places(t) PROVE Queued(queue, t)
    <3>1. \E i \in 1 .. Len(queue[x[1]][x[2]]) : queue[x[1]][x[2]][i] = t
      BY <1>4
    <3>2. QED
      BY <1>4, <3>1 DEF Queued
  <2>3. QED
    BY <2>1, <2>2
<1>6. ASSUME NEW x \in Places(t), NEW y \in Places(t) PROVE x = y
  <2>1. x[1] = y[1] /\ x[2] = y[2] /\ x[3] = y[3]
    BY <1>1, <1>4 DEF Distinct
  <2>2. QED
    BY <1>4, <2>1
<1>7. QED
  BY <1>5, <1>6

-----------------------------------------------------------------------------
(***************************************************************************)
(* sched.c: the inductive invariant, for any number of CPUs, threads,      *)
(* priorities and slots.                                                   *)
(***************************************************************************)
THEOREM SchedInv == Spec => []SInv
BY InitSInv, NextSInv, PTL DEF Spec

(***************************************************************************)
(* sched.c, threadsPerCPU: CountsMatchQueues for every value of the        *)
(* constants: leastLoadedCPU() balances by the true number of threads.     *)
(***************************************************************************)
THEOREM CountsAlwaysMatch == Spec => []CountsMatchQueues
<1>1. SInv => CountsMatchQueues
  <2> SUFFICES ASSUME SInv PROVE CountsMatchQueues
    OBVIOUS
  <2>1. \A c \in CPUS : threadsPerCPU[c] = Cardinality(Occupied(c))
    BY DEF SInv, QueuesOK, OccupiedIn, Occupied
  <2>2. ASSUME NEW c \in CPUS, NEW p \in Priorities PROVE Len(queue[c][p]) <= MAX_RUNQUEUE_SIZE
    <3>1. /\ Len(queue[c][p]) <= tail[c][p] /\ tail[c][p] \in 0 .. MAX_RUNQUEUE_SIZE
          /\ queue[c][p] \in Seq(Threads)
      BY DEF SInv, QueuesOK, Tails, Queues
    <3>2. Len(queue[c][p]) \in Nat
      BY <3>1, LenProperties
    <3>3. QED
      BY <3>1, <3>2, SizesAssumption
  <2>3. QED
    BY <2>1, <2>2 DEF SInv, CountsMatchQueues
<1>2. QED
  BY <1>1, SchedInv, PTL

(***************************************************************************)
(* sched.c, schedule(): OnePlace for every value of the constants: a       *)
(* thread is in one slot of one queue or runs on one CPU, never both.      *)
(***************************************************************************)
THEOREM EveryThreadInOnePlace == Spec => []OnePlace
<1>1. SInv => OnePlace
  <2> SUFFICES ASSUME SInv, NEW t \in Threads
               PROVE  /\ \A x, y \in Places(t) : x = y
                      /\ \A c, d \in CPUS : currentThread[c] = t /\ currentThread[d] = t => c = d
                      /\ Places(t) # {} => state[t] = "RUNNABLE"
                      /\ state[t] = "RUNNING" => \E c \in CPUS : currentThread[c] = t
    BY DEF OnePlace
  <2>1. ThreadsOK
    BY DEF SInv
  <2>2. t # NoThread
    BY NoThreadAssumption
  <2>3. QED
    BY <2>1, <2>2, PlacesQueued DEF ThreadsOK
<1>2. QED
  BY <1>1, SchedInv, PTL

(***************************************************************************)
(* sched.c, "Runqueue full": LostOnlyIfRefused for every value of the      *)
(* constants: schedule() loses no thread it did not complain about.        *)
(***************************************************************************)
THEOREM NoneLostUnlessRefused == Spec => []LostOnlyIfRefused
<1>1. SInv => LostOnlyIfRefused
  BY PlacesQueued DEF SInv, ThreadsOK, LostOnlyIfRefused
<1>2. QED
  BY <1>1, SchedInv, PTL
=============================================================================
