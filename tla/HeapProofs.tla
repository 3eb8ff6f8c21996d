---------------------------- MODULE HeapProofs ------------------------------
(***************************************************************************)
(* Proofs about the kernel heap, for any number of frames and any sizes.   *)
(***************************************************************************)
EXTENDS Heap, TLAPS

(* TableMatchesLive and LiveDisjoint of any table, length and allocations. *)
Encodes(e, t, L) ==
    /\ \A r \in L :
        /\ r.start + r.len <= t
        /\ \A b \in Region(r) : e[b] = EntryOf(r, b)
    /\ \A b \in Blocks :
        b < t /\ e[b] # FREE => \E r \in L : b \in Region(r)

Disjoint(L) == \A q, r \in L : q # r => Region(q) \cap Region(r) = {}

(* What the frames handed out so far and the heap's length have to do with *)
(* each other, and what is known before the first allocation.              *)
FrameBudget == total_blocks + frames <= FRAMES

BeforeNil == live = {} => total_blocks = INITIAL_BLOCKS

(* The allocation that holds NIL, and the table, stays.                    *)
NilStays == live # {} => \E r \in live : r.start = 0

(***************************************************************************)
(* The inductive invariant.                                                *)
(***************************************************************************)
HInv ==
    /\ TypeOK
    /\ Disjoint(live)
    /\ Encodes(entries, total_blocks, live)
    /\ HeapBacked
    /\ NullMeansNoFrames
    /\ FrameBudget
    /\ BeforeNil
    /\ NilStays

(***************************************************************************)
(* An allocation made where the table shows a free run overlaps no other   *)
(* allocation, and the table with its entries written encodes it too.      *)
(***************************************************************************)
LEMMA MarkRun ==
    ASSUME NEW e \in [Blocks -> EntryValues], NEW t \in 0 .. FRAMES,
           NEW L \in SUBSET Allocations, Encodes(e, t, L), Disjoint(L),
           NEW s \in Blocks, NEW n \in Nat, FreeRun(e, t, n, s),
           NEW r, r = [start |-> s, len |-> n]
    PROVE  /\ r \in Allocations
           /\ r \notin L
           /\ \A q \in L : Region(q) \cap Region(r) = {}
           /\ Disjoint(L \cup {r})
           /\ heap_malloc_blocks(e, r) \in [Blocks -> EntryValues]
           /\ Encodes(heap_malloc_blocks(e, r), t, L \cup {r})
<1>1. n > 0 /\ s + n <= t /\ \A b \in s .. (s + n - 1) : e[b] = FREE
  BY DEF FreeRun
<1>2. r.start = s /\ r.len = n /\ Region(r) = s .. (s + n - 1)
  BY DEF Region
<1>3. r \in Allocations
  BY <1>1, <1>2, FramesAssumption DEF Allocations, Blocks
<1>4. \A q \in L : \A b \in Region(q) : b \in Blocks /\ e[b] # FREE
  <2>1. TAKE q \in L
  <2>2. q.start \in Blocks /\ q.len \in 1 .. FRAMES /\ q.start + q.len <= FRAMES
    BY DEF Allocations
  <2>3. TAKE b \in Region(q)
  <2>4. b \in Blocks
    BY <2>2, FramesAssumption DEF Region, Blocks
  <2>5. e[b] = EntryOf(q, b)
    BY DEF Encodes
  <2>6. EntryOf(q, b) # FREE
    BY DEF EntryOf, FREE
  <2>7. QED
    BY <2>4, <2>5, <2>6
<1>5. \A q \in L : Region(q) \cap Region(r) = {}
  BY <1>1, <1>2, <1>4
<1>6. s \in Region(r)
  BY <1>1, <1>2, FramesAssumption DEF Blocks
<1>7. r \notin L
  BY <1>5, <1>6
<1>8. Disjoint(L \cup {r})
  BY <1>5 DEF Disjoint
<1>9. \A b \in Blocks : EntryOf(r, b) \in EntryValues
  BY DEF EntryOf, EntryValues
<1>10. heap_malloc_blocks(e, r) \in [Blocks -> EntryValues]
  BY <1>9 DEF heap_malloc_blocks
<1>11. \A q \in L \cup {r} :
         /\ q.start + q.len <= t
         /\ \A b \in Region(q) : heap_malloc_blocks(e, r)[b] = EntryOf(q, b)
  <2>1. TAKE q \in L \cup {r}
  <2>2. CASE q = r
    <3>1. \A b \in Region(r) : b \in Blocks
      BY <1>1, <1>2, FramesAssumption DEF Blocks
    <3>2. QED
      BY <2>2, <3>1, <1>1, <1>2 DEF heap_malloc_blocks
  <2>3. CASE q \in L
    <3>1. q.start + q.len <= t /\ \A b \in Region(q) : e[b] = EntryOf(q, b)
      BY <2>3 DEF Encodes
    <3>2. \A b \in Region(q) : b \in Blocks /\ b \notin Region(r)
      BY <2>3, <1>4, <1>5
    <3>3. QED
      BY <3>1, <3>2 DEF heap_malloc_blocks
  <2>4. QED
    BY <2>2, <2>3
<1>12. \A b \in Blocks : b < t /\ heap_malloc_blocks(e, r)[b] # FREE =>
         \E q \in L \cup {r} : b \in Region(q)
  <2>1. TAKE b \in Blocks
  <2>2. HAVE b < t /\ heap_malloc_blocks(e, r)[b] # FREE
  <2>3. CASE b \in Region(r)
    BY <2>3
  <2>4. CASE b \notin Region(r)
    <3>1. e[b] # FREE
      BY <2>2, <2>4 DEF heap_malloc_blocks
    <3>2. QED
      BY <2>2, <3>1 DEF Encodes
  <2>5. QED
    BY <2>3, <2>4
<1>13. Encodes(heap_malloc_blocks(e, r), t, L \cup {r})
  BY <1>11, <1>12 DEF Encodes
<1>14. QED
  BY <1>3, <1>5, <1>7, <1>8, <1>10, <1>13

(***************************************************************************)
(* Growing the heap by k free blocks keeps the encoding.                   *)
(***************************************************************************)
LEMMA ExpandKeeps ==
    ASSUME TypeOK, Encodes(entries, total_blocks, live),
           NEW k \in Nat, total_blocks + k <= FRAMES
    PROVE  /\ heap_expand(entries, k) \in [Blocks -> EntryValues]
           /\ Encodes(heap_expand(entries, k), total_blocks + k, live)
<1> DEFINE e == heap_expand(entries, k)
<1>0. total_blocks \in Nat /\ FRAMES \in Nat
  BY FramesAssumption DEF TypeOK
<1>1. e \in [Blocks -> EntryValues]
  BY DEF heap_expand, TypeOK, EntryValues
<1>2. \A b \in Blocks : b < total_blocks => e[b] = entries[b]
  BY <1>0 DEF heap_expand, Blocks
<1>3. \A b \in Blocks : total_blocks <= b /\ b < total_blocks + k => e[b] = FREE
  BY <1>0 DEF heap_expand, Blocks
<1>4. \A r \in live : r.start + r.len <= total_blocks + k
                      /\ \A b \in Region(r) : e[b] = EntryOf(r, b)
  <2>1. TAKE r \in live
  <2>2. r.start \in Nat /\ r.len \in Nat /\ r.start + r.len <= FRAMES
    BY FramesAssumption DEF TypeOK, Allocations, Blocks
  <2>3. r.start + r.len <= total_blocks /\ \A b \in Region(r) : entries[b] = EntryOf(r, b)
    BY DEF Encodes
  <2>4. \A b \in Region(r) : b \in Blocks /\ b < total_blocks
    BY <1>0, <2>2, <2>3 DEF Region, Blocks
  <2>5. QED
    BY <1>0, <1>2, <2>2, <2>3, <2>4
<1>5. \A b \in Blocks : b < total_blocks + k /\ e[b] # FREE =>
         \E r \in live : b \in Region(r)
  <2>1. TAKE b \in Blocks
  <2>2. HAVE b < total_blocks + k /\ e[b] # FREE
  <2>3. b < total_blocks
    BY <1>0, <1>3, <2>2 DEF Blocks
  <2>4. QED
    BY <1>2, <2>2, <2>3 DEF Encodes
<1> HIDE DEF e
<1>6. Encodes(e, total_blocks + k, live)
  BY <1>4, <1>5 DEF Encodes
<1>7. QED
  BY <1>1, <1>6 DEF e

(***************************************************************************)
(* kfree()'s walk over the table finds exactly the blocks of the           *)
(* allocation whose start it was given.                                    *)
(***************************************************************************)
LEMMA WalkFindsRegion ==
    ASSUME TypeOK, Encodes(entries, total_blocks, live), NEW r \in live
    PROVE  WalkFrom(r.start) = Region(r)
<1>1. /\ r.start \in Nat /\ r.len \in Nat /\ r.len > 0
      /\ r.start + r.len <= total_blocks
      /\ total_blocks \in Nat /\ total_blocks <= FRAMES /\ FRAMES \in Nat
  BY FramesAssumption DEF TypeOK, Allocations, Blocks, Encodes
<1>2. \A b \in Region(r) : entries[b] = EntryOf(r, b)
  BY DEF Encodes
<1>3. \A b \in Region(r) : b \in Nat /\ (HasNext(entries[b]) <=> b < r.start + r.len - 1)
  <2>1. TAKE b \in Region(r)
  <2>2. b \in Nat /\ r.start <= b /\ b <= r.start + r.len - 1
    BY <1>1 DEF Region
  <2>3. CASE b = r.start /\ r.len > 1
    BY <1>1, <1>2, <2>2, <2>3 DEF HasNext, EntryOf
  <2>4. CASE b = r.start /\ r.len = 1
    BY <1>1, <1>2, <2>2, <2>4 DEF HasNext, EntryOf
  <2>5. CASE b # r.start /\ b = r.start + r.len - 1
    BY <1>1, <1>2, <2>2, <2>5 DEF HasNext, EntryOf
  <2>6. CASE b # r.start /\ b < r.start + r.len - 1
    BY <1>1, <1>2, <2>2, <2>6 DEF HasNext, EntryOf
  <2>7. QED
    BY <1>1, <2>2, <2>3, <2>4, <2>5, <2>6
<1>4. ASSUME NEW b \in Region(r) PROVE b \in WalkFrom(r.start)
  <2>1. b \in Blocks /\ r.start <= b /\ b < total_blocks
    BY <1>1 DEF Region, Blocks
  <2>2. \A j \in r.start .. (b - 1) : HasNext(entries[j])
    BY <1>1, <1>3, <2>1 DEF Region
  <2>3. QED
    BY <2>1, <2>2 DEF WalkFrom
<1>5. ASSUME NEW b \in WalkFrom(r.start) PROVE b \in Region(r)
  <2>1. b \in Nat /\ r.start <= b /\ \A j \in r.start .. (b - 1) : HasNext(entries[j])
    BY FramesAssumption DEF WalkFrom, Blocks
  <2>2. ~HasNext(entries[r.start + r.len - 1])
    BY <1>1, <1>3 DEF Region
  <2>3. b <= r.start + r.len - 1
    BY <1>1, <2>1, <2>2
  <2>4. QED
    BY <1>1, <2>1, <2>3 DEF Region
<1>6. QED
  BY <1>4, <1>5

(***************************************************************************)
(* After the walk and the contraction of kfree() the table encodes the     *)
(* other allocations; the heap still has the block that holds the table.   *)
(***************************************************************************)
LEMMA FreeKeeps ==
    ASSUME TypeOK, Encodes(entries, total_blocks, live), Disjoint(live), NilStays,
           NEW r \in live, r.start # 0, NEW t \in 0 .. total_blocks,
           NEW e, e = heap_mark_blocks_free(r.start), heap_contract(e, t)
    PROVE  /\ e \in [Blocks -> EntryValues]
           /\ Encodes(e, t, live \ {r})
           /\ \E q \in live \ {r} : q.start = 0
           /\ t > 0
<1>1. WalkFrom(r.start) = Region(r)
  BY WalkFindsRegion
<1>2. e = [b \in Blocks |-> IF b \in Region(r) THEN FREE ELSE entries[b]]
  BY <1>1 DEF heap_mark_blocks_free
<1>3. e \in [Blocks -> EntryValues]
  BY <1>2 DEF TypeOK, EntryValues
<1>4. total_blocks \in Nat /\ FRAMES \in Nat /\ t \in Nat /\ t <= total_blocks
      /\ total_blocks <= FRAMES
  BY FramesAssumption DEF TypeOK
<1>5. \A q \in live : /\ q.start \in Nat /\ q.len \in Nat /\ q.len > 0
                      /\ q.start + q.len <= total_blocks
                      /\ \A b \in Region(q) : entries[b] = EntryOf(q, b)
  BY FramesAssumption DEF TypeOK, Allocations, Blocks, Encodes
<1>6. \A q \in live : \A b \in Region(q) : b \in Blocks /\ b < total_blocks
  BY <1>4, <1>5 DEF Region, Blocks
<1>7. \A q \in live \ {r} : \A b \in Region(q) : e[b] = EntryOf(q, b) /\ e[b] # FREE
  <2>1. TAKE q \in live \ {r}
  <2>2. TAKE b \in Region(q)
  <2>3. b \notin Region(r)
    BY DEF Disjoint
  <2>4. e[b] = EntryOf(q, b)
    BY <1>2, <1>5, <1>6, <2>3
  <2>5. EntryOf(q, b) # FREE
    BY DEF EntryOf, FREE
  <2>6. QED
    BY <2>4, <2>5
<1>8. \A b \in Blocks : t <= b /\ b < total_blocks => e[b] = FREE
  BY <1>4 DEF heap_contract, Blocks
<1>9. \A q \in live \ {r} : q.start + q.len <= t
  <2>1. TAKE q \in live \ {r}
  <2>2. q.start + q.len - 1 \in Region(q)
    BY <1>5 DEF Region
  <2>3. q.start + q.len - 1 < t
    BY <1>4, <1>5, <1>6, <1>7, <1>8, <2>2
  <2>4. QED
    BY <1>4, <1>5, <2>3
<1>10. \A b \in Blocks : b < t /\ e[b] # FREE => \E q \in live \ {r} : b \in Region(q)
  <2>1. TAKE b \in Blocks
  <2>2. HAVE b < t /\ e[b] # FREE
  <2>3. b \notin Region(r) /\ entries[b] # FREE /\ b < total_blocks
    BY <1>2, <1>4, <2>2 DEF Blocks
  <2>4. QED
    BY <2>3 DEF Encodes
<1>11. Encodes(e, t, live \ {r})
  BY <1>7, <1>9, <1>10 DEF Encodes
<1>12. PICK q \in live : q.start = 0
  BY DEF NilStays
<1>13. q \in live \ {r} /\ q.start + q.len <= t /\ q.len \in Nat /\ q.len > 0
  BY <1>5, <1>9, <1>12
<1>14. t > 0
  BY <1>4, <1>12, <1>13
<1>15. QED
  BY <1>3, <1>11, <1>12, <1>13, <1>14

(***************************************************************************)
(* heap_init() establishes the inductive invariant.                        *)
(***************************************************************************)
LEMMA InitHInv == Init => HInv
<1> SUFFICES ASSUME Init PROVE HInv
  OBVIOUS
<1> USE FramesAssumption
<1>1. entries \in [Blocks -> EntryValues]
  BY GarbageAssumption DEF Init, heap_init, EntryValues
<1>2. total_blocks = INITIAL_BLOCKS /\ heap_size = INITIAL_BLOCKS
      /\ frames = FRAMES - INITIAL_BLOCKS /\ mapped = 0 .. (INITIAL_BLOCKS - 1)
      /\ live = {} /\ last = [op |-> "init", n |-> 0, ptr |-> NULL]
  BY DEF Init, heap_init
<1>3. \A b \in Blocks : b < total_blocks => entries[b] = FREE
  BY <1>2 DEF Init, heap_init, Blocks
<1>4. TypeOK
  <2>1. last \in [op : {"init", "malloc", "free"}, n : Nat, ptr : 0 .. FRAMES]
    BY <1>2 DEF NULL
  <2>2. total_blocks \in 0 .. FRAMES /\ heap_size \in 0 .. FRAMES /\ frames \in 0 .. FRAMES
    BY <1>2
  <2>3. mapped \subseteq Blocks /\ live \subseteq Allocations
    BY <1>2 DEF Blocks
  <2>4. QED
    BY <1>1, <2>1, <2>2, <2>3 DEF TypeOK
<1>5. Disjoint(live) /\ Encodes(entries, total_blocks, live)
  BY <1>2, <1>3 DEF Disjoint, Encodes
<1>6. HeapBacked /\ NullMeansNoFrames /\ FrameBudget /\ BeforeNil /\ NilStays
  BY <1>2 DEF HeapBacked, NullMeansNoFrames, FrameBudget, BeforeNil, NilStays
<1>7. QED
  BY <1>4, <1>5, <1>6 DEF HInv

(***************************************************************************)
(* NIL gets block 0: nothing is allocated before it.                       *)
(***************************************************************************)
LEMMA NilAtZero ==
    ASSUME HInv, live = {}, NEW s \in Blocks,
           heap_get_start_block(entries, total_blocks, 1, s)
    PROVE  s = 0
<1>1. total_blocks = INITIAL_BLOCKS /\ 0 \in Blocks /\ 0 < total_blocks /\ s \in Nat
  BY FramesAssumption DEF HInv, BeforeNil, Blocks
<1>2. entries[0] = FREE
  BY <1>1 DEF HInv, Encodes
<1>3. FreeRun(entries, total_blocks, 1, 0)
  BY <1>1, <1>2, FramesAssumption DEF FreeRun
<1>4. QED
  BY <1>1, <1>3 DEF heap_get_start_block

(***************************************************************************)
(* Every call keeps the inductive invariant.                               *)
(***************************************************************************)
LEMMA NextHInv == HInv /\ [Next]_vars => HInv'
<1> SUFFICES ASSUME HInv, [Next]_vars PROVE HInv'
  OBVIOUS
<1>0. /\ TypeOK /\ Disjoint(live) /\ Encodes(entries, total_blocks, live)
      /\ HeapBacked /\ NullMeansNoFrames /\ FrameBudget /\ BeforeNil /\ NilStays
  BY DEF HInv
<1>t. /\ FRAMES \in Nat /\ INITIAL_BLOCKS \in Nat /\ INITIAL_BLOCKS > 0
      /\ total_blocks \in Nat /\ total_blocks <= FRAMES /\ total_blocks \in 0 .. FRAMES
      /\ frames \in Nat /\ total_blocks + frames <= FRAMES
      /\ heap_size = total_blocks /\ mapped = 0 .. (total_blocks - 1)
      /\ entries \in [Blocks -> EntryValues] /\ live \in SUBSET Allocations
  BY <1>0, FramesAssumption DEF TypeOK, HeapBacked, FrameBudget
<1>m. \A n \in Nat : \A q \in 0 .. FRAMES : \A o \in {"init", "malloc", "free"} :
        [op |-> o, n |-> n, ptr |-> q]
            \in [op : {"init", "malloc", "free"}, n : Nat, ptr : 0 .. FRAMES]
  OBVIOUS
<1>1. CASE UNCHANGED vars
  <2>1. TypeOK' /\ HeapBacked' /\ FrameBudget' /\ BeforeNil'
    BY <1>0, <1>1 DEF vars, TypeOK, HeapBacked, FrameBudget, BeforeNil
  <2>2. Disjoint(live)' /\ Encodes(entries, total_blocks, live)'
    BY <1>0, <1>1 DEF vars, Disjoint, Encodes
  <2>3. NullMeansNoFrames' /\ NilStays'
    BY <1>0, <1>1 DEF vars, NullMeansNoFrames, NilStays
  <2>4. QED
    BY <2>1, <2>2, <2>3 DEF HInv
<1>2. CASE nodePreparation
  <2>1. PICK s \in Blocks :
          /\ heap_get_start_block(entries, total_blocks, 1, s)
          /\ live' = {[start |-> s, len |-> 1]}
          /\ entries' = [b \in Blocks |->
               IF b \in NilColor THEN FREE
               ELSE IF b \in NilLinks THEN "JUNK"
               ELSE heap_malloc_blocks(entries, [start |-> s, len |-> 1])[b]]
          /\ last' = [op |-> "malloc", n |-> 1, ptr |-> s]
    BY <1>2 DEF nodePreparation
  <2>2. live = {} /\ s = 0
    BY <1>2, <2>1, NilAtZero DEF nodePreparation
  <2> DEFINE r == [start |-> s, len |-> 1]
             e == heap_malloc_blocks(entries, r)
  <2>3. FreeRun(entries, total_blocks, 1, s)
    BY <2>1 DEF heap_get_start_block
  <2>4. /\ r \in Allocations
        /\ Disjoint(live \cup {r})
        /\ e \in [Blocks -> EntryValues]
        /\ Encodes(e, total_blocks, live \cup {r})
    BY <1>0, <1>t, <2>3, MarkRun
  <2>5. live' = {r} /\ live \cup {r} = {r}
    BY <2>1, <2>2
  <2>6. entries' \in [Blocks -> EntryValues]
    BY <2>1, <2>4 DEF EntryValues
  <2>7. \A b \in Blocks : b < total_blocks => entries'[b] = e[b]
    <3>1. total_blocks = INITIAL_BLOCKS
      BY <1>0, <2>2 DEF BeforeNil
    <3>2. QED
      BY <1>t, <2>1, <3>1, NilAssumption DEF Blocks
  <2> HIDE DEF e
  <2>8. UNCHANGED <<total_blocks, heap_size, mapped, frames>>
    BY <1>2 DEF nodePreparation
  <2>9. \A b \in Region(r) : b \in Blocks /\ b < total_blocks
    BY <1>t, <2>2, <2>4 DEF Region, Blocks, Encodes
  <2>10. Encodes(entries', total_blocks, {r})
    BY <2>4, <2>5, <2>7, <2>9 DEF Encodes
  <2>11. TypeOK'
    BY <1>0, <1>m, <1>t, <2>1, <2>4, <2>5, <2>6, <2>8 DEF TypeOK, Blocks
  <2>12. NullMeansNoFrames' /\ NilStays'
    BY <1>t, <2>1, <2>2, <2>5 DEF NullMeansNoFrames, NilStays, NULL, Blocks
  <2>13. HeapBacked' /\ FrameBudget' /\ BeforeNil'
    BY <1>0, <2>5, <2>8 DEF HeapBacked, FrameBudget, BeforeNil
  <2>14. Disjoint(live)' /\ Encodes(entries, total_blocks, live)'
    BY <2>4, <2>5, <2>8, <2>10 DEF Disjoint, Encodes
  <2>15. QED
    BY <2>11, <2>12, <2>13, <2>14 DEF HInv
<1>3. ASSUME NEW n \in Requests, KMallocFits(n) PROVE HInv'
  <2>1. PICK s \in Blocks :
          /\ heap_get_start_block(entries, total_blocks, n, s)
          /\ entries' = heap_malloc_blocks(entries, [start |-> s, len |-> n])
          /\ live' = live \cup {[start |-> s, len |-> n]}
          /\ last' = [op |-> "malloc", n |-> n, ptr |-> s]
    BY <1>3 DEF KMallocFits
  <2> DEFINE r == [start |-> s, len |-> n]
  <2>2. n \in Nat /\ FreeRun(entries, total_blocks, n, s)
    BY <2>1, RequestsAssumption DEF heap_get_start_block
  <2>b. r = [start |-> s, len |-> n]
    OBVIOUS
  <2> HIDE DEF r
  <2>a. /\ r \in Allocations
        /\ Disjoint(live \cup {r})
        /\ heap_malloc_blocks(entries, r) \in [Blocks -> EntryValues]
        /\ Encodes(heap_malloc_blocks(entries, r), total_blocks, live \cup {r})
    BY <1>0, <1>t, <2>2, <2>b, MarkRun
  <2>3. /\ r \in Allocations
        /\ Disjoint(live')
        /\ entries' \in [Blocks -> EntryValues]
        /\ Encodes(entries', total_blocks, live')
    BY <2>1, <2>a, <2>b
  <2>4. UNCHANGED <<total_blocks, heap_size, mapped, frames>> /\ live # {}
    BY <1>3 DEF KMallocFits
  <2>5. TypeOK'
    BY <1>0, <1>m, <1>t, <2>1, <2>2, <2>3, <2>4, <2>b DEF TypeOK, Blocks
  <2>6. NullMeansNoFrames'
    BY <1>t, <2>1 DEF NullMeansNoFrames, NULL, Blocks
  <2>7. NilStays' /\ HeapBacked' /\ FrameBudget' /\ BeforeNil'
    BY <1>0, <2>1, <2>4 DEF NilStays, HeapBacked, FrameBudget, BeforeNil
  <2>8. Disjoint(live)' /\ Encodes(entries, total_blocks, live)'
    BY <2>3, <2>4 DEF Disjoint, Encodes
  <2>9. QED
    BY <2>5, <2>6, <2>7, <2>8 DEF HInv
<1>4. ASSUME NEW n \in Requests, KMallocExpands(n) PROVE HInv'
  <2> DEFINE e == heap_expand(entries, n)
  <2>1. PICK s \in Blocks :
          /\ heap_get_start_block(e, total_blocks + n, n, s)
          /\ entries' = heap_malloc_blocks(e, [start |-> s, len |-> n])
          /\ live' = live \cup {[start |-> s, len |-> n]}
          /\ last' = [op |-> "malloc", n |-> n, ptr |-> s]
    BY <1>4 DEF KMallocExpands
  <2> DEFINE r == [start |-> s, len |-> n]
  <2>2. /\ n \in Nat /\ n > 0 /\ n <= frames
        /\ total_blocks' = total_blocks + n /\ heap_size' = heap_size + n
        /\ mapped' = mapped \cup heap_size .. (heap_size + n - 1)
        /\ frames' = frames - n /\ live # {}
    BY <1>4, RequestsAssumption DEF KMallocExpands
  <2>3. total_blocks + n \in 0 .. FRAMES
    BY <1>t, <2>2
  <2>4. /\ e \in [Blocks -> EntryValues]
        /\ Encodes(e, total_blocks + n, live)
    BY <1>0, <1>t, <2>2, <2>3, ExpandKeeps
  <2>5. FreeRun(e, total_blocks + n, n, s)
    BY <2>1 DEF heap_get_start_block
  <2> HIDE DEF e
  <2>a. /\ r \in Allocations
        /\ Disjoint(live \cup {r})
        /\ heap_malloc_blocks(e, r) \in [Blocks -> EntryValues]
        /\ Encodes(heap_malloc_blocks(e, r), total_blocks + n, live \cup {r})
    BY <1>0, <1>t, <2>2, <2>3, <2>4, <2>5, MarkRun
  <2>6. /\ r \in Allocations
        /\ Disjoint(live')
        /\ entries' \in [Blocks -> EntryValues]
        /\ Encodes(entries', total_blocks + n, live')
    BY <2>1, <2>a
  <2>7. HeapBacked' /\ FrameBudget'
    BY <1>t, <2>2 DEF HeapBacked, FrameBudget
  <2>8. TypeOK'
    <3>1. mapped' \subseteq Blocks
      BY <1>t, <2>2, <2>3, <2>7 DEF HeapBacked, Blocks
    <3>2. /\ total_blocks' \in 0 .. FRAMES /\ heap_size' \in 0 .. FRAMES
          /\ frames' \in 0 .. FRAMES
      BY <1>t, <2>2, <2>3
    <3>3. last' \in [op : {"init", "malloc", "free"}, n : Nat, ptr : 0 .. FRAMES]
      BY <1>m, <1>t, <2>1, <2>2 DEF Blocks
    <3>4. QED
      BY <1>t, <2>1, <2>6, <3>1, <3>2, <3>3 DEF TypeOK
  <2>9. NullMeansNoFrames'
    BY <1>t, <2>1 DEF NullMeansNoFrames, NULL, Blocks
  <2>10. NilStays' /\ BeforeNil'
    BY <1>0, <2>1, <2>2 DEF NilStays, BeforeNil
  <2>11. Disjoint(live)' /\ Encodes(entries, total_blocks, live)'
    BY <2>2, <2>6 DEF Disjoint, Encodes
  <2>12. QED
    BY <2>7, <2>8, <2>9, <2>10, <2>11 DEF HInv
<1>5. ASSUME NEW n \in Requests, KMallocFails(n) PROVE HInv'
  <2>1. /\ n \in Nat /\ live' = live /\ live # {}
        /\ entries' = heap_expand(entries, frames)
        /\ total_blocks' = total_blocks + frames /\ heap_size' = heap_size + frames
        /\ mapped' = mapped \cup heap_size .. (heap_size + frames - 1)
        /\ frames' = 0 /\ last' = [op |-> "malloc", n |-> n, ptr |-> NULL]
    BY <1>5, RequestsAssumption DEF KMallocFails
  <2>2. /\ entries' \in [Blocks -> EntryValues]
        /\ Encodes(entries', total_blocks + frames, live)
    BY <1>0, <1>t, <2>1, ExpandKeeps
  <2>3. HeapBacked' /\ FrameBudget'
    BY <1>t, <2>1 DEF HeapBacked, FrameBudget
  <2>4. TypeOK'
    <3>1. mapped' \subseteq Blocks
      BY <1>t, <2>1, <2>3 DEF HeapBacked, Blocks
    <3>2. /\ total_blocks' \in 0 .. FRAMES /\ heap_size' \in 0 .. FRAMES
          /\ frames' \in 0 .. FRAMES
      BY <1>t, <2>1
    <3>3. last' \in [op : {"init", "malloc", "free"}, n : Nat, ptr : 0 .. FRAMES]
      BY <1>m, <1>t, <2>1 DEF NULL
    <3>4. QED
      BY <1>t, <2>1, <2>2, <3>1, <3>2, <3>3 DEF TypeOK
  <2>5. NullMeansNoFrames' /\ NilStays' /\ BeforeNil'
    BY <1>0, <2>1 DEF NullMeansNoFrames, NilStays, BeforeNil
  <2>6. Disjoint(live)' /\ Encodes(entries, total_blocks, live)'
    BY <1>0, <2>1, <2>2 DEF Disjoint, Encodes
  <2>7. QED
    BY <2>3, <2>4, <2>5, <2>6 DEF HInv
<1>6. ASSUME NEW n \in Requests, KMallocZero(n) PROVE HInv'
  <2>1. /\ last' = [op |-> "malloc", n |-> 0, ptr |-> NULL]
        /\ UNCHANGED <<entries, total_blocks, heap_size, mapped, frames, live>>
    BY <1>6 DEF KMallocZero
  <2>2. last' \in [op : {"init", "malloc", "free"}, n : Nat, ptr : 0 .. FRAMES]
    BY <1>m, <1>t, <2>1 DEF NULL
  <2>3. TypeOK' /\ HeapBacked' /\ FrameBudget' /\ BeforeNil'
    BY <1>0, <2>1, <2>2 DEF TypeOK, HeapBacked, FrameBudget, BeforeNil
  <2>4. Disjoint(live)' /\ Encodes(entries, total_blocks, live)'
    BY <1>0, <2>1 DEF Disjoint, Encodes
  <2>5. NullMeansNoFrames' /\ NilStays'
    BY <1>0, <2>1 DEF NullMeansNoFrames, NilStays
  <2>6. QED
    BY <2>3, <2>4, <2>5 DEF HInv
<1>7. ASSUME NEW r \in live, KFree(r) PROVE HInv'
  <2> DEFINE e == heap_mark_blocks_free(r.start)
  <2>1. PICK t \in 0 .. total_blocks :
          /\ heap_contract(e, t)
          /\ total_blocks' = t
          /\ mapped' = mapped \ t .. (total_blocks - 1)
          /\ heap_size' = heap_size - (total_blocks - t)
    BY <1>7 DEF KFree
  <2>2. /\ r.start # 0 /\ entries' = e /\ live' = live \ {r} /\ frames' = frames
        /\ last' = [op |-> "free", n |-> 0, ptr |-> r.start]
    BY <1>7 DEF KFree
  <2>3. /\ e \in [Blocks -> EntryValues]
        /\ Encodes(e, t, live \ {r})
        /\ \E q \in live \ {r} : q.start = 0
    BY <1>0, <2>1, <2>2, FreeKeeps
  <2> HIDE DEF e
  <2>4. HeapBacked' /\ FrameBudget'
    BY <1>t, <2>1, <2>2 DEF HeapBacked, FrameBudget
  <2>5. TypeOK'
    <3>1. mapped' \subseteq Blocks /\ live' \subseteq Allocations
      BY <1>0, <2>1, <2>2 DEF TypeOK
    <3>2. total_blocks' \in 0 .. FRAMES /\ heap_size' \in 0 .. FRAMES /\ frames' \in 0 .. FRAMES
      BY <1>0, <1>t, <2>1, <2>2 DEF TypeOK
    <3>3. r.start \in 0 .. FRAMES
      BY <1>t DEF Allocations, Blocks
    <3>4. last' \in [op : {"init", "malloc", "free"}, n : Nat, ptr : 0 .. FRAMES]
      BY <1>m, <2>2, <3>3
    <3>5. QED
      BY <2>2, <2>3, <3>1, <3>2, <3>4 DEF TypeOK
  <2>6. NullMeansNoFrames'
    BY <2>2 DEF NullMeansNoFrames
  <2>7. NilStays' /\ BeforeNil'
    BY <2>2, <2>3 DEF NilStays, BeforeNil
  <2>8. Disjoint(live)' /\ Encodes(entries, total_blocks, live)'
    BY <1>0, <2>1, <2>2, <2>3 DEF Disjoint, Encodes
  <2>9. QED
    BY <2>4, <2>5, <2>6, <2>7, <2>8 DEF HInv
<1>8. CASE OtherFrameUse
  <2>1. /\ frames > 0 /\ frames' = frames - 1
        /\ UNCHANGED <<entries, total_blocks, heap_size, mapped, live, last>>
    BY <1>8 DEF OtherFrameUse
  <2>2. frames' \in 0 .. FRAMES /\ FrameBudget'
    BY <1>t, <2>1 DEF FrameBudget
  <2>3. TypeOK' /\ HeapBacked' /\ BeforeNil'
    BY <1>0, <2>1, <2>2 DEF TypeOK, HeapBacked, BeforeNil
  <2>4. Disjoint(live)' /\ Encodes(entries, total_blocks, live)'
    BY <1>0, <2>1 DEF Disjoint, Encodes
  <2>5. NullMeansNoFrames' /\ NilStays'
    BY <1>0, <1>t, <2>1 DEF NullMeansNoFrames, NilStays
  <2>6. QED
    BY <2>2, <2>3, <2>4, <2>5 DEF HInv
<1>9. QED
  BY <1>1, <1>2, <1>3, <1>4, <1>5, <1>6, <1>7, <1>8 DEF Next, KMalloc

(***************************************************************************)
(* The inductive invariant holds in every reachable state.                 *)
(***************************************************************************)
LEMMA HInvInvariant == Spec => []HInv
BY InitHInv, NextHInv, PTL DEF Spec

(***************************************************************************)
(* The heap's state always has its type: in particular total_blocks,       *)
(* heap_size and the frame count stay within the frames there are.         *)
(***************************************************************************)
THEOREM HeapTypeCorrect == Spec => []TypeOK
<1>1. HInv => TypeOK
  BY DEF HInv
<1>2. QED
  BY <1>1, HInvInvariant, PTL

(***************************************************************************)
(* kmalloc() never hands out a block that is in use.                       *)
(***************************************************************************)
THEOREM LiveDisjointHolds == Spec => []LiveDisjoint
<1>1. HInv => LiveDisjoint
  BY DEF HInv, Disjoint, LiveDisjoint
<1>2. QED
  BY <1>1, HInvInvariant, PTL

(***************************************************************************)
(* The block table encodes exactly the allocations in use.                 *)
(***************************************************************************)
THEOREM TableMatchesLiveHolds == Spec => []TableMatchesLive
<1>1. HInv => TableMatchesLive
  BY DEF HInv, Encodes, TableMatchesLive
<1>2. QED
  BY <1>1, HInvInvariant, PTL

(***************************************************************************)
(* The two length counters agree and exactly the heap's blocks are mapped. *)
(***************************************************************************)
THEOREM HeapBackedHolds == Spec => []HeapBacked
<1>1. HInv => HeapBacked
  BY DEF HInv
<1>2. QED
  BY <1>1, HInvInvariant, PTL

(***************************************************************************)
(* A NULL from kmalloc() of a non-zero size means the frames are used up.  *)
(***************************************************************************)
THEOREM NullMeansNoFramesHolds == Spec => []NullMeansNoFrames
<1>1. HInv => NullMeansNoFrames
  BY DEF HInv
<1>2. QED
  BY <1>1, HInvInvariant, PTL

(***************************************************************************)
(* After kfree() the last block of the heap is taken and the heap still    *)
(* has the block that holds its table.                                     *)
(***************************************************************************)
THEOREM ContractedAfterFreeHolds == Spec => ContractedAfterFree
<1> DEFINE A == last'.op = "free" /\ live' # live =>
                  total_blocks' > 0 /\ entries'[total_blocks' - 1] # FREE
<1>1. HInv /\ [Next]_vars => [A]_vars
  <2> SUFFICES ASSUME HInv, Next, last'.op = "free", live' # live
               PROVE  total_blocks' > 0 /\ entries'[total_blocks' - 1] # FREE
    BY DEF vars
  <2>1. CASE nodePreparation
    BY <2>1 DEF nodePreparation
  <2>2. ASSUME NEW n \in Requests, KMalloc(n) PROVE last'.op = "malloc"
    <3>1. KMallocFits(n) => last'.op = "malloc"
      BY DEF KMallocFits
    <3>2. KMallocExpands(n) => last'.op = "malloc"
      BY DEF KMallocExpands
    <3>3. KMallocFails(n) => last'.op = "malloc"
      BY DEF KMallocFails
    <3>4. KMallocZero(n) => last'.op = "malloc"
      BY DEF KMallocZero
    <3>5. QED
      BY <2>2, <3>1, <3>2, <3>3, <3>4 DEF KMalloc
  <2>3. CASE OtherFrameUse
    BY <2>3 DEF OtherFrameUse
  <2>4. ASSUME NEW r \in live, KFree(r)
        PROVE  total_blocks' > 0 /\ entries'[total_blocks' - 1] # FREE
    <3> DEFINE e == heap_mark_blocks_free(r.start)
    <3>1. PICK t \in 0 .. total_blocks : heap_contract(e, t) /\ total_blocks' = t
      BY <2>4 DEF KFree
    <3>2. r.start # 0 /\ entries' = e
      BY <2>4 DEF KFree
    <3>3. t > 0
      BY <3>1, <3>2, FreeKeeps DEF HInv
    <3> HIDE DEF e
    <3>4. QED
      BY <3>1, <3>2, <3>3 DEF heap_contract
  <2>5. QED
    BY <2>1, <2>2, <2>3, <2>4 DEF Next
<1>2. QED
  BY <1>1, HInvInvariant, PTL DEF Spec, ContractedAfterFree

(***************************************************************************)
(* The heap implements the abstract allocator.                             *)
(***************************************************************************)
THEOREM HeapRefinesAllocator == Spec => ImplementsAllocator
<1>0. \A r : Region(r) = Abstract!Span(r)
  BY DEF Region, Abstract!Span
<1>1. Init => Abstract!AllocatorInit
  BY DEF Init, Abstract!AllocatorInit
<1>2. HInv /\ [Next]_vars => [Abstract!AllocatorNext]_live
  <2> SUFFICES ASSUME HInv, [Next]_vars
               PROVE  Abstract!AllocatorNext \/ live' = live
    OBVIOUS
  <2>0. TypeOK /\ FrameBudget
    BY DEF HInv
  <2>a. Disjoint(live) /\ Encodes(entries, total_blocks, live)
    BY DEF HInv
  <2>b. /\ entries \in [Blocks -> EntryValues] /\ live \in SUBSET Allocations
        /\ total_blocks \in 0 .. FRAMES /\ total_blocks \in Nat
        /\ frames \in Nat /\ FRAMES \in Nat
    BY <2>0, FramesAssumption DEF TypeOK
  <2>1. CASE UNCHANGED vars
    BY <2>1 DEF vars
  <2>2. CASE nodePreparation
    <3>1. PICK s \in Blocks : live' = {[start |-> s, len |-> 1]}
      BY <2>2 DEF nodePreparation
    <3>2. live = {}
      BY <2>2 DEF nodePreparation
    <3>3. Abstract!Allocate([start |-> s, len |-> 1])
      BY <3>1, <3>2 DEF Abstract!Allocate
    <3>4. QED
      BY <3>1, <3>3 DEF Abstract!AllocatorNext
  <2>3. ASSUME NEW n \in Requests, KMallocFits(n) PROVE Abstract!AllocatorNext
    <3>1. PICK s \in Blocks :
            /\ heap_get_start_block(entries, total_blocks, n, s)
            /\ live' = live \cup {[start |-> s, len |-> n]}
      BY <2>3 DEF KMallocFits
    <3>2. n \in Nat /\ n > 0 /\ FreeRun(entries, total_blocks, n, s)
      BY <3>1, RequestsAssumption DEF heap_get_start_block, FreeRun
    <3> DEFINE r == [start |-> s, len |-> n]
    <3>3. r = [start |-> s, len |-> n] /\ r.len > 0
      BY <3>2
    <3> HIDE DEF r
    <3>4. /\ r \notin live
          /\ Disjoint(live \cup {r})
          /\ heap_malloc_blocks(entries, r) \in [Blocks -> EntryValues]
      BY SMTT(30), <2>a, <2>b, <3>2, <3>3, MarkRun
    <3>5. Abstract!Allocate(r)
      BY <1>0, <3>1, <3>3, <3>4 DEF Abstract!Allocate, Disjoint
    <3>6. QED
      BY <3>1, <3>3, <3>5 DEF Abstract!AllocatorNext
  <2>4. ASSUME NEW n \in Requests, KMallocExpands(n) PROVE Abstract!AllocatorNext
    <3> DEFINE e == heap_expand(entries, n)
    <3>1. PICK s \in Blocks :
            /\ heap_get_start_block(e, total_blocks + n, n, s)
            /\ live' = live \cup {[start |-> s, len |-> n]}
      BY <2>4 DEF KMallocExpands
    <3>2. n \in Nat /\ n > 0 /\ n <= frames /\ FreeRun(e, total_blocks + n, n, s)
      BY <2>4, <3>1, RequestsAssumption DEF heap_get_start_block, KMallocExpands
    <3>3. total_blocks + n \in 0 .. FRAMES /\ total_blocks + n <= FRAMES
      BY <2>0, <2>b, <3>2 DEF FrameBudget
    <3>4. /\ e \in [Blocks -> EntryValues]
          /\ Encodes(e, total_blocks + n, live)
      BY <2>0, <2>a, <3>2, <3>3, ExpandKeeps
    <3> HIDE DEF e
    <3> DEFINE r == [start |-> s, len |-> n]
    <3>5. r = [start |-> s, len |-> n] /\ r.len > 0
      BY <3>2
    <3> HIDE DEF r
    <3>6. /\ r \notin live
          /\ Disjoint(live \cup {r})
          /\ heap_malloc_blocks(e, r) \in [Blocks -> EntryValues]
      BY SMTT(30), <2>a, <2>b, <3>2, <3>3, <3>4, <3>5, MarkRun
    <3>7. Abstract!Allocate(r)
      BY <1>0, <3>1, <3>5, <3>6 DEF Abstract!Allocate, Disjoint
    <3>8. QED
      BY <3>1, <3>5, <3>7 DEF Abstract!AllocatorNext
  <2>5. ASSUME NEW n \in Requests, KMallocFails(n) \/ KMallocZero(n)
        PROVE  live' = live
    BY <2>5 DEF KMallocFails, KMallocZero
  <2>6. ASSUME NEW r \in live, KFree(r) PROVE Abstract!AllocatorNext
    BY <2>6 DEF KFree, Abstract!AllocatorNext, Abstract!Free
  <2>7. CASE OtherFrameUse
    BY <2>7 DEF OtherFrameUse
  <2>8. QED
    BY <2>1, <2>2, <2>3, <2>4, <2>5, <2>6, <2>7 DEF Next, KMalloc
<1>3. QED
  BY <1>1, <1>2, HInvInvariant, PTL DEF Spec, ImplementsAllocator, Abstract!AllocatorSpec
=============================================================================
