-------------------------------- MODULE Heap --------------------------------
(***************************************************************************)
(* The kernel heap (mm/heap/heap.c): a table with one entry per 4096-byte  *)
(* block, first-fit allocation, growth through the page frame allocator    *)
(* and shrinking from the end.  Addresses and sizes are counted in blocks  *)
(* from HEAP_START_ADDRESS.                                                *)
(*                                                                         *)
(* The table has no memory of its own: entries points at                   *)
(* HEAP_START_ADDRESS, so that block 0, which the first kmalloc() returns, *)
(* holds the table.  That first caller is nodePreparation() (process.c),   *)
(* whose NIL node therefore shares its bytes with table entries.           *)
(***************************************************************************)
EXTENDS Naturals, FiniteSets

CONSTANTS
    INITIAL_BLOCKS, \* blocks mapped by heap_init (4 in the code)
    FRAMES,         \* bound: the page frames the heap can ever be given
    Requests,       \* sizes, in blocks, that callers ask for
    NilColor,       \* the table entries that are the bytes of NIL->color
    NilLinks,       \* the table entries that hold non-zero bytes of NIL->left, right
    Garbage         \* what uninitialised memory may read as

(* The bytes of the table: 0x00, 0x40, 0xC0, 0x01, 0x81, or something else *)
FREE == "FREE"
EntryValues == {FREE, "FIRST", "FIRST_NEXT", "TAKEN", "TAKEN_NEXT", "JUNK"}

Blocks == 0 .. (FRAMES - 1)

ASSUME FramesAssumption ==
    /\ INITIAL_BLOCKS \in Nat \ {0}
    /\ FRAMES \in Nat
    /\ INITIAL_BLOCKS <= FRAMES
ASSUME RequestsAssumption == Requests \subseteq Nat
ASSUME NilAssumption ==
    \A b \in NilColor \cup NilLinks : b \in Nat /\ b >= INITIAL_BLOCKS
ASSUME GarbageAssumption == Garbage \subseteq EntryValues

NULL == FRAMES          \* no block has this number

VARIABLES
    entries,        \* kernel_heap_table.entries
    total_blocks,   \* kernel_heap_table.total_blocks
    heap_size,      \* heap_size, in blocks
    mapped,         \* blocks whose page is mapped
    frames,         \* page frames pmm_alloc_pageframe can still hand out
    live,           \* allocations whose pointer a caller still holds
    last            \* the latest call and what it returned

vars == <<entries, total_blocks, heap_size, mapped, frames, live, last>>

(***************************************************************************)
(* heap_init(), with enough frames for the initial blocks.  Only their     *)
(* entries are written; the rest of the table's page is what it was.       *)
(***************************************************************************)
heap_init ==
    /\ total_blocks = INITIAL_BLOCKS
    /\ heap_size = INITIAL_BLOCKS
    /\ mapped = 0 .. (INITIAL_BLOCKS - 1)
    /\ frames = FRAMES - INITIAL_BLOCKS
    /\ entries \in [Blocks -> Garbage \cup {FREE}]
    /\ \A b \in 0 .. (INITIAL_BLOCKS - 1) : entries[b] = FREE

Init ==
    /\ heap_init
    /\ live = {}
    /\ last = [op |-> "init", n |-> 0, ptr |-> NULL]

(***************************************************************************)
(* heap_get_start_block(): s is the lowest block that starts n free ones   *)
(* (the scan restarts its run at every taken block).  A run of zero blocks *)
(* is never found.                                                         *)
(***************************************************************************)
FreeRun(e, total, n, s) ==
    /\ n > 0
    /\ s + n <= total
    /\ \A b \in s .. (s + n - 1) : e[b] = FREE

(* Seeded bug: the run length is not reset at a taken block.               *)
heap_get_start_block_NoReset(e, total, n, s) ==
    /\ n > 0
    /\ s < total
    /\ e[s] = FREE
    /\ Cardinality({b \in s .. (total - 1) : e[b] = FREE}) >= n
    /\ \A r \in 0 .. (s - 1) : e[r] # FREE

heap_get_start_block(e, total, n, s) ==
    /\ FreeRun(e, total, n, s)
    /\ \A r \in 0 .. (s - 1) : ~FreeRun(e, total, n, r)

NoStartBlock(e, total, n) ==
    \A s \in 0 .. total : ~FreeRun(e, total, n, s)

Region(r) == r.start .. (r.start + r.len - 1)

HasNext(v) == v \in {"FIRST_NEXT", "TAKEN_NEXT", "JUNK"}

(* Seeded bug: the last block is marked like a middle one.                 *)
EntryOf_LastHasNext(r, b) ==
    IF b = r.start
      THEN IF r.len > 1 THEN "FIRST_NEXT" ELSE "FIRST"
      ELSE "TAKEN_NEXT"

(* What heap_malloc_blocks() writes for block b of an allocation.          *)
EntryOf(r, b) ==
    IF b = r.start
      THEN IF r.len > 1 THEN "FIRST_NEXT" ELSE "FIRST"
      ELSE IF b = r.start + r.len - 1 THEN "TAKEN" ELSE "TAKEN_NEXT"

heap_malloc_blocks(e, r) ==
    [b \in Blocks |-> IF b \in Region(r) THEN EntryOf(r, b) ELSE e[b]]

(* The entries after heap_expand() added k blocks.                         *)
heap_expand(e, k) ==
    [b \in Blocks |->
        IF b \in total_blocks .. (total_blocks + k - 1) THEN FREE ELSE e[b]]

(* Seeded bug: the walk tests the entry it has just cleared, one too late. *)
WalkFrom_OneTooFar(s) ==
    {b \in Blocks : /\ s <= b
                    /\ b < total_blocks
                    /\ \A j \in s .. (b - 2) : HasNext(entries[j])}

(* heap_mark_blocks_free() walks from the first block while an entry has   *)
(* HEAP_BLOCK_HAS_NEXT.                                                    *)
WalkFrom(s) ==
    {b \in Blocks : /\ s <= b
                    /\ b < total_blocks
                    /\ \A j \in s .. (b - 1) : HasNext(entries[j])}

heap_mark_blocks_free(s) ==
    [b \in Blocks |-> IF b \in WalkFrom(s) THEN FREE ELSE entries[b]]

(* Seeded bug: an if where the code has a while.                           *)
heap_contract_Once(e, t) ==
    IF total_blocks > 0 /\ e[total_blocks - 1] = FREE
      THEN t = total_blocks - 1
      ELSE t = total_blocks

(* heap_contract() stops at t: everything above is free, t - 1 is not.     *)
heap_contract(e, t) ==
    /\ \A b \in t .. (total_blocks - 1) : e[b] = FREE
    /\ t > 0 => e[t - 1] # FREE

(***************************************************************************)
(* nodePreparation(), the first user of the heap: NIL gets block 0, which  *)
(* is the table.  Its color is written as 0, the byte of a free entry, and *)
(* its links as the non-zero high bytes of NIL's own address.              *)
(***************************************************************************)
nodePreparation ==
    /\ live = {}
    /\ \E s \in Blocks :
        /\ heap_get_start_block(entries, total_blocks, 1, s)
        /\ LET r == [start |-> s, len |-> 1]
               e == heap_malloc_blocks(entries, r)
           IN  /\ live' = {r}
               /\ entries' = [b \in Blocks |->
                    IF b \in NilColor THEN FREE
                    ELSE IF b \in NilLinks THEN "JUNK" ELSE e[b]]
               /\ last' = [op |-> "malloc", n |-> 1, ptr |-> s]
    /\ UNCHANGED <<total_blocks, heap_size, mapped, frames>>

(***************************************************************************)
(* kmalloc() and kzalloc(), by the way they end.                           *)
(***************************************************************************)

(* A run is free in the table as it is.                                    *)
KMallocFits(n) ==
    /\ live # {}
    /\ \E s \in Blocks :
        /\ heap_get_start_block(entries, total_blocks, n, s)
        /\ LET r == [start |-> s, len |-> n]
           IN  /\ entries' = heap_malloc_blocks(entries, r)
               /\ live' = live \cup {r}
               /\ last' = [op |-> "malloc", n |-> n, ptr |-> s]
    /\ UNCHANGED <<total_blocks, heap_size, mapped, frames>>

(* Seeded bug: the heap grows and the caller gets NULL all the same.       *)
KMallocExpands_NoRetry(n) ==
    /\ live # {}
    /\ n > 0
    /\ NoStartBlock(entries, total_blocks, n)
    /\ n <= frames
    /\ entries' = heap_expand(entries, n)
    /\ last' = [op |-> "malloc", n |-> n, ptr |-> NULL]
    /\ total_blocks' = total_blocks + n
    /\ mapped' = mapped \cup heap_size .. (heap_size + n - 1)
    /\ heap_size' = heap_size + n
    /\ frames' = frames - n
    /\ UNCHANGED live

(* No run is free: n new blocks are mapped at heap_start + heap_size, and  *)
(* the search, repeated, may start in free blocks before them.             *)
KMallocExpands(n) ==
    /\ live # {}
    /\ n > 0
    /\ NoStartBlock(entries, total_blocks, n)
    /\ n <= frames
    /\ \E s \in Blocks :
        LET e == heap_expand(entries, n)
            r == [start |-> s, len |-> n]
        IN  /\ heap_get_start_block(e, total_blocks + n, n, s)
            /\ entries' = heap_malloc_blocks(e, r)
            /\ live' = live \cup {r}
            /\ last' = [op |-> "malloc", n |-> n, ptr |-> s]
    /\ total_blocks' = total_blocks + n
    /\ mapped' = mapped \cup heap_size .. (heap_size + n - 1)
    /\ heap_size' = heap_size + n
    /\ frames' = frames - n

(* Seeded bug: heap_expand() does not look at what the frame allocator     *)
(* returned.                                                               *)
KMallocFails_Unchecked(n) ==
    /\ live # {}
    /\ n > 0
    /\ NoStartBlock(entries, total_blocks, n)
    /\ n > frames
    /\ entries' = heap_expand(entries, n)
    /\ total_blocks' = total_blocks + n
    /\ mapped' = mapped \cup heap_size .. (heap_size + n - 1)
    /\ heap_size' = heap_size + n
    /\ frames' = 0
    /\ last' = [op |-> "malloc", n |-> n, ptr |-> NULL]
    /\ UNCHANGED live

(* The frames run out while the heap grows: the blocks added so far stay,  *)
(* free, and the caller gets NULL.                                         *)
KMallocFails(n) ==
    /\ live # {}
    /\ n > 0
    /\ NoStartBlock(entries, total_blocks, n)
    /\ n > frames
    /\ entries' = heap_expand(entries, frames)
    /\ total_blocks' = total_blocks + frames
    /\ mapped' = mapped \cup heap_size .. (heap_size + frames - 1)
    /\ heap_size' = heap_size + frames
    /\ frames' = 0
    /\ last' = [op |-> "malloc", n |-> n, ptr |-> NULL]
    /\ UNCHANGED live

(* kmalloc(0): nothing to expand by, nothing found.                        *)
KMallocZero(n) ==
    /\ live # {}
    /\ n = 0
    /\ last' = [op |-> "malloc", n |-> 0, ptr |-> NULL]
    /\ UNCHANGED <<entries, total_blocks, heap_size, mapped, frames, live>>

(* Seeded bug: heap_contract() forgets heap_size.                          *)
KFree_KeepsHeapSize(r) ==
    /\ r.start # 0
    /\ LET e == heap_mark_blocks_free(r.start)
       IN  /\ entries' = e
           /\ \E t \in 0 .. total_blocks :
                /\ heap_contract(e, t)
                /\ total_blocks' = t
                /\ mapped' = mapped \ t .. (total_blocks - 1)
    /\ live' = live \ {r}
    /\ last' = [op |-> "free", n |-> 0, ptr |-> r.start]
    /\ UNCHANGED <<frames, heap_size>>

(***************************************************************************)
(* kfree() of a pointer that kmalloc() returned (NIL, at block 0, is never *)
(* freed).  The caller passes the start only: the length is what the walk  *)
(* over the table finds.  The pages of the blocks cut off are unmapped,    *)
(* but their frames are not given back: mem_unmap_page() frees frames of   *)
(* pages mapped with PAGE_FLAG_OWNER, which heap pages are not.            *)
(***************************************************************************)
KFree(r) ==
    /\ r.start # 0
    /\ LET e == heap_mark_blocks_free(r.start)
       IN  /\ entries' = e
           /\ \E t \in 0 .. total_blocks :
                /\ heap_contract(e, t)
                /\ total_blocks' = t
                /\ mapped' = mapped \ t .. (total_blocks - 1)
                /\ heap_size' = heap_size - (total_blocks - t)
    /\ live' = live \ {r}
    /\ last' = [op |-> "free", n |-> 0, ptr |-> r.start]
    /\ UNCHANGED frames

(* Page frames the rest of the kernel takes for page tables and programs.  *)
OtherFrameUse ==
    /\ live # {}
    /\ frames > 0
    /\ frames' = frames - 1
    /\ UNCHANGED <<entries, total_blocks, heap_size, mapped, live, last>>

KMalloc(n) ==
    \/ KMallocFits(n)
    \/ KMallocExpands(n)
    \/ KMallocFails(n)
    \/ KMallocZero(n)

Next ==
    \/ nodePreparation
    \/ \E n \in Requests : KMalloc(n)
    \/ \E r \in live : KFree(r)
    \/ OtherFrameUse

Spec == Init /\ [][Next]_vars

-----------------------------------------------------------------------------
Allocations == {r \in [start : Blocks, len : 1 .. FRAMES] :
                    r.start + r.len <= FRAMES}

TypeOK ==
    /\ entries \in [Blocks -> EntryValues]
    /\ total_blocks \in 0 .. FRAMES
    /\ heap_size \in 0 .. FRAMES
    /\ mapped \subseteq Blocks
    /\ frames \in 0 .. FRAMES
    /\ live \subseteq Allocations
    /\ last \in [op : {"init", "malloc", "free"}, n : Nat, ptr : 0 .. FRAMES]

(***************************************************************************)
(* No two pointers kmalloc() has handed out and not got back share a       *)
(* block, through any sequence of first-fit, expansion, failed expansion,  *)
(* free and contraction.                                                   *)
(***************************************************************************)
LiveDisjoint ==
    \A q, r \in live : q # r => Region(q) \cap Region(r) = {}

(***************************************************************************)
(* The table says exactly what is allocated: every live allocation's       *)
(* entries carry the flags the walk of kfree() relies on, and every other  *)
(* block of the heap is free.                                              *)
(***************************************************************************)
TableMatchesLive ==
    /\ \A r \in live :
        /\ r.start + r.len <= total_blocks
        /\ \A b \in Region(r) : entries[b] = EntryOf(r, b)
    /\ \A b \in Blocks :
        b < total_blocks /\ entries[b] # FREE => \E r \in live : b \in Region(r)

(***************************************************************************)
(* heap_size and total_blocks, counted separately by heap_expand() and     *)
(* heap_contract(), agree, and exactly the blocks of the heap are mapped:  *)
(* a new block is never mapped over an old one and no allocation loses its *)
(* page.                                                                   *)
(***************************************************************************)
HeapBacked ==
    /\ heap_size = total_blocks
    /\ mapped = 0 .. (total_blocks - 1)

(***************************************************************************)
(* kmalloc() of a non-zero size returns NULL only when the page frames are *)
(* used up.                                                                *)
(***************************************************************************)
NullMeansNoFrames ==
    last.op = "malloc" /\ last.n > 0 /\ last.ptr = NULL => frames = 0

(***************************************************************************)
(* The last block of the heap is taken after every kfree(), so that        *)
(* heap_contract() gives up all it can, and block 0, which holds the       *)
(* table, is never given up.                                               *)
(***************************************************************************)
ContractedAfterFree ==
    [][last'.op = "free" /\ live' # live =>
            total_blocks' > 0 /\ entries'[total_blocks' - 1] # FREE]_vars

(***************************************************************************)
(* "NIL has to be black" (process.c, nodePreparation): the bytes of        *)
(* NIL->color keep the value 0 that was written to them.                   *)
(***************************************************************************)
NilIsBlack ==
    live # {} => \A b \in NilColor : entries[b] = FREE

(***************************************************************************)
(* The heap implements the abstract allocator, the callers' pointers being *)
(* the allocations in use.                                                 *)
(***************************************************************************)
Abstract == INSTANCE Allocator WITH inUse <- live

ImplementsAllocator == Abstract!AllocatorSpec
=============================================================================
