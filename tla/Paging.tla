------------------------------- MODULE Paging -------------------------------
(***************************************************************************)
(* Physical frames (mm/PMM/pmm.c), page directories and page tables        *)
(* (mm/paging/paging.c), and the code that maps memory: the boot sequence, *)
(* the growing and shrinking kernel heap, the creation of user processes   *)
(* and their sbrk().  Addresses are page numbers.  A step maps one page:   *)
(* the loops of the code are a plan, consumed from its head.  One CPU      *)
(* executes the calls.  What the pages hold is not modelled, so the model  *)
(* ends where the kernel uses frame 0 as a page table.                     *)
(***************************************************************************)
EXTENDS Integers, Sequences

CONSTANTS
    BITS,               \* page frames per byte of the bitmap (8 in the code)
    MIN_INDEX,          \* page_frame_min_index: the first frame after the RAM disk
    MAX_INDEX,          \* page_frame_max_index: the end of memory
    NUM_PAGE_DIRS,      \* 256 in the code
    ENTRIES,            \* entries of a page table (1024 in the code)
    PAGES,              \* pages of an address space
    KERNEL_START,       \* first page of the kernel's half
    PROGRAM_START, USER_HEAP_START, USER_HEAP_PAGES, USER_STACK_TOP, STACK_PAGES,
    EXTRA_PAGES,        \* pages mapped behind a program (256 in the code)
    NEWLIB_HEAP, NEWLIB_PAGES,
    HEAP_START, INITIAL_BLOCKS,
    RAMDISK_VIRTUAL, RAMDISK_FRAMES, \* page and physical frames of the RAM disk
    LAPIC, LAPIC_FRAME, \* page and frame of the local APIC's registers
    ProgramSizes,       \* sizes of programs, in pages
    MaxHeapBlocks       \* bound on the kernel heap

KERNEL == 0                         \* kernel_directory
Dirs == 1 .. NUM_PAGE_DIRS          \* pageDirs
NoDir == NUM_PAGE_DIRS + 1          \* what CR3 holds after a null page directory
NoFrame == -1                       \* an entry that is not present
NoFile == -1                        \* f_stat() does not find the program
Pds == 0 .. (PAGES \div ENTRIES - 1)
KernelPds == {pd \in Pds : pd * ENTRIES >= KERNEL_START}

(* The bytes of the bitmap that are searched: both ends are rounded        *)
(* inwards, the upper one by up to two bytes.                              *)
FirstByte == MIN_INDEX \div BITS + (IF MIN_INDEX % BITS # 0 THEN 1 ELSE 0)

EndByte == MAX_INDEX \div BITS - (IF MAX_INDEX % BITS # 0 THEN 1 ELSE 0)
Allocatable == (FirstByte * BITS) .. (EndByte * BITS - 1)

ASSUME PmmAssumption ==
    /\ BITS \in Nat \ {0} /\ MIN_INDEX \in Nat \ {0} /\ MAX_INDEX \in Nat
    /\ MIN_INDEX <= MAX_INDEX       \* the RAM disk is in memory
    /\ MAX_INDEX >= BITS            \* below, EndByte would be 2^32 - 1
ASSUME LayoutAssumption ==
    /\ NUM_PAGE_DIRS \in Nat /\ ENTRIES \in Nat \ {0}
    /\ PAGES \in Nat /\ KERNEL_START \in Nat
    /\ PAGES % ENTRIES = 0 /\ KERNEL_START % ENTRIES = 0
    /\ PROGRAM_START \in Nat /\ EXTRA_PAGES \in Nat /\ ProgramSizes \subseteq Nat
    /\ \A size \in ProgramSizes : PROGRAM_START + size + EXTRA_PAGES <= KERNEL_START
    /\ USER_HEAP_START \in Nat /\ PROGRAM_START < USER_HEAP_START
    /\ USER_HEAP_PAGES \in Nat /\ STACK_PAGES \in Nat /\ USER_STACK_TOP \in Nat
    /\ USER_HEAP_START + USER_HEAP_PAGES <= USER_STACK_TOP - STACK_PAGES
    /\ USER_STACK_TOP <= KERNEL_START
    /\ NEWLIB_HEAP \in Nat /\ NEWLIB_PAGES \in Nat /\ HEAP_START \in Nat
    /\ KERNEL_START <= NEWLIB_HEAP /\ NEWLIB_HEAP + NEWLIB_PAGES <= HEAP_START
    /\ MaxHeapBlocks \in Nat /\ INITIAL_BLOCKS \in 1 .. MaxHeapBlocks
    /\ RAMDISK_VIRTUAL \in Nat /\ HEAP_START + MaxHeapBlocks <= RAMDISK_VIRTUAL
    /\ LAPIC \in Nat /\ RAMDISK_VIRTUAL + Len(RAMDISK_FRAMES) <= LAPIC /\ LAPIC < PAGES
    /\ RAMDISK_FRAMES \in Seq(1 .. (MIN_INDEX - 1))
    /\ \A i, j \in DOMAIN RAMDISK_FRAMES : RAMDISK_FRAMES[i] = RAMDISK_FRAMES[j] => i = j
    /\ LAPIC_FRAME \in Nat /\ LAPIC_FRAME >= MAX_INDEX     \* which is no memory

VARIABLES
    used,               \* frames marked in physical_memory_bitmap
    dir,                \* the entries of each directory: a page table's frame, or none
    tab,                \* the page tables, by the frame they are in
    dirUsed,            \* pageDirsUsed
    cr3,
    plan,               \* pages the running loops have yet to map
    blocks,             \* total_blocks of the kernel heap
    brk,                \* heap_end of syscall_4_sbrk()
    current,            \* ghost: directory of the thread that runs
    loaded,             \* ghost: frame each page of a program was copied to
    granted             \* ghost: pages sbrk() gave to each process

vars == <<used, dir, tab, dirUsed, cr3, plan, blocks, brk, current, loaded, granted>>
ghosts == <<current, loaded, granted>>

Entry(f, o) == [frame |-> f, owner |-> o]
NoEntry == Entry(NoFrame, FALSE)
EmptyTable == [i \in 0 .. (ENTRIES - 1) |-> NoFrame]

(* A page the plan asks for: with a frame of its own, or one from the      *)
(* allocator; or the point where the program is copied in.                 *)
Page(v, f) == [virt |-> v, frame |-> f]
Fresh(first, n) == [i \in 1 .. n |-> Page(first + i - 1, NoFrame)]
Copy(n) == Page(-1, n)

(***************************************************************************)
(* What the boot maps, in the order of kernel_main().  The machine has the *)
(* memory for it.                                                          *)
(***************************************************************************)
init_memory == Fresh(NEWLIB_HEAP, NEWLIB_PAGES)
heap_init == Fresh(HEAP_START, INITIAL_BLOCKS)
create_ramdisk ==
    [i \in DOMAIN RAMDISK_FRAMES |-> Page(RAMDISK_VIRTUAL + i - 1, RAMDISK_FRAMES[i])]
mapLAPIC == <<Page(LAPIC, LAPIC_FRAME)>>

kernel_main == init_memory \o heap_init \o create_ramdisk \o mapLAPIC

Init ==
    /\ used = {}
    /\ dir = [d \in Dirs \cup {KERNEL} |-> [pd \in Pds |-> NoEntry]]
    /\ tab = [f \in Allocatable \cup {0} |-> EmptyTable]
    /\ dirUsed = {}
    /\ cr3 = KERNEL
    /\ plan = kernel_main
    /\ blocks = INITIAL_BLOCKS
    /\ brk = USER_HEAP_START
    /\ current = KERNEL
    /\ loaded = [d \in Dirs |-> <<>>]
    /\ granted = [d \in Dirs |-> {}]

(* kmalloc() and kfree() are called between the loops: after the boot,     *)
(* before a process is made, and before its first thread is.               *)
BetweenLoops == plan # <<>> => Head(plan).virt = -1

(* No page table is in frame 0, and CR3 holds a directory.                 *)
Runs ==
    /\ cr3 # NoDir
    /\ \A d \in Dirs \cup {KERNEL} : \A pd \in Pds : dir[d][pd].frame # 0

-----------------------------------------------------------------------------
(* pmm.c                                                                   *)

(* The lowest free frame, 0 when there is none.                            *)
pmm_alloc_pageframe(u) ==
    LET free == Allocatable \ u
    IN  IF free = {} THEN 0 ELSE CHOOSE f \in free : \A g \in free : f <= g

Taken(u, f) == IF f \in Allocatable THEN u \cup {f} ELSE u
pmm_free_pageframe(u, f) == u \ {f}

-----------------------------------------------------------------------------
(* paging.c                                                                *)

(* Seeded bug: a directory is brought up to date only when it is loaded.   *)
sync_page_dirs_CurrentOnly(D) ==
    [d \in DOMAIN D |->
        IF d = cr3
          THEN [pd \in Pds |-> IF pd \in KernelPds THEN Entry(D[KERNEL][pd].frame, FALSE)
                               ELSE D[d][pd]]
          ELSE D[d]]

(* Every directory in use gets the kernel's half, without owning it.       *)
sync_page_dirs(D) ==
    [d \in DOMAIN D |->
        IF d \in dirUsed
          THEN [pd \in Pds |-> IF pd \in KernelPds THEN Entry(D[KERNEL][pd].frame, FALSE)
                               ELSE D[d][pd]]
          ELSE D[d]]

(* The frame a page is mapped to in directory d.                           *)
mem_get_phys_from_virt(d, v) ==
    LET e == dir[d][v \div ENTRIES]
    IN  IF e = NoEntry THEN NoFrame ELSE tab[e.frame][v % ENTRIES]

(* Page v is mapped to frame f, in the kernel's directory or the loaded    *)
(* one; the frame for a missing page table is not checked to be there.     *)
(* u are the frames in use.  CR3 is restored.                              *)
mem_map_page(v, f, u) ==
    LET d     == IF v >= KERNEL_START THEN KERNEL ELSE cr3
        pd    == v \div ENTRIES
        fresh == dir[d][pd] = NoEntry
        t     == IF fresh THEN pmm_alloc_pageframe(u) ELSE dir[d][pd].frame
        mapped == [dir EXCEPT ![d][pd] = IF fresh THEN Entry(t, TRUE) ELSE @]
    IN  /\ used' = Taken(u, t)
        /\ dir' = IF d = KERNEL THEN sync_page_dirs(mapped) ELSE mapped
        /\ tab' = [tab EXCEPT ![t] = [(IF fresh THEN EmptyTable ELSE @)
                                        EXCEPT ![v % ENTRIES] = f]]

(* Seeded bug: the emptied page table is freed, but stays in the directory.*)
mem_unmap_page_KeepsEntry(v) ==
    LET pd == v \div ENTRIES
        e  == dir[KERNEL][pd]
    IN  IF mem_get_phys_from_virt(KERNEL, v) = NoFrame
          THEN cr3' = KERNEL /\ UNCHANGED <<used, dir, tab>>
          ELSE LET left == [tab[e.frame] EXCEPT ![v % ENTRIES] = NoFrame]
               IN  /\ tab' = [tab EXCEPT ![e.frame] = left]
                   /\ used' = IF left = EmptyTable THEN pmm_free_pageframe(used, e.frame)
                                                   ELSE used
                   /\ UNCHANGED <<dir, cr3>>

(* A page of the kernel is unmapped, and its page table freed when that    *)
(* was the last one.  No caller asks for PAGE_FLAG_OWNER on a page, so     *)
(* the page's own frame is never freed.  A page that is not mapped leaves  *)
(* the kernel's directory loaded.                                          *)
mem_unmap_page(v) ==
    LET pd == v \div ENTRIES
        e  == dir[KERNEL][pd]
    IN  IF mem_get_phys_from_virt(KERNEL, v) = NoFrame
          THEN cr3' = KERNEL /\ UNCHANGED <<used, dir, tab>>
          ELSE LET left == [tab[e.frame] EXCEPT ![v % ENTRIES] = NoFrame]
                   gone == left = EmptyTable /\ e.owner
               IN  /\ tab' = [tab EXCEPT ![e.frame] = left]
                   /\ used' = IF gone THEN pmm_free_pageframe(used, e.frame) ELSE used
                   /\ dir' = sync_page_dirs(
                                IF gone THEN [dir EXCEPT ![KERNEL][pd] = NoEntry] ELSE dir)
                   /\ UNCHANGED cr3

(* A directory for a process: nothing of the user's, the kernel's half.    *)
mem_alloc_page_dir(d) ==
    /\ d \notin dirUsed
    /\ \A e \in 1 .. (d - 1) : e \in dirUsed
    /\ dirUsed' = dirUsed \cup {d}
    /\ dir' = [dir EXCEPT ![d] = [pd \in Pds |->
                  IF pd \in KernelPds THEN Entry(dir[KERNEL][pd].frame, FALSE) ELSE NoEntry]]

(***************************************************************************)
(* mem_free_page_dir() gives back the page tables of the user's half.  The *)
(* repository has no caller of it yet.                                     *)
(***************************************************************************)
mem_free_page_dir(d) ==
    LET tables == {dir[d][pd].frame : pd \in Pds \ KernelPds} \ {NoFrame}
    IN  /\ Runs /\ plan = <<>> /\ d \in dirUsed \ {current}
        /\ used' = used \ tables
        /\ tab' = [f \in DOMAIN tab |-> IF f \in tables THEN EmptyTable ELSE tab[f]]
        /\ dir' = [dir EXCEPT ![d] =
                     [pd \in Pds |-> IF pd \in KernelPds THEN dir[d][pd] ELSE NoEntry]]
        /\ dirUsed' = dirUsed \ {d}
        /\ loaded' = [loaded EXCEPT ![d] = <<>>]
        /\ granted' = [granted EXCEPT ![d] = {}]
        /\ UNCHANGED <<cr3, plan, blocks, brk, current>>

-----------------------------------------------------------------------------
(* One turn of a loop: a frame, 0 when memory is used up, and the mapping. *)
MapNext ==
    /\ Runs /\ plan # <<>> /\ Head(plan).virt # -1
    /\ LET p == Head(plan)
           f == IF p.frame = NoFrame THEN pmm_alloc_pageframe(used) ELSE p.frame
       IN  mem_map_page(p.virt, f, Taken(used, f))
    /\ plan' = Tail(plan)
    /\ UNCHANGED <<dirUsed, cr3, blocks, brk, ghosts>>

(* The program's pages and some more behind them; none for a program that  *)
(* is not found.                                                           *)
mapMemoryForProgramm(size) ==
    IF size = NoFile THEN <<>> ELSE Fresh(PROGRAM_START, size + EXTRA_PAGES)

(* The stack, then the heap.                                               *)
createUserThread ==
    Fresh(USER_STACK_TOP - STACK_PAGES, STACK_PAGES) \o Fresh(USER_HEAP_START, USER_HEAP_PAGES)

(***************************************************************************)
(* createUserProcess(): a directory, which is loaded at once, then the     *)
(* program and its first thread.  With no directory left, a null pointer   *)
(* is turned into a physical address.                                      *)
(***************************************************************************)
createUserProcess(size) ==
    /\ Runs /\ plan = <<>>
    /\ \E d \in Dirs :
        /\ mem_alloc_page_dir(d)
        /\ cr3' = d
        /\ current' = d
    /\ plan' = mapMemoryForProgramm(size)
               \o (IF size = NoFile THEN <<>> ELSE <<Copy(size)>>) \o createUserThread
    /\ UNCHANGED <<used, tab, blocks, brk, loaded, granted>>

createUserProcess_NoDirectory ==
    /\ Runs /\ plan = <<>> /\ dirUsed = Dirs
    /\ cr3' = NoDir
    /\ UNCHANGED <<used, dir, tab, dirUsed, plan, blocks, brk, ghosts>>

(* The file is copied to the pages just mapped, as far as it can be read.  *)
copyProgramToAddress ==
    /\ Runs /\ plan # <<>> /\ Head(plan).virt = -1
    /\ \E n \in 0 .. Head(plan).frame :
        loaded' = [loaded EXCEPT ![cr3] =
            [i \in 1 .. n |-> mem_get_phys_from_virt(cr3, PROGRAM_START + i - 1)]]
    /\ plan' = Tail(plan)
    /\ UNCHANGED <<used, dir, tab, dirUsed, cr3, blocks, brk, current, granted>>

(* switchTask() to a thread of a process, or to a kernel thread.           *)
switchTask(d) ==
    /\ Runs /\ plan = <<>> /\ d # current
    /\ cr3' = d
    /\ current' = d
    /\ UNCHANGED <<used, dir, tab, dirUsed, plan, blocks, brk, loaded, granted>>

(* Seeded bug: the limit is the first page behind the stack's gap.         *)
syscall_4_sbrk_LimitOff(n) ==
    /\ Runs /\ plan = <<>> /\ current # KERNEL
    /\ n < 0 => brk - 1 \in granted[current]
    /\ brk + n <= USER_HEAP_START + USER_HEAP_PAGES + 1
    /\ brk' = brk + n
    /\ granted' = [granted EXCEPT ![current] = (@ \cup (brk .. (brk + n - 1))) \ ((brk + n) .. (brk - 1))]
    /\ UNCHANGED <<used, dir, tab, dirUsed, cr3, plan, blocks, current, loaded>>

(***************************************************************************)
(* sbrk() moves the one end of the heap that all processes share; a move   *)
(* is a whole number of pages (ALIGN_UP), and one beyond the limit is      *)
(* refused.  A process gives back only pages it has (newlib's malloc).     *)
(***************************************************************************)
syscall_4_sbrk(n) ==
    /\ Runs /\ plan = <<>> /\ current # KERNEL
    /\ n < 0 => brk - 1 \in granted[current]
    /\ brk + n <= USER_HEAP_START + USER_HEAP_PAGES
    /\ brk' = brk + n
    /\ granted' = [granted EXCEPT ![current] = (@ \cup (brk .. (brk + n - 1))) \ ((brk + n) .. (brk - 1))]
    /\ UNCHANGED <<used, dir, tab, dirUsed, cr3, plan, blocks, current, loaded>>

(* heap_expand() by a block; without a frame for it, nothing happens.      *)
heap_expand ==
    /\ Runs /\ BetweenLoops /\ blocks < MaxHeapBlocks
    /\ LET f == pmm_alloc_pageframe(used)
       IN  f # 0 /\ mem_map_page(HEAP_START + blocks, f, Taken(used, f))
    /\ blocks' = blocks + 1
    /\ UNCHANGED <<dirUsed, cr3, plan, brk, ghosts>>

(* Seeded bug: the block behind the last one is unmapped.                  *)
heap_contract_OneTooFar ==
    /\ Runs /\ BetweenLoops /\ blocks > 1
    /\ mem_unmap_page(HEAP_START + blocks)
    /\ blocks' = blocks - 1
    /\ UNCHANGED <<dirUsed, plan, brk, ghosts>>

(* heap_contract(): the last block is free.  Block 0 never is (Heap.tla).  *)
heap_contract ==
    /\ Runs /\ BetweenLoops /\ blocks > 1
    /\ mem_unmap_page(HEAP_START + blocks - 1)
    /\ blocks' = blocks - 1
    /\ UNCHANGED <<dirUsed, plan, brk, ghosts>>

Next ==
    \/ MapNext
    \/ \E size \in ProgramSizes \cup {NoFile} : createUserProcess(size)
    \/ createUserProcess_NoDirectory
    \/ copyProgramToAddress
    \/ \E d \in dirUsed \cup {KERNEL} : switchTask(d)
    \/ \E d \in Dirs : mem_free_page_dir(d)
    \/ \E n \in {-1, 1} : syscall_4_sbrk(n)
    \/ heap_expand
    \/ heap_contract

Spec == Init /\ [][Next]_vars

-----------------------------------------------------------------------------
TypeOK ==
    /\ used \subseteq Allocatable
    /\ dir \in [Dirs \cup {KERNEL} ->
                   [Pds -> [frame : Allocatable \cup {0, NoFrame}, owner : BOOLEAN]]]
    /\ tab \in [Allocatable \cup {0} -> [0 .. (ENTRIES - 1) -> Nat \cup {NoFrame}]]
    /\ dirUsed \subseteq Dirs
    /\ cr3 \in Dirs \cup {KERNEL, NoDir}
    /\ plan \in Seq([virt : -1 .. (PAGES - 1), frame : Int])
    /\ blocks \in 1 .. MaxHeapBlocks
    /\ brk \in USER_HEAP_START .. (USER_HEAP_START + USER_HEAP_PAGES)
    /\ current \in dirUsed \cup {KERNEL}
    /\ loaded \in [Dirs -> Seq(Int)]
    /\ granted \in [Dirs -> SUBSET (USER_HEAP_START .. (USER_HEAP_START + USER_HEAP_PAGES - 1))]

UserPages == 0 .. (KERNEL_START - 1)
KernelPages == KERNEL_START .. (PAGES - 1)

(* The places that have a frame, each with it: the page tables and the     *)
(* pages, each half of an address space once.                              *)
Half(d) == IF d = KERNEL THEN KernelPages ELSE UserPages
TablePlaces ==
    {p \in (dirUsed \cup {KERNEL}) \X Pds :
        p[2] * ENTRIES \in Half(p[1]) /\ dir[p[1]][p[2]] # NoEntry}
PagePlaces ==
    {p \in (dirUsed \cup {KERNEL}) \X (0 .. (PAGES - 1)) :
        p[2] \in Half(p[1]) /\ mem_get_phys_from_virt(p[1], p[2]) # NoFrame}
FramesInUse ==
    {<<"table", p, dir[p[1]][p[2]].frame>> : p \in TablePlaces}
    \cup {<<"page", p, mem_get_phys_from_virt(p[1], p[2])>> : p \in PagePlaces}

(* No frame has two uses, except frame 0.                                  *)
FramesNotShared ==
    LET inUse == FramesInUse
    IN  \A u, w \in inUse : u # w /\ u[3] = w[3] => u[3] = 0

(* Every frame in use is marked in the bitmap and is memory; the RAM disk, *)
(* the local APIC and frame 0 are not pmm.c's.                             *)
FramesMarked ==
    \A u \in FramesInUse :
        \/ u[3] \in used /\ u[3] \in MIN_INDEX .. (MAX_INDEX - 1)
        \/ u[3] \in {0, LAPIC_FRAME} \cup {RAMDISK_FRAMES[i] : i \in DOMAIN RAMDISK_FRAMES}

(* pmm.c, paging.c: whatever was mapped, unmapped and freed before, no     *)
(* frame is a page of two processes, of a process and the kernel, or a     *)
(* page and a page table, except frame 0, which pmm_alloc_pageframe()      *)
(* hands to everyone once memory is used up; and what is in use is marked, *)
(* so that it cannot be handed out again.                                  *)
FramesOwned == TypeOK /\ FramesNotShared /\ FramesMarked

(* paging.c, sync_page_dirs(): between two calls, every process sees the   *)
(* kernel's half of the address space as kernel_directory has it, and owns *)
(* none of it, so that unmapping it there would free nothing.              *)
KernelHalfInSync ==
    \A d \in dirUsed : \A pd \in KernelPds : dir[d][pd] = Entry(dir[KERNEL][pd].frame, FALSE)

(* paging.c, mem_unmap_page(): its early returns, which leave the kernel's *)
(* directory loaded under a running process, are never taken: the process  *)
(* that runs has its own directory in CR3 whatever the heap does.          *)
CurrentLoaded == cr3 \in {current, NoDir}

(* process.c, syscalls.c: a program stays in the frames it was copied to   *)
(* when stack and heap are mapped after it, unless it reaches into the     *)
(* heap's addresses itself; and memory sbrk() gives out is mapped.         *)
UserMemoryKept ==
    \A d \in dirUsed :
        /\ PROGRAM_START + Len(loaded[d]) <= USER_HEAP_START =>
             \A i \in DOMAIN loaded[d] :
                mem_get_phys_from_virt(d, PROGRAM_START + i - 1) = loaded[d][i]
        /\ \A v \in granted[d] : mem_get_phys_from_virt(d, v) # NoFrame
=============================================================================
