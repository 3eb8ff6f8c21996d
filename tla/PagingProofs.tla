---------------------------- MODULE PagingProofs ----------------------------
(***************************************************************************)
(* Proofs about physical memory and page tables, for any sizes: what the   *)
(* mapping, unmapping and freeing of paging.c, in any order, does to the   *)
(* frames that pmm.c hands out.                                            *)
(***************************************************************************)
EXTENDS Paging, SequenceTheorems, WellFoundedInduction, TLAPS

(***************************************************************************)
(* The inductive invariant.  Spaces are the directories in use; each page  *)
(* table and each page is counted once, in the half it belongs to.         *)
(***************************************************************************)
Spaces == dirUsed \cup {KERNEL}
HalfPds(d) == IF d = KERNEL THEN KernelPds ELSE Pds \ KernelPds
Table(d, pd) == dir[d][pd].frame
At(d, v) == mem_get_phys_from_virt(d, v)

(* The RAM disk and the local APIC have frames of their own.               *)
IsHome(v, f) ==
    \/ v = LAPIC /\ f = LAPIC_FRAME
    \/ \E i \in DOMAIN RAMDISK_FRAMES : v = RAMDISK_VIRTUAL + i - 1 /\ f = RAMDISK_FRAMES[i]

(* An absent entry has no flags.                                           *)
Whole == \A d \in Dirs \cup {KERNEL} : \A pd \in Pds : Table(d, pd) = NoFrame => dir[d][pd] = NoEntry

(* Page tables have different frames, pages have, and no page is a table.  *)
TablesApart ==
    \A d, e \in Spaces : \A pd \in HalfPds(d), qd \in HalfPds(e) :
        Table(d, pd) = Table(e, qd) /\ Table(d, pd) \notin {NoFrame, 0} => d = e /\ pd = qd
PagesApart ==
    \A d, e \in Spaces : \A v \in Half(d), w \in Half(e) :
        At(d, v) = At(e, w) /\ At(d, v) \notin {NoFrame, 0} => d = e /\ v = w
TablesNotPages ==
    \A d, e \in Spaces : \A pd \in HalfPds(d), w \in Half(e) :
        Table(d, pd) \notin {NoFrame, 0} => At(e, w) # Table(d, pd)

(* What is in use is marked.                                               *)
TablesMarked == \A d \in Spaces : \A pd \in HalfPds(d) : Table(d, pd) \in used \cup {NoFrame, 0}
PagesMarked ==
    \A d \in Spaces : \A v \in Half(d) :
        At(d, v) \in used \cup {NoFrame, 0} \/ (d = KERNEL /\ IsHome(v, At(d, v)))

Owned == TablesApart /\ PagesApart /\ TablesNotPages /\ TablesMarked /\ PagesMarked

(* The loops: the boot's map the kernel's half, those of a process its     *)
(* own, and the program's pages come before its copy.                      *)
InPlan(v) == \E i \in DOMAIN plan : plan[i].virt = v
Planned ==
    /\ \A i \in DOMAIN plan :
        IF current = KERNEL
          THEN plan[i].virt \in KernelPages /\ (plan[i].frame = NoFrame \/ IsHome(plan[i].virt, plan[i].frame))
          ELSE \/ plan[i].virt \in UserPages /\ plan[i].frame = NoFrame
               \/ /\ plan[i].virt = -1 /\ plan[i].frame \in Nat
                  /\ PROGRAM_START + plan[i].frame <= KERNEL_START
    /\ \A i, j \in DOMAIN plan : plan[i].virt = -1 /\ plan[j].virt = -1 => i = j
    /\ \A i \in DOMAIN plan : plan[i].virt \in PROGRAM_START .. (USER_HEAP_START - 1) =>
            \E j \in DOMAIN plan : i < j /\ plan[j].virt = -1
    /\ InPlan(-1) => loaded[current] = <<>>

(* What is mapped for good.                                                *)
Backed ==
    /\ \A v \in HEAP_START .. (HEAP_START + blocks - 1) : At(KERNEL, v) # NoFrame \/ InPlan(v)
    /\ \A d \in dirUsed : \A v \in USER_HEAP_START .. (USER_HEAP_START + USER_HEAP_PAGES - 1) :
            At(d, v) # NoFrame \/ (d = current /\ InPlan(v))
    /\ \A d \in Dirs \ dirUsed : loaded[d] = <<>> /\ granted[d] = {}

PInv ==
    /\ TypeOK /\ Whole /\ KernelHalfInSync /\ CurrentLoaded
    /\ Owned /\ Planned /\ Backed /\ UserMemoryKept
-----------------------------------------------------------------------------
(***************************************************************************)
(* Page v is entry v % ENTRIES of table v \div ENTRIES.                    *)
(***************************************************************************)
LEMMA DivMod ==
    ASSUME NEW v \in Nat, NEW n \in Nat \ {0}
    PROVE  /\ v \div n \in Nat /\ v % n \in 0 .. (n - 1)
           /\ v = n * (v \div n) + (v % n)
OBVIOUS

(***************************************************************************)
(* Products keep the order.                                                *)
(***************************************************************************)
LEMMA TimesMonotone ==
    ASSUME NEW a \in Nat, NEW b \in Nat, NEW n \in Nat
    PROVE  a <= b => n * a <= n * b
<1>1. SUFFICES ASSUME a <= b PROVE n * a <= n * b
  OBVIOUS
<1>2. PICK k \in Nat : b = a + k
  BY <1>1
<1>3. n * b = n * a + n * k
  BY <1>2
<1>4. n * k \in Nat /\ n * a \in Nat
  OBVIOUS
<1>5. n * b = n * a + (n * k) /\ n * k >= 0
  BY <1>3, <1>4
<1>6. QED
  BY <1>4, <1>5

(***************************************************************************)
(* A multiple of n is at most v if it is at most the multiple below v.     *)
(***************************************************************************)
LEMMA Floor ==
    ASSUME NEW v \in Nat, NEW n \in Nat \ {0}, NEW k \in Nat
    PROVE  n * k <= v <=> k <= v \div n
<1>1. PICK q \in Nat : q = v \div n
  BY DivMod
<1>2. PICK r \in 0 .. (n - 1) : r = v % n
  BY DivMod
<1>3. v = n * q + r
  BY <1>1, <1>2, DivMod
<1>4. ASSUME k <= q PROVE n * k <= v
  <2>1. n * k <= n * q /\ n * k \in Nat /\ n * q \in Nat
    BY <1>4, TimesMonotone
  <2>2. QED
    BY <1>3, <2>1
<1>5. ASSUME ~(k <= q) PROVE ~(n * k <= v)
  <2>1. q + 1 \in Nat /\ q + 1 <= k
    BY <1>5
  <2>2. n * (q + 1) <= n * k /\ n * k \in Nat /\ n * q \in Nat
    BY <2>1, TimesMonotone
  <2>3. n * (q + 1) = n * q + n
    OBVIOUS
  <2>4. QED
    BY <1>3, <2>2, <2>3
<1>6. QED
  BY <1>1, <1>4, <1>5

(***************************************************************************)
(* paging.h: the directory entry of a page is one of the directory, and    *)
(* the kernel's half begins with an entry of its own.                      *)
(***************************************************************************)
LEMMA PageTable ==
    ASSUME NEW v \in 0 .. (PAGES - 1)
    PROVE  /\ v \div ENTRIES \in Pds /\ v % ENTRIES \in 0 .. (ENTRIES - 1)
           /\ v \in KernelPages <=> v \div ENTRIES \in KernelPds
           /\ v \in KernelPages <=> v \notin UserPages
<1>1. v \in Nat /\ PAGES \in Nat /\ KERNEL_START \in Nat /\ ENTRIES \in Nat \ {0} /\ v < PAGES
  BY LayoutAssumption
<1>2. PICK P \in Nat : P = PAGES \div ENTRIES
  BY <1>1, DivMod
<1>3. PICK K \in Nat : K = KERNEL_START \div ENTRIES
  BY <1>1, DivMod
<1>4. PICK q \in Nat : q = v \div ENTRIES
  BY <1>1, DivMod
<1>5. PAGES = ENTRIES * P + 0 /\ ENTRIES * P \in Nat
  <2>1. PAGES = ENTRIES * P + (PAGES % ENTRIES)
    BY <1>1, <1>2, DivMod
  <2>2. QED
    BY <1>1, <2>1, LayoutAssumption
<1>6. KERNEL_START = ENTRIES * K + 0 /\ ENTRIES * K \in Nat
  <2>1. KERNEL_START = ENTRIES * K + (KERNEL_START % ENTRIES)
    BY <1>1, <1>3, DivMod
  <2>2. QED
    BY <1>1, <2>1, LayoutAssumption
<1>7. ENTRIES * P <= v <=> P <= q
  BY <1>1, <1>4, Floor
<1>8. ENTRIES * K <= v <=> K <= q
  BY <1>1, <1>4, Floor
<1>9. q \in Pds
  BY <1>1, <1>2, <1>5, <1>7 DEF Pds
<1>10. q * ENTRIES >= KERNEL_START <=> K <= q
  <2>1. q * ENTRIES = ENTRIES * q /\ ENTRIES * q \in Nat
    BY <1>1
  <2>2. K <= q => ENTRIES * K <= ENTRIES * q
    BY <1>1, TimesMonotone
  <2>3. ~(K <= q) => ENTRIES * q + ENTRIES <= ENTRIES * K
    <3>1. SUFFICES ASSUME ~(K <= q) PROVE ENTRIES * q + ENTRIES <= ENTRIES * K
      OBVIOUS
    <3>2. q + 1 \in Nat /\ q + 1 <= K
      BY <3>1
    <3>3. ENTRIES * (q + 1) <= ENTRIES * K
      BY <1>1, <3>2, TimesMonotone
    <3>4. ENTRIES * (q + 1) = ENTRIES * q + ENTRIES
      BY <1>1
    <3>5. QED
      BY <3>3, <3>4
  <2>4. QED
    BY <1>1, <1>6, <2>1, <2>2, <2>3
<1>11. v >= KERNEL_START <=> K <= q
  BY <1>1, <1>6, <1>8
<1>12. v \in KernelPages <=> q \in KernelPds
  BY <1>1, <1>9, <1>10, <1>11 DEF KernelPages, KernelPds
<1>13. v % ENTRIES \in 0 .. (ENTRIES - 1)
  BY <1>1, DivMod
<1>14. v \in KernelPages <=> v \notin UserPages
  BY <1>1 DEF KernelPages, UserPages
<1>15. QED
  BY <1>4, <1>9, <1>12, <1>13, <1>14

(***************************************************************************)
(* Two pages with the same entry of the same table are one.                *)
(***************************************************************************)
LEMMA SamePage ==
    ASSUME NEW v \in 0 .. (PAGES - 1), NEW w \in 0 .. (PAGES - 1),
           v \div ENTRIES = w \div ENTRIES, v % ENTRIES = w % ENTRIES
    PROVE  v = w
<1>1. v \in Nat /\ w \in Nat /\ ENTRIES \in Nat \ {0}
  BY LayoutAssumption
<1>2. v = ENTRIES * (v \div ENTRIES) + (v % ENTRIES) /\ w = ENTRIES * (w \div ENTRIES) + (w % ENTRIES)
  BY <1>1, DivMod
<1>3. QED
  BY <1>2

(***************************************************************************)
(* Where the first page of a directory entry is.                           *)
(***************************************************************************)
LEMMA FirstPage ==
    ASSUME NEW pd \in Pds
    PROVE  /\ pd * ENTRIES \in KernelPages <=> pd \in KernelPds
           /\ pd * ENTRIES \in UserPages <=> pd \notin KernelPds
<1>1. PAGES \in Nat /\ ENTRIES \in Nat \ {0} /\ KERNEL_START \in Nat
  BY LayoutAssumption
<1>2. PICK P \in Nat : P = PAGES \div ENTRIES
  BY <1>1, DivMod
<1>3. pd \in Nat /\ pd + 1 \in Nat /\ pd + 1 <= P
  BY <1>2 DEF Pds
<1>4. ENTRIES * (pd + 1) <= ENTRIES * P /\ ENTRIES * (pd + 1) = ENTRIES * pd + ENTRIES
  BY <1>1, <1>3, TimesMonotone
<1>5. PAGES = ENTRIES * P + (PAGES % ENTRIES) /\ PAGES % ENTRIES \in Nat /\ ENTRIES * P \in Nat
  BY <1>1, <1>2, DivMod
<1>6. pd * ENTRIES = ENTRIES * pd /\ ENTRIES * pd \in Nat
  BY <1>1, <1>3
<1>7. pd * ENTRIES \in Nat /\ pd * ENTRIES < PAGES
  BY <1>1, <1>4, <1>5, <1>6
<1>8. QED
  BY <1>1, <1>7 DEF KernelPages, UserPages, KernelPds

(***************************************************************************)
(* pmm.c: the bytes of the bitmap that are searched stand for memory after *)
(* the RAM disk.                                                           *)
(***************************************************************************)
LEMMA Memory ==
    /\ Allocatable \subseteq MIN_INDEX .. (MAX_INDEX - 1)
    /\ Allocatable \subseteq Nat \ {0}
<1>1. BITS \in Nat \ {0} /\ MIN_INDEX \in Nat \ {0} /\ MAX_INDEX \in Nat
  BY PmmAssumption
<1>2. FirstByte \in Nat /\ FirstByte * BITS >= MIN_INDEX /\ FirstByte * BITS \in Nat
  <2>1. PICK q \in Nat, r \in 0 .. (BITS - 1) : q = MIN_INDEX \div BITS /\ r = MIN_INDEX % BITS
    BY <1>1, DivMod
  <2>2. MIN_INDEX = BITS * q + r
    BY <1>1, <2>1, DivMod
  <2>3. CASE r = 0
    <3>1. FirstByte = q
      BY <2>1, <2>3 DEF FirstByte
    <3>2. q * BITS = BITS * q /\ BITS * q \in Nat
      BY <1>1
    <3>3. QED
      BY <1>1, <2>2, <2>3, <3>1, <3>2
  <2>4. CASE r # 0
    <3>1. FirstByte = q + 1
      BY <2>1, <2>4 DEF FirstByte
    <3>2. (q + 1) * BITS = BITS * q + BITS /\ BITS * q \in Nat
      BY <1>1
    <3>3. QED
      BY <1>1, <2>1, <2>2, <3>1, <3>2
  <2>5. QED
    BY <2>3, <2>4
<1>3. EndByte * BITS \in Int /\ EndByte * BITS <= MAX_INDEX
  <2>1. PICK q \in Nat, r \in 0 .. (BITS - 1) : q = MAX_INDEX \div BITS /\ r = MAX_INDEX % BITS
    BY <1>1, DivMod
  <2>2. MAX_INDEX = BITS * q + r /\ BITS * q \in Nat
    BY <1>1, <2>1, DivMod
  <2>3. CASE r = 0
    <3>1. EndByte = q
      BY <2>1, <2>3 DEF EndByte
    <3>2. q * BITS = BITS * q
      BY <1>1
    <3>3. QED
      BY <1>1, <2>2, <3>1, <3>2
  <2>4. CASE r # 0
    <3>1. EndByte = q - 1
      BY <2>1, <2>4 DEF EndByte
    <3>2. (q - 1) * BITS = BITS * q - BITS
      BY <1>1
    <3>3. QED
      BY <1>1, <2>1, <2>2, <3>1, <3>2
  <2>5. QED
    BY <2>3, <2>4
<1>4. PICK a \in Nat, b \in Int : a = FirstByte * BITS /\ b = EndByte * BITS
  BY <1>2, <1>3
<1>5. Allocatable = a .. (b - 1)
  BY <1>4 DEF Allocatable
<1>6. a >= MIN_INDEX /\ b <= MAX_INDEX
  BY <1>2, <1>3, <1>4
<1>7. QED
  BY <1>1, <1>5, <1>6


(***************************************************************************)
(* memory.h: the parts of the address space lie in order.                  *)
(***************************************************************************)
LEMMA Layout ==
    /\ KERNEL_START <= PAGES /\ PAGES \in Nat /\ KERNEL_START \in Nat
    /\ \A v \in HEAP_START .. (HEAP_START + MaxHeapBlocks - 1) : v \in KernelPages
    /\ \A v \in NEWLIB_HEAP .. (NEWLIB_HEAP + NEWLIB_PAGES - 1) : v \in KernelPages
    /\ \A i \in DOMAIN RAMDISK_FRAMES : RAMDISK_VIRTUAL + i - 1 \in KernelPages
    /\ LAPIC \in KernelPages
    /\ \A v \in USER_HEAP_START .. (USER_HEAP_START + USER_HEAP_PAGES - 1) : v \in UserPages
    /\ \A v \in (USER_STACK_TOP - STACK_PAGES) .. (USER_STACK_TOP - 1) :
            v \in UserPages /\ v >= USER_HEAP_START
    /\ KernelPages \subseteq 0 .. (PAGES - 1) /\ UserPages \subseteq 0 .. (PAGES - 1)
<1>1. PICK n \in Nat : n = Len(RAMDISK_FRAMES) /\ DOMAIN RAMDISK_FRAMES = 1 .. n
  <2>1. RAMDISK_FRAMES \in Seq(1 .. (MIN_INDEX - 1))
    BY LayoutAssumption
  <2>2. QED
    BY <2>1, LenProperties
<1>2. /\ PAGES \in Nat /\ KERNEL_START \in Nat /\ NEWLIB_HEAP \in Nat /\ NEWLIB_PAGES \in Nat
      /\ HEAP_START \in Nat /\ MaxHeapBlocks \in Nat /\ RAMDISK_VIRTUAL \in Nat /\ LAPIC \in Nat
      /\ KERNEL_START <= NEWLIB_HEAP /\ NEWLIB_HEAP + NEWLIB_PAGES <= HEAP_START
      /\ HEAP_START + MaxHeapBlocks <= RAMDISK_VIRTUAL
      /\ RAMDISK_VIRTUAL + n <= LAPIC /\ LAPIC < PAGES
  BY <1>1, LayoutAssumption
<1>3. /\ USER_HEAP_START \in Nat /\ USER_HEAP_PAGES \in Nat /\ STACK_PAGES \in Nat /\ USER_STACK_TOP \in Nat
      /\ USER_HEAP_START + USER_HEAP_PAGES <= USER_STACK_TOP - STACK_PAGES /\ USER_STACK_TOP <= KERNEL_START
  BY LayoutAssumption
<1>4. /\ KERNEL_START <= PAGES /\ PAGES \in Nat /\ KERNEL_START \in Nat
      /\ \A v \in HEAP_START .. (HEAP_START + MaxHeapBlocks - 1) : v \in KernelPages
      /\ \A v \in NEWLIB_HEAP .. (NEWLIB_HEAP + NEWLIB_PAGES - 1) : v \in KernelPages
      /\ LAPIC \in KernelPages
  BY <1>2 DEF KernelPages
<1>5. \A i \in DOMAIN RAMDISK_FRAMES : RAMDISK_VIRTUAL + i - 1 \in KernelPages
  BY <1>1, <1>2 DEF KernelPages
<1>6. /\ \A v \in USER_HEAP_START .. (USER_HEAP_START + USER_HEAP_PAGES - 1) : v \in UserPages
      /\ \A v \in (USER_STACK_TOP - STACK_PAGES) .. (USER_STACK_TOP - 1) :
            v \in UserPages /\ v >= USER_HEAP_START
  BY <1>2, <1>3 DEF UserPages
<1>7. KernelPages \subseteq 0 .. (PAGES - 1) /\ UserPages \subseteq 0 .. (PAGES - 1)
  BY <1>2, <1>4 DEF KernelPages, UserPages
<1>8. QED
  BY <1>4, <1>5, <1>6, <1>7

(***************************************************************************)
(* The pages of a space are its half of the addresses.                     *)
(***************************************************************************)
LEMMA Halves ==
    ASSUME NEW d, NEW v \in Half(d)
    PROVE  v \in 0 .. (PAGES - 1) /\ v \div ENTRIES \in HalfPds(d) /\ v % ENTRIES \in 0 .. (ENTRIES - 1)
<1>1. v \in 0 .. (PAGES - 1)
  BY Layout DEF Half
<1>2. QED
  BY <1>1, PageTable DEF Half, HalfPds

(***************************************************************************)
(* The RAM disk and the local APIC are in frames pmm.c does not hand out,  *)
(* each page in its own.                                                   *)
(***************************************************************************)
LEMMA Home ==
    ASSUME NEW v, NEW f, IsHome(v, f)
    PROVE  /\ v \in KernelPages /\ f \in Nat \ {0} /\ f \notin Allocatable
           /\ \A w : IsHome(w, f) => w = v
<1>1. /\ MIN_INDEX \in Nat /\ MAX_INDEX \in Nat /\ MIN_INDEX <= MAX_INDEX /\ MAX_INDEX >= 1
      /\ LAPIC_FRAME \in Nat /\ LAPIC_FRAME >= MAX_INDEX
  BY PmmAssumption, LayoutAssumption
<1>2. \A i \in DOMAIN RAMDISK_FRAMES :
        RAMDISK_FRAMES[i] \in Nat \ {0} /\ RAMDISK_FRAMES[i] < MIN_INDEX
  <2>1. RAMDISK_FRAMES \in Seq(1 .. (MIN_INDEX - 1))
    BY LayoutAssumption
  <2>2. \A i \in DOMAIN RAMDISK_FRAMES : RAMDISK_FRAMES[i] \in 1 .. (MIN_INDEX - 1)
    BY <2>1, LenProperties, ElementOfSeq
  <2>3. QED
    BY <1>1, <2>2
<1>3. \A g \in Allocatable : g \in Nat /\ MIN_INDEX <= g /\ g < MAX_INDEX
  BY <1>1, Memory
<1>4. v \in KernelPages /\ f \in Nat \ {0} /\ f \notin Allocatable
  BY <1>1, <1>2, <1>3, Layout DEF IsHome
<1>5. ASSUME NEW w, IsHome(w, f) PROVE w = v
  <2>1. \A i \in DOMAIN RAMDISK_FRAMES : RAMDISK_FRAMES[i] # LAPIC_FRAME
    BY <1>1, <1>2
  <2>2. \A i, j \in DOMAIN RAMDISK_FRAMES : RAMDISK_FRAMES[i] = RAMDISK_FRAMES[j] => i = j
    BY LayoutAssumption
  <2>3. CASE f = LAPIC_FRAME
    BY <1>5, <2>1, <2>3 DEF IsHome
  <2>4. CASE f # LAPIC_FRAME
    <3>1. PICK i \in DOMAIN RAMDISK_FRAMES : v = RAMDISK_VIRTUAL + i - 1 /\ f = RAMDISK_FRAMES[i]
      BY <2>4 DEF IsHome
    <3>2. PICK j \in DOMAIN RAMDISK_FRAMES : w = RAMDISK_VIRTUAL + j - 1 /\ f = RAMDISK_FRAMES[j]
      BY <1>5, <2>4 DEF IsHome
    <3>3. QED
      BY <2>2, <3>1, <3>2
  <2>5. QED
    BY <2>3, <2>4
<1>6. QED
  BY <1>4, <1>5

(***************************************************************************)
(* A set of numbers that is not empty has a lowest one.                    *)
(***************************************************************************)
LEMMA Lowest ==
    ASSUME NEW S \in SUBSET Nat, S # {}
    PROVE  \E f \in S : \A g \in S : f <= g
<1>1. PICK f \in S : \A g \in S : ~(<<g, f>> \in OpToRel(<, Nat))
  BY NatLessThanWellFounded, WFMin
<1>2. \A g \in S : ~(g < f)
  BY <1>1 DEF OpToRel
<1>3. QED
  BY <1>2

(***************************************************************************)
(* pmm.c: a frame handed out was free, and is not 0.                       *)
(***************************************************************************)
LEMMA Alloc ==
    ASSUME NEW u
    PROVE  pmm_alloc_pageframe(u) \in (Allocatable \ u) \cup {0}
<1> DEFINE free == Allocatable \ u
<1>1. CASE free = {}
  BY <1>1 DEF pmm_alloc_pageframe
<1>2. CASE free # {}
  <2>1. \E f \in free : \A g \in free : f <= g
    BY <1>2, Lowest, Memory
  <2>2. pmm_alloc_pageframe(u) = CHOOSE f \in free : \A g \in free : f <= g
    BY <1>2 DEF pmm_alloc_pageframe
  <2>3. (CHOOSE f \in free : \A g \in free : f <= g) \in free
    BY <2>1
  <2>4. QED
    BY <2>2, <2>3
<1>3. QED
  BY <1>1, <1>2
-----------------------------------------------------------------------------
(* Directories and page tables as values.                                  *)
Directories == [Dirs \cup {KERNEL} -> [Pds -> [frame : Allocatable \cup {0, NoFrame}, owner : BOOLEAN]]]
PageTables == [Allocatable \cup {0} -> [0 .. (ENTRIES - 1) -> Nat \cup {NoFrame}]]
IsWhole(D) == \A d \in Dirs \cup {KERNEL} : \A pd \in Pds : D[d][pd].frame = NoFrame => D[d][pd] = NoEntry

(* The table of page v of space d is in frame t, a new one if it had none. *)
TableFor(d, v, t, u) ==
    \/ t = Table(d, v \div ENTRIES) /\ t \in Allocatable
    \/ Table(d, v \div ENTRIES) = NoFrame /\ t \in (Allocatable \ u) \cup {0}

(* Nothing changes but that page v of space d has frame f, and its table t.*)
Sets(d, v, f, t) ==
    /\ \A e \in Spaces : \A pd \in HalfPds(e) :
            Table(e, pd)' = IF e = d /\ pd = v \div ENTRIES THEN t ELSE Table(e, pd)
    /\ \A e \in Spaces : \A w \in Half(e) : At(e, w)' = IF e = d /\ w = v THEN f ELSE At(e, w)

(***************************************************************************)
(* Entries.                                                                *)
(***************************************************************************)
LEMMA Entries ==
    /\ \A f, o : Entry(f, o).frame = f
    /\ NoEntry = Entry(NoFrame, FALSE)
BY DEF Entry, NoEntry

(***************************************************************************)
(* The kernel's directory is none of the processes'.                       *)
(***************************************************************************)
LEMMA SpacesAre ==
    ASSUME dirUsed \subseteq Dirs
    PROVE  /\ Spaces \subseteq Dirs \cup {KERNEL} /\ KERNEL \notin Dirs /\ KERNEL \notin dirUsed
           /\ \A d \in Dirs : HalfPds(d) = Pds \ KernelPds /\ Half(d) = UserPages
           /\ HalfPds(KERNEL) = KernelPds /\ Half(KERNEL) = KernelPages
           /\ KernelPds \subseteq Pds /\ \A d : HalfPds(d) \subseteq Pds
<1>1. KERNEL \notin Dirs
  BY DEF KERNEL, Dirs
<1>2. QED
  BY <1>1 DEF Spaces, HalfPds, Half, KernelPds

(***************************************************************************)
(* What a page is mapped to, when an absent entry has no flags.            *)
(***************************************************************************)
LEMMA AtTable ==
    ASSUME TypeOK, Whole, NEW d \in Dirs \cup {KERNEL}, NEW v \in 0 .. (PAGES - 1)
    PROVE  /\ Table(d, v \div ENTRIES) \in Allocatable \cup {0, NoFrame}
           /\ At(d, v) = IF Table(d, v \div ENTRIES) = NoFrame THEN NoFrame
                         ELSE tab[Table(d, v \div ENTRIES)][v % ENTRIES]
           /\ At(d, v) \in Nat \cup {NoFrame}
<1>1. v \div ENTRIES \in Pds /\ v % ENTRIES \in 0 .. (ENTRIES - 1)
  BY PageTable
<1>2. PICK pd \in Pds, i \in 0 .. (ENTRIES - 1) : pd = v \div ENTRIES /\ i = v % ENTRIES
  BY <1>1
<1>3. dir[d][pd].frame \in Allocatable \cup {0, NoFrame}
  BY DEF TypeOK
<1>4. dir[d][pd] = NoEntry <=> dir[d][pd].frame = NoFrame
  BY Entries DEF Whole, Table
<1>5. At(d, v) = IF dir[d][pd].frame = NoFrame THEN NoFrame ELSE tab[dir[d][pd].frame][i]
  BY <1>2, <1>4 DEF At, mem_get_phys_from_virt
<1>6. At(d, v) \in Nat \cup {NoFrame}
  <2>1. CASE dir[d][pd].frame = NoFrame
    BY <1>5, <2>1
  <2>2. CASE dir[d][pd].frame # NoFrame
    <3>1. dir[d][pd].frame \in Allocatable \cup {0}
      BY <1>3, <2>2
    <3>2. tab \in PageTables
      BY DEF TypeOK, PageTables
    <3>3. tab[dir[d][pd].frame][i] \in Nat \cup {NoFrame}
      BY <3>1, <3>2 DEF PageTables
    <3>4. QED
      BY <1>5, <2>2, <3>3
  <2>3. QED
    BY <2>1, <2>2
<1>7. QED
  BY <1>2, <1>3, <1>5, <1>6 DEF Table

(***************************************************************************)
(* The same after a step.                                                  *)
(***************************************************************************)
LEMMA AtTableNext ==
    ASSUME IsWhole(dir'), NEW d \in Dirs \cup {KERNEL}, NEW v \in 0 .. (PAGES - 1)
    PROVE  At(d, v)' = IF Table(d, v \div ENTRIES)' = NoFrame THEN NoFrame
                       ELSE tab'[Table(d, v \div ENTRIES)'][v % ENTRIES]
<1>1. v \div ENTRIES \in Pds /\ v % ENTRIES \in 0 .. (ENTRIES - 1)
  BY PageTable
<1>2. PICK pd \in Pds, i \in 0 .. (ENTRIES - 1) : pd = v \div ENTRIES /\ i = v % ENTRIES
  BY <1>1
<1>3. dir'[d][pd] = NoEntry <=> dir'[d][pd].frame = NoFrame
  BY Entries DEF IsWhole
<1>4. QED
  BY <1>2, <1>3 DEF At, mem_get_phys_from_virt, Table

(***************************************************************************)
(* sync_page_dirs() copies the kernel's half and changes nothing else.     *)
(***************************************************************************)
LEMMA Synced ==
    ASSUME dirUsed \subseteq Dirs, NEW D \in Directories
    PROVE  /\ sync_page_dirs(D) \in Directories
           /\ IsWhole(D) => IsWhole(sync_page_dirs(D))
           /\ \A d \in Spaces : \A pd \in HalfPds(d) : sync_page_dirs(D)[d][pd] = D[d][pd]
           /\ \A d \in dirUsed : \A pd \in KernelPds :
                sync_page_dirs(D)[d][pd] = Entry(sync_page_dirs(D)[KERNEL][pd].frame, FALSE)
<1> DEFINE S == sync_page_dirs(D)
<1>1. DOMAIN D = Dirs \cup {KERNEL}
  BY DEF Directories
<1>2. \A d \in Dirs \cup {KERNEL} : \A pd \in Pds :
        S[d][pd] = IF d \in dirUsed /\ pd \in KernelPds THEN Entry(D[KERNEL][pd].frame, FALSE) ELSE D[d][pd]
  BY <1>1 DEF sync_page_dirs
<1>3. S \in [Dirs \cup {KERNEL} -> [Pds -> [frame : Allocatable \cup {0, NoFrame}, owner : BOOLEAN]]]
  <2>1. \A pd \in Pds : Entry(D[KERNEL][pd].frame, FALSE) \in [frame : Allocatable \cup {0, NoFrame}, owner : BOOLEAN]
    BY DEF Directories, Entry
  <2>2. \A d \in Dirs \cup {KERNEL} : D[d] \in [Pds -> [frame : Allocatable \cup {0, NoFrame}, owner : BOOLEAN]]
    BY DEF Directories
  <2>3. QED
    BY <1>1, <2>1, <2>2 DEF sync_page_dirs
<1>4. ASSUME IsWhole(D) PROVE IsWhole(S)
  <2>1. SUFFICES ASSUME NEW d \in Dirs \cup {KERNEL}, NEW pd \in Pds, S[d][pd].frame = NoFrame
                 PROVE  S[d][pd] = NoEntry
    BY DEF IsWhole
  <2>2. CASE d \in dirUsed /\ pd \in KernelPds
    <3>1. S[d][pd] = Entry(D[KERNEL][pd].frame, FALSE)
      BY <1>2, <2>2
    <3>2. D[KERNEL][pd].frame = NoFrame
      BY <2>1, <3>1, Entries
    <3>3. QED
      BY <3>1, <3>2, Entries
  <2>3. CASE ~(d \in dirUsed /\ pd \in KernelPds)
    BY <1>2, <1>4, <2>1, <2>3 DEF IsWhole
  <2>4. QED
    BY <2>2, <2>3
<1>5. \A d \in Spaces : \A pd \in HalfPds(d) : S[d][pd] = D[d][pd]
  BY <1>2, SpacesAre
<1>6. \A pd \in KernelPds : S[KERNEL][pd] = D[KERNEL][pd]
  BY <1>2, SpacesAre
<1>7. \A d \in dirUsed : \A pd \in KernelPds : S[d][pd] = Entry(S[KERNEL][pd].frame, FALSE)
  BY <1>2, <1>6, SpacesAre
<1>8. QED
  BY <1>3, <1>4, <1>5, <1>7 DEF Directories

(***************************************************************************)
(* paging.c, mem_map_page(): the page is mapped, and no other page of any  *)
(* address space changes.                                                  *)
(***************************************************************************)
LEMMA MapEffect ==
    ASSUME TypeOK, Whole, KernelHalfInSync, TablesApart, TablesMarked, Runs,
           NEW d \in Spaces, NEW v \in Half(d), d = IF v >= KERNEL_START THEN KERNEL ELSE cr3,
           NEW f \in Nat, NEW u \in SUBSET Allocatable, used \subseteq u,
           mem_map_page(v, f, u), dirUsed' = dirUsed
    PROVE  /\ dir' \in Directories /\ tab' \in PageTables /\ used' \in SUBSET Allocatable
           /\ Whole' /\ KernelHalfInSync'
           /\ \E t : TableFor(d, v, t, u) /\ Sets(d, v, f, t) /\ used' = Taken(u, t)
<1>1. dirUsed \subseteq Dirs /\ dir \in Directories /\ tab \in PageTables /\ used \subseteq Allocatable
  BY DEF TypeOK, Directories, PageTables
<1>2. PICK pd \in HalfPds(d) : pd = v \div ENTRIES
  BY Halves
<1>3. PICK i \in 0 .. (ENTRIES - 1) : i = v % ENTRIES
  BY Halves
<1>4. d \in Dirs \cup {KERNEL} /\ pd \in Pds /\ (d = KERNEL => pd \in KernelPds) /\ (d # KERNEL => pd \notin KernelPds)
  BY <1>1, SpacesAre DEF HalfPds
<1> DEFINE fresh == dir[d][pd] = NoEntry
           t == IF fresh THEN pmm_alloc_pageframe(u) ELSE Table(d, pd)
           new == IF fresh THEN Entry(t, TRUE) ELSE dir[d][pd]
           mapped == [dir EXCEPT ![d][pd] = IF fresh THEN Entry(t, TRUE) ELSE @]
<1>5. /\ used' = Taken(u, t)
      /\ dir' = IF d = KERNEL THEN sync_page_dirs(mapped) ELSE mapped
      /\ tab' = [tab EXCEPT ![t] = [(IF fresh THEN EmptyTable ELSE @) EXCEPT ![i] = f]]
  BY <1>2, <1>3 DEF mem_map_page, Table
<1>6. \A g \in Allocatable : g # 0 /\ g # NoFrame
  BY Memory DEF NoFrame
<1>7. 0 # NoFrame
  BY DEF NoFrame
<1>8. Table(d, pd) \in Allocatable \cup {0, NoFrame} /\ Table(d, pd) # 0 /\ (Table(d, pd) = NoFrame <=> fresh)
  <2>1. Table(d, pd) \in Allocatable \cup {0, NoFrame}
    BY <1>1, <1>4 DEF Directories, Table
  <2>2. Table(d, pd) # 0
    BY <1>4 DEF Runs, Table
  <2>3. Table(d, pd) = NoFrame <=> fresh
    BY <1>4, Entries DEF Whole, Table
  <2>4. QED
    BY <2>1, <2>2, <2>3
<1>9. IF fresh THEN t \in (Allocatable \ u) \cup {0} ELSE t = Table(d, pd) /\ t \in Allocatable
  BY <1>8, Alloc
<1>10. TableFor(d, v, t, u) /\ t \in Allocatable \cup {0}
  BY <1>2, <1>8, <1>9 DEF TableFor
<1>11. new \in [frame : Allocatable \cup {0, NoFrame}, owner : BOOLEAN] /\ new.frame = t
  <2>1. CASE fresh
    BY <1>10, <2>1 DEF Entry
  <2>2. CASE ~fresh
    BY <1>1, <1>4, <2>2 DEF Directories, Table
  <2>3. QED
    BY <2>1, <2>2
<1>12. \A e \in Dirs \cup {KERNEL} : \A qd \in Pds : mapped[e][qd] = IF e = d /\ qd = pd THEN new ELSE dir[e][qd]
  BY <1>1, <1>4 DEF Directories
<1>13. mapped \in Directories
  <2>1. [dir[d] EXCEPT ![pd] = new] \in [Pds -> [frame : Allocatable \cup {0, NoFrame}, owner : BOOLEAN]]
    BY <1>1, <1>4, <1>11 DEF Directories
  <2>2. mapped = [dir EXCEPT ![d] = [dir[d] EXCEPT ![pd] = new]]
    BY <1>1, <1>4 DEF Directories
  <2>3. QED
    BY <1>1, <1>4, <2>1, <2>2 DEF Directories
<1>14. t # NoFrame
  BY <1>6, <1>7, <1>10
<1> HIDE DEF t, new, mapped, fresh
<1>15. IsWhole(mapped)
  <2>1. SUFFICES ASSUME NEW e \in Dirs \cup {KERNEL}, NEW qd \in Pds, mapped[e][qd].frame = NoFrame
                 PROVE  mapped[e][qd] = NoEntry
    BY DEF IsWhole
  <2>2. ~(e = d /\ qd = pd)
    BY <1>11, <1>12, <1>14, <2>1
  <2>3. QED
    BY <1>12, <2>1, <2>2 DEF Whole, Table
<1>16. /\ dir' \in Directories /\ IsWhole(dir')
       /\ \A e \in Spaces : \A qd \in HalfPds(e) : dir'[e][qd] = mapped[e][qd]
       /\ \A e \in dirUsed : \A qd \in KernelPds : dir'[e][qd] = Entry(dir'[KERNEL][qd].frame, FALSE)
  <2>1. CASE d = KERNEL
    <3>1. dir' = sync_page_dirs(mapped)
      BY <1>5, <2>1
    <3>2. QED
      BY <1>1, <1>13, <1>15, <3>1, Synced
  <2>2. CASE d # KERNEL
    <3>1. dir' = mapped
      BY <1>5, <2>2
    <3>2. \A e \in Dirs \cup {KERNEL} : \A qd \in KernelPds : mapped[e][qd] = dir[e][qd]
      BY <1>1, <1>4, <1>12, <2>2, SpacesAre
    <3>3. \A e \in dirUsed : \A qd \in KernelPds : mapped[e][qd] = Entry(mapped[KERNEL][qd].frame, FALSE)
      <4>1. \A e \in dirUsed : \A qd \in KernelPds : dir[e][qd] = Entry(dir[KERNEL][qd].frame, FALSE)
        BY DEF KernelHalfInSync
      <4>2. \A qd \in KernelPds : mapped[KERNEL][qd] = dir[KERNEL][qd]
        BY <3>2
      <4>3. \A e \in dirUsed : \A qd \in KernelPds : mapped[e][qd] = dir[e][qd]
        BY <1>1, <3>2
      <4>4. QED
        BY <4>1, <4>2, <4>3
    <3>4. QED
      BY <1>13, <1>15, <3>1, <3>3
  <2>3. QED
    BY <2>1, <2>2
<1>17. Whole' /\ KernelHalfInSync'
  BY <1>16 DEF IsWhole, Whole, Table, KernelHalfInSync
<1>18. \A e \in Spaces : \A qd \in HalfPds(e) : Table(e, qd)' = IF e = d /\ qd = pd THEN t ELSE Table(e, qd)
  <2>1. \A e \in Spaces : \A qd \in HalfPds(e) : e \in Dirs \cup {KERNEL} /\ qd \in Pds
    BY <1>1, SpacesAre
  <2>2. QED
    BY <1>11, <1>12, <1>16, <2>1 DEF Table
<1>19. \A e \in Spaces : \A qd \in HalfPds(e) : Table(e, qd) = t => ~fresh /\ e = d /\ qd = pd
  <2>1. SUFFICES ASSUME NEW e \in Spaces, NEW qd \in HalfPds(e), Table(e, qd) = t
                 PROVE  ~fresh /\ e = d /\ qd = pd
    OBVIOUS
  <2>2. e \in Dirs \cup {KERNEL} /\ qd \in Pds
    BY <1>1, SpacesAre
  <2>3. t # 0
    BY <2>1, <2>2 DEF Runs, Table
  <2>4. t \in used
    BY <1>14, <2>1, <2>3 DEF TablesMarked
  <2>5. ~fresh /\ t = Table(d, pd)
    BY <1>9, <2>3, <2>4
  <2>6. QED
    BY <1>14, <2>1, <2>3, <2>5 DEF TablesApart
<1>20. /\ tab' \in PageTables
       /\ \A g \in Allocatable \cup {0} : g # t => tab'[g] = tab[g]
       /\ \A j \in 0 .. (ENTRIES - 1) :
            tab'[t][j] = IF j = i THEN f ELSE IF fresh THEN NoFrame ELSE tab[t][j]
  <2> DEFINE old == IF fresh THEN EmptyTable ELSE tab[t]
  <2>1. old \in [0 .. (ENTRIES - 1) -> Nat \cup {NoFrame}]
    BY <1>1, <1>10 DEF PageTables, EmptyTable
  <2>2. \A j \in 0 .. (ENTRIES - 1) : old[j] = IF fresh THEN NoFrame ELSE tab[t][j]
    BY DEF EmptyTable
  <2>3. tab' = [tab EXCEPT ![t] = [old EXCEPT ![i] = f]]
    BY <1>1, <1>5, <1>10 DEF PageTables
  <2> HIDE DEF old
  <2>4. [old EXCEPT ![i] = f] \in [0 .. (ENTRIES - 1) -> Nat \cup {NoFrame}]
    BY <2>1
  <2>5. tab' \in PageTables
    BY <1>1, <1>10, <2>3, <2>4 DEF PageTables
  <2>6. tab'[t] = [old EXCEPT ![i] = f]
    BY <1>1, <1>10, <2>3 DEF PageTables
  <2>7. \A j \in 0 .. (ENTRIES - 1) : tab'[t][j] = IF j = i THEN f ELSE old[j]
    BY <2>1, <2>6
  <2>8. \A g \in Allocatable \cup {0} : g # t => tab'[g] = tab[g]
    BY <1>1, <2>3 DEF PageTables
  <2>9. QED
    BY <2>2, <2>5, <2>7, <2>8
<1>21. ASSUME NEW e \in Spaces, NEW w \in Half(e)
       PROVE  At(e, w)' = IF e = d /\ w = v THEN f ELSE At(e, w)
  <2>1. w \in 0 .. (PAGES - 1) /\ v \in 0 .. (PAGES - 1) /\ e \in Dirs \cup {KERNEL}
    BY <1>1, Halves, SpacesAre
  <2>2. PICK qd \in HalfPds(e) : qd = w \div ENTRIES
    BY Halves
  <2>3. PICK j \in 0 .. (ENTRIES - 1) : j = w % ENTRIES
    BY Halves
  <2>4. At(e, w)' = IF Table(e, qd)' = NoFrame THEN NoFrame ELSE tab'[Table(e, qd)'][j]
    BY <1>16, <2>1, <2>2, <2>3, AtTableNext
  <2>5. At(e, w) = IF Table(e, qd) = NoFrame THEN NoFrame ELSE tab[Table(e, qd)][j]
    BY <2>1, <2>2, <2>3, AtTable
  <2>6. Table(e, qd) \in Allocatable \cup {0, NoFrame}
    BY <2>1, <2>2, AtTable
  <2>7. CASE e = d /\ qd = pd
    <3>1. Table(e, qd)' = t
      BY <1>18, <2>7
    <3>2. At(e, w)' = IF j = i THEN f ELSE IF fresh THEN NoFrame ELSE tab[t][j]
      BY <1>14, <1>20, <2>4, <3>1
    <3>3. j = i => w = v
      BY <1>2, <1>3, <2>1, <2>2, <2>3, <2>7, SamePage
    <3>4. w = v => j = i
      BY <1>3, <2>3
    <3>5. At(e, w) = IF fresh THEN NoFrame ELSE tab[t][j]
      BY <1>8, <1>9, <2>5, <2>7
    <3>6. QED
      BY <2>7, <3>2, <3>3, <3>4, <3>5
  <2>8. CASE ~(e = d /\ qd = pd)
    <3>1. Table(e, qd)' = Table(e, qd)
      BY <1>18, <2>8
    <3>2. Table(e, qd) # t
      BY <1>19, <2>8
    <3>3. At(e, w)' = At(e, w)
      BY <1>20, <2>4, <2>5, <2>6, <3>1, <3>2
    <3>4. ~(e = d /\ w = v)
      BY <1>2, <2>2, <2>8
    <3>5. QED
      BY <3>3, <3>4
  <2>9. QED
    BY <2>7, <2>8
<1>22. Sets(d, v, f, t)
  BY <1>2, <1>18, <1>21 DEF Sets
<1>23. used' \in SUBSET Allocatable
  BY <1>5 DEF Taken
<1>24. QED
  BY <1>5, <1>10, <1>16, <1>17, <1>20, <1>22, <1>23

(***************************************************************************)
(* paging.c, mem_unmap_page(): a mapped page of the kernel is unmapped, no *)
(* other page changes, and only its own page table can be freed.           *)
(***************************************************************************)
LEMMA UnmapEffect ==
    ASSUME TypeOK, Whole, KernelHalfInSync, TablesApart, Runs,
           NEW v \in KernelPages, At(KERNEL, v) # NoFrame, mem_unmap_page(v), dirUsed' = dirUsed
    PROVE  /\ dir' \in Directories /\ tab' \in PageTables /\ used' \in SUBSET Allocatable
           /\ Whole' /\ KernelHalfInSync' /\ cr3' = cr3
           /\ Table(KERNEL, v \div ENTRIES) \notin {NoFrame, 0}
           /\ \E t : /\ Sets(KERNEL, v, NoFrame, t)
                     /\ \/ t = Table(KERNEL, v \div ENTRIES) /\ used' = used
                        \/ t = NoFrame /\ used' = used \ {Table(KERNEL, v \div ENTRIES)}
<1>1. dirUsed \subseteq Dirs /\ dir \in Directories /\ tab \in PageTables /\ used \subseteq Allocatable
  BY DEF TypeOK, Directories, PageTables
<1>2. v \in Half(KERNEL) /\ KERNEL \in Spaces
  BY DEF Half, Spaces
<1>3. PICK pd \in HalfPds(KERNEL) : pd = v \div ENTRIES
  BY <1>2, Halves
<1>4. PICK i \in 0 .. (ENTRIES - 1) : i = v % ENTRIES
  BY <1>2, Halves
<1>5. pd \in Pds /\ pd \in KernelPds /\ v \in 0 .. (PAGES - 1)
  BY <1>1, <1>2, Halves, SpacesAre
<1> DEFINE g == Table(KERNEL, pd)
           left == [tab[g] EXCEPT ![i] = NoFrame]
           gone == left = EmptyTable /\ dir[KERNEL][pd].owner
           mapped == IF gone THEN [dir EXCEPT ![KERNEL][pd] = NoEntry] ELSE dir
           t == IF gone THEN NoFrame ELSE g
<1>6. g \in Allocatable \cup {0, NoFrame} /\ g # NoFrame /\ g # 0
  <2>1. g \in Allocatable \cup {0, NoFrame} /\ g # NoFrame
    BY <1>3, <1>5, AtTable
  <2>2. g # 0
    BY <1>5 DEF Runs, Table
  <2>3. QED
    BY <2>1, <2>2
<1>7. /\ tab' = [tab EXCEPT ![g] = left]
      /\ used' = IF gone THEN used \ {g} ELSE used
      /\ dir' = sync_page_dirs(mapped)
      /\ cr3' = cr3
  BY <1>3, <1>4 DEF mem_unmap_page, At, Table, pmm_free_pageframe
<1>8. left \in [0 .. (ENTRIES - 1) -> Nat \cup {NoFrame}] /\ \A j \in 0 .. (ENTRIES - 1) : left[j] = IF j = i THEN NoFrame ELSE tab[g][j]
  BY <1>1, <1>6 DEF PageTables
<1>9. mapped \in Directories
  <2>1. NoEntry \in [frame : Allocatable \cup {0, NoFrame}, owner : BOOLEAN]
    BY DEF NoEntry, Entry
  <2>2. [dir[KERNEL] EXCEPT ![pd] = NoEntry] \in [Pds -> [frame : Allocatable \cup {0, NoFrame}, owner : BOOLEAN]]
    BY <1>1, <1>5, <2>1 DEF Directories
  <2>3. [dir EXCEPT ![KERNEL][pd] = NoEntry] \in Directories
    BY <1>1, <2>2 DEF Directories
  <2>4. QED
    BY <1>1, <2>3
<1>10. \A e \in Dirs \cup {KERNEL} : \A qd \in Pds :
          mapped[e][qd] = IF gone /\ e = KERNEL /\ qd = pd THEN NoEntry ELSE dir[e][qd]
  BY <1>1, <1>5 DEF Directories
<1>11. \A j \in 0 .. (ENTRIES - 1) : gone /\ j # i => tab[g][j] = NoFrame
  BY <1>8 DEF EmptyTable
<1> HIDE DEF mapped, left, gone
<1>12. IsWhole(mapped)
  <2>1. SUFFICES ASSUME NEW e \in Dirs \cup {KERNEL}, NEW qd \in Pds, mapped[e][qd].frame = NoFrame
                 PROVE  mapped[e][qd] = NoEntry
    BY DEF IsWhole
  <2>2. QED
    BY <1>10, <2>1 DEF Whole, Table
<1>13. /\ dir' \in Directories /\ IsWhole(dir')
       /\ \A e \in Spaces : \A qd \in HalfPds(e) : dir'[e][qd] = mapped[e][qd]
       /\ \A e \in dirUsed : \A qd \in KernelPds : dir'[e][qd] = Entry(dir'[KERNEL][qd].frame, FALSE)
  BY <1>1, <1>7, <1>9, <1>12, Synced
<1>14. Whole' /\ KernelHalfInSync'
  BY <1>13 DEF IsWhole, Whole, Table, KernelHalfInSync
<1>15. \A e \in Spaces : \A qd \in HalfPds(e) : Table(e, qd)' = IF e = KERNEL /\ qd = pd THEN t ELSE Table(e, qd)
  <2>1. \A e \in Spaces : \A qd \in HalfPds(e) : e \in Dirs \cup {KERNEL} /\ qd \in Pds
    BY <1>1, SpacesAre
  <2>2. NoEntry.frame = NoFrame
    BY Entries
  <2>3. QED
    BY <1>10, <1>13, <2>1, <2>2 DEF Table
<1>16. \A e \in Spaces : \A qd \in HalfPds(e) : Table(e, qd) = g => e = KERNEL /\ qd = pd
  BY <1>2, <1>6 DEF TablesApart
<1>17. /\ tab' \in PageTables
       /\ \A h \in Allocatable \cup {0} : h # g => tab'[h] = tab[h]
       /\ \A j \in 0 .. (ENTRIES - 1) : tab'[g][j] = IF j = i THEN NoFrame ELSE tab[g][j]
  <2>1. tab' \in PageTables
    BY <1>1, <1>6, <1>7, <1>8 DEF PageTables
  <2>2. tab'[g] = left
    BY <1>1, <1>6, <1>7 DEF PageTables
  <2>3. \A h \in Allocatable \cup {0} : h # g => tab'[h] = tab[h]
    BY <1>1, <1>7 DEF PageTables
  <2>4. QED
    BY <1>8, <2>1, <2>2, <2>3
<1>18. ASSUME NEW e \in Spaces, NEW w \in Half(e)
       PROVE  At(e, w)' = IF e = KERNEL /\ w = v THEN NoFrame ELSE At(e, w)
  <2>1. w \in 0 .. (PAGES - 1) /\ e \in Dirs \cup {KERNEL}
    BY <1>1, Halves, SpacesAre
  <2>2. PICK qd \in HalfPds(e) : qd = w \div ENTRIES
    BY Halves
  <2>3. PICK j \in 0 .. (ENTRIES - 1) : j = w % ENTRIES
    BY Halves
  <2>4. At(e, w)' = IF Table(e, qd)' = NoFrame THEN NoFrame ELSE tab'[Table(e, qd)'][j]
    BY <1>13, <2>1, <2>2, <2>3, AtTableNext
  <2>5. At(e, w) = IF Table(e, qd) = NoFrame THEN NoFrame ELSE tab[Table(e, qd)][j]
    BY <2>1, <2>2, <2>3, AtTable
  <2>6. Table(e, qd) \in Allocatable \cup {0, NoFrame}
    BY <2>1, <2>2, AtTable
  <2>7. CASE e = KERNEL /\ qd = pd
    <3>1. Table(e, qd)' = t
      BY <1>15, <2>7
    <3>2. At(e, w)' = IF gone \/ j = i THEN NoFrame ELSE tab[g][j]
      BY <1>6, <1>17, <2>4, <3>1
    <3>3. (j = i => w = v) /\ (w = v => j = i)
      BY <1>3, <1>4, <1>5, <2>1, <2>2, <2>3, <2>7, SamePage
    <3>4. At(e, w) = tab[g][j]
      BY <1>6, <2>5, <2>7
    <3>5. QED
      BY <1>11, <2>7, <3>2, <3>3, <3>4
  <2>8. CASE ~(e = KERNEL /\ qd = pd)
    <3>1. Table(e, qd)' = Table(e, qd)
      BY <1>15, <2>8
    <3>2. Table(e, qd) # g
      BY <1>16, <2>8
    <3>3. At(e, w)' = At(e, w)
      BY <1>17, <2>4, <2>5, <2>6, <3>1, <3>2
    <3>4. ~(e = KERNEL /\ w = v)
      BY <1>3, <2>2, <2>8
    <3>5. QED
      BY <3>3, <3>4
  <2>9. QED
    BY <2>7, <2>8
<1>19. Sets(KERNEL, v, NoFrame, t)
  BY <1>3, <1>15, <1>18 DEF Sets
<1>20. used' \in SUBSET Allocatable
  BY <1>1, <1>7
<1>21. g = Table(KERNEL, v \div ENTRIES)
  BY <1>3
<1>22. QED
  BY <1>6, <1>7, <1>13, <1>14, <1>17, <1>19, <1>20, <1>21

(***************************************************************************)
(* A frame from the allocator, or its own, is no one else's.               *)
(***************************************************************************)
LEMMA MapOwned ==
    ASSUME Owned, used \subseteq Allocatable, dirUsed' = dirUsed,
           NEW d \in Spaces, NEW v \in Half(d), NEW f, NEW t, NEW u,
           f \in (Allocatable \ used) \cup {0} \/ (d = KERNEL /\ IsHome(v, f)),
           u = Taken(used, f), TableFor(d, v, t, u), Sets(d, v, f, t), used' = Taken(u, t)
    PROVE  Owned'
<1>1. PICK pd \in HalfPds(d) : pd = v \div ENTRIES
  BY Halves
<1>2. Spaces' = Spaces
  BY DEF Spaces
<1>3. /\ \A e \in Spaces : \A qd \in HalfPds(e) : Table(e, qd)' = IF e = d /\ qd = pd THEN t ELSE Table(e, qd)
      /\ \A e \in Spaces : \A w \in Half(e) : At(e, w)' = IF e = d /\ w = v THEN f ELSE At(e, w)
  BY <1>1 DEF Sets
<1>4. \A g \in Allocatable : g # 0 /\ g # NoFrame
  BY Memory DEF NoFrame
<1>5. f # NoFrame /\ (IsHome(v, f) => f \notin Allocatable /\ f # 0)
  BY <1>4, Home DEF NoFrame
<1>6. used \subseteq used' /\ (f \in used' \cup {0} \/ (d = KERNEL /\ IsHome(v, f)))
  BY DEF Taken
<1>7. \A e \in Spaces : \A w \in Half(e) : f # 0 /\ At(e, w) = f => e = d /\ w = v
  <2>1. SUFFICES ASSUME NEW e \in Spaces, NEW w \in Half(e), f # 0, At(e, w) = f PROVE e = d /\ w = v
    OBVIOUS
  <2>2. f \in used \/ (e = KERNEL /\ IsHome(w, f))
    BY <1>5, <2>1 DEF Owned, PagesMarked
  <2>3. e = KERNEL /\ IsHome(w, f) /\ d = KERNEL /\ IsHome(v, f)
    BY <1>5, <2>1, <2>2, Home
  <2>4. QED
    BY <2>3, Home
<1>8. \A e \in Spaces : \A qd \in HalfPds(e) : f # 0 => Table(e, qd) # f
  BY <1>5 DEF Owned, TablesMarked
<1>9. t \notin {0, NoFrame} => t # f
  <2>1. CASE t = Table(d, pd)
    BY <1>8, <2>1
  <2>2. CASE t \in (Allocatable \ u)
    BY <1>5, <2>2 DEF Taken
  <2>3. QED
    BY <1>1, <2>1, <2>2 DEF TableFor
<1>10. \A e \in Spaces : \A qd \in HalfPds(e) : t \notin {0, NoFrame} /\ Table(e, qd) = t => e = d /\ qd = pd
  <2>1. SUFFICES ASSUME NEW e \in Spaces, NEW qd \in HalfPds(e), t \notin {0, NoFrame}, Table(e, qd) = t
                 PROVE  e = d /\ qd = pd
    OBVIOUS
  <2>2. t \in used
    BY <2>1 DEF Owned, TablesMarked
  <2>3. t = Table(d, pd)
    BY <1>1, <2>1, <2>2 DEF TableFor, Taken
  <2>4. QED
    BY <2>1, <2>3 DEF Owned, TablesApart
<1>11. \A e \in Spaces : \A w \in Half(e) : t \notin {0, NoFrame} => At(e, w) # t
  <2>1. SUFFICES ASSUME NEW e \in Spaces, NEW w \in Half(e), t \notin {0, NoFrame}, At(e, w) = t PROVE FALSE
    OBVIOUS
  <2>2. t # Table(d, pd)
    BY <2>1 DEF Owned, TablesNotPages
  <2>3. t \in Allocatable /\ t \notin used
    BY <1>1, <2>1, <2>2 DEF TableFor, Taken
  <2>4. IsHome(w, t)
    BY <2>1, <2>3 DEF Owned, PagesMarked
  <2>5. QED
    BY <2>3, <2>4, Home
<1>12. TablesApart'
  <2>1. SUFFICES ASSUME NEW e \in Spaces, NEW h \in Spaces, NEW qd \in HalfPds(e), NEW rd \in HalfPds(h),
                        Table(e, qd)' = Table(h, rd)', Table(e, qd)' \notin {NoFrame, 0}
                 PROVE  e = h /\ qd = rd
    BY <1>2 DEF TablesApart
  <2>2. CASE e = d /\ qd = pd
    BY <1>3, <1>10, <2>1, <2>2
  <2>3. CASE h = d /\ rd = pd
    BY <1>3, <1>10, <2>1, <2>3
  <2>4. CASE ~(e = d /\ qd = pd) /\ ~(h = d /\ rd = pd)
    <3>1. Table(e, qd)' = Table(e, qd) /\ Table(h, rd)' = Table(h, rd)
      BY <1>3, <2>4
    <3>2. Table(e, qd) = Table(h, rd) /\ Table(e, qd) \notin {NoFrame, 0}
      BY <2>1, <3>1
    <3>3. QED
      BY <3>2 DEF Owned, TablesApart
  <2>5. QED
    BY <2>2, <2>3, <2>4
<1>13. PagesApart'
  <2>1. SUFFICES ASSUME NEW e \in Spaces, NEW h \in Spaces, NEW w \in Half(e), NEW x \in Half(h),
                        At(e, w)' = At(h, x)', At(e, w)' \notin {NoFrame, 0}
                 PROVE  e = h /\ w = x
    BY <1>2 DEF PagesApart
  <2>2. CASE e = d /\ w = v
    BY <1>3, <1>7, <2>1, <2>2
  <2>3. CASE h = d /\ x = v
    BY <1>3, <1>7, <2>1, <2>3
  <2>4. CASE ~(e = d /\ w = v) /\ ~(h = d /\ x = v)
    <3>1. At(e, w)' = At(e, w) /\ At(h, x)' = At(h, x)
      BY <1>3, <2>4
    <3>2. At(e, w) = At(h, x) /\ At(e, w) \notin {NoFrame, 0}
      BY <2>1, <3>1
    <3>3. QED
      BY <3>2 DEF Owned, PagesApart
  <2>5. QED
    BY <2>2, <2>3, <2>4
<1>14. TablesNotPages'
  <2>1. SUFFICES ASSUME NEW e \in Spaces, NEW h \in Spaces, NEW qd \in HalfPds(e), NEW x \in Half(h),
                        Table(e, qd)' \notin {NoFrame, 0}
                 PROVE  At(h, x)' # Table(e, qd)'
    BY <1>2 DEF TablesNotPages
  <2>2. CASE e = d /\ qd = pd
    BY <1>3, <1>9, <1>11, <2>1, <2>2
  <2>3. CASE ~(e = d /\ qd = pd)
    <3>1. Table(e, qd)' = Table(e, qd)
      BY <1>3, <2>3
    <3>2. CASE h = d /\ x = v
      BY <1>3, <1>8, <2>1, <3>1, <3>2
    <3>3. CASE ~(h = d /\ x = v)
      BY <1>3, <2>1, <3>1, <3>3 DEF Owned, TablesNotPages
    <3>4. QED
      BY <3>2, <3>3
  <2>4. QED
    BY <2>2, <2>3
<1>15. TablesMarked'
  <2>1. t \in used' \cup {NoFrame, 0}
    BY DEF TableFor, Taken
  <2>2. \A e \in Spaces : \A qd \in HalfPds(e) : Table(e, qd)' \in used' \cup {NoFrame, 0}
    BY <1>3, <1>6, <2>1 DEF Owned, TablesMarked
  <2>3. QED
    BY <1>2, <2>2 DEF TablesMarked
<1>16. PagesMarked'
  <2>1. ASSUME NEW e \in Spaces, NEW w \in Half(e)
        PROVE  At(e, w)' \in used' \cup {NoFrame, 0} \/ (e = KERNEL /\ IsHome(w, At(e, w)'))
    <3>1. CASE e = d /\ w = v
      BY <1>3, <1>6, <3>1
    <3>2. CASE ~(e = d /\ w = v)
      BY <1>3, <1>6, <3>2 DEF Owned, PagesMarked
    <3>3. QED
      BY <3>1, <3>2
  <2>2. QED
    BY <1>2, <2>1 DEF PagesMarked, IsHome
<1>17. QED
  BY <1>12, <1>13, <1>14, <1>15, <1>16 DEF Owned

(***************************************************************************)
(* Frames that are let go, and only those, may be given back.              *)
(***************************************************************************)
LEMMA FewerOwned ==
    ASSUME Owned,
           \A e \in Spaces' : \A qd \in HalfPds(e) :
                \/ Table(e, qd)' = NoFrame
                \/ /\ e \in Spaces /\ Table(e, qd)' = Table(e, qd)
                   /\ Table(e, qd) \in used => Table(e, qd) \in used',
           \A e \in Spaces' : \A w \in Half(e) :
                \/ At(e, w)' = NoFrame
                \/ /\ e \in Spaces /\ At(e, w)' = At(e, w)
                   /\ At(e, w) \in used => At(e, w) \in used'
    PROVE  Owned'
<1>1. TablesApart'
  BY DEF Owned, TablesApart
<1>2. PagesApart'
  BY DEF Owned, PagesApart
<1>3. TablesNotPages'
  BY DEF Owned, TablesNotPages
<1>4. TablesMarked'
  <2>1. \A e \in Spaces' : \A qd \in HalfPds(e) : Table(e, qd)' \in used' \cup {NoFrame, 0}
    BY DEF Owned, TablesMarked
  <2>2. QED
    BY <2>1 DEF TablesMarked
<1>5. PagesMarked'
  <2>1. \A e \in Spaces' : \A w \in Half(e) :
            At(e, w)' \in used' \cup {NoFrame, 0} \/ (e = KERNEL /\ IsHome(w, At(e, w)'))
    BY DEF Owned, PagesMarked
  <2>2. QED
    BY <2>1 DEF PagesMarked, IsHome
<1>6. QED
  BY <1>1, <1>2, <1>3, <1>4, <1>5 DEF Owned

(***************************************************************************)
(* mem_unmap_page(): a page less, and perhaps its table.                   *)
(***************************************************************************)
LEMMA UnmapOwned ==
    ASSUME Owned, dirUsed' = dirUsed, NEW v \in KernelPages, NEW t,
           Table(KERNEL, v \div ENTRIES) \notin {NoFrame, 0}, Sets(KERNEL, v, NoFrame, t),
           \/ t = Table(KERNEL, v \div ENTRIES) /\ used' = used
           \/ t = NoFrame /\ used' = used \ {Table(KERNEL, v \div ENTRIES)}
    PROVE  Owned'
<1>1. v \in Half(KERNEL) /\ KERNEL \in Spaces
  BY DEF Half, Spaces
<1>2. PICK pd \in HalfPds(KERNEL) : pd = v \div ENTRIES
  BY <1>1, Halves
<1>3. Spaces' = Spaces
  BY DEF Spaces
<1> DEFINE g == Table(KERNEL, pd)
<1>4. g \notin {NoFrame, 0} /\ ((t = g /\ used' = used) \/ (t = NoFrame /\ used' = used \ {g}))
  BY <1>2
<1>5. \A e \in Spaces : \A qd \in HalfPds(e) : Table(e, qd) = g => e = KERNEL /\ qd = pd
  BY <1>1, <1>4 DEF Owned, TablesApart
<1>6. \A e \in Spaces : \A w \in Half(e) : At(e, w) # g
  BY <1>1, <1>4 DEF Owned, TablesNotPages
<1>7. ASSUME NEW e \in Spaces, NEW qd \in HalfPds(e)
      PROVE  Table(e, qd)' = NoFrame
             \/ (Table(e, qd)' = Table(e, qd) /\ (Table(e, qd) \in used => Table(e, qd) \in used'))
  <2>1. CASE e = KERNEL /\ qd = pd
    BY <1>2, <1>4, <2>1 DEF Sets
  <2>2. CASE ~(e = KERNEL /\ qd = pd)
    <3>1. Table(e, qd)' = Table(e, qd)
      BY <1>2, <2>2 DEF Sets
    <3>2. Table(e, qd) # g
      BY <1>5, <2>2
    <3>3. QED
      BY <1>4, <3>1, <3>2
  <2>3. QED
    BY <2>1, <2>2
<1>8. ASSUME NEW e \in Spaces, NEW w \in Half(e)
      PROVE  At(e, w)' = NoFrame \/ (At(e, w)' = At(e, w) /\ (At(e, w) \in used => At(e, w) \in used'))
  BY <1>4, <1>6 DEF Sets
<1>9. QED
  BY <1>3, <1>7, <1>8, FewerOwned

(***************************************************************************)
(* paging.c, mem_alloc_page_dir(): the new address space has no pages of   *)
(* its own, and the others keep theirs.                                    *)
(***************************************************************************)
LEMMA AllocDir ==
    ASSUME TypeOK, Whole, KernelHalfInSync, Owned, NEW d \in Dirs, mem_alloc_page_dir(d),
           used' = used, tab' = tab
    PROVE  /\ dir' \in Directories /\ Whole' /\ KernelHalfInSync' /\ Owned'
           /\ \A w \in UserPages : At(d, w)' = NoFrame
           /\ \A e \in Spaces : \A w \in Half(e) : At(e, w)' = At(e, w)
<1>1. dirUsed \subseteq Dirs /\ dir \in Directories
  BY DEF TypeOK, Directories
<1>2. d \notin dirUsed /\ d # KERNEL /\ d \notin Spaces /\ Spaces' = Spaces \cup {d} /\ dirUsed' = dirUsed \cup {d}
  BY <1>1, SpacesAre DEF mem_alloc_page_dir, Spaces
<1> DEFINE new == [pd \in Pds |-> IF pd \in KernelPds THEN Entry(dir[KERNEL][pd].frame, FALSE) ELSE NoEntry]
<1>3. dir' = [dir EXCEPT ![d] = new]
  BY DEF mem_alloc_page_dir
<1>4. new \in [Pds -> [frame : Allocatable \cup {0, NoFrame}, owner : BOOLEAN]]
  BY <1>1 DEF Directories, Entry, NoEntry
<1>5. dir' \in Directories
  BY <1>1, <1>3, <1>4 DEF Directories
<1>6. /\ \A e \in Dirs \cup {KERNEL} : e # d => dir'[e] = dir[e]
      /\ dir'[d] = new
  BY <1>1, <1>3 DEF Directories
<1>7. \A pd \in Pds : dir'[d][pd] = IF pd \in KernelPds THEN Entry(dir[KERNEL][pd].frame, FALSE) ELSE NoEntry
  BY <1>6
<1> HIDE DEF new
<1>8. IsWhole(dir')
  <2>1. SUFFICES ASSUME NEW e \in Dirs \cup {KERNEL}, NEW pd \in Pds, dir'[e][pd].frame = NoFrame
                 PROVE  dir'[e][pd] = NoEntry
    BY DEF IsWhole
  <2>2. CASE e # d
    BY <1>6, <2>1, <2>2 DEF Whole, Table
  <2>3. CASE e = d /\ pd \in KernelPds
    <3>1. dir'[e][pd] = Entry(dir[KERNEL][pd].frame, FALSE)
      BY <1>7, <2>3
    <3>2. dir[KERNEL][pd].frame = NoFrame
      BY <2>1, <3>1, Entries
    <3>3. QED
      BY <3>1, <3>2, Entries
  <2>4. CASE e = d /\ pd \notin KernelPds
    BY <1>7, <2>4
  <2>5. QED
    BY <2>2, <2>3, <2>4
<1>9. Whole'
  BY <1>8 DEF IsWhole, Whole, Table
<1>10. KernelHalfInSync'
  <2>1. dir'[KERNEL] = dir[KERNEL]
    BY <1>2, <1>6
  <2>2. ASSUME NEW e \in dirUsed', NEW pd \in KernelPds PROVE dir'[e][pd] = Entry(dir'[KERNEL][pd].frame, FALSE)
    <3>1. pd \in Pds
      BY <1>1, SpacesAre
    <3>2. CASE e = d
      BY <1>7, <2>1, <3>1, <3>2
    <3>3. CASE e # d
      BY <1>1, <1>2, <1>6, <2>1, <3>3 DEF KernelHalfInSync
    <3>4. QED
      BY <3>2, <3>3
  <2>3. QED
    BY <2>2 DEF KernelHalfInSync
<1>11. \A qd \in HalfPds(d) : Table(d, qd)' = NoFrame
  BY <1>1, <1>7, SpacesAre, Entries DEF Table
<1>12. \A e \in Spaces : \A qd \in HalfPds(e) : Table(e, qd)' = Table(e, qd)
  BY <1>1, <1>2, <1>6, SpacesAre DEF Table
<1>13. \A e \in Spaces : \A w \in Half(e) : At(e, w)' = At(e, w)
  <2>1. \A e \in Spaces : dir'[e] = dir[e]
    BY <1>1, <1>2, <1>6, SpacesAre
  <2>2. QED
    BY <2>1 DEF At, mem_get_phys_from_virt
<1>14. ASSUME NEW w \in Half(d) PROVE At(d, w)' = NoFrame
  <2>1. w \in 0 .. (PAGES - 1) /\ w \div ENTRIES \in HalfPds(d)
    BY Halves
  <2>2. QED
    BY <1>8, <1>11, <2>1, AtTableNext
<1>15. Owned'
  BY <1>2, <1>11, <1>12, <1>13, <1>14, FewerOwned
<1>16. \A w \in UserPages : w \in Half(d)
  BY <1>1, SpacesAre
<1>17. QED
  BY <1>5, <1>9, <1>10, <1>13, <1>14, <1>15, <1>16

(***************************************************************************)
(* paging.c, mem_free_page_dir(): the page tables given back are those of  *)
(* the address space that ends, and the others keep their pages.           *)
(***************************************************************************)
LEMMA FreeDir ==
    ASSUME TypeOK, Whole, KernelHalfInSync, Owned, NEW d \in Dirs, mem_free_page_dir(d)
    PROVE  /\ dir' \in Directories /\ tab' \in PageTables /\ used' \in SUBSET Allocatable
           /\ Whole' /\ KernelHalfInSync' /\ Owned'
           /\ \A e \in Spaces : e # d => \A w \in Half(e) : At(e, w)' = At(e, w)
<1>1. dirUsed \subseteq Dirs /\ dir \in Directories /\ tab \in PageTables /\ used \subseteq Allocatable
  BY DEF TypeOK, Directories, PageTables
<1>2. d \in dirUsed /\ d # KERNEL /\ d \in Spaces /\ Spaces' = Spaces \ {d} /\ dirUsed' = dirUsed \ {d}
  BY <1>1, SpacesAre DEF mem_free_page_dir, Spaces
<1> DEFINE tables == {dir[d][pd].frame : pd \in Pds \ KernelPds} \ {NoFrame}
<1>3. /\ used' = used \ tables
      /\ tab' = [f \in DOMAIN tab |-> IF f \in tables THEN EmptyTable ELSE tab[f]]
      /\ dir' = [dir EXCEPT ![d] = [pd \in Pds |-> IF pd \in KernelPds THEN dir[d][pd] ELSE NoEntry]]
  BY DEF mem_free_page_dir
<1>4. \A f \in tables : f # NoFrame /\ f # 0 /\ \E pd \in HalfPds(d) : Table(d, pd) = f
  <2>1. SUFFICES ASSUME NEW f \in tables PROVE f # NoFrame /\ f # 0 /\ \E pd \in HalfPds(d) : Table(d, pd) = f
    OBVIOUS
  <2>2. PICK pd \in Pds \ KernelPds : dir[d][pd].frame = f
    OBVIOUS
  <2>3. f # 0
    BY <2>2 DEF mem_free_page_dir, Runs
  <2>4. QED
    BY <1>1, <2>2, <2>3, SpacesAre DEF Table
<1> HIDE DEF tables
<1>5. /\ \A e \in Dirs \cup {KERNEL} : e # d => dir'[e] = dir[e]
      /\ \A pd \in Pds : dir'[d][pd] = IF pd \in KernelPds THEN dir[d][pd] ELSE NoEntry
  BY <1>1, <1>3 DEF Directories
<1>6. dir' \in Directories
  <2>1. [pd \in Pds |-> IF pd \in KernelPds THEN dir[d][pd] ELSE NoEntry]
            \in [Pds -> [frame : Allocatable \cup {0, NoFrame}, owner : BOOLEAN]]
    BY <1>1 DEF Directories, NoEntry, Entry
  <2>2. QED
    BY <1>1, <1>3, <2>1 DEF Directories
<1>7. IsWhole(dir')
  BY <1>5 DEF IsWhole, Whole, Table
<1>8. Whole'
  BY <1>7 DEF IsWhole, Whole, Table
<1>9. KernelHalfInSync'
  <2>1. dir'[KERNEL] = dir[KERNEL] /\ \A e \in dirUsed' : e \in dirUsed /\ dir'[e] = dir[e]
    BY <1>1, <1>2, <1>5
  <2>2. QED
    BY <2>1 DEF KernelHalfInSync
<1>10. tab' \in PageTables /\ \A f \in Allocatable \cup {0} : f \notin tables => tab'[f] = tab[f]
  BY <1>1, <1>3 DEF PageTables, EmptyTable
<1>11. used' \in SUBSET Allocatable
  BY <1>1, <1>3
<1>12. \A e \in Spaces' : \A qd \in HalfPds(e) : Table(e, qd)' = Table(e, qd)
  BY <1>1, <1>2, <1>5, SpacesAre DEF Table
<1>13. \A e \in Spaces' : \A qd \in HalfPds(e) : Table(e, qd) \notin tables
  <2>1. SUFFICES ASSUME NEW e \in Spaces, e # d, NEW qd \in HalfPds(e), Table(e, qd) \in tables PROVE FALSE
    BY <1>2
  <2>2. PICK pd \in HalfPds(d) : Table(d, pd) = Table(e, qd) /\ Table(d, pd) \notin {NoFrame, 0}
    BY <1>4, <2>1
  <2>3. QED
    BY <1>2, <2>1, <2>2 DEF Owned, TablesApart
<1>14. ASSUME NEW e \in Spaces', NEW w \in Half(e) PROVE At(e, w)' = At(e, w) /\ At(e, w) \notin tables
  <2>1. w \in 0 .. (PAGES - 1) /\ e \in Dirs \cup {KERNEL} /\ e \in Spaces /\ e # d
    BY <1>1, <1>2, Halves, SpacesAre
  <2>2. PICK qd \in HalfPds(e) : qd = w \div ENTRIES
    BY Halves
  <2>3. PICK j \in 0 .. (ENTRIES - 1) : j = w % ENTRIES
    BY Halves
  <2>4. At(e, w)' = IF Table(e, qd)' = NoFrame THEN NoFrame ELSE tab'[Table(e, qd)'][j]
    BY <1>7, <2>1, <2>2, <2>3, AtTableNext
  <2>5. At(e, w) = IF Table(e, qd) = NoFrame THEN NoFrame ELSE tab[Table(e, qd)][j]
    BY <2>1, <2>2, <2>3, AtTable
  <2>6. Table(e, qd) \in Allocatable \cup {0, NoFrame}
    BY <2>1, <2>2, AtTable
  <2>7. At(e, w)' = At(e, w)
    BY <1>10, <1>12, <1>13, <2>4, <2>5, <2>6
  <2>8. At(e, w) \notin tables
    BY <1>2, <1>4, <2>1 DEF Owned, TablesNotPages
  <2>9. QED
    BY <2>7, <2>8
<1>15. Owned'
  <2>1. \A e \in Spaces' : e \in Spaces
    BY <1>2
  <2>2. \A f : f \in used /\ f \notin tables => f \in used'
    BY <1>3
  <2>3. QED
    BY <1>12, <1>13, <1>14, <2>1, <2>2, FewerOwned
<1>16. QED
  BY <1>2, <1>6, <1>8, <1>9, <1>10, <1>11, <1>14, <1>15
-----------------------------------------------------------------------------
(* What a plan is made of.                                                 *)
Item == [virt : -1 .. (PAGES - 1), frame : Int]
KernelItems == {p \in Item : p.virt \in KernelPages /\ (p.frame = NoFrame \/ IsHome(p.virt, p.frame))}
UserItems == {p \in Item : p.virt \in UserPages /\ p.frame = NoFrame}
ThreadItems == {p \in UserItems : p.virt >= USER_HEAP_START}

(***************************************************************************)
(* Two loops after one another.                                            *)
(***************************************************************************)
LEMMA Loops ==
    ASSUME NEW S, NEW s \in Seq(S), NEW t \in Seq(S)
    PROVE  /\ s \o t \in Seq(S) /\ Len(s) \in Nat /\ Len(t) \in Nat
           /\ DOMAIN s = 1 .. Len(s) /\ DOMAIN t = 1 .. Len(t)
           /\ Len(s \o t) = Len(s) + Len(t) /\ DOMAIN (s \o t) = 1 .. (Len(s) + Len(t))
           /\ \A i \in 1 .. Len(s) : i \in DOMAIN (s \o t) /\ (s \o t)[i] = s[i]
           /\ \A i \in 1 .. Len(t) : Len(s) + i \in DOMAIN (s \o t) /\ (s \o t)[Len(s) + i] = t[i]
           /\ \A i \in DOMAIN (s \o t) : ~(i \in 1 .. Len(s)) => i - Len(s) \in 1 .. Len(t)
<1>1. PICK m \in Nat, n \in Nat : m = Len(s) /\ n = Len(t) /\ DOMAIN s = 1 .. m /\ DOMAIN t = 1 .. n
  BY LenProperties
<1>2. /\ s \o t \in Seq(S) /\ Len(s \o t) = m + n
      /\ \A i \in 1 .. (m + n) : (s \o t)[i] = IF i <= m THEN s[i] ELSE t[i - m]
  BY <1>1, ConcatProperties
<1>3. DOMAIN (s \o t) = 1 .. (m + n)
  BY <1>2, LenProperties
<1>4. \A i \in 1 .. m : i \in 1 .. (m + n) /\ i <= m
  OBVIOUS
<1>5. \A i \in 1 .. n : m + i \in 1 .. (m + n) /\ ~(m + i <= m) /\ (m + i) - m = i
  OBVIOUS
<1>6. \A i \in 1 .. (m + n) : ~(i \in 1 .. m) => i - m \in 1 .. n
  OBVIOUS
<1>7. \A i \in 1 .. n : (s \o t)[m + i] = t[i]
  BY <1>2, <1>5
<1>8. \A i \in 1 .. m : (s \o t)[i] = s[i]
  BY <1>2, <1>4
<1>9. QED
  BY <1>1, <1>2, <1>3, <1>4, <1>5, <1>6, <1>7, <1>8

(***************************************************************************)
(* A loop over pages that have no frame yet.                               *)
(***************************************************************************)
LEMMA FreshPages ==
    ASSUME NEW first \in Nat, NEW n \in Nat, NEW S \in SUBSET Item,
           \A v \in first .. (first + n - 1) : Page(v, NoFrame) \in S
    PROVE  /\ Fresh(first, n) \in Seq(S) /\ Len(Fresh(first, n)) = n
           /\ \A v \in first .. (first + n - 1) :
                v - first + 1 \in 1 .. n /\ Fresh(first, n)[v - first + 1] = Page(v, NoFrame)
<1> DEFINE F == [i \in 1 .. n |-> Page(first + i - 1, NoFrame)]
<1>1. \A i \in 1 .. n : first + i - 1 \in first .. (first + n - 1)
  OBVIOUS
<1>2. \A i \in 1 .. n : F[i] = Page(first + i - 1, NoFrame) /\ F[i] \in S
  BY <1>1
<1>3. F \in [1 .. n -> S]
  BY <1>1
<1>4. F \in Seq(S)
  BY <1>3, SeqDef
<1>5. DOMAIN F = 1 .. n
  OBVIOUS
<1> HIDE DEF F
<1>6. Len(F) = n
  BY <1>4, <1>5, LenProperties
<1>7. \A v \in first .. (first + n - 1) : v - first + 1 \in 1 .. n /\ first + (v - first + 1) - 1 = v
  OBVIOUS
<1>8. \A v \in first .. (first + n - 1) : F[v - first + 1] = Page(v, NoFrame)
  BY <1>2, <1>7
<1>9. F = Fresh(first, n)
  BY DEF F, Fresh
<1>10. QED
  BY <1>4, <1>6, <1>7, <1>8, <1>9

(***************************************************************************)
(* One turn of a loop.                                                     *)
(***************************************************************************)
LEMMA TailPlan ==
    ASSUME plan \in Seq(Item), plan # <<>>, plan' = Tail(plan)
    PROVE  /\ plan' \in Seq(Item) /\ 1 \in DOMAIN plan /\ Head(plan) = plan[1] /\ plan[1] \in Item
           /\ \A i \in DOMAIN plan' : i \in Nat /\ i + 1 \in DOMAIN plan /\ plan'[i] = plan[i + 1]
           /\ \A i \in DOMAIN plan : i \in Nat /\ (i # 1 => i - 1 \in DOMAIN plan' /\ plan'[i - 1] = plan[i])
           /\ \A v : InPlan(v)' => InPlan(v)
           /\ \A v : InPlan(v) => plan[1].virt = v \/ InPlan(v)'
<1>1. PICK n \in Nat : n = Len(plan) /\ DOMAIN plan = 1 .. n
  BY LenProperties
<1>2. n # 0
  BY <1>1, EmptySeq
<1>3. plan' \in Seq(Item) /\ Len(plan') = n - 1 /\ \A i \in 1 .. (n - 1) : plan'[i] = plan[i + 1]
  BY <1>1, HeadTailProperties
<1>4. DOMAIN plan' = 1 .. (n - 1)
  BY <1>3, LenProperties
<1>5. Head(plan) = plan[1] /\ 1 \in DOMAIN plan
  BY <1>1, <1>2, HeadTailProperties
<1>6. plan[1] \in Item
  BY <1>1, <1>5, ElementOfSeq
<1>7. \A i \in DOMAIN plan' : i \in Nat /\ i + 1 \in DOMAIN plan /\ plan'[i] = plan[i + 1]
  BY <1>1, <1>3, <1>4
<1>8. \A i \in DOMAIN plan : i \in Nat /\ (i # 1 => i - 1 \in DOMAIN plan')
  BY <1>1, <1>4
<1>9. \A i \in DOMAIN plan : i # 1 => plan'[i - 1] = plan[i]
  <2>1. \A i \in DOMAIN plan : i # 1 => i - 1 \in 1 .. (n - 1) /\ (i - 1) + 1 = i
    BY <1>1
  <2>2. QED
    BY <1>3, <2>1
<1>10. \A v : InPlan(v)' => InPlan(v)
  BY <1>7 DEF InPlan
<1>11. \A v : InPlan(v) => plan[1].virt = v \/ InPlan(v)'
  BY <1>8, <1>9 DEF InPlan
<1>12. QED
  BY <1>3, <1>5, <1>6, <1>7, <1>8, <1>9, <1>10, <1>11

(***************************************************************************)
(* What is left of a plan is one, once the copy is made.                   *)
(***************************************************************************)
LEMMA PlannedTail ==
    ASSUME Planned, plan \in Seq(Item), plan # <<>>, plan' = Tail(plan), current' = current,
           loaded' = loaded \/ plan[1].virt = -1
    PROVE  Planned'
<1>1. \A i \in DOMAIN plan' : i \in Nat /\ i + 1 \in DOMAIN plan /\ plan'[i] = plan[i + 1]
  BY TailPlan
<1>2. \A i \in DOMAIN plan : i \in Nat /\ (i # 1 => i - 1 \in DOMAIN plan' /\ plan'[i - 1] = plan[i])
  BY TailPlan
<1>3. (\A i \in DOMAIN plan :
        IF current = KERNEL
          THEN plan[i].virt \in KernelPages /\ (plan[i].frame = NoFrame \/ IsHome(plan[i].virt, plan[i].frame))
          ELSE \/ plan[i].virt \in UserPages /\ plan[i].frame = NoFrame
               \/ /\ plan[i].virt = -1 /\ plan[i].frame \in Nat
                  /\ PROGRAM_START + plan[i].frame <= KERNEL_START)'
  BY <1>1 DEF Planned, IsHome
<1>4. (\A i, j \in DOMAIN plan : plan[i].virt = -1 /\ plan[j].virt = -1 => i = j)'
  <2>1. SUFFICES ASSUME NEW i \in DOMAIN plan', NEW j \in DOMAIN plan', plan'[i].virt = -1, plan'[j].virt = -1
                 PROVE  i = j
    OBVIOUS
  <2>2. i + 1 = j + 1
    BY <1>1, <2>1 DEF Planned
  <2>3. QED
    BY <1>1, <2>2
<1>5. (\A i \in DOMAIN plan : plan[i].virt \in PROGRAM_START .. (USER_HEAP_START - 1) =>
            \E j \in DOMAIN plan : i < j /\ plan[j].virt = -1)'
  <2>1. SUFFICES ASSUME NEW i \in DOMAIN plan', plan'[i].virt \in PROGRAM_START .. (USER_HEAP_START - 1)
                 PROVE  \E j \in DOMAIN plan' : i < j /\ plan'[j].virt = -1
    OBVIOUS
  <2>2. PICK j \in DOMAIN plan : i + 1 < j /\ plan[j].virt = -1
    BY <1>1, <2>1 DEF Planned
  <2>3. j # 1 /\ i < j - 1
    BY <1>1, <1>2, <2>2
  <2>4. QED
    BY <1>2, <2>2, <2>3
<1>6. (InPlan(-1) => loaded[current] = <<>>)'
  <2>1. SUFFICES ASSUME InPlan(-1)' PROVE loaded'[current'] = <<>>
    OBVIOUS
  <2>2. PICK i \in DOMAIN plan' : plan'[i].virt = -1
    BY <2>1 DEF InPlan
  <2>3. i + 1 \in DOMAIN plan /\ plan[i + 1].virt = -1 /\ i + 1 # 1
    BY <1>1, <2>2, TailPlan
  <2>4. plan[1].virt # -1
    BY <2>3, TailPlan DEF Planned
  <2>5. QED
    BY <2>3, <2>4 DEF Planned, InPlan
<1>7. QED
  BY <1>3, <1>4, <1>5, <1>6 DEF Planned

(***************************************************************************)
(* kernel.c, kernel_main(): the boot maps pages of the kernel's half, the  *)
(* first blocks of its heap among them.                                    *)
(***************************************************************************)
LEMMA BootPlan ==
    /\ kernel_main \in Seq(KernelItems)
    /\ \A v \in HEAP_START .. (HEAP_START + INITIAL_BLOCKS - 1) :
            \E i \in DOMAIN kernel_main : kernel_main[i].virt = v
<1>1. \A v \in KernelPages : v \in -1 .. (PAGES - 1)
  BY Layout
<1>2. NoFrame \in Int
  BY DEF NoFrame
<1>3. \A v \in KernelPages : Page(v, NoFrame) \in KernelItems
  BY <1>1, <1>2 DEF KernelItems, Item, Page
<1>4. \A v, f : IsHome(v, f) => Page(v, f) \in KernelItems
  BY <1>1, Home DEF KernelItems, Item, Page
<1>5. KernelItems \in SUBSET Item
  BY DEF KernelItems
<1>6. /\ NEWLIB_HEAP \in Nat /\ NEWLIB_PAGES \in Nat /\ HEAP_START \in Nat
      /\ INITIAL_BLOCKS \in Nat /\ INITIAL_BLOCKS <= MaxHeapBlocks /\ MaxHeapBlocks \in Nat
  BY LayoutAssumption
<1>7. init_memory \in Seq(KernelItems)
  BY <1>3, <1>5, <1>6, Layout, FreshPages DEF init_memory
<1>8. /\ heap_init \in Seq(KernelItems) /\ Len(heap_init) = INITIAL_BLOCKS
      /\ \A v \in HEAP_START .. (HEAP_START + INITIAL_BLOCKS - 1) :
            /\ v - HEAP_START + 1 \in 1 .. INITIAL_BLOCKS
            /\ heap_init[v - HEAP_START + 1] = Page(v, NoFrame)
  <2>1. \A v \in HEAP_START .. (HEAP_START + INITIAL_BLOCKS - 1) : v \in HEAP_START .. (HEAP_START + MaxHeapBlocks - 1)
    BY <1>6
  <2>2. \A v \in HEAP_START .. (HEAP_START + INITIAL_BLOCKS - 1) : Page(v, NoFrame) \in KernelItems
    BY <1>3, <2>1, Layout
  <2>3. QED
    BY <1>5, <1>6, <2>2, FreshPages DEF heap_init
<1>9. create_ramdisk \in Seq(KernelItems)
  <2>1. RAMDISK_FRAMES \in Seq(1 .. (MIN_INDEX - 1))
    BY LayoutAssumption
  <2>2. PICK n \in Nat : DOMAIN RAMDISK_FRAMES = 1 .. n
    BY <2>1, LenProperties
  <2>3. \A i \in 1 .. n : Page(RAMDISK_VIRTUAL + i - 1, RAMDISK_FRAMES[i]) \in KernelItems
    BY <1>4, <2>2 DEF IsHome
  <2>4. create_ramdisk \in [1 .. n -> KernelItems]
    BY <2>2, <2>3 DEF create_ramdisk
  <2>5. QED
    BY <2>4, SeqDef
<1>10. mapLAPIC \in Seq(KernelItems)
  <2>1. Page(LAPIC, LAPIC_FRAME) \in KernelItems
    BY <1>4 DEF IsHome
  <2>2. QED
    BY <2>1 DEF mapLAPIC
<1>11. kernel_main = ((init_memory \o heap_init) \o create_ramdisk) \o mapLAPIC
  BY DEF kernel_main
<1> DEFINE a == init_memory \o heap_init
           b == a \o create_ramdisk
<1>12. a \in Seq(KernelItems) /\ b \in Seq(KernelItems) /\ kernel_main \in Seq(KernelItems)
  <2>1. a \in Seq(KernelItems)
    BY <1>7, <1>8, Loops
  <2>2. b \in Seq(KernelItems)
    BY <1>9, <2>1, Loops
  <2>3. QED
    BY <1>10, <1>11, <2>1, <2>2, Loops
<1>13. \A i \in 1 .. Len(heap_init) : Len(init_memory) + i \in DOMAIN a /\ a[Len(init_memory) + i] = heap_init[i]
  BY <1>7, <1>8, Loops
<1>14. DOMAIN a = 1 .. Len(a) /\ DOMAIN b = 1 .. Len(b)
  BY <1>12, LenProperties
<1> HIDE DEF a
<1>15. \A i \in DOMAIN a : i \in DOMAIN b /\ b[i] = a[i]
  BY <1>9, <1>12, <1>14, Loops
<1> HIDE DEF b
<1>16. \A i \in DOMAIN b : i \in DOMAIN kernel_main /\ kernel_main[i] = b[i]
  <2>1. kernel_main = b \o mapLAPIC
    BY <1>11 DEF a, b
  <2>2. QED
    BY <1>10, <1>12, <1>14, <2>1, Loops
<1>17. ASSUME NEW v \in HEAP_START .. (HEAP_START + INITIAL_BLOCKS - 1)
       PROVE  \E i \in DOMAIN kernel_main : kernel_main[i].virt = v
  <2>1. PICK k \in 1 .. Len(heap_init) : heap_init[k] = Page(v, NoFrame)
    BY <1>8
  <2>2. PICK i \in DOMAIN a : a[i] = Page(v, NoFrame)
    BY <1>13, <2>1
  <2>3. i \in DOMAIN kernel_main /\ kernel_main[i] = Page(v, NoFrame)
    BY <1>15, <1>16, <2>2
  <2>4. QED
    BY <2>3 DEF Page
<1>18. QED
  BY <1>12, <1>17

(***************************************************************************)
(* thread.c, createUserThread(): stack and heap lie above a program's      *)
(* addresses, and all of the heap is mapped.                               *)
(***************************************************************************)
LEMMA ThreadPlan ==
    /\ createUserThread \in Seq(ThreadItems)
    /\ \A v \in USER_HEAP_START .. (USER_HEAP_START + USER_HEAP_PAGES - 1) :
            \E i \in 1 .. Len(createUserThread) : createUserThread[i].virt = v
<1>1. \A v \in UserPages : v \in -1 .. (PAGES - 1)
  BY Layout
<1>2. \A v \in UserPages : v >= USER_HEAP_START => Page(v, NoFrame) \in ThreadItems
  BY <1>1 DEF ThreadItems, UserItems, Item, Page, NoFrame
<1>3. ThreadItems \in SUBSET Item
  BY DEF ThreadItems, UserItems
<1>4. /\ USER_HEAP_START \in Nat /\ USER_HEAP_PAGES \in Nat /\ STACK_PAGES \in Nat
      /\ USER_STACK_TOP \in Nat /\ USER_STACK_TOP - STACK_PAGES \in Nat
  BY LayoutAssumption
<1> DEFINE bottom == USER_STACK_TOP - STACK_PAGES
           s == Fresh(bottom, STACK_PAGES)
           h == Fresh(USER_HEAP_START, USER_HEAP_PAGES)
<1>5. s \in Seq(ThreadItems)
  <2>1. bottom + STACK_PAGES - 1 = USER_STACK_TOP - 1
    BY <1>4
  <2>2. \A v \in bottom .. (bottom + STACK_PAGES - 1) : Page(v, NoFrame) \in ThreadItems
    BY <1>2, <2>1, Layout
  <2>3. QED
    BY <1>3, <1>4, <2>2, FreshPages
<1>6. /\ h \in Seq(ThreadItems) /\ Len(h) = USER_HEAP_PAGES
      /\ \A v \in USER_HEAP_START .. (USER_HEAP_START + USER_HEAP_PAGES - 1) :
            v - USER_HEAP_START + 1 \in 1 .. USER_HEAP_PAGES /\ h[v - USER_HEAP_START + 1] = Page(v, NoFrame)
  <2>1. \A v \in USER_HEAP_START .. (USER_HEAP_START + USER_HEAP_PAGES - 1) : v >= USER_HEAP_START
    BY <1>4
  <2>2. \A v \in USER_HEAP_START .. (USER_HEAP_START + USER_HEAP_PAGES - 1) : Page(v, NoFrame) \in ThreadItems
    BY <1>2, <2>1, Layout
  <2>3. QED
    BY <1>3, <1>4, <2>2, FreshPages
<1>7. createUserThread = s \o h
  BY DEF createUserThread
<1> HIDE DEF s, h
<1>8. createUserThread \in Seq(ThreadItems) /\ DOMAIN createUserThread = 1 .. Len(createUserThread)
  BY <1>5, <1>6, <1>7, Loops, LenProperties
<1>9. \A i \in 1 .. Len(h) : Len(s) + i \in DOMAIN createUserThread /\ createUserThread[Len(s) + i] = h[i]
  BY <1>5, <1>6, <1>7, Loops
<1>10. ASSUME NEW v \in USER_HEAP_START .. (USER_HEAP_START + USER_HEAP_PAGES - 1)
       PROVE  \E i \in 1 .. Len(createUserThread) : createUserThread[i].virt = v
  <2>1. PICK k \in 1 .. Len(h) : h[k] = Page(v, NoFrame)
    BY <1>6
  <2>2. PICK i \in DOMAIN createUserThread : createUserThread[i] = Page(v, NoFrame)
    BY <1>9, <2>1
  <2>3. QED
    BY <1>8, <2>2 DEF Page
<1>11. QED
  BY <1>8, <1>10

(* The plan of a process that has nothing loaded.                          *)
ProcessItems ==
    UserItems \cup {p \in Item : p.virt = -1 /\ p.frame \in Nat /\ PROGRAM_START + p.frame <= KERNEL_START}
MakesProcess(P) ==
    /\ P \in Seq(ProcessItems)
    /\ \A i, j \in DOMAIN P : P[i].virt = -1 /\ P[j].virt = -1 => i = j
    /\ \A i \in DOMAIN P : P[i].virt \in PROGRAM_START .. (USER_HEAP_START - 1) =>
            \E j \in DOMAIN P : i < j /\ P[j].virt = -1
    /\ \A v \in USER_HEAP_START .. (USER_HEAP_START + USER_HEAP_PAGES - 1) :
            \E i \in DOMAIN P : P[i].virt = v

(***************************************************************************)
(* A page of the user's half is not the copy, nor a thread's a program's.  *)
(***************************************************************************)
LEMMA ItemsApart ==
    /\ \A p \in UserItems : p.virt # -1
    /\ \A p \in ThreadItems : p.virt # -1 /\ p.virt \notin PROGRAM_START .. (USER_HEAP_START - 1)
    /\ ThreadItems \subseteq UserItems /\ UserItems \subseteq ProcessItems /\ ProcessItems \subseteq Item
    /\ \A v \in UserPages : Page(v, NoFrame) \in UserItems
<1>1. KERNEL_START \in Nat /\ USER_HEAP_START \in Nat
  BY LayoutAssumption
<1>2. \A p \in UserItems : p.virt # -1
  BY <1>1 DEF UserItems, UserPages
<1>3. \A p \in ThreadItems : p.virt \notin PROGRAM_START .. (USER_HEAP_START - 1)
  BY <1>1, LayoutAssumption DEF ThreadItems
<1>4. ThreadItems \subseteq UserItems /\ UserItems \subseteq ProcessItems /\ ProcessItems \subseteq Item
  BY DEF ThreadItems, UserItems, ProcessItems
<1>5. \A v \in UserPages : v \in -1 .. (PAGES - 1)
  BY Layout
<1>6. \A v \in UserPages : Page(v, NoFrame) \in UserItems
  BY <1>5 DEF UserItems, Item, Page, NoFrame
<1>7. QED
  BY <1>2, <1>3, <1>4, <1>6

(***************************************************************************)
(* process.c, createUserProcess(): the program's pages, its copy, then the *)
(* pages of the first thread.                                              *)
(***************************************************************************)
LEMMA ProcessPlan ==
    ASSUME NEW size \in ProgramSizes \cup {NoFile}, NEW P,
           P = mapMemoryForProgramm(size) \o (IF size = NoFile THEN <<>> ELSE <<Copy(size)>>) \o createUserThread
    PROVE  MakesProcess(P)
<1> DEFINE C == createUserThread
<1>1. C \in Seq(ThreadItems) /\ C \in Seq(ProcessItems)
  <2>1. C \in Seq(ThreadItems) /\ ThreadItems \subseteq ProcessItems
    BY ThreadPlan, ItemsApart
  <2>2. QED
    BY <2>1, SeqDef
<1>2. PICK c \in Nat : c = Len(C) /\ DOMAIN C = 1 .. c
  BY <1>1, LenProperties
<1>3. \A i \in 1 .. c : C[i] \in ThreadItems
  BY <1>1, <1>2, ElementOfSeq
<1>4. \A v \in USER_HEAP_START .. (USER_HEAP_START + USER_HEAP_PAGES - 1) : \E i \in 1 .. c : C[i].virt = v
  BY <1>2, ThreadPlan
<1> HIDE DEF C
<1>5. CASE size = NoFile
  <2>1. P = C
    <3>1. P = <<>> \o <<>> \o C
      BY <1>5 DEF mapMemoryForProgramm, C
    <3>2. <<>> \o C = C
      BY <1>1, ConcatEmptySeq
    <3>3. <<>> \in Seq(ProcessItems)
      BY EmptySeq
    <3>4. <<>> \o <<>> = <<>>
      BY <3>3, ConcatEmptySeq
    <3>5. QED
      BY <3>1, <3>2, <3>4
  <2>2. \A i \in DOMAIN P : P[i] \in ThreadItems
    BY <1>2, <1>3, <2>1
  <2>3. \A i \in DOMAIN P : P[i].virt # -1 /\ P[i].virt \notin PROGRAM_START .. (USER_HEAP_START - 1)
    BY <2>2, ItemsApart
  <2>4. QED
    BY <1>1, <1>2, <1>4, <2>1, <2>3 DEF MakesProcess
<1>6. CASE size # NoFile
  <2>1. /\ size \in Nat /\ EXTRA_PAGES \in Nat /\ PROGRAM_START \in Nat /\ KERNEL_START \in Nat
        /\ PROGRAM_START + size + EXTRA_PAGES <= KERNEL_START
    BY <1>6, LayoutAssumption
  <2> DEFINE n == size + EXTRA_PAGES
             A == Fresh(PROGRAM_START, n)
             B == <<Copy(size)>>
             AB == A \o B
  <2>2. A \in Seq(UserItems) /\ A \in Seq(ProcessItems) /\ Len(A) = n /\ n \in Nat
    <3>1. \A v \in PROGRAM_START .. (PROGRAM_START + n - 1) : v \in UserPages
      BY <2>1 DEF UserPages
    <3>2. \A v \in PROGRAM_START .. (PROGRAM_START + n - 1) : Page(v, NoFrame) \in UserItems
      BY <3>1, ItemsApart
    <3>3. UserItems \in SUBSET Item /\ UserItems \subseteq ProcessItems
      BY ItemsApart
    <3>4. n \in Nat
      BY <2>1
    <3>5. A \in Seq(UserItems) /\ Len(A) = n
      BY <2>1, <3>2, <3>3, <3>4, FreshPages
    <3> HIDE DEF A
    <3>6. A \in Seq(ProcessItems)
      BY <3>3, <3>5, SeqDef
    <3>7. QED
      BY <3>4, <3>5, <3>6
  <2>3. B \in Seq(ProcessItems) /\ Len(B) = 1 /\ B[1] = Copy(size) /\ Copy(size).virt = -1
    <3>1. -1 \in -1 .. (PAGES - 1)
      BY Layout
    <3>2. PROGRAM_START + size <= KERNEL_START
      BY <2>1
    <3>3. Copy(size) \in ProcessItems /\ Copy(size).virt = -1
      BY <2>1, <3>1, <3>2 DEF ProcessItems, Item, Copy, Page
    <3>4. QED
      BY <3>3
  <2>4. P = AB \o C
    BY <1>6 DEF C, mapMemoryForProgramm
  <2> HIDE DEF A, B, n
  <2>5. /\ AB \in Seq(ProcessItems) /\ Len(AB) = n + 1
        /\ \A i \in 1 .. n : AB[i] = A[i]
        /\ AB[n + 1] = Copy(size)
    <3>1. /\ AB \in Seq(ProcessItems) /\ Len(AB) = Len(A) + Len(B)
          /\ \A i \in 1 .. Len(A) : AB[i] = A[i]
          /\ \A i \in 1 .. Len(B) : AB[Len(A) + i] = B[i]
      <4>1. A \in Seq(ProcessItems) /\ B \in Seq(ProcessItems)
        BY <2>2, <2>3
      <4>2. QED
        BY <4>1, Loops
    <3>2. 1 \in 1 .. Len(B)
      BY <2>3
    <3>3. QED
      BY <2>2, <2>3, <3>1, <3>2
  <2> HIDE DEF AB
  <2>6. /\ P \in Seq(ProcessItems) /\ DOMAIN P = 1 .. (n + 1 + c)
        /\ \A i \in 1 .. (n + 1) : P[i] = AB[i]
        /\ \A i \in 1 .. c : n + 1 + i \in DOMAIN P /\ P[n + 1 + i] = C[i]
        /\ \A i \in DOMAIN P : i \notin 1 .. (n + 1) => i - (n + 1) \in 1 .. c
    <3>1. /\ P \in Seq(ProcessItems) /\ DOMAIN P = 1 .. (Len(AB) + Len(C))
          /\ \A i \in 1 .. Len(AB) : P[i] = AB[i]
          /\ \A i \in 1 .. Len(C) : Len(AB) + i \in DOMAIN P /\ P[Len(AB) + i] = C[i]
          /\ \A i \in DOMAIN P : ~(i \in 1 .. Len(AB)) => i - Len(AB) \in 1 .. Len(C)
      <4>1. AB \in Seq(ProcessItems) /\ C \in Seq(ProcessItems)
        BY <1>1, <2>5
      <4>2. /\ AB \o C \in Seq(ProcessItems) /\ DOMAIN (AB \o C) = 1 .. (Len(AB) + Len(C))
        BY <4>1, Loops
      <4>3. \A i \in 1 .. Len(AB) : (AB \o C)[i] = AB[i]
        BY <4>1, Loops
      <4>4. \A i \in 1 .. Len(C) :
                Len(AB) + i \in DOMAIN (AB \o C) /\ (AB \o C)[Len(AB) + i] = C[i]
        BY <4>1, Loops
      <4>5. \A i \in DOMAIN (AB \o C) : ~(i \in 1 .. Len(AB)) => i - Len(AB) \in 1 .. Len(C)
        BY <4>1, Loops
      <4>6. QED
        BY Zenon, <2>4, <4>2, <4>3, <4>4, <4>5
    <3>2. QED
      BY <1>2, <2>5, <3>1
  <2>7. \A i \in 1 .. n : P[i] \in UserItems
    <3>1. \A i \in 1 .. n : i \in 1 .. (n + 1)
      BY <2>2
    <3>2. \A i \in 1 .. n : A[i] \in UserItems
      BY <2>2, ElementOfSeq
    <3>3. QED
      BY <2>5, <2>6, <3>1, <3>2
  <2>8. n + 1 \in DOMAIN P /\ P[n + 1].virt = -1
    <3>1. n + 1 \in 1 .. (n + 1) /\ n + 1 \in 1 .. (n + 1 + c)
      BY <2>2
    <3>2. QED
      BY <2>3, <2>5, <2>6, <3>1
  <2>9. \A i \in DOMAIN P : i \notin 1 .. (n + 1) => P[i] \in ThreadItems
    <3>1. SUFFICES ASSUME NEW i \in DOMAIN P, i \notin 1 .. (n + 1) PROVE P[i] \in ThreadItems
      OBVIOUS
    <3>2. i - (n + 1) \in 1 .. c
      BY <2>6, <3>1
    <3>3. n + 1 + (i - (n + 1)) = i
      BY <2>2, <2>6
    <3>4. P[i] = C[i - (n + 1)]
      BY <2>6, <3>2, <3>3
    <3>5. QED
      BY <1>3, <3>2, <3>4
  <2>10. \A i \in DOMAIN P : i \in 1 .. n \/ i = n + 1 \/ i \notin 1 .. (n + 1)
    BY <2>2, <2>6
  <2>11. \A i \in DOMAIN P : P[i].virt = -1 => i = n + 1
    BY <2>7, <2>9, <2>10, ItemsApart
  <2>12. \A i \in DOMAIN P : P[i].virt \in PROGRAM_START .. (USER_HEAP_START - 1) => i = n + 1 \/ i < n + 1
    <3>1. \A i \in 1 .. n : i < n + 1
      BY <2>2
    <3>2. QED
      BY <2>9, <2>10, <3>1, ItemsApart
  <2>13. \A i \in DOMAIN P : P[i].virt \in PROGRAM_START .. (USER_HEAP_START - 1) => i # n + 1
    BY <2>1, <2>8
  <2>14. \A v \in USER_HEAP_START .. (USER_HEAP_START + USER_HEAP_PAGES - 1) : \E i \in DOMAIN P : P[i].virt = v
    <3>1. \A i \in 1 .. c : n + 1 + i \in DOMAIN P /\ P[n + 1 + i] = C[i]
      BY <2>6
    <3>2. TAKE v \in USER_HEAP_START .. (USER_HEAP_START + USER_HEAP_PAGES - 1)
    <3>3. PICK i \in 1 .. c : C[i].virt = v
      BY <1>4
    <3>4. n + 1 + i \in DOMAIN P /\ P[n + 1 + i].virt = v
      BY <3>1, <3>3
    <3>5. QED
      BY <3>4
  <2>15. QED
    BY <2>6, <2>8, <2>11, <2>12, <2>13, <2>14 DEF MakesProcess
<1>7. QED
  BY <1>5, <1>6
-----------------------------------------------------------------------------
(* The parts of the type invariant that mapping does not touch, and of     *)
(* UserMemoryKept, per process.                                            *)
Scalars ==
    /\ dirUsed \subseteq Dirs
    /\ cr3 \in Dirs \cup {KERNEL, NoDir}
    /\ plan \in Seq(Item)
    /\ blocks \in 1 .. MaxHeapBlocks
    /\ brk \in USER_HEAP_START .. (USER_HEAP_START + USER_HEAP_PAGES)
    /\ current \in Spaces
    /\ loaded \in [Dirs -> Seq(Int)]
    /\ granted \in [Dirs -> SUBSET (USER_HEAP_START .. (USER_HEAP_START + USER_HEAP_PAGES - 1))]
FrameTypes == used \in SUBSET Allocatable /\ dir \in Directories /\ tab \in PageTables
ProgramKept(d) ==
    PROGRAM_START + Len(loaded[d]) <= USER_HEAP_START =>
        \A i \in DOMAIN loaded[d] : At(d, PROGRAM_START + i - 1) = loaded[d][i]
GrantsMapped(d) == \A v \in granted[d] : At(d, v) # NoFrame

(***************************************************************************)
(* The parts make up the whole.                                            *)
(***************************************************************************)
LEMMA Parts ==
    /\ TypeOK <=> FrameTypes /\ Scalars
    /\ UserMemoryKept <=> \A d \in dirUsed : ProgramKept(d) /\ GrantsMapped(d)
<1>1. TypeOK <=> FrameTypes /\ Scalars
  BY DEF TypeOK, FrameTypes, Scalars, Directories, PageTables, Item, Spaces
<1>2. UserMemoryKept <=> \A d \in dirUsed : ProgramKept(d) /\ GrantsMapped(d)
  BY DEF UserMemoryKept, ProgramKept, GrantsMapped, At
<1>3. QED
  BY <1>1, <1>2

(***************************************************************************)
(* After a step too.                                                       *)
(***************************************************************************)
LEMMA PartsNext ==
    /\ FrameTypes' /\ Scalars' => TypeOK'
    /\ (\A d \in dirUsed' : ProgramKept(d)' /\ GrantsMapped(d)') => UserMemoryKept'
<1>1. FrameTypes' /\ Scalars' => TypeOK'
  BY DEF TypeOK, FrameTypes, Scalars, Directories, PageTables, Item, Spaces
<1>2. (\A d \in dirUsed' : ProgramKept(d)' /\ GrantsMapped(d)') => UserMemoryKept'
  BY DEF UserMemoryKept, ProgramKept, GrantsMapped, At
<1>3. QED
  BY <1>1, <1>2

(***************************************************************************)
(* A program whose pages stay where they are is kept.                      *)
(***************************************************************************)
LEMMA KeepProgram ==
    ASSUME Scalars, NEW d \in Dirs, ProgramKept(d), loaded'[d] = loaded[d],
           \A w \in PROGRAM_START .. (USER_HEAP_START - 1) : loaded[d] # <<>> => At(d, w)' = At(d, w)
    PROVE  ProgramKept(d)'
<1>1. PICK n \in Nat : n = Len(loaded[d]) /\ DOMAIN loaded[d] = 1 .. n
  <2>1. loaded[d] \in Seq(Int)
    BY DEF Scalars
  <2>2. QED
    BY <2>1, LenProperties
<1>2. PROGRAM_START \in Nat /\ USER_HEAP_START \in Nat
  BY LayoutAssumption
<1>3. SUFFICES ASSUME PROGRAM_START + n <= USER_HEAP_START, NEW i \in 1 .. n
               PROVE  At(d, PROGRAM_START + i - 1)' = loaded[d][i]
  BY <1>1 DEF ProgramKept
<1>4. PROGRAM_START + i - 1 \in PROGRAM_START .. (USER_HEAP_START - 1)
  BY <1>2, <1>3
<1>5. loaded[d] # <<>>
  BY <1>1, <1>3
<1>6. At(d, PROGRAM_START + i - 1)' = At(d, PROGRAM_START + i - 1)
  BY <1>4, <1>5
<1>7. At(d, PROGRAM_START + i - 1) = loaded[d][i]
  BY <1>1, <1>3 DEF ProgramKept
<1>8. QED
  BY <1>6, <1>7

(***************************************************************************)
(* What the invariant says of the parts.                                   *)
(***************************************************************************)
LEMMA Unfold ==
    ASSUME PInv
    PROVE  /\ Scalars /\ dirUsed \subseteq Dirs /\ current \in Spaces
           /\ \A d \in dirUsed : d \in Dirs /\ d \in Spaces /\ d # KERNEL /\ ProgramKept(d) /\ GrantsMapped(d)
           /\ \A v \in USER_HEAP_START .. (USER_HEAP_START + USER_HEAP_PAGES - 1) : v \in UserPages
           /\ \A v \in HEAP_START .. (HEAP_START + blocks - 1) : v \in KernelPages
           /\ \A d \in dirUsed : granted[d] \subseteq UserPages
           /\ \A v \in PROGRAM_START .. (USER_HEAP_START - 1) : v \in UserPages
<1>1. Scalars /\ dirUsed \subseteq Dirs /\ current \in Spaces
  BY Parts DEF PInv, Scalars
<1>2. \A d \in dirUsed : d \in Dirs /\ d \in Spaces /\ d # KERNEL /\ ProgramKept(d) /\ GrantsMapped(d)
  BY <1>1, Parts, SpacesAre DEF PInv, Spaces
<1>3. \A v \in USER_HEAP_START .. (USER_HEAP_START + USER_HEAP_PAGES - 1) : v \in UserPages
  BY Layout
<1>4. \A v \in HEAP_START .. (HEAP_START + blocks - 1) : v \in KernelPages
  <2>1. blocks \in Nat /\ blocks <= MaxHeapBlocks /\ MaxHeapBlocks \in Nat /\ HEAP_START \in Nat
    BY <1>1, LayoutAssumption DEF Scalars
  <2>2. \A v \in HEAP_START .. (HEAP_START + blocks - 1) : v \in HEAP_START .. (HEAP_START + MaxHeapBlocks - 1)
    BY <2>1
  <2>3. QED
    BY <2>2, Layout
<1>5. \A d \in dirUsed : granted[d] \subseteq UserPages
  <2>1. \A d \in dirUsed : granted[d] \subseteq USER_HEAP_START .. (USER_HEAP_START + USER_HEAP_PAGES - 1)
    BY <1>1, <1>2 DEF Scalars
  <2>2. QED
    BY <1>3, <2>1
<1>6. \A v \in PROGRAM_START .. (USER_HEAP_START - 1) : v \in UserPages
  <2>1. /\ PROGRAM_START \in Nat /\ USER_HEAP_START \in Nat /\ USER_HEAP_PAGES \in Nat /\ KERNEL_START \in Nat
        /\ USER_STACK_TOP \in Nat /\ STACK_PAGES \in Nat /\ USER_STACK_TOP <= KERNEL_START
        /\ USER_HEAP_START + USER_HEAP_PAGES <= USER_STACK_TOP - STACK_PAGES
    BY LayoutAssumption
  <2>2. QED
    BY <2>1 DEF UserPages
<1>7. QED
  BY <1>1, <1>2, <1>3, <1>4, <1>5, <1>6

(***************************************************************************)
(* Mapping a page to a free frame, or to its own, keeps the memory sound.  *)
(***************************************************************************)
LEMMA MapKeeps ==
    ASSUME PInv, Runs, NEW d \in Spaces, NEW v \in Half(d), d = IF v >= KERNEL_START THEN KERNEL ELSE cr3,
           NEW f \in Nat, f \in (Allocatable \ used) \cup {0} \/ (d = KERNEL /\ IsHome(v, f)),
           mem_map_page(v, f, Taken(used, f)), dirUsed' = dirUsed
    PROVE  /\ FrameTypes' /\ Whole' /\ KernelHalfInSync' /\ Owned'
           /\ \A e \in Spaces : \A w \in Half(e) : At(e, w)' = IF e = d /\ w = v THEN f ELSE At(e, w)
<1>1. TypeOK /\ Whole /\ KernelHalfInSync /\ Owned /\ TablesApart /\ TablesMarked /\ used \subseteq Allocatable
  BY DEF PInv, Owned, TypeOK
<1>2. PICK u \in SUBSET Allocatable : u = Taken(used, f) /\ used \subseteq u
  BY <1>1 DEF Taken
<1>3. mem_map_page(v, f, u)
  BY <1>2
<1>4. /\ dir' \in Directories /\ tab' \in PageTables /\ used' \in SUBSET Allocatable
      /\ Whole' /\ KernelHalfInSync'
      /\ \E t : TableFor(d, v, t, u) /\ Sets(d, v, f, t) /\ used' = Taken(u, t)
  BY <1>1, <1>2, <1>3, MapEffect
<1>5. PICK t : TableFor(d, v, t, u) /\ Sets(d, v, f, t) /\ used' = Taken(u, t)
  BY <1>4
<1>6. Owned'
  BY <1>1, <1>2, <1>5, MapOwned
<1>7. \A e \in Spaces : \A w \in Half(e) : At(e, w)' = IF e = d /\ w = v THEN f ELSE At(e, w)
  BY <1>5 DEF Sets
<1>8. QED
  BY <1>4, <1>6, <1>7 DEF FrameTypes

(***************************************************************************)
(* One turn of a loop keeps the invariant: boot and kernel threads map the *)
(* kernel's half, a process its own, and a program that is loaded is not   *)
(* mapped again.                                                           *)
(***************************************************************************)
LEMMA MapNextKeeps ==
    ASSUME PInv, MapNext
    PROVE  PInv'
<1>1. /\ Scalars /\ dirUsed \subseteq Dirs /\ current \in Spaces /\ Planned /\ Backed /\ CurrentLoaded
      /\ plan \in Seq(Item) /\ used \subseteq Allocatable
  BY Unfold DEF PInv, Scalars, TypeOK
<1>2. /\ Runs /\ plan # <<>> /\ Head(plan).virt # -1 /\ plan' = Tail(plan)
      /\ UNCHANGED <<dirUsed, cr3, blocks, brk, current, loaded, granted>>
  BY DEF MapNext, ghosts
<1>3. cr3 = current
  BY <1>1, <1>2 DEF CurrentLoaded, Runs
<1>4. PICK v \in Int, g \in Int : v = plan[1].virt /\ g = plan[1].frame /\ Head(plan) = plan[1]
  BY <1>1, <1>2, TailPlan DEF Item
<1>5. IF current = KERNEL THEN v \in KernelPages /\ (g = NoFrame \/ IsHome(v, g)) ELSE v \in UserPages /\ g = NoFrame
  <2>1. 1 \in DOMAIN plan
    BY <1>1, <1>2, TailPlan
  <2>2. QED
    BY <1>1, <1>2, <1>4, <2>1 DEF Planned
<1>6. v \in Half(current) /\ current = IF v >= KERNEL_START THEN KERNEL ELSE cr3
  <2>1. KERNEL_START \in Nat
    BY LayoutAssumption
  <2>2. CASE current = KERNEL
    BY <1>5, <2>1, <2>2 DEF Half, KernelPages
  <2>3. CASE current # KERNEL
    BY <1>3, <1>5, <2>1, <2>3 DEF Half, UserPages
  <2>4. QED
    BY <2>2, <2>3
<1> DEFINE f == IF g = NoFrame THEN pmm_alloc_pageframe(used) ELSE g
<1>7. mem_map_page(v, f, Taken(used, f))
  BY <1>4 DEF MapNext
<1>8. f \in (Allocatable \ used) \cup {0} \/ (current = KERNEL /\ IsHome(v, f))
  BY <1>5, Alloc
<1> HIDE DEF f
<1>9. f \in Nat /\ f # NoFrame
  <2>1. CASE f \in (Allocatable \ used) \cup {0}
    BY <2>1, Memory DEF NoFrame
  <2>2. CASE IsHome(v, f)
    BY <2>2, Home DEF NoFrame
  <2>3. QED
    BY <1>8, <2>1, <2>2
<1>10. /\ FrameTypes' /\ Whole' /\ KernelHalfInSync' /\ Owned'
       /\ \A e \in Spaces : \A w \in Half(e) : At(e, w)' = IF e = current /\ w = v THEN f ELSE At(e, w)
  BY <1>1, <1>2, <1>6, <1>7, <1>8, <1>9, MapKeeps
<1>11. Scalars'
  BY <1>1, <1>2, TailPlan DEF Scalars, Spaces
<1>12. CurrentLoaded'
  BY <1>1, <1>2 DEF CurrentLoaded
<1>13. Planned'
  BY <1>1, <1>2, PlannedTail
<1>14. \A w : InPlan(w) => w = v \/ InPlan(w)'
  BY <1>1, <1>2, <1>4, TailPlan
<1>15. \A e \in Spaces : \A w \in Half(e) : At(e, w) # NoFrame => At(e, w)' # NoFrame
  BY <1>9, <1>10
<1>16. Backed'
  <2>1. ASSUME NEW w \in HEAP_START .. (HEAP_START + blocks - 1) PROVE At(KERNEL, w)' # NoFrame \/ InPlan(w)'
    <3>1. w \in Half(KERNEL) /\ KERNEL \in Spaces /\ w \in KernelPages
      BY Unfold DEF Half, Spaces
    <3>2. CASE At(KERNEL, w) # NoFrame
      BY <1>15, <3>1, <3>2
    <3>3. CASE InPlan(w) /\ w = v
      <4>1. current = KERNEL
        BY <1>1, <1>5, <3>1, <3>3, Layout, PageTable
      <4>2. QED
        BY <1>9, <1>10, <3>1, <3>3, <4>1
    <3>4. QED
      BY <1>1, <1>14, <3>2, <3>3 DEF Backed
  <2>2. ASSUME NEW d \in dirUsed, NEW w \in USER_HEAP_START .. (USER_HEAP_START + USER_HEAP_PAGES - 1)
        PROVE  At(d, w)' # NoFrame \/ (d = current /\ InPlan(w)')
    <3>1. d \in Spaces /\ w \in Half(d)
      BY <1>1, Unfold, SpacesAre
    <3>2. CASE At(d, w) # NoFrame
      BY <1>15, <3>1, <3>2
    <3>3. CASE d = current /\ InPlan(w) /\ w = v
      BY <1>9, <1>10, <3>1, <3>3
    <3>4. QED
      BY <1>1, <1>14, <3>2, <3>3 DEF Backed
  <2>3. QED
    BY <1>1, <1>2, <2>1, <2>2 DEF Backed
<1>17. ASSUME NEW d \in dirUsed PROVE ProgramKept(d)' /\ GrantsMapped(d)'
  <2>1. d \in Dirs /\ d \in Spaces /\ ProgramKept(d) /\ GrantsMapped(d) /\ Half(d) = UserPages
    BY <1>1, Unfold, SpacesAre
  <2>2. ASSUME NEW w \in PROGRAM_START .. (USER_HEAP_START - 1), loaded[d] # <<>> PROVE At(d, w)' = At(d, w)
    <3>1. w \in Half(d)
      BY <2>1, Unfold
    <3>2. ~(d = current /\ w = v)
      <4>1. SUFFICES ASSUME d = current, w = v PROVE FALSE
        OBVIOUS
      <4>2. \E j \in DOMAIN plan : plan[j].virt = -1
        <5>1. 1 \in DOMAIN plan /\ plan[1].virt \in PROGRAM_START .. (USER_HEAP_START - 1)
          BY <1>1, <1>2, <1>4, <2>2, <4>1, TailPlan
        <5>2. QED
          BY <1>1, <5>1 DEF Planned
      <4>3. loaded[current] = <<>>
        BY <1>1, <4>2 DEF Planned, InPlan
      <4>4. QED
        BY <2>2, <4>1, <4>3
    <3>3. QED
      BY <1>10, <2>1, <3>1, <3>2
  <2>3. ProgramKept(d)'
    BY <1>1, <1>2, <2>1, <2>2, KeepProgram
  <2>4. GrantsMapped(d)'
    BY <1>2, <1>15, <2>1, Unfold DEF GrantsMapped
  <2>5. QED
    BY <2>3, <2>4
<1>18. UserMemoryKept' /\ TypeOK'
  BY <1>2, <1>10, <1>11, <1>17, PartsNext
<1>19. QED
  BY <1>10, <1>12, <1>13, <1>16, <1>18 DEF PInv

(***************************************************************************)
(* heap.c: growing and shrinking the kernel's heap leaves the processes    *)
(* and the loops alone.                                                    *)
(***************************************************************************)
LEMMA HeapKeeps ==
    ASSUME PInv, UNCHANGED <<dirUsed, cr3, plan, brk, current, loaded, granted>>, blocks' \in 1 .. MaxHeapBlocks,
           FrameTypes', Whole', KernelHalfInSync', Owned',
           \A d \in dirUsed : \A w \in UserPages : At(d, w)' = At(d, w),
           \A w \in HEAP_START .. (HEAP_START + blocks' - 1) : At(KERNEL, w)' # NoFrame \/ InPlan(w)
    PROVE  PInv'
<1>1. Scalars /\ dirUsed \subseteq Dirs /\ Planned /\ Backed /\ CurrentLoaded
  BY Unfold DEF PInv
<1>2. Scalars'
  BY <1>1 DEF Scalars, Spaces
<1>3. CurrentLoaded' /\ Planned'
  BY <1>1 DEF CurrentLoaded, Planned, InPlan, IsHome
<1>4. Backed'
  <2>1. \A d \in dirUsed : \A v \in USER_HEAP_START .. (USER_HEAP_START + USER_HEAP_PAGES - 1) :
            At(d, v)' # NoFrame \/ (d = current /\ InPlan(v))
    BY <1>1, Unfold DEF Backed
  <2>2. \A v : InPlan(v)' <=> InPlan(v)
    BY DEF InPlan
  <2>3. QED
    BY <1>1, <2>1, <2>2 DEF Backed
<1>5. ASSUME NEW d \in dirUsed PROVE ProgramKept(d)' /\ GrantsMapped(d)'
  <2>1. d \in Dirs /\ ProgramKept(d) /\ GrantsMapped(d) /\ granted[d] \subseteq UserPages
    BY Unfold
  <2>2. \A w \in PROGRAM_START .. (USER_HEAP_START - 1) : At(d, w)' = At(d, w)
    BY Unfold
  <2>3. ProgramKept(d)'
    BY <1>1, <2>1, <2>2, KeepProgram
  <2>4. GrantsMapped(d)'
    BY <2>1 DEF GrantsMapped
  <2>5. QED
    BY <2>3, <2>4
<1>6. UserMemoryKept' /\ TypeOK'
  BY <1>2, <1>5, PartsNext
<1>7. QED
  BY <1>3, <1>4, <1>6 DEF PInv

(***************************************************************************)
(* heap_expand() keeps the invariant.                                      *)
(***************************************************************************)
LEMMA ExpandKeeps ==
    ASSUME PInv, heap_expand
    PROVE  PInv'
<1>1. Scalars /\ dirUsed \subseteq Dirs /\ Backed
  BY Unfold DEF PInv
<1>2. /\ blocks \in Nat /\ blocks >= 1 /\ blocks < MaxHeapBlocks /\ MaxHeapBlocks \in Nat
      /\ HEAP_START \in Nat /\ KERNEL_START \in Nat
  BY <1>1, LayoutAssumption DEF Scalars, heap_expand
<1> DEFINE f == pmm_alloc_pageframe(used)
<1>3. /\ Runs /\ f # 0 /\ mem_map_page(HEAP_START + blocks, f, Taken(used, f)) /\ blocks' = blocks + 1
      /\ UNCHANGED <<dirUsed, cr3, plan, brk, current, loaded, granted>>
  BY DEF heap_expand, ghosts
<1>4. f \in Allocatable \ used
  BY <1>3, Alloc
<1> HIDE DEF f
<1>5. f \in Nat /\ f # NoFrame
  BY <1>4, Memory DEF NoFrame
<1>6. PICK v \in KernelPages : v = HEAP_START + blocks
  <2>1. HEAP_START + blocks \in HEAP_START .. (HEAP_START + MaxHeapBlocks - 1)
    BY <1>2
  <2>2. QED
    BY <2>1, Layout
<1>7. KERNEL \in Spaces /\ v \in Half(KERNEL) /\ KERNEL = IF v >= KERNEL_START THEN KERNEL ELSE cr3
  BY <1>2, <1>6 DEF Spaces, Half, KernelPages
<1>8. /\ FrameTypes' /\ Whole' /\ KernelHalfInSync' /\ Owned'
      /\ \A e \in Spaces : \A w \in Half(e) : At(e, w)' = IF e = KERNEL /\ w = v THEN f ELSE At(e, w)
  BY <1>3, <1>4, <1>5, <1>6, <1>7, MapKeeps
<1>9. \A d \in dirUsed : \A w \in UserPages : At(d, w)' = At(d, w)
  BY <1>1, <1>8, Unfold, SpacesAre
<1>10. ASSUME NEW w \in HEAP_START .. (HEAP_START + blocks' - 1) PROVE At(KERNEL, w)' # NoFrame \/ InPlan(w)
  <2>1. w = v \/ w \in HEAP_START .. (HEAP_START + blocks - 1)
    BY <1>2, <1>3, <1>6
  <2>2. w \in Half(KERNEL)
    BY <1>6, <2>1, Unfold DEF Half
  <2>3. CASE w = v
    BY <1>5, <1>7, <1>8, <2>3
  <2>4. CASE w \in HEAP_START .. (HEAP_START + blocks - 1)
    <3>1. At(KERNEL, w) # NoFrame \/ InPlan(w)
      BY <1>1, <2>4 DEF Backed
    <3>2. At(KERNEL, w)' \in {f, At(KERNEL, w)}
      BY <1>7, <1>8, <2>2
    <3>3. QED
      BY <1>5, <3>1, <3>2
  <2>5. QED
    BY <2>1, <2>3, <2>4
<1>11. blocks' \in 1 .. MaxHeapBlocks
  BY <1>2, <1>3
<1>12. QED
  BY <1>3, <1>8, <1>9, <1>10, <1>11, HeapKeeps

(***************************************************************************)
(* heap_contract() keeps the invariant: the last block of the heap is      *)
(* mapped, so mem_unmap_page() does not return early.                      *)
(***************************************************************************)
LEMMA ContractKeeps ==
    ASSUME PInv, heap_contract
    PROVE  PInv'
<1>1. /\ Scalars /\ dirUsed \subseteq Dirs /\ Planned /\ Backed /\ Owned
      /\ TypeOK /\ Whole /\ KernelHalfInSync /\ TablesApart /\ plan \in Seq(Item)
  BY Unfold DEF PInv, Owned, Scalars
<1>2. /\ blocks \in Nat /\ blocks > 1 /\ blocks <= MaxHeapBlocks /\ MaxHeapBlocks \in Nat /\ HEAP_START \in Nat
  BY <1>1, LayoutAssumption DEF Scalars, heap_contract
<1>3. /\ Runs /\ BetweenLoops /\ mem_unmap_page(HEAP_START + blocks - 1) /\ blocks' = blocks - 1
      /\ UNCHANGED <<dirUsed, plan, brk, current, loaded, granted>>
  BY DEF heap_contract, ghosts
<1>4. HEAP_START + blocks - 1 \in HEAP_START .. (HEAP_START + blocks - 1)
  BY <1>2
<1>5. PICK v \in KernelPages : v = HEAP_START + blocks - 1
  BY <1>4, Unfold
<1>6. KERNEL \in Spaces /\ v \in Half(KERNEL)
  BY DEF Spaces, Half
<1>7. ~InPlan(v)
  <2>1. SUFFICES ASSUME NEW i \in DOMAIN plan, plan[i].virt = v PROVE FALSE
    BY DEF InPlan
  <2>2. plan # <<>>
    BY <2>1
  <2>3. 1 \in DOMAIN plan /\ plan[1].virt = -1
    <3>1. Head(plan).virt = -1
      BY <1>3, <2>2 DEF BetweenLoops
    <3>2. Len(plan) \in Nat \ {0} /\ DOMAIN plan = 1 .. Len(plan) /\ Head(plan) = plan[1]
      BY <1>1, <2>2, EmptySeq, LenProperties, HeadTailProperties
    <3>3. QED
      BY <3>1, <3>2
  <2>4. KERNEL_START \in Nat /\ v >= KERNEL_START /\ v \in Int
    BY LayoutAssumption DEF KernelPages
  <2>5. -1 \notin KernelPages
    BY <2>4 DEF KernelPages
  <2>6. current # KERNEL
    BY <1>1, <2>3, <2>5 DEF Planned
  <2>7. v \in UserPages \/ v = -1
    BY <1>1, <2>1, <2>6 DEF Planned
  <2>8. QED
    BY <2>4, <2>7 DEF UserPages
<1>8. At(KERNEL, v) # NoFrame
  BY <1>1, <1>4, <1>5, <1>7 DEF Backed
<1>9. mem_unmap_page(v)
  BY <1>3, <1>5
<1>10. /\ dir' \in Directories /\ tab' \in PageTables /\ used' \in SUBSET Allocatable
       /\ Whole' /\ KernelHalfInSync' /\ cr3' = cr3
       /\ Table(KERNEL, v \div ENTRIES) \notin {NoFrame, 0}
       /\ \E t : /\ Sets(KERNEL, v, NoFrame, t)
                 /\ \/ t = Table(KERNEL, v \div ENTRIES) /\ used' = used
                    \/ t = NoFrame /\ used' = used \ {Table(KERNEL, v \div ENTRIES)}
  BY <1>1, <1>3, <1>8, <1>9, UnmapEffect
<1>11. PICK t : /\ Sets(KERNEL, v, NoFrame, t)
                /\ \/ t = Table(KERNEL, v \div ENTRIES) /\ used' = used
                   \/ t = NoFrame /\ used' = used \ {Table(KERNEL, v \div ENTRIES)}
  BY <1>10
<1>12. Owned'
  BY <1>1, <1>3, <1>10, <1>11, UnmapOwned
<1>13. \A e \in Spaces : \A w \in Half(e) : At(e, w)' = IF e = KERNEL /\ w = v THEN NoFrame ELSE At(e, w)
  BY <1>11 DEF Sets
<1>14. \A d \in dirUsed : \A w \in UserPages : At(d, w)' = At(d, w)
  BY <1>1, <1>13, Unfold, SpacesAre
<1>15. ASSUME NEW w \in HEAP_START .. (HEAP_START + blocks' - 1) PROVE At(KERNEL, w)' # NoFrame \/ InPlan(w)
  <2>1. w # v /\ w \in HEAP_START .. (HEAP_START + blocks - 1)
    BY <1>2, <1>3, <1>5
  <2>2. w \in Half(KERNEL)
    BY <2>1, Unfold DEF Half
  <2>3. At(KERNEL, w)' = At(KERNEL, w)
    BY <1>6, <1>13, <2>1, <2>2
  <2>4. QED
    BY <1>1, <2>1, <2>3 DEF Backed
<1>16. blocks' \in 1 .. MaxHeapBlocks
  BY <1>2, <1>3
<1>17. FrameTypes'
  BY <1>10 DEF FrameTypes
<1>18. QED
  BY <1>3, <1>10, <1>12, <1>14, <1>15, <1>16, <1>17, HeapKeeps

(***************************************************************************)
(* createUserProcess() keeps the invariant: the directory it takes had     *)
(* nothing loaded or granted, and its heap is in the plan.                 *)
(***************************************************************************)
LEMMA CreateKeeps ==
    ASSUME PInv, NEW size \in ProgramSizes \cup {NoFile}, createUserProcess(size)
    PROVE  PInv'
<1>1. /\ Scalars /\ dirUsed \subseteq Dirs /\ Backed /\ Owned /\ TypeOK /\ Whole /\ KernelHalfInSync
      /\ FrameTypes
  BY Unfold, Parts DEF PInv
<1>2. PICK d \in Dirs : mem_alloc_page_dir(d) /\ cr3' = d /\ current' = d
  BY DEF createUserProcess
<1>3. /\ plan = <<>> /\ UNCHANGED <<used, tab, blocks, brk, loaded, granted>>
      /\ plan' = mapMemoryForProgramm(size) \o (IF size = NoFile THEN <<>> ELSE <<Copy(size)>>) \o createUserThread
  BY DEF createUserProcess
<1>4. d \notin dirUsed /\ dirUsed' = dirUsed \cup {d} /\ d # KERNEL
  BY <1>1, <1>2, SpacesAre DEF mem_alloc_page_dir
<1>5. /\ dir' \in Directories /\ Whole' /\ KernelHalfInSync' /\ Owned'
      /\ \A w \in UserPages : At(d, w)' = NoFrame
      /\ \A e \in Spaces : \A w \in Half(e) : At(e, w)' = At(e, w)
  BY <1>1, <1>2, <1>3, AllocDir
<1>6. MakesProcess(plan')
  BY <1>3, ProcessPlan
<1>7. loaded[d] = <<>> /\ granted[d] = {}
  BY <1>1, <1>4 DEF Backed
<1>8. FrameTypes'
  BY <1>1, <1>3, <1>5 DEF FrameTypes
<1>9. plan' \in Seq(ProcessItems) /\ plan' \in Seq(Item)
  <2>1. plan' \in Seq(ProcessItems) /\ ProcessItems \subseteq Item
    BY <1>6, ItemsApart DEF MakesProcess
  <2>2. QED
    BY <2>1, SeqDef
<1>10. Scalars'
  BY <1>1, <1>2, <1>3, <1>4, <1>9 DEF Scalars, Spaces
<1>11. CurrentLoaded'
  BY <1>2 DEF CurrentLoaded
<1>12. Planned'
  <2>1. \A i \in DOMAIN plan' : plan'[i] \in ProcessItems
    BY <1>9, LenProperties, ElementOfSeq
  <2>2. \A i \in DOMAIN plan' :
            \/ plan'[i].virt \in UserPages /\ plan'[i].frame = NoFrame
            \/ /\ plan'[i].virt = -1 /\ plan'[i].frame \in Nat
               /\ PROGRAM_START + plan'[i].frame <= KERNEL_START
    BY <2>1 DEF ProcessItems, UserItems
  <2>3. loaded'[current'] = <<>>
    BY <1>2, <1>3, <1>7
  <2>4. QED
    BY <1>2, <1>4, <1>6, <2>2, <2>3 DEF Planned, MakesProcess
<1>13. \A w : ~InPlan(w)
  BY <1>3 DEF InPlan
<1>14. Backed'
  <2>1. \A v \in HEAP_START .. (HEAP_START + blocks - 1) : At(KERNEL, v)' # NoFrame
    <3>1. \A v \in HEAP_START .. (HEAP_START + blocks - 1) : At(KERNEL, v) # NoFrame /\ v \in Half(KERNEL)
      BY <1>1, <1>13, Unfold DEF Backed, Half
    <3>2. KERNEL \in Spaces
      BY DEF Spaces
    <3>3. QED
      BY <1>5, <3>1, <3>2
  <2>2. ASSUME NEW e \in dirUsed, NEW v \in USER_HEAP_START .. (USER_HEAP_START + USER_HEAP_PAGES - 1)
        PROVE  At(e, v)' # NoFrame
    <3>1. At(e, v) # NoFrame /\ e \in Spaces /\ v \in Half(e)
      BY <1>1, <1>13, Unfold, SpacesAre DEF Backed
    <3>2. QED
      BY <1>5, <3>1
  <2>3. \A v \in USER_HEAP_START .. (USER_HEAP_START + USER_HEAP_PAGES - 1) : InPlan(v)'
    BY <1>6 DEF MakesProcess, InPlan
  <2>4. \A e \in Dirs \ dirUsed' : loaded'[e] = <<>> /\ granted'[e] = {}
    BY <1>1, <1>3, <1>4 DEF Backed
  <2>5. QED
    BY <1>2, <1>3, <1>4, <2>1, <2>2, <2>3, <2>4 DEF Backed
<1>15. ASSUME NEW e \in dirUsed' PROVE ProgramKept(e)' /\ GrantsMapped(e)'
  <2>1. CASE e = d
    BY <1>3, <1>7, <2>1 DEF ProgramKept, GrantsMapped
  <2>2. CASE e # d
    <3>1. e \in dirUsed /\ e \in Dirs /\ e \in Spaces /\ ProgramKept(e) /\ GrantsMapped(e)
      BY <1>4, <2>2, Unfold
    <3>2. \A w \in UserPages : At(e, w)' = At(e, w)
      BY <1>1, <1>5, <3>1, SpacesAre
    <3>3. ProgramKept(e)'
      BY <1>1, <1>3, <3>1, <3>2, Unfold, KeepProgram
    <3>4. GrantsMapped(e)'
      BY <1>3, <3>1, <3>2, Unfold DEF GrantsMapped
    <3>5. QED
      BY <3>3, <3>4
  <2>3. QED
    BY <2>1, <2>2
<1>16. UserMemoryKept' /\ TypeOK'
  BY <1>8, <1>10, <1>15, PartsNext
<1>17. QED
  BY <1>5, <1>11, <1>12, <1>14, <1>16 DEF PInv

(***************************************************************************)
(* mem_free_page_dir() keeps the invariant.                                *)
(***************************************************************************)
LEMMA FreeKeeps ==
    ASSUME PInv, NEW d \in Dirs, mem_free_page_dir(d)
    PROVE  PInv'
<1>1. /\ Scalars /\ dirUsed \subseteq Dirs /\ Backed /\ Owned /\ TypeOK /\ Whole /\ KernelHalfInSync /\ CurrentLoaded
  BY Unfold DEF PInv
<1>2. /\ plan = <<>> /\ d \in dirUsed /\ d # current /\ dirUsed' = dirUsed \ {d}
      /\ loaded' = [loaded EXCEPT ![d] = <<>>] /\ granted' = [granted EXCEPT ![d] = {}]
      /\ UNCHANGED <<cr3, plan, blocks, brk, current>>
  BY DEF mem_free_page_dir
<1>3. /\ dir' \in Directories /\ tab' \in PageTables /\ used' \in SUBSET Allocatable
      /\ Whole' /\ KernelHalfInSync' /\ Owned'
      /\ \A e \in Spaces : e # d => \A w \in Half(e) : At(e, w)' = At(e, w)
  BY <1>1, FreeDir
<1>4. FrameTypes'
  BY <1>3 DEF FrameTypes
<1>5. /\ \A e \in Dirs : loaded'[e] = IF e = d THEN <<>> ELSE loaded[e]
      /\ \A e \in Dirs : granted'[e] = IF e = d THEN {} ELSE granted[e]
  BY <1>1, <1>2 DEF Scalars
<1>6. Scalars'
  <2>1. <<>> \in Seq(Int)
    BY EmptySeq
  <2>2. loaded' \in [Dirs -> Seq(Int)]
    BY <1>1, <1>2, <2>1 DEF Scalars
  <2>3. granted' \in [Dirs -> SUBSET (USER_HEAP_START .. (USER_HEAP_START + USER_HEAP_PAGES - 1))]
    BY <1>1, <1>2 DEF Scalars
  <2>4. QED
    BY <1>1, <1>2, <2>2, <2>3 DEF Scalars, Spaces
<1>7. CurrentLoaded'
  BY <1>1, <1>2 DEF CurrentLoaded
<1>8. DOMAIN plan = {} /\ plan' = plan
  BY <1>2
<1>9. Planned'
  BY <1>8 DEF Planned, InPlan
<1>10. \A w : ~InPlan(w)
  BY <1>8 DEF InPlan
<1>11. KERNEL # d
  BY <1>1, SpacesAre
<1>12. Backed'
  <2>1. \A v \in HEAP_START .. (HEAP_START + blocks - 1) : At(KERNEL, v)' # NoFrame
    <3>1. \A v \in HEAP_START .. (HEAP_START + blocks - 1) : At(KERNEL, v) # NoFrame /\ v \in Half(KERNEL)
      BY <1>1, <1>10, Unfold DEF Backed, Half
    <3>2. KERNEL \in Spaces
      BY DEF Spaces
    <3>3. QED
      BY <1>3, <1>11, <3>1, <3>2
  <2>2. ASSUME NEW e \in dirUsed', NEW v \in USER_HEAP_START .. (USER_HEAP_START + USER_HEAP_PAGES - 1)
        PROVE  At(e, v)' # NoFrame
    <3>1. At(e, v) # NoFrame /\ e \in Spaces /\ v \in Half(e) /\ e # d
      BY <1>1, <1>2, <1>10, Unfold, SpacesAre DEF Backed
    <3>2. QED
      BY <1>3, <3>1
  <2>3. \A e \in Dirs \ dirUsed' : loaded'[e] = <<>> /\ granted'[e] = {}
    BY <1>1, <1>2, <1>5 DEF Backed
  <2>4. QED
    BY <1>2, <2>1, <2>2, <2>3 DEF Backed
<1>13. ASSUME NEW e \in dirUsed' PROVE ProgramKept(e)' /\ GrantsMapped(e)'
  <2>1. e \in dirUsed /\ e # d /\ e \in Dirs /\ e \in Spaces /\ ProgramKept(e) /\ GrantsMapped(e)
    BY <1>2, Unfold
  <2>2. \A w \in UserPages : At(e, w)' = At(e, w)
    BY <1>1, <1>3, <2>1, SpacesAre
  <2>3. ProgramKept(e)'
    BY <1>1, <1>5, <2>1, <2>2, Unfold, KeepProgram
  <2>4. GrantsMapped(e)'
    BY <1>5, <2>1, <2>2, Unfold DEF GrantsMapped
  <2>5. QED
    BY <2>3, <2>4
<1>14. UserMemoryKept' /\ TypeOK'
  BY <1>4, <1>6, <1>13, PartsNext
<1>15. QED
  BY <1>3, <1>7, <1>9, <1>12, <1>14 DEF PInv

(***************************************************************************)
(* Steps that leave the page tables alone keep what is said of them.       *)
(***************************************************************************)
LEMMA SameMemory ==
    ASSUME PInv, UNCHANGED <<used, dir, tab, dirUsed, blocks>>
    PROVE  /\ FrameTypes' /\ Whole' /\ KernelHalfInSync' /\ Owned'
           /\ \A d, v : At(d, v)' = At(d, v)
<1>1. FrameTypes /\ Whole /\ KernelHalfInSync /\ Owned
  BY Parts DEF PInv
<1>2. \A d, v : At(d, v)' = At(d, v)
  BY DEF At, mem_get_phys_from_virt
<1>3. \A d, pd : Table(d, pd)' = Table(d, pd)
  BY DEF Table
<1>4. Spaces' = Spaces
  BY DEF Spaces
<1>5. Owned'
  BY <1>1, <1>2, <1>3, <1>4, FewerOwned
<1>6. FrameTypes' /\ Whole' /\ KernelHalfInSync'
  BY <1>1, <1>3 DEF FrameTypes, Whole, KernelHalfInSync
<1>7. QED
  BY <1>2, <1>5, <1>6

(***************************************************************************)
(* switchTask(), and a process without a directory, keep the invariant.    *)
(***************************************************************************)
LEMMA SwitchKeeps ==
    ASSUME PInv, plan = <<>>, UNCHANGED <<used, dir, tab, dirUsed, plan, blocks, brk, loaded, granted>>,
           current' \in Spaces, cr3' = current' \/ cr3' = NoDir
    PROVE  PInv'
<1>1. Scalars /\ dirUsed \subseteq Dirs /\ Backed
  BY Unfold DEF PInv
<1>2. /\ FrameTypes' /\ Whole' /\ KernelHalfInSync' /\ Owned'
      /\ \A d, v : At(d, v)' = At(d, v)
  BY SameMemory
<1>3. Spaces \subseteq Dirs \cup {KERNEL}
  BY <1>1, SpacesAre
<1>4. Scalars'
  BY <1>1, <1>3 DEF Scalars, Spaces
<1>5. CurrentLoaded'
  BY DEF CurrentLoaded
<1>6. DOMAIN plan = {}
  OBVIOUS
<1>7. Planned'
  BY <1>6 DEF Planned, InPlan
<1>8. \A w : ~InPlan(w)
  BY <1>6 DEF InPlan
<1>9. Backed'
  BY <1>1, <1>2, <1>8 DEF Backed
<1>10. \A d \in dirUsed : ProgramKept(d)' /\ GrantsMapped(d)'
  <2>1. \A d \in dirUsed : ProgramKept(d) /\ GrantsMapped(d)
    BY Unfold
  <2>2. QED
    BY <1>2, <2>1 DEF ProgramKept, GrantsMapped
<1>11. UserMemoryKept' /\ TypeOK'
  BY <1>2, <1>4, <1>10, PartsNext
<1>12. QED
  BY <1>2, <1>5, <1>7, <1>9, <1>11 DEF PInv

(***************************************************************************)
(* copyProgramToAddress() keeps the invariant: it records where the        *)
(* program's pages are, and no page of a program is left in the plan.      *)
(***************************************************************************)
LEMMA CopyKeeps ==
    ASSUME PInv, copyProgramToAddress
    PROVE  PInv'
<1>1. /\ Scalars /\ dirUsed \subseteq Dirs /\ Planned /\ Backed /\ CurrentLoaded /\ TypeOK /\ Whole
      /\ plan \in Seq(Item) /\ current \in Spaces
  BY Unfold DEF PInv, Scalars
<1>2. /\ Runs /\ plan # <<>> /\ Head(plan).virt = -1 /\ plan' = Tail(plan)
      /\ UNCHANGED <<used, dir, tab, dirUsed, cr3, blocks, brk, current, granted>>
  BY DEF copyProgramToAddress
<1>3. cr3 = current
  BY <1>1, <1>2 DEF CurrentLoaded, Runs
<1>4. 1 \in DOMAIN plan /\ plan[1].virt = -1 /\ Head(plan) = plan[1]
  BY <1>1, <1>2, TailPlan
<1>5. KERNEL_START \in Nat /\ PROGRAM_START \in Nat /\ PAGES \in Nat /\ KERNEL_START <= PAGES
  BY LayoutAssumption, Layout
<1>6. -1 \notin KernelPages /\ -1 \notin UserPages
  BY <1>5 DEF KernelPages, UserPages
<1>7. current # KERNEL /\ plan[1].frame \in Nat /\ PROGRAM_START + plan[1].frame <= KERNEL_START
  BY <1>1, <1>4, <1>6 DEF Planned
<1>8. current \in dirUsed /\ current \in Dirs
  BY <1>1, <1>7 DEF Spaces
<1>9. PICK n \in 0 .. plan[1].frame : loaded' = [loaded EXCEPT ![current] =
            [i \in 1 .. n |-> At(current, PROGRAM_START + i - 1)]]
  BY <1>3, <1>4 DEF copyProgramToAddress, At
<1> DEFINE L == [i \in 1 .. n |-> At(current, PROGRAM_START + i - 1)]
<1>10. \A i \in 1 .. n : At(current, PROGRAM_START + i - 1) \in Int
  <2>1. \A i \in 1 .. n : PROGRAM_START + i - 1 \in 0 .. (PAGES - 1)
    BY <1>5, <1>7, <1>9
  <2>2. \A v \in 0 .. (PAGES - 1) : At(current, v) \in Nat \cup {NoFrame}
    BY <1>1, <1>8, AtTable
  <2>3. QED
    BY <2>1, <2>2 DEF NoFrame
<1>11. n \in Nat /\ L \in Seq(Int) /\ Len(L) = n /\ DOMAIN L = 1 .. n
  <2>1. n \in Nat
    BY <1>7, <1>9
  <2>2. L \in [1 .. n -> Int]
    BY <1>10
  <2>3. L \in Seq(Int)
    BY <2>1, <2>2, SeqDef
  <2>4. DOMAIN L = 1 .. n
    OBVIOUS
  <2> HIDE DEF L
  <2>5. QED
    BY <2>1, <2>3, <2>4, LenProperties
<1>12. loaded'[current] = L /\ \A d \in Dirs : d # current => loaded'[d] = loaded[d]
  BY <1>1, <1>8, <1>9 DEF Scalars
<1>13. \A i \in 1 .. n : L[i] = At(current, PROGRAM_START + i - 1)
  OBVIOUS
<1>14. loaded' \in [Dirs -> Seq(Int)]
  BY <1>1, <1>9, <1>11 DEF Scalars
<1> HIDE DEF L
<1>15. /\ FrameTypes' /\ Whole' /\ KernelHalfInSync' /\ Owned'
       /\ \A d, v : At(d, v)' = At(d, v)
  BY <1>2, SameMemory
<1>16. Scalars'
  BY <1>1, <1>2, <1>14, TailPlan DEF Scalars, Spaces
<1>17. CurrentLoaded'
  BY <1>1, <1>2 DEF CurrentLoaded
<1>18. Planned'
  BY <1>1, <1>2, <1>4, PlannedTail
<1>19. \A v : InPlan(v) => v = -1 \/ InPlan(v)'
  BY <1>1, <1>2, <1>4, TailPlan
<1>20. Backed'
  <2>1. \A v \in HEAP_START .. (HEAP_START + blocks - 1) : v # -1
    BY <1>6, Unfold
  <2>2. \A v \in USER_HEAP_START .. (USER_HEAP_START + USER_HEAP_PAGES - 1) : v # -1
    BY <1>6, Unfold
  <2>3. \A v \in HEAP_START .. (HEAP_START + blocks - 1) : At(KERNEL, v)' # NoFrame \/ InPlan(v)'
    BY <1>1, <1>15, <1>19, <2>1 DEF Backed
  <2>4. \A d \in dirUsed : \A v \in USER_HEAP_START .. (USER_HEAP_START + USER_HEAP_PAGES - 1) :
            At(d, v)' # NoFrame \/ (d = current /\ InPlan(v)')
    BY <1>1, <1>15, <1>19, <2>2 DEF Backed
  <2>5. \A d \in Dirs \ dirUsed : loaded'[d] = <<>> /\ granted[d] = {}
    BY <1>1, <1>8, <1>12 DEF Backed
  <2>6. QED
    BY <1>2, <2>3, <2>4, <2>5 DEF Backed
<1>21. ASSUME NEW d \in dirUsed PROVE ProgramKept(d)' /\ GrantsMapped(d)'
  <2>1. d \in Dirs /\ ProgramKept(d) /\ GrantsMapped(d)
    BY Unfold
  <2>2. ProgramKept(d)'
    <3>1. CASE d = current
      BY <1>11, <1>12, <1>13, <1>15, <3>1 DEF ProgramKept
    <3>2. CASE d # current
      BY <1>1, <1>12, <1>15, <2>1, <3>2, KeepProgram
    <3>3. QED
      BY <3>1, <3>2
  <2>3. GrantsMapped(d)'
    BY <1>2, <1>15, <2>1 DEF GrantsMapped
  <2>4. QED
    BY <2>2, <2>3
<1>22. UserMemoryKept' /\ TypeOK'
  BY <1>2, <1>15, <1>16, <1>21, PartsNext
<1>23. QED
  BY <1>15, <1>17, <1>18, <1>20, <1>22 DEF PInv

(***************************************************************************)
(* sbrk() keeps the invariant: all of the heap is mapped when no loop is   *)
(* left.                                                                   *)
(***************************************************************************)
LEMMA SbrkKeeps ==
    ASSUME PInv, NEW n \in {-1, 1}, syscall_4_sbrk(n)
    PROVE  PInv'
<1>1. /\ Scalars /\ dirUsed \subseteq Dirs /\ Backed /\ CurrentLoaded /\ current \in Spaces
  BY Unfold DEF PInv
<1> DEFINE heap == USER_HEAP_START .. (USER_HEAP_START + USER_HEAP_PAGES - 1)
           G == (granted[current] \cup (brk .. (brk + n - 1))) \ ((brk + n) .. (brk - 1))
<1>2. /\ plan = <<>> /\ current # KERNEL
      /\ n < 0 => brk - 1 \in granted[current]
      /\ brk + n <= USER_HEAP_START + USER_HEAP_PAGES
      /\ brk' = brk + n /\ granted' = [granted EXCEPT ![current] = G]
      /\ UNCHANGED <<used, dir, tab, dirUsed, cr3, plan, blocks, current, loaded>>
  BY DEF syscall_4_sbrk
<1>3. current \in dirUsed /\ current \in Dirs
  BY <1>1, <1>2 DEF Spaces
<1>4. USER_HEAP_START \in Nat /\ USER_HEAP_PAGES \in Nat /\ brk \in Nat /\ brk >= USER_HEAP_START
  BY <1>1, LayoutAssumption DEF Scalars
<1>5. granted[current] \subseteq heap
  BY <1>1, <1>3 DEF Scalars
<1>6. brk' \in USER_HEAP_START .. (USER_HEAP_START + USER_HEAP_PAGES) /\ G \subseteq heap
  <2>1. CASE n = 1
    BY <1>2, <1>4, <1>5, <2>1
  <2>2. CASE n = -1
    <3>1. brk - 1 \in heap
      BY <1>2, <1>5, <2>2
    <3>2. brk .. (brk + n - 1) = {}
      BY <1>4, <2>2
    <3>3. brk' = brk - 1 /\ brk - 1 \in USER_HEAP_START .. (USER_HEAP_START + USER_HEAP_PAGES)
      BY <1>2, <1>4, <2>2, <3>1
    <3>4. QED
      BY <1>5, <3>2, <3>3
  <2>3. QED
    BY <2>1, <2>2
<1> HIDE DEF G
<1>7. /\ granted' \in [Dirs -> SUBSET heap]
      /\ \A d \in Dirs : granted'[d] = IF d = current THEN G ELSE granted[d]
  BY <1>1, <1>2, <1>3, <1>6 DEF Scalars
<1>8. /\ FrameTypes' /\ Whole' /\ KernelHalfInSync' /\ Owned'
      /\ \A d, v : At(d, v)' = At(d, v)
  BY <1>2, SameMemory
<1>9. Scalars'
  BY <1>1, <1>2, <1>6, <1>7 DEF Scalars, Spaces
<1>10. CurrentLoaded'
  BY <1>1, <1>2 DEF CurrentLoaded
<1>11. DOMAIN plan = {} /\ plan' = plan
  BY <1>2
<1>12. Planned'
  BY <1>11 DEF Planned, InPlan
<1>13. \A w : ~InPlan(w)
  BY <1>11 DEF InPlan
<1>14. \A d \in dirUsed : \A v \in heap : At(d, v) # NoFrame
  BY <1>1, <1>13 DEF Backed
<1>15. Backed'
  <2>1. \A v \in HEAP_START .. (HEAP_START + blocks - 1) : At(KERNEL, v)' # NoFrame
    BY <1>1, <1>8, <1>13 DEF Backed
  <2>2. \A d \in dirUsed : \A v \in heap : At(d, v)' # NoFrame
    BY <1>8, <1>14
  <2>3. \A d \in Dirs \ dirUsed : loaded[d] = <<>> /\ granted'[d] = {}
    BY <1>1, <1>3, <1>7 DEF Backed
  <2>4. QED
    BY <1>2, <2>1, <2>2, <2>3 DEF Backed
<1>16. ASSUME NEW d \in dirUsed PROVE ProgramKept(d)' /\ GrantsMapped(d)'
  <2>1. d \in Dirs /\ ProgramKept(d) /\ GrantsMapped(d)
    BY Unfold
  <2>2. ProgramKept(d)'
    BY <1>1, <1>2, <1>8, <2>1, KeepProgram
  <2>3. granted'[d] \subseteq heap
    BY <1>7, <2>1
  <2>4. GrantsMapped(d)'
    BY <1>8, <1>14, <2>3 DEF GrantsMapped
  <2>5. QED
    BY <2>2, <2>4
<1>17. UserMemoryKept' /\ TypeOK'
  BY <1>2, <1>8, <1>9, <1>16, PartsNext
<1>18. QED
  BY <1>8, <1>10, <1>12, <1>15, <1>17 DEF PInv

(***************************************************************************)
(* Nothing is mapped when the boot begins.                                 *)
(***************************************************************************)
LEMMA InitPInv ==
    ASSUME Init
    PROVE  PInv
<1>1. /\ used = {} /\ dirUsed = {} /\ cr3 = KERNEL /\ current = KERNEL /\ plan = kernel_main
      /\ dir = [d \in Dirs \cup {KERNEL} |-> [pd \in Pds |-> NoEntry]]
      /\ tab = [f \in Allocatable \cup {0} |-> EmptyTable]
      /\ blocks = INITIAL_BLOCKS /\ brk = USER_HEAP_START
      /\ loaded = [d \in Dirs |-> <<>>] /\ granted = [d \in Dirs |-> {}]
  BY DEF Init
<1>2. Spaces = {KERNEL} /\ dirUsed \subseteq Dirs
  BY <1>1 DEF Spaces
<1>3. FrameTypes
  <2>1. NoEntry \in [frame : Allocatable \cup {0, NoFrame}, owner : BOOLEAN]
    BY DEF NoEntry, Entry
  <2>2. EmptyTable \in [0 .. (ENTRIES - 1) -> Nat \cup {NoFrame}]
    BY DEF EmptyTable
  <2>3. QED
    BY <1>1, <2>1, <2>2 DEF FrameTypes, Directories, PageTables
<1>4. Scalars
  <2>1. kernel_main \in Seq(Item)
    <3>1. kernel_main \in Seq(KernelItems) /\ KernelItems \subseteq Item
      BY BootPlan DEF KernelItems
    <3>2. QED
      BY <3>1, SeqDef
  <2>2. <<>> \in Seq(Int)
    BY EmptySeq
  <2>3. /\ INITIAL_BLOCKS \in 1 .. MaxHeapBlocks
        /\ USER_HEAP_START \in USER_HEAP_START .. (USER_HEAP_START + USER_HEAP_PAGES)
    BY LayoutAssumption
  <2>4. QED
    BY <1>1, <1>2, <2>1, <2>2, <2>3 DEF Scalars
<1>5. UserMemoryKept /\ KernelHalfInSync /\ CurrentLoaded
  BY <1>1 DEF UserMemoryKept, KernelHalfInSync, CurrentLoaded
<1>6. TypeOK
  BY <1>3, <1>4, Parts
<1>7. \A d \in Dirs \cup {KERNEL} : \A pd \in Pds : dir[d][pd] = NoEntry /\ Table(d, pd) = NoFrame
  BY <1>1, Entries DEF Table
<1>8. Whole
  BY <1>7 DEF Whole
<1>9. \A d \in Spaces : \A pd \in HalfPds(d) : Table(d, pd) = NoFrame
  BY <1>2, <1>7, SpacesAre
<1>10. \A d \in Spaces : \A v \in Half(d) : At(d, v) = NoFrame
  <2>1. SUFFICES ASSUME NEW d \in Spaces, NEW v \in Half(d) PROVE At(d, v) = NoFrame
    OBVIOUS
  <2>2. v \in 0 .. (PAGES - 1) /\ v \div ENTRIES \in HalfPds(d) /\ d \in Dirs \cup {KERNEL}
    BY <1>2, Halves
  <2>3. QED
    BY <1>6, <1>8, <1>9, <2>2, AtTable
<1>11. Owned
  BY <1>9, <1>10 DEF Owned, TablesApart, PagesApart, TablesNotPages, TablesMarked, PagesMarked
<1>12. \A i \in DOMAIN plan : plan[i] \in KernelItems
  BY <1>1, BootPlan, LenProperties, ElementOfSeq
<1>13. \A v \in KernelPages : v # -1 /\ v \notin PROGRAM_START .. (USER_HEAP_START - 1)
  <2>1. /\ PROGRAM_START \in Nat /\ USER_HEAP_START \in Nat /\ USER_HEAP_PAGES \in Nat /\ KERNEL_START \in Nat
        /\ USER_STACK_TOP \in Nat /\ STACK_PAGES \in Nat /\ USER_STACK_TOP <= KERNEL_START
        /\ USER_HEAP_START + USER_HEAP_PAGES <= USER_STACK_TOP - STACK_PAGES
    BY LayoutAssumption
  <2>2. QED
    BY <2>1 DEF KernelPages
<1>14. \A i \in DOMAIN plan :
            /\ plan[i].virt \in KernelPages /\ (plan[i].frame = NoFrame \/ IsHome(plan[i].virt, plan[i].frame))
            /\ plan[i].virt # -1 /\ plan[i].virt \notin PROGRAM_START .. (USER_HEAP_START - 1)
  BY <1>12, <1>13 DEF KernelItems
<1>15. Planned
  BY <1>1, <1>14 DEF Planned, InPlan
<1>16. Backed
  BY <1>1, BootPlan DEF Backed, InPlan
<1>17. QED
  BY <1>5, <1>6, <1>8, <1>11, <1>15, <1>16 DEF PInv

(***************************************************************************)
(* Every step keeps the invariant.                                         *)
(***************************************************************************)
LEMMA NextPInv ==
    ASSUME PInv, [Next]_vars
    PROVE  PInv'
<1>1. ASSUME NEW size \in ProgramSizes \cup {NoFile}, createUserProcess(size) PROVE PInv'
  BY <1>1, CreateKeeps
<1>2. ASSUME createUserProcess_NoDirectory PROVE PInv'
  <2>1. current' \in Spaces
    BY <1>2, Unfold DEF createUserProcess_NoDirectory, ghosts
  <2>2. QED
    BY <1>2, <2>1, SwitchKeeps DEF createUserProcess_NoDirectory, ghosts
<1>3. ASSUME NEW d \in dirUsed \cup {KERNEL}, switchTask(d) PROVE PInv'
  BY <1>3, SwitchKeeps DEF switchTask, Spaces
<1>4. ASSUME UNCHANGED vars PROVE PInv'
  <2>1. /\ Scalars /\ dirUsed \subseteq Dirs /\ Planned /\ Backed /\ CurrentLoaded
    BY Unfold DEF PInv
  <2>2. UNCHANGED <<used, dir, tab, dirUsed, cr3, plan, blocks, brk, current, loaded, granted>>
    BY <1>4 DEF vars
  <2>3. /\ FrameTypes' /\ Whole' /\ KernelHalfInSync' /\ Owned'
        /\ \A d, v : At(d, v)' = At(d, v)
    BY <2>2, SameMemory
  <2>4. \A w \in HEAP_START .. (HEAP_START + blocks - 1) : At(KERNEL, w)' # NoFrame \/ InPlan(w)
    BY <2>1, <2>3 DEF Backed
  <2>5. blocks' \in 1 .. MaxHeapBlocks
    BY <2>1, <2>2 DEF Scalars
  <2>6. QED
    BY <2>2, <2>3, <2>4, <2>5, HeapKeeps
<1>5. QED
  BY <1>1, <1>2, <1>3, <1>4, MapNextKeeps, CopyKeeps, FreeKeeps, SbrkKeeps, ExpandKeeps, ContractKeeps DEF Next

(***************************************************************************)
(* PInv holds of every state the kernel can reach, for any sizes of memory *)
(* and address space: whatever is mapped, unmapped and freed, in whatever  *)
(* order.                                                                  *)
(***************************************************************************)
THEOREM PagingInv == Spec => []PInv
<1>1. Init => PInv
  BY InitPInv
<1>2. PInv /\ [Next]_vars => PInv'
  BY NextPInv
<1>3. QED
  BY <1>1, <1>2, PTL DEF Spec

(***************************************************************************)
(* The invariant, as FramesInUse puts it.                                  *)
(***************************************************************************)
LEMMA UsesOwned ==
    ASSUME PInv
    PROVE  FramesOwned
<1>1. TypeOK /\ Whole /\ Owned /\ dirUsed \subseteq Dirs /\ used \subseteq Allocatable
  BY DEF PInv, TypeOK
<1>2. ASSUME NEW p \in TablePlaces
      PROVE  /\ p = <<p[1], p[2]>> /\ p[1] \in Spaces /\ p[2] \in HalfPds(p[1])
             /\ dir[p[1]][p[2]].frame = Table(p[1], p[2]) /\ Table(p[1], p[2]) # NoFrame
  <2>1. /\ p = <<p[1], p[2]>> /\ p[1] \in Spaces /\ p[2] \in Pds
        /\ p[2] * ENTRIES \in Half(p[1]) /\ dir[p[1]][p[2]] # NoEntry
    BY DEF TablePlaces, Spaces
  <2>2. p[2] \in HalfPds(p[1])
    BY <2>1, FirstPage DEF Half, HalfPds
  <2>3. p[1] \in Dirs \cup {KERNEL}
    BY <1>1, <2>1, SpacesAre
  <2>4. Table(p[1], p[2]) # NoFrame
    BY <1>1, <2>1, <2>3 DEF Whole
  <2>5. QED
    BY <2>1, <2>2, <2>4 DEF Table
<1>3. ASSUME NEW p \in PagePlaces
      PROVE  /\ p = <<p[1], p[2]>> /\ p[1] \in Spaces /\ p[2] \in Half(p[1])
             /\ mem_get_phys_from_virt(p[1], p[2]) = At(p[1], p[2]) /\ At(p[1], p[2]) # NoFrame
  BY DEF PagePlaces, Spaces, At
<1>4. ASSUME NEW u \in FramesInUse
      PROVE  \/ \E p \in TablePlaces : u = <<"table", p, Table(p[1], p[2])>>
             \/ \E p \in PagePlaces : u = <<"page", p, At(p[1], p[2])>>
  BY DEF FramesInUse, Table, At
<1>5. ASSUME NEW u \in FramesInUse, NEW w \in FramesInUse, u # w, u[3] = w[3] PROVE u[3] = 0
  <2>1. SUFFICES ASSUME u[3] # 0 PROVE FALSE
    OBVIOUS
  <2>2. ASSUME NEW p \in TablePlaces, NEW q \in TablePlaces,
               u = <<"table", p, Table(p[1], p[2])>>, w = <<"table", q, Table(q[1], q[2])>>
        PROVE  FALSE
    <3>1. Table(p[1], p[2]) = Table(q[1], q[2]) /\ Table(p[1], p[2]) \notin {NoFrame, 0}
      BY <1>2, <1>5, <2>1, <2>2
    <3>2. p[1] = q[1] /\ p[2] = q[2]
      BY <1>1, <1>2, <3>1 DEF Owned, TablesApart
    <3>3. p = q
      BY <1>2, <3>2
    <3>4. QED
      BY <1>5, <2>2, <3>3
  <2>3. ASSUME NEW p \in PagePlaces, NEW q \in PagePlaces,
               u = <<"page", p, At(p[1], p[2])>>, w = <<"page", q, At(q[1], q[2])>>
        PROVE  FALSE
    <3>1. At(p[1], p[2]) = At(q[1], q[2]) /\ At(p[1], p[2]) \notin {NoFrame, 0}
      BY <1>3, <1>5, <2>1, <2>3
    <3>2. p[1] = q[1] /\ p[2] = q[2]
      BY <1>1, <1>3, <3>1 DEF Owned, PagesApart
    <3>3. p = q
      BY <1>3, <3>2
    <3>4. QED
      BY <1>5, <2>3, <3>3
  <2>4. ASSUME NEW p \in TablePlaces, NEW q \in PagePlaces,
               Table(p[1], p[2]) = At(q[1], q[2]), Table(p[1], p[2]) # 0
        PROVE  FALSE
    BY <1>1, <1>2, <1>3, <2>4 DEF Owned, TablesNotPages
  <2>5. ASSUME NEW p \in TablePlaces, NEW q \in PagePlaces,
               u = <<"table", p, Table(p[1], p[2])>>, w = <<"page", q, At(q[1], q[2])>>
        PROVE  FALSE
    BY <1>5, <2>1, <2>4, <2>5
  <2>6. ASSUME NEW p \in TablePlaces, NEW q \in PagePlaces,
               w = <<"table", p, Table(p[1], p[2])>>, u = <<"page", q, At(q[1], q[2])>>
        PROVE  FALSE
    BY <1>5, <2>1, <2>4, <2>6
  <2>7. QED
    BY <1>4, <2>2, <2>3, <2>5, <2>6
<1>6. \A f \in used : f \in MIN_INDEX .. (MAX_INDEX - 1)
  BY <1>1, Memory
<1>7. ASSUME NEW u \in FramesInUse
      PROVE  \/ u[3] \in used /\ u[3] \in MIN_INDEX .. (MAX_INDEX - 1)
             \/ u[3] \in {0, LAPIC_FRAME} \cup {RAMDISK_FRAMES[i] : i \in DOMAIN RAMDISK_FRAMES}
  <2>1. ASSUME NEW p \in TablePlaces, u = <<"table", p, Table(p[1], p[2])>> PROVE u[3] \in used \cup {0}
    BY <1>1, <1>2, <2>1 DEF Owned, TablesMarked
  <2>2. ASSUME NEW p \in PagePlaces, u = <<"page", p, At(p[1], p[2])>>
        PROVE  u[3] \in used \cup {0} \/ IsHome(p[2], u[3])
    BY <1>1, <1>3, <2>2 DEF Owned, PagesMarked
  <2>3. u[3] \in used \cup {0} \/ \E v : IsHome(v, u[3])
    BY <1>4, <2>1, <2>2
  <2>4. QED
    BY <1>6, <2>3 DEF IsHome
<1>8. QED
  BY <1>1, <1>5, <1>7 DEF FramesOwned, FramesNotShared, FramesMarked

(***************************************************************************)
(* pmm.c, paging.c: no frame is a page of two processes, of a process and  *)
(* the kernel, or a page and a page table, except frame 0 once memory is   *)
(* used up; and what is in use is marked in the bitmap.                    *)
(***************************************************************************)
THEOREM NoFrameShared == Spec => []FramesOwned
<1>1. PInv => FramesOwned
  BY UsesOwned
<1>2. QED
  BY <1>1, PagingInv, PTL

(***************************************************************************)
(* paging.c, sync_page_dirs(): every process sees the kernel's half as     *)
(* kernel_directory has it, and owns none of it.                           *)
(***************************************************************************)
THEOREM KernelHalfShared == Spec => []KernelHalfInSync
<1>1. PInv => KernelHalfInSync
  BY DEF PInv
<1>2. QED
  BY <1>1, PagingInv, PTL

(***************************************************************************)
(* paging.c, mem_unmap_page(): its early returns are never taken, so that  *)
(* the process that runs keeps its directory in CR3.                       *)
(***************************************************************************)
THEOREM NoEarlyReturn == Spec => []CurrentLoaded
<1>1. PInv => CurrentLoaded
  BY DEF PInv
<1>2. QED
  BY <1>1, PagingInv, PTL

(***************************************************************************)
(* process.c, syscalls.c: a program stays in the frames it was copied to,  *)
(* and the memory sbrk() gives out is mapped.                              *)
(***************************************************************************)
THEOREM ProgramsStay == Spec => []UserMemoryKept
<1>1. PInv => UserMemoryKept
  BY DEF PInv
<1>2. QED
  BY <1>1, PagingInv, PTL
=============================================================================
