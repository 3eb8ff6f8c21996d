----------------------------- MODULE Allocator -----------------------------
(***************************************************************************)
(* What a memory allocator promises its clients: an allocation is a run of *)
(* blocks that overlaps no allocation still in use, and freeing one        *)
(* allocation leaves the others alone.  Heap.tla implements this.          *)
(***************************************************************************)
EXTENDS Naturals

VARIABLE inUse          \* the allocations in use: records [start, len]

Span(r) == r.start .. (r.start + r.len - 1)

AllocatorInit == inUse = {}

Allocate(r) ==
    /\ r.len > 0
    /\ \A q \in inUse : Span(q) \cap Span(r) = {}
    /\ inUse' = inUse \cup {r}

Free(r) ==
    /\ r \in inUse
    /\ inUse' = inUse \ {r}

AllocatorNext ==
    \/ \E r \in inUse' : Allocate(r)
    \/ \E r \in inUse : Free(r)

AllocatorSpec == AllocatorInit /\ [][AllocatorNext]_inUse
=============================================================================
