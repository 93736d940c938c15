-------------------------------- MODULE Heap --------------------------------
(***************************************************************************)
(* The kernel heap of kernel/memory/heap.c: a list of blocks in address    *)
(* order, first fit, split on allocation, merge on release.                *)
(*                                                                         *)
(* A heap is a function from the addresses of its block headers (bytes     *)
(* from heap_start) to the headers.  The operators take a heap and return  *)
(* the heap the C function leaves, so that a caller which makes several    *)
(* calls in one step composes them.  Nothing here is interrupted: no       *)
(* interrupt handler allocates, and no function of the heap yields.        *)
(***************************************************************************)
EXTENDS Integers

CONSTANTS HeapSize,    \* HEAP_SIZE, in bytes
          HeaderSize,  \* sizeof(heap_block_t)
          Alignment    \* HEAP_ALIGNMENT

ASSUME HeapAssumption ==
  /\ Alignment \in Nat \ {0}
  /\ HeaderSize \in Nat \ {0}
  /\ HeapSize \in Nat
  /\ HeaderSize % Alignment = 0
  /\ HeapSize % Alignment = 0
  /\ HeapSize > HeaderSize

NULL == -1

Header == [size : Nat, free : BOOLEAN, next : Nat \cup {NULL}, prev : Nat \cup {NULL}]

\* heap_init: one free block.
HeapInit == [a \in {0} |-> [size |-> HeapSize - HeaderSize, free |-> TRUE,
                            next |-> NULL, prev |-> NULL]]

AlignUp(n) == ((n + Alignment - 1) \div Alignment) * Alignment

\* The address after the payload of block a.
EndOf(h, a) == a + HeaderSize + h[a].size

SetPrevNothing(h, a, prev) == h

\* new_block->next->prev = new_block, and the like: nothing if there is no next.
SetPrev(h, a, prev) == IF a = NULL THEN h ELSE [h EXCEPT ![a].prev = prev]

\* split_block: block a keeps n bytes, the rest becomes a free block of its own
\* if it can hold a header and one aligned payload.
Split(h, a, n) ==
  LET new  == a + HeaderSize + n
      rest == [size |-> h[a].size - n - HeaderSize, free |-> TRUE,
               next |-> h[a].next, prev |-> a]
      g    == SetPrev(h, h[a].next, new)
  IN  IF h[a].size < n + HeaderSize + Alignment
        THEN h
        ELSE [x \in DOMAIN h \cup {new} |->
                IF x = new THEN rest
                ELSE IF x = a THEN [size |-> n, free |-> TRUE, next |-> new, prev |-> h[a].prev]
                ELSE g[x]]

\* The blocks kmalloc would take; the list is in address order (see Chained),
\* so the first of them is the one with the lowest address.
Fits(h, n) == {a \in DOMAIN h : h[a].free /\ h[a].size >= n}
FirstFit(h, n) == CHOOSE a \in Fits(h, n) : \A b \in Fits(h, n) : a <= b

\* kmalloc: the block taken (NULL if none fits) and the heap it leaves.
Kmalloc(h, bytes) ==
  LET n     == AlignUp(bytes)
      block == FirstFit(h, n)
  IN  IF bytes = 0 \/ Fits(h, n) = {}
        THEN [ptr |-> NULL, heap |-> h]
        ELSE [ptr |-> block, heap |-> [Split(h, block, n) EXCEPT ![block].free = FALSE]]

\* merge_with_next
MergeWithNext(h, a) ==
  LET b == h[a].next
      g == SetPrev(h, h[b].next, a)
  IN  IF b = NULL \/ ~ h[a].free \/ ~ h[b].free \/ b # EndOf(h, a)
        THEN h
        ELSE [x \in DOMAIN h \ {b} |->
                IF x = a THEN [size |-> h[a].size + HeaderSize + h[b].size, free |-> TRUE,
                               next |-> h[b].next, prev |-> h[a].prev]
                ELSE g[x]]

\* The blocks kfree takes without a panic.  The header of a block that was
\* merged away still says free.
Allocated(h) == {a \in DOMAIN h : ~ h[a].free}

\* kfree of the payload of block a, NULL allowed: merge forward, then backward.
\* With any other address kfree panics; its callers say so.
Kfree(h, a) ==
  LET freed  == [h EXCEPT ![a].free = TRUE]
      merged == MergeWithNext(freed, a)
      before == merged[a].prev
  IN  IF a \notin Allocated(h) THEN h
      ELSE IF before # NULL /\ merged[before].free
             THEN MergeWithNext(merged, before)
             ELSE merged

-----------------------------------------------------------------------------
HeapTypeOK(h) ==
  /\ 0 \in DOMAIN h
  /\ DOMAIN h \subseteq Nat
  /\ h \in [DOMAIN h -> Header]

\* kmalloc's promise, and why align_up_uintptr changes nothing in split_block.
Aligned(h) == \A a \in DOMAIN h : a % Alignment = 0 /\ h[a].size % Alignment = 0

\* Every block ends where the next one in the list begins, the last one at
\* heap_end; prev is the inverse of next and the list starts at heap_start.
Chained(h) ==
  \A a \in DOMAIN h :
    /\ IF h[a].next = NULL
         THEN EndOf(h, a) = HeapSize
         ELSE /\ h[a].next = EndOf(h, a)
              /\ h[a].next \in DOMAIN h
              /\ h[h[a].next].prev = a
    /\ IF h[a].prev = NULL
         THEN a = 0
         ELSE h[a].prev \in DOMAIN h /\ h[h[a].prev].next = a

\* No two blocks share a byte.
Disjoint(h) == \A a, b \in DOMAIN h : a < b => EndOf(h, a) <= b

\* Two neighbours are never both free: what can be merged has been.
Coalesced(h) ==
  \A a \in DOMAIN h : h[a].next # NULL => ~ (h[a].free /\ h[h[a].next].free)
=============================================================================
