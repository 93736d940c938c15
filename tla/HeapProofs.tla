----------------------------- MODULE HeapProofs -----------------------------
(***************************************************************************)
(* The heap stays well formed under every sequence of log operations, for  *)
(* every heap, header and entry size, message length and number of slots,  *)
(* and the logs on it neither leak a block nor use one twice.              *)
(*                                                                         *)
(* The first half is about the blocks: how they tile the heap, how kmalloc *)
(* cuts and kfree merges, and that a merge undoes a cut.  The second half  *)
(* names the list L[t] of every slot: LogOk says that the memory holds     *)
(* exactly these lists and that the blocks in use are their entries and    *)
(* messages.                                                               *)
(***************************************************************************)
EXTENDS TaskLog, SequenceTheorems, WellFoundedInduction, TLAPS

Tiled(h) == HeapTypeOK(h) /\ Chained(h) /\ Disjoint(h)

\* x and its successor are not both free.
PairOK(h, x) == h[x].next # NULL => ~ (h[x].free /\ h[h[x].next].free)

HeapInv(h) == Tiled(h) /\ \A x \in DOMAIN h : PairOK(h, x)

USE HeapAssumption

LEMMA Units ==
  /\ HeapSize \in Nat /\ HeaderSize \in Nat /\ Alignment \in Nat
  /\ HeaderSize > 0 /\ Alignment > 0
  OBVIOUS

\* What the fields of one header are.
LEMMA Fields ==
  ASSUME NEW h, HeapTypeOK(h), NEW x \in DOMAIN h
  PROVE  /\ x \in Nat
         /\ h[x] \in Header
         /\ h[x].size \in Nat
         /\ h[x].free \in BOOLEAN
         /\ h[x].next \in Nat \cup {NULL}
         /\ h[x].prev \in Nat \cup {NULL}
  BY DEF HeapTypeOK, Header

\* The successor is a block behind this one, and has no other predecessor.
LEMMA Successor ==
  ASSUME NEW h, Tiled(h), NEW x \in DOMAIN h, h[x].next # NULL
  PROVE  /\ h[x].next \in DOMAIN h
         /\ h[x].next = x + HeaderSize + h[x].size
         /\ h[x].next > x
         /\ h[h[x].next].prev = x
         /\ \A y \in DOMAIN h : h[y].next = h[x].next => y = x
<1>1. h[x].next \in DOMAIN h /\ h[x].next = x + HeaderSize + h[x].size /\ h[h[x].next].prev = x
  BY DEF Tiled, Chained, EndOf
<1>2. h[x].next > x
  BY <1>1, Fields, Units DEF Tiled
<1>3. ASSUME NEW y \in DOMAIN h, h[y].next = h[x].next PROVE y = x
  BY <1>1, <1>3 DEF Tiled, Chained
<1> QED
  BY <1>1, <1>2, <1>3

-----------------------------------------------------------------------------
\* A change of free alone does not disturb the tiling.
LEMMA FreeKeepsTiling ==
  ASSUME NEW h, Tiled(h), NEW a \in DOMAIN h, NEW f \in BOOLEAN
  PROVE  LET g == [h EXCEPT ![a].free = f]
         IN  /\ Tiled(g)
             /\ DOMAIN g = DOMAIN h
             /\ g[a].free = f
             /\ \A x \in DOMAIN h : /\ g[x].size = h[x].size
                                    /\ g[x].next = h[x].next
                                    /\ g[x].prev = h[x].prev
                                    /\ x # a => g[x].free = h[x].free
<1> DEFINE g == [h EXCEPT ![a].free = f]
<1>1. DOMAIN g = DOMAIN h
  OBVIOUS
<1>2. \A x \in DOMAIN h : x # a => g[x] = h[x]
  OBVIOUS
<1>3. h \in [DOMAIN h -> Header]
  BY DEF Tiled, HeapTypeOK
<1>4. g[a] = [h[a] EXCEPT !.free = f]
  BY <1>3
<1>5. h[a] \in Header
  BY Fields DEF Tiled
<1>6. /\ g[a] \in Header /\ g[a].size = h[a].size /\ g[a].free = f
      /\ g[a].next = h[a].next /\ g[a].prev = h[a].prev
  BY <1>4, <1>5 DEF Header
<1>7. \A x \in DOMAIN h : /\ g[x].size = h[x].size
                          /\ g[x].next = h[x].next
                          /\ g[x].prev = h[x].prev
  BY <1>2, <1>6
<1> HIDE DEF g
<1>8. HeapTypeOK(g)
  <2>1. \A x \in DOMAIN g : g[x] \in Header
    BY <1>1, <1>2, <1>3, <1>6
  <2>2. g \in [DOMAIN g -> Header]
    <3>1. g = [x \in DOMAIN g |-> g[x]]
      BY DEF g
    <3> QED
      BY <2>1, <3>1
  <2> QED
    BY <1>1, <2>2 DEF Tiled, HeapTypeOK
<1>9. Chained(g)
  BY <1>1, <1>7 DEF Tiled, Chained, EndOf
<1>10. Disjoint(g)
  BY <1>1, <1>7 DEF Tiled, Disjoint, EndOf
<1> QED
  BY <1>1, <1>2, <1>6, <1>7, <1>8, <1>9, <1>10 DEF Tiled, g

-----------------------------------------------------------------------------
\* g is h with a and its successor made one block.
IsMerge(h, a, g) ==
  LET b == h[a].next
  IN  /\ DOMAIN g = DOMAIN h \ {b}
      /\ \A x \in DOMAIN g : g[x] \in Header
      /\ g = [x \in DOMAIN g |-> g[x]]
      /\ g[a].size = h[a].size + HeaderSize + h[b].size
      /\ g[a].next = h[b].next
      /\ g[a].prev = h[a].prev
      /\ \A x \in DOMAIN g : g[x].free = h[x].free
      /\ \A x \in DOMAIN g \ {a} :
           /\ g[x].size = h[x].size
           /\ g[x].next = h[x].next
           /\ g[x].prev = IF x = h[b].next THEN a ELSE h[x].prev

\* merge_with_next, field by field, when it does merge.
LEMMA MergeFields ==
  ASSUME NEW h, Tiled(h), NEW a \in DOMAIN h,
         h[a].next # NULL, h[a].free, h[h[a].next].free
  PROVE  IsMerge(h, a, MergeWithNext(h, a))
<1> DEFINE b == h[a].next
           c == h[b].next
           k == SetPrev(h, c, a)
           g == MergeWithNext(h, a)
<1>1. /\ b \in DOMAIN h /\ b = EndOf(h, a) /\ a # b /\ b # NULL
      /\ a \in Nat /\ b \in Nat
  BY Successor, Fields DEF Tiled, EndOf
<1>2. g = [x \in DOMAIN h \ {b} |->
             IF x = a THEN [size |-> h[a].size + HeaderSize + h[b].size, free |-> TRUE,
                           next |-> c, prev |-> h[a].prev]
             ELSE k[x]]
  BY <1>1 DEF MergeWithNext
<1>3. DOMAIN g = DOMAIN h \ {b} /\ g = [x \in DOMAIN g |-> g[x]]
  BY <1>2
<1>4. g[a] = [size |-> h[a].size + HeaderSize + h[b].size, free |-> TRUE,
              next |-> c, prev |-> h[a].prev]
  BY <1>1, <1>2
<1>5. h[a] \in Header /\ h[b] \in Header /\ h[b].size \in Nat /\ c \in Nat \cup {NULL}
  BY <1>1, Fields DEF Tiled
<1>6. /\ g[a].size = h[a].size + HeaderSize + h[b].size
      /\ g[a].next = c /\ g[a].prev = h[a].prev /\ g[a].free = h[a].free
      /\ g[a] \in Header
  <2>1. h[a].size + HeaderSize + h[b].size \in Nat
    BY <1>5, Units DEF Header
  <2>2. h[a].prev \in Nat \cup {NULL} /\ h[a].free = TRUE
    BY <1>5 DEF Header
  <2> QED
    BY <1>4, <1>5, <2>1, <2>2 DEF Header
<1>7. ASSUME NEW x \in DOMAIN g, x # a
      PROVE  /\ g[x].size = h[x].size /\ g[x].next = h[x].next
             /\ g[x].prev = IF x = c THEN a ELSE h[x].prev
             /\ g[x].free = h[x].free
             /\ g[x] \in Header
  <2>1. x \in DOMAIN h /\ x # b /\ h[x] \in Header /\ x \in Nat /\ x # NULL
    BY <1>3, Fields DEF Tiled, NULL
  <2>2. g[x] = k[x]
    BY <1>2, <1>3, <1>7
  <2>3. CASE x = c
    <3>1. k[x] = [h[x] EXCEPT !.prev = a]
      BY <2>1, <2>3 DEF SetPrev
    <3> QED
      BY <3>1, <2>1, <2>2, <2>3, <1>1 DEF Header
  <2>4. CASE x # c
    <3>1. k[x] = h[x]
      BY <2>1, <2>4 DEF SetPrev
    <3> QED
      BY <3>1, <2>1, <2>2, <2>4
  <2> QED
    BY <2>3, <2>4
<1>8. a \in DOMAIN g
  BY <1>1, <1>3
<1> HIDE DEF g, c, k, b
<1>9. \A x \in DOMAIN g : g[x] \in Header
  BY <1>6, <1>7
<1>10. \A x \in DOMAIN g : g[x].free = h[x].free
  BY <1>6, <1>7
<1> QED
  BY <1>3, <1>6, <1>7, <1>9, <1>10 DEF g, b, c, IsMerge

\* Merging keeps the tiling.
LEMMA MergeKeepsTiling ==
  ASSUME NEW h, Tiled(h), NEW a \in DOMAIN h,
         h[a].next # NULL, h[a].free, h[h[a].next].free
  PROVE  Tiled(MergeWithNext(h, a))
<1> DEFINE b == h[a].next
           g == MergeWithNext(h, a)
<1>0. IsMerge(h, a, g)
  BY MergeFields
<1> HIDE DEF g
<1>1. /\ DOMAIN g = DOMAIN h \ {b}
      /\ \A x \in DOMAIN g : g[x] \in Header
      /\ g = [x \in DOMAIN g |-> g[x]]
      /\ g[a].size = h[a].size + HeaderSize + h[b].size
      /\ g[a].next = h[b].next
      /\ g[a].prev = h[a].prev
      /\ \A x \in DOMAIN g \ {a} :
           /\ g[x].size = h[x].size
           /\ g[x].next = h[x].next
           /\ g[x].prev = IF x = h[b].next THEN a ELSE h[x].prev
  BY <1>0 DEF IsMerge
<1>2. /\ b \in DOMAIN h /\ b = a + HeaderSize + h[a].size /\ b > a /\ h[b].prev = a
      /\ \A y \in DOMAIN h : h[y].next = b => y = a
  BY Successor
<1>3. /\ \A x \in DOMAIN h : /\ x \in Nat /\ h[x].size \in Nat
                             /\ h[x].next \in Nat \cup {NULL}
                             /\ h[x].prev \in Nat \cup {NULL}
      /\ 0 \in DOMAIN h
  BY Fields DEF Tiled, HeapTypeOK
<1>4. h[b].next # NULL => /\ h[b].next \in DOMAIN h
                          /\ h[b].next = b + HeaderSize + h[b].size
                          /\ h[b].next > b
                          /\ \A y \in DOMAIN h : h[y].next = h[b].next => y = b
  BY <1>2, Successor
<1> HIDE DEF b
<1>5. HeapTypeOK(g)
  <2>1. g \in [DOMAIN g -> Header]
    BY <1>1
  <2>2. 0 \in DOMAIN g /\ DOMAIN g \subseteq Nat
    BY <1>1, <1>2, <1>3
  <2> QED
    BY <2>1, <2>2 DEF HeapTypeOK
<1>6. Chained(g)
  <2>1. ASSUME NEW x \in DOMAIN g
        PROVE  IF g[x].next = NULL THEN EndOf(g, x) = HeapSize
               ELSE /\ g[x].next = EndOf(g, x)
                    /\ g[x].next \in DOMAIN g
                    /\ g[g[x].next].prev = x
    <3>1. CASE x = a
      <4>1. EndOf(g, a) = EndOf(h, b)
        BY <1>1, <1>2, <1>3, Units DEF EndOf
      <4>2. h[b].next = NULL => EndOf(h, b) = HeapSize
        BY <1>2 DEF Tiled, Chained
      <4>3. h[b].next # NULL => /\ h[b].next = EndOf(h, b)
                                /\ h[b].next \in DOMAIN g \ {a}
        BY <1>1, <1>2, <1>3, <1>4 DEF EndOf
      <4> QED
        BY <3>1, <4>1, <4>2, <4>3, <1>1
    <3>2. CASE x # a
      <4>1. x \in DOMAIN h /\ g[x].next = h[x].next /\ EndOf(g, x) = EndOf(h, x)
        BY <1>1, <3>2 DEF EndOf
      <4>2. CASE h[x].next = NULL
        BY <4>1, <4>2 DEF Tiled, Chained
      <4>3. CASE h[x].next # NULL
        <5>1. /\ h[x].next = EndOf(h, x) /\ h[x].next \in DOMAIN h
              /\ h[h[x].next].prev = x
          BY <4>1, <4>3 DEF Tiled, Chained
        <5>2. h[x].next # b
          BY <1>2, <4>1, <3>2
        <5>3. h[x].next # h[b].next
          BY <1>1, <1>4, <4>1, <4>3
        <5>4. h[x].next = a => g[h[x].next].prev = h[a].prev
          BY <1>1
        <5> QED
          BY <5>1, <5>2, <5>3, <5>4, <4>1, <4>3, <1>1
      <4> QED
        BY <4>2, <4>3
    <3> QED
      BY <3>1, <3>2
  <2>2. ASSUME NEW x \in DOMAIN g
        PROVE  IF g[x].prev = NULL THEN x = 0
               ELSE g[x].prev \in DOMAIN g /\ g[g[x].prev].next = x
    <3>1. CASE x # a /\ x = h[b].next
      BY <1>1, <1>2, <1>3, <3>1 DEF NULL
    <3>2. CASE x = a \/ x # h[b].next
      <4>1. x \in DOMAIN h /\ x # b /\ g[x].prev = h[x].prev
        BY <1>1, <3>2
      <4>2. CASE h[x].prev = NULL
        BY <4>1, <4>2 DEF Tiled, Chained
      <4>3. CASE h[x].prev # NULL
        <5>1. h[x].prev \in DOMAIN h /\ h[h[x].prev].next = x
          BY <4>1, <4>3 DEF Tiled, Chained
        <5>2. h[x].prev # a
          BY <5>1, <4>1 DEF b
        <5>3. x # h[b].next
          BY <1>2, <1>3, <1>4, <3>2 DEF NULL
        <5>4. h[x].prev # b
          BY <5>1, <5>3
        <5> QED
          BY <5>1, <5>2, <5>4, <4>1, <4>3, <1>1
      <4> QED
        BY <4>2, <4>3
    <3> QED
      BY <3>1, <3>2
  <2> QED
    BY <2>1, <2>2 DEF Chained
<1>7. Disjoint(g)
  <2>1. ASSUME NEW x \in DOMAIN g, NEW y \in DOMAIN g, x < y
        PROVE  EndOf(g, x) <= y
    <3>1. x \in DOMAIN h /\ y \in DOMAIN h /\ y # b
      BY <1>1
    <3>2. x + HeaderSize + h[x].size <= y
      BY <2>1, <3>1 DEF Tiled, Disjoint, EndOf
    <3>3. CASE x # a
      BY <3>2, <3>3, <1>1 DEF EndOf
    <3>4. CASE x = a
      <4>1. b < y
        BY <3>1, <3>2, <3>4, <1>2, <1>3
      <4>2. b + HeaderSize + h[b].size <= y
        BY <4>1, <3>1, <1>2 DEF Tiled, Disjoint, EndOf
      <4>3. EndOf(g, a) = b + HeaderSize + h[b].size
        BY <1>1, <1>2, <1>3, Units DEF EndOf
      <4> QED
        BY <4>2, <4>3, <3>4
    <3> QED
      BY <3>3, <3>4
  <2> QED
    BY <2>1 DEF Disjoint
<1> QED
  BY <1>5, <1>6, <1>7 DEF Tiled, g

-----------------------------------------------------------------------------
\* g is h with block a cut after n bytes; the new block is free.
IsSplit(h, a, n, g) ==
  LET new == a + HeaderSize + n
  IN  /\ DOMAIN g = DOMAIN h \cup {new}
      /\ \A x \in DOMAIN g : g[x] \in Header
      /\ g = [x \in DOMAIN g |-> g[x]]
      /\ g[a].size = n
      /\ g[a].next = new
      /\ g[a].prev = h[a].prev
      /\ g[new].size = h[a].size - n - HeaderSize
      /\ g[new].next = h[a].next
      /\ g[new].prev = a
      /\ g[new].free
      /\ \A x \in DOMAIN h : g[x].free = h[x].free
      /\ \A x \in DOMAIN h \ {a} :
           /\ g[x].size = h[x].size
           /\ g[x].next = h[x].next
           /\ g[x].prev = IF x = h[a].next THEN new ELSE h[x].prev

\* The new header lies inside block a.
LEMMA NewIsFresh ==
  ASSUME NEW h, Tiled(h), NEW a \in DOMAIN h, NEW n \in Nat,
         h[a].size >= n + HeaderSize + Alignment
  PROVE  /\ a + HeaderSize + n \in Nat
         /\ a + HeaderSize + n > a
         /\ a + HeaderSize + n \notin DOMAIN h
         /\ h[a].size - n - HeaderSize \in Nat
<1>1. a \in Nat /\ h[a].size \in Nat
  BY Fields DEF Tiled
<1>2. a + HeaderSize + n > a /\ a + HeaderSize + n < EndOf(h, a)
  BY <1>1, Units DEF EndOf
<1>3. a + HeaderSize + n \notin DOMAIN h
  BY <1>1, <1>2, Units DEF Tiled, Disjoint, EndOf
<1> QED
  BY <1>1, <1>2, <1>3, Units

\* split_block, field by field, when it does split.
LEMMA SplitFields ==
  ASSUME NEW h, Tiled(h), NEW a \in DOMAIN h, NEW n \in Nat, h[a].free,
         h[a].size >= n + HeaderSize + Alignment
  PROVE  IsSplit(h, a, n, Split(h, a, n))
<1> DEFINE new == a + HeaderSize + n
           c   == h[a].next
           k   == SetPrev(h, c, new)
           g   == Split(h, a, n)
<1>1. /\ new \in Nat /\ new > a /\ new \notin DOMAIN h
      /\ h[a].size - n - HeaderSize \in Nat
  BY NewIsFresh
<1>2. a \in Nat /\ h[a] \in Header /\ h[a].size \in Nat
      /\ c \in Nat \cup {NULL} /\ h[a].prev \in Nat \cup {NULL} /\ h[a].free = TRUE
  BY Fields DEF Tiled
<1>3. ~ (h[a].size < n + HeaderSize + Alignment)
  BY <1>2, Units
<1>4. g = [x \in DOMAIN h \cup {new} |->
             IF x = new THEN [size |-> h[a].size - n - HeaderSize, free |-> TRUE,
                              next |-> c, prev |-> a]
             ELSE IF x = a THEN [size |-> n, free |-> TRUE, next |-> new, prev |-> h[a].prev]
             ELSE k[x]]
  BY <1>3 DEF Split
<1>5. DOMAIN g = DOMAIN h \cup {new} /\ g = [x \in DOMAIN g |-> g[x]]
  BY <1>4
<1>6. g[new] = [size |-> h[a].size - n - HeaderSize, free |-> TRUE, next |-> c, prev |-> a]
  BY <1>4
<1>7. a # new
  BY <1>1, <1>2
<1>8. g[a] = [size |-> n, free |-> TRUE, next |-> new, prev |-> h[a].prev]
  BY <1>4, <1>7
<1>9. ASSUME NEW x \in DOMAIN h \ {a}
      PROVE  /\ g[x].size = h[x].size /\ g[x].next = h[x].next
             /\ g[x].prev = IF x = c THEN new ELSE h[x].prev
             /\ g[x].free = h[x].free
             /\ g[x] \in Header
  <2>1. x \in DOMAIN h /\ x # new /\ h[x] \in Header /\ x \in Nat /\ x # NULL
    BY <1>1, Fields DEF Tiled, NULL
  <2>2. g[x] = k[x]
    BY <1>4, <2>1
  <2>3. CASE x = c
    <3>1. k[x] = [h[x] EXCEPT !.prev = new]
      BY <2>1, <2>3 DEF SetPrev
    <3> QED
      BY <3>1, <2>1, <2>2, <2>3, <1>1 DEF Header
  <2>4. CASE x # c
    <3>1. k[x] = h[x]
      BY <2>1, <2>4 DEF SetPrev
    <3> QED
      BY <3>1, <2>1, <2>2, <2>4
  <2> QED
    BY <2>3, <2>4
<1> HIDE DEF g, c, k, new
<1>10. /\ g[new].size = h[a].size - n - HeaderSize /\ g[new].free
       /\ g[new].next = c /\ g[new].prev = a /\ g[new] \in Header
  BY <1>1, <1>2, <1>6 DEF Header
<1>11. /\ g[a].size = n /\ g[a].free = h[a].free
       /\ g[a].next = new /\ g[a].prev = h[a].prev /\ g[a] \in Header
  BY <1>1, <1>2, <1>8 DEF Header
<1>12. \A x \in DOMAIN g : g[x] \in Header
  BY <1>5, <1>9, <1>10, <1>11
<1>13. \A x \in DOMAIN h : g[x].free = h[x].free
  BY <1>9, <1>11
<1> QED
  BY <1>5, <1>9, <1>10, <1>11, <1>12, <1>13 DEF g, new, c, IsSplit

LEMMA SplitKeepsTiling ==
  ASSUME NEW h, Tiled(h), NEW a \in DOMAIN h, NEW n \in Nat, h[a].free,
         h[a].size >= n + HeaderSize + Alignment
  PROVE  Tiled(Split(h, a, n))
<1> DEFINE new == a + HeaderSize + n
           c   == h[a].next
           g   == Split(h, a, n)
<1>0. IsSplit(h, a, n, g)
  BY SplitFields
<1> HIDE DEF g
<1>1. /\ DOMAIN g = DOMAIN h \cup {new}
      /\ \A x \in DOMAIN g : g[x] \in Header
      /\ g = [x \in DOMAIN g |-> g[x]]
      /\ g[a].size = n /\ g[a].next = new /\ g[a].prev = h[a].prev
      /\ g[new].size = h[a].size - n - HeaderSize /\ g[new].next = c /\ g[new].prev = a
      /\ \A x \in DOMAIN h \ {a} :
           /\ g[x].size = h[x].size
           /\ g[x].next = h[x].next
           /\ g[x].prev = IF x = c THEN new ELSE h[x].prev
  BY <1>0 DEF IsSplit
<1>2. /\ new \in Nat /\ new > a /\ new \notin DOMAIN h
      /\ h[a].size - n - HeaderSize \in Nat
  BY NewIsFresh
<1>3. /\ \A x \in DOMAIN h : /\ x \in Nat /\ h[x].size \in Nat
                             /\ h[x].next \in Nat \cup {NULL}
                             /\ h[x].prev \in Nat \cup {NULL}
      /\ 0 \in DOMAIN h
  BY Fields DEF Tiled, HeapTypeOK
<1>4. c # NULL => /\ c \in DOMAIN h /\ c = a + HeaderSize + h[a].size /\ c > a
                  /\ \A y \in DOMAIN h : h[y].next = c => y = a
  BY Successor
<1>5. EndOf(g, a) = new /\ EndOf(g, new) = EndOf(h, a)
  BY <1>1, <1>2, <1>3, Units DEF EndOf
<1>6. \A x \in DOMAIN h \ {a} : EndOf(g, x) = EndOf(h, x)
  BY <1>1 DEF EndOf
<1>7. EndOf(h, a) = a + HeaderSize + h[a].size /\ new = a + HeaderSize + n
  BY DEF EndOf
<1> HIDE DEF new, c
<1>8. HeapTypeOK(g)
  <2>1. g \in [DOMAIN g -> Header]
    BY <1>1
  <2>2. 0 \in DOMAIN g /\ DOMAIN g \subseteq Nat
    BY <1>1, <1>2, <1>3
  <2> QED
    BY <2>1, <2>2 DEF HeapTypeOK
<1>9. Chained(g)
  <2>1. ASSUME NEW x \in DOMAIN g
        PROVE  IF g[x].next = NULL THEN EndOf(g, x) = HeapSize
               ELSE /\ g[x].next = EndOf(g, x)
                    /\ g[x].next \in DOMAIN g
                    /\ g[g[x].next].prev = x
    <3>1. CASE x = a
      BY <3>1, <1>1, <1>2, <1>5 DEF NULL
    <3>2. CASE x = new
      <4>1. c = NULL => EndOf(h, a) = HeapSize
        BY DEF Tiled, Chained, c
      <4>2. c # NULL => c = EndOf(h, a) /\ c \in DOMAIN h \ {a}
        BY <1>3, <1>4, <1>7
      <4> QED
        BY <3>2, <4>1, <4>2, <1>1, <1>5
    <3>3. CASE x \in DOMAIN h \ {a}
      <4>1. g[x].next = h[x].next /\ EndOf(g, x) = EndOf(h, x)
        BY <1>1, <1>6, <3>3
      <4>2. CASE h[x].next = NULL
        BY <4>1, <4>2, <3>3 DEF Tiled, Chained
      <4>3. CASE h[x].next # NULL
        <5>1. /\ h[x].next = EndOf(h, x) /\ h[x].next \in DOMAIN h
              /\ h[h[x].next].prev = x
          BY <3>3, <4>3 DEF Tiled, Chained
        <5>2. h[x].next # c
          BY <1>4, <3>3, <4>3
        <5>3. g[h[x].next].prev = h[h[x].next].prev
          BY <1>1, <5>1, <5>2
        <5> QED
          BY <5>1, <5>3, <4>1, <4>3, <1>1
      <4> QED
        BY <4>2, <4>3
    <3> QED
      BY <3>1, <3>2, <3>3, <1>1
  <2>2. ASSUME NEW x \in DOMAIN g
        PROVE  IF g[x].prev = NULL THEN x = 0
               ELSE g[x].prev \in DOMAIN g /\ g[g[x].prev].next = x
    <3>1. CASE x = new
      BY <3>1, <1>1, <1>3 DEF NULL
    <3>2. CASE x \in DOMAIN h \ {a} /\ x = c
      <4>1. g[x].prev = new
        BY <3>2, <1>1
      <4> QED
        BY <3>2, <4>1, <1>1, <1>2 DEF NULL
    <3>3. CASE x \in DOMAIN h /\ (x = a \/ x # c)
      <4>1. g[x].prev = h[x].prev
        BY <1>1, <3>3
      <4>2. CASE h[x].prev = NULL
        BY <4>1, <4>2, <3>3 DEF Tiled, Chained
      <4>3. CASE h[x].prev # NULL
        <5>1. h[x].prev \in DOMAIN h /\ h[h[x].prev].next = x
          BY <3>3, <4>3 DEF Tiled, Chained
        <5>2. x # c
          BY <3>3, <1>3, <1>4 DEF NULL
        <5>3. h[x].prev # a
          BY <5>1, <5>2 DEF c
        <5>4. g[h[x].prev].next = h[h[x].prev].next
          BY <1>1, <5>1, <5>3
        <5> QED
          BY <5>1, <5>4, <4>1, <4>3, <1>1
      <4> QED
        BY <4>2, <4>3
    <3> QED
      BY <3>1, <3>2, <3>3, <1>1
  <2> QED
    BY <2>1, <2>2 DEF Chained
<1>10. Disjoint(g)
  <2>1. ASSUME NEW x \in DOMAIN g, NEW y \in DOMAIN g, x < y
        PROVE  EndOf(g, x) <= y
    <3>1. ASSUME NEW z \in DOMAIN h, a < z PROVE EndOf(h, a) <= z
      BY <3>1 DEF Tiled, Disjoint
    <3>2. CASE x = a
      <4>1. y = new \/ EndOf(h, a) <= y
        BY <2>1, <3>1, <3>2, <1>1
      <4> QED
        BY <4>1, <3>2, <1>2, <1>3, <1>5, <1>7, <1>1, Units
    <3>3. CASE x = new
      <4>1. y \in DOMAIN h /\ a < y
        BY <2>1, <3>3, <1>1, <1>2, <1>3
      <4> QED
        BY <4>1, <3>1, <3>3, <1>5
    <3>4. CASE x \in DOMAIN h \ {a} /\ y \in DOMAIN h
      BY <2>1, <3>4, <1>6 DEF Tiled, Disjoint
    <3>5. CASE x \in DOMAIN h \ {a} /\ y = new
      <4>1. EndOf(h, x) = x + HeaderSize + h[x].size /\ h[x].size \in Nat /\ x \in Nat
        BY <3>5, <1>3 DEF EndOf
      <4>2. ~ (a < x)
        <5>1. a < x => EndOf(h, a) <= x
          BY <3>1, <3>5
        <5>2. new < EndOf(h, a)
          BY <1>2, <1>3, <1>7, Units
        <5>3. x < new
          BY <2>1, <3>5
        <5> QED
          BY <5>1, <5>2, <5>3, <4>1, <1>2, <1>3, <1>7, Units
      <4>3. x < a
        BY <4>1, <4>2, <3>5, <1>3
      <4>4. EndOf(h, x) <= a
        BY <4>3, <3>5 DEF Tiled, Disjoint
      <4> QED
        BY <4>1, <4>4, <3>5, <1>2, <1>3, <1>6, Units
    <3> QED
      BY <3>2, <3>3, <3>4, <3>5, <1>1
  <2> QED
    BY <2>1 DEF Disjoint
<1> QED
  BY <1>8, <1>9, <1>10 DEF Tiled, g

-----------------------------------------------------------------------------
LEMMA AlignUpIsNat ==
  ASSUME NEW n \in Nat
  PROVE  AlignUp(n) \in Nat
<1> DEFINE q == (n + Alignment - 1) \div Alignment
<1>1. q \in Nat
  BY Units
<1> HIDE DEF q
<1>2. q * Alignment \in Nat
  BY <1>1, Units
<1> QED
  BY <1>2 DEF AlignUp, q

\* First fit finds the least address that fits, if any does.
Less == {p \in Nat \X Nat : p[1] < p[2]}

\* A set of numbers that is not empty has a least one.
LEMMA LeastExists ==
  ASSUME NEW S, S \subseteq Nat, S # {}
  PROVE  \E least \in S : \A x \in S : least <= x
<1>1. PICK least \in S : \A x \in S : ~ (<<x, least>> \in Less)
  <2>1. IsWellFoundedOn(Less, Nat)
    BY NatLessThanWellFounded, Zenon DEF OpToRel, Less
  <2> QED
    BY <2>1, WFMin, Zenon
<1>2. ASSUME NEW x \in S PROVE least <= x
  <2>1. <<x, least>> \notin Less /\ x \in Nat /\ least \in Nat
    BY <1>1
  <2> QED
    BY <2>1 DEF Less
<1> QED
  BY <1>2

LEMMA FirstFitFits ==
  ASSUME NEW h, Tiled(h), NEW n \in Nat, Fits(h, n) # {}
  PROVE  FirstFit(h, n) \in Fits(h, n)
<1>1. PICK F : F = Fits(h, n)
  OBVIOUS
<1>2. F \subseteq Nat /\ F # {}
  BY <1>1 DEF Fits, Tiled, HeapTypeOK
<1>3. PICK least \in F : \A b \in F : least <= b
  BY <1>2, LeastExists
<1> QED
  BY <1>1, <1>3 DEF FirstFit

\* Cutting a free block leaves at most that block with a free successor.
LEMMA SplitPairs ==
  ASSUME NEW h, HeapInv(h), NEW n \in Nat, NEW a \in DOMAIN h, h[a].free
  PROVE  LET g == Split(h, a, n)
         IN  Tiled(g) /\ a \in DOMAIN g /\ \A x \in DOMAIN g \ {a} : PairOK(g, x)
<1> DEFINE g   == Split(h, a, n)
           new == a + HeaderSize + n
<1>1. a \in Nat /\ h[a].size \in Nat
  BY Fields DEF HeapInv, Tiled
<1>2. CASE h[a].size < n + HeaderSize + Alignment
  BY <1>2 DEF Split, HeapInv
<1>3. CASE h[a].size >= n + HeaderSize + Alignment
  <2>1. Tiled(g) /\ IsSplit(h, a, n, g)
    BY <1>3, SplitFields, SplitKeepsTiling DEF HeapInv
  <2>2. new \notin DOMAIN h
    BY <1>3, NewIsFresh DEF HeapInv
  <2> HIDE DEF g
  <2>3. /\ DOMAIN g = DOMAIN h \cup {new}
        /\ g[new].next = h[a].next
        /\ \A x \in DOMAIN h : g[x].free = h[x].free
        /\ \A x \in DOMAIN h \ {a} : g[x].next = h[x].next
    BY <2>1 DEF IsSplit
  <2> HIDE DEF new
  <2>4. \A x \in DOMAIN h : h[x].next # NULL => h[x].next \in DOMAIN h
    BY Successor DEF HeapInv
  <2>5. PairOK(g, new)
    <3>1. PairOK(h, a)
      BY DEF HeapInv
    <3> QED
      BY <3>1, <2>3, <2>4 DEF PairOK
  <2>6. ASSUME NEW x \in DOMAIN h \ {a} PROVE PairOK(g, x)
    <3>1. PairOK(h, x)
      BY DEF HeapInv
    <3> QED
      BY <3>1, <2>3, <2>4 DEF PairOK
  <2> QED
    BY <2>1, <2>3, <2>5, <2>6 DEF g
<1> QED
  BY <1>1, <1>2, <1>3, Units

\* kmalloc keeps the heap well formed, whether it finds a block or not.
LEMMA KmallocSound ==
  ASSUME NEW h, HeapInv(h), NEW bytes \in Nat
  PROVE  HeapInv(Kmalloc(h, bytes).heap)
<1> DEFINE n == AlignUp(bytes)
           a == FirstFit(h, n)
           s == Split(h, a, n)
           g == [s EXCEPT ![a].free = FALSE]
<1>1. CASE bytes = 0 \/ Fits(h, n) = {}
  BY <1>1 DEF Kmalloc
<1>2. CASE ~ (bytes = 0 \/ Fits(h, n) = {})
  <2>1. Kmalloc(h, bytes).heap = g
    BY <1>2 DEF Kmalloc
  <2>2. n \in Nat
    BY AlignUpIsNat
  <2> HIDE DEF n
  <2>3. a \in DOMAIN h /\ h[a].free
    <3>1. a \in Fits(h, n)
      BY <1>2, <2>2, FirstFitFits DEF HeapInv
    <3> QED
      BY <3>1 DEF Fits
  <2> HIDE DEF a
  <2>4. Tiled(s) /\ a \in DOMAIN s /\ \A x \in DOMAIN s \ {a} : PairOK(s, x)
    BY <2>2, <2>3, SplitPairs
  <2> HIDE DEF s
  <2>5. /\ Tiled(g) /\ DOMAIN g = DOMAIN s /\ g[a].free = FALSE
        /\ \A x \in DOMAIN s : g[x].next = s[x].next /\ (x # a => g[x].free = s[x].free)
    BY <2>4, FreeKeepsTiling
  <2> HIDE DEF g
  <2>6. ASSUME NEW x \in DOMAIN g PROVE PairOK(g, x)
    <3>1. CASE x = a
      BY <3>1, <2>5 DEF PairOK
    <3>2. CASE x # a
      <4>1. PairOK(s, x)
        BY <2>4, <2>5, <3>2
      <4>2. s[x].next # NULL => s[x].next \in DOMAIN s
        BY <2>4, <2>5, Successor
      <4> QED
        BY <3>2, <4>1, <4>2, <2>5 DEF PairOK
    <3> QED
      BY <3>1, <3>2
  <2> QED
    BY <2>1, <2>5, <2>6 DEF HeapInv
<1> QED
  BY <1>1, <1>2

-----------------------------------------------------------------------------
\* Merging block a mends the pair at a and disturbs no other: if every pair but
\* those at a and c was fine, only the one at c may be left.
LEMMA MergePairs ==
  ASSUME NEW h, Tiled(h), NEW a \in DOMAIN h, h[a].free, NEW c, c # a, h[a].next # NULL => c # h[a].next,
         \A x \in DOMAIN h \ {a, c} : PairOK(h, x)
  PROVE  LET g == MergeWithNext(h, a)
         IN  /\ Tiled(g)
             /\ a \in DOMAIN g
             /\ DOMAIN g \subseteq DOMAIN h
             /\ c \in DOMAIN h => c \in DOMAIN g
             /\ g[a].prev = h[a].prev
             /\ \A x \in DOMAIN g : g[x].free = h[x].free
             /\ \A x \in DOMAIN g \ {c} : PairOK(g, x)
<1> DEFINE g == MergeWithNext(h, a)
           b == h[a].next
<1>1. CASE b = NULL \/ ~ h[b].free
  <2>1. g = h
    BY <1>1 DEF MergeWithNext
  <2>2. PairOK(h, a)
    BY <1>1 DEF PairOK
  <2> QED
    BY <2>1, <2>2
<1>2. CASE b # NULL /\ h[b].free
  <2>1. Tiled(g) /\ IsMerge(h, a, g)
    BY <1>2, MergeFields, MergeKeepsTiling
  <2> HIDE DEF g
  <2>2. /\ DOMAIN g = DOMAIN h \ {b}
        /\ g[a].next = h[b].next
        /\ g[a].prev = h[a].prev
        /\ \A x \in DOMAIN g : g[x].free = h[x].free
        /\ \A x \in DOMAIN g \ {a} : g[x].next = h[x].next
    BY <2>1 DEF IsMerge
  <2>3. /\ b \in DOMAIN h /\ b # a
        /\ \A y \in DOMAIN h : h[y].next = b => y = a
    <3>1. b > a
      BY <1>2, Successor
    <3>2. a \in Nat /\ b \in Nat
      BY <1>2, Fields, Successor DEF Tiled
    <3> QED
      BY <1>2, <3>1, <3>2, Successor
  <2>4. \A x \in DOMAIN h : h[x].next # NULL => h[x].next \in DOMAIN h
    BY Successor
  <2>5. h[b].next # NULL => h[b].next # b
    <3>1. h[b].next # NULL => h[b].next > b
      BY <2>3, Successor
    <3>2. b \in Nat
      BY <2>3, Fields DEF Tiled
    <3> QED
      BY <3>1, <3>2
  <2>6. c # b /\ PairOK(h, b)
    BY <1>2, <2>3
  <2> HIDE DEF b
  <2>7. PairOK(g, a)
    BY <1>2, <2>2, <2>3, <2>4, <2>5, <2>6 DEF PairOK
  <2>8. ASSUME NEW x \in DOMAIN g \ {a, c} PROVE PairOK(g, x)
    <3>1. PairOK(h, x)
      BY <2>2
    <3>2. h[x].next # NULL => h[x].next \in DOMAIN g
      BY <2>2, <2>3, <2>4
    <3> QED
      BY <3>1, <3>2, <2>2 DEF PairOK
  <2> QED
    BY <2>1, <2>2, <2>3, <2>6, <2>7, <2>8 DEF g
<1> QED
  BY <1>1, <1>2

\* kfree keeps the heap well formed, also with NULL.
LEMMA KfreeSound ==
  ASSUME NEW h, HeapInv(h), NEW a
  PROVE  HeapInv(Kfree(h, a))
<1> DEFINE freed  == [h EXCEPT ![a].free = TRUE]
           merged == MergeWithNext(freed, a)
           before == merged[a].prev
<1>1. CASE a \notin Allocated(h)
  BY <1>1 DEF Kfree
<1>2. CASE a \in Allocated(h)
  <2>1. a \in DOMAIN h /\ Tiled(h)
    BY <1>2 DEF Allocated, HeapInv
  <2>2. /\ Tiled(freed) /\ DOMAIN freed = DOMAIN h /\ freed[a].free = TRUE
        /\ \A x \in DOMAIN h : /\ freed[x].next = h[x].next
                               /\ freed[x].prev = h[x].prev
                               /\ x # a => freed[x].free = h[x].free
    BY <2>1, FreeKeepsTiling
  <2> DEFINE p == h[a].prev
  <2>3. /\ p # NULL => p \in DOMAIN h /\ h[p].next = a
        /\ p # a
        /\ h[a].next # NULL => p # h[a].next
    <3>1. p # NULL => p \in DOMAIN h /\ h[p].next = a
      BY <2>1 DEF Tiled, Chained
    <3>2. a \in Nat /\ p \in Nat \cup {NULL} /\ h[a].next \in Nat \cup {NULL}
      BY <2>1, Fields DEF Tiled
    <3>3. p # NULL => p < a
      <4>1. p # NULL => h[p].next > p
        BY <2>1, <3>1, <3>2, Successor DEF NULL
      <4> QED
        BY <3>1, <4>1, <3>2
    <3>4. h[a].next # NULL => h[a].next > a
      BY <2>1, Successor
    <3> QED
      BY <3>1, <3>2, <3>3, <3>4 DEF NULL
  <2>4. ASSUME NEW x \in DOMAIN freed \ {a, p} PROVE PairOK(freed, x)
    <3>1. x \in DOMAIN h /\ PairOK(h, x)
      BY <2>2 DEF HeapInv
    <3>2. h[x].next # NULL => h[x].next \in DOMAIN h /\ h[h[x].next].prev = x
      BY <2>1, <3>1, Successor
    <3>3. h[x].next # a
      BY <2>1, <3>2, Fields DEF Tiled, NULL
    <3> QED
      BY <3>1, <3>2, <3>3, <2>2 DEF PairOK
  <2>5. a \in DOMAIN freed /\ freed[a].next = h[a].next /\ freed[a].prev = p
    BY <2>1, <2>2
  <2> HIDE DEF freed
  <2>6. /\ Tiled(merged)
        /\ DOMAIN merged \subseteq DOMAIN freed
        /\ p \in DOMAIN freed => p \in DOMAIN merged
        /\ merged[a].prev = freed[a].prev
        /\ \A x \in DOMAIN merged \ {p} : PairOK(merged, x)
    <3> HIDE DEF p
    <3>1. /\ Tiled(freed) /\ a \in DOMAIN freed /\ freed[a].free /\ p # a
          /\ freed[a].next # NULL => p # freed[a].next
          /\ \A x \in DOMAIN freed \ {a, p} : PairOK(freed, x)
      BY <2>2, <2>3, <2>4, <2>5
    <3> QED
      BY <3>1, MergePairs
  <2>7. before = p
    BY <2>5, <2>6
  <2>8. p \in DOMAIN h \cup {NULL}
    BY <2>3
  <2>9. Kfree(h, a) = IF before # NULL /\ merged[before].free
                        THEN MergeWithNext(merged, before) ELSE merged
    BY <1>2 DEF Kfree, freed
  <2> HIDE DEF merged, before, p
  <2>10. NULL \notin DOMAIN merged
    BY <2>6 DEF Tiled, HeapTypeOK, NULL
  <2>11. CASE p # NULL /\ merged[p].free
    <3>1. p \in DOMAIN merged /\ \A x \in DOMAIN merged \ {p, NULL} : PairOK(merged, x)
      BY <2>2, <2>6, <2>8, <2>11
    <3> DEFINE g == MergeWithNext(merged, p)
    <3>2. Tiled(g) /\ DOMAIN g \subseteq DOMAIN merged /\ \A x \in DOMAIN g \ {NULL} : PairOK(g, x)
      <4>1. merged[p].next # NULL => NULL # merged[p].next
        OBVIOUS
      <4> QED
        BY <2>6, <2>11, <3>1, <4>1, MergePairs
    <3> QED
      BY <2>7, <2>9, <2>10, <2>11, <3>2 DEF HeapInv
  <2>12. CASE ~ (p # NULL /\ merged[p].free)
    <3>1. \A x \in DOMAIN merged : PairOK(merged, x)
      BY <2>6, <2>10, <2>12 DEF PairOK
    <3> QED
      BY <2>6, <2>7, <2>9, <2>12, <3>1 DEF HeapInv
  <2> QED
    BY <2>11, <2>12
<1> QED
  BY <1>1, <1>2

-----------------------------------------------------------------------------
LEMMA HeapInitSound == HeapInv(HeapInit)
<1> DEFINE r == [size |-> HeapSize - HeaderSize, free |-> TRUE, next |-> NULL, prev |-> NULL]
<1>1. HeapInit = [a \in {0} |-> r]
  BY DEF HeapInit
<1>2. DOMAIN HeapInit = {0} /\ HeapInit[0] = r
  BY <1>1
<1>3. r \in Header
  BY Units DEF Header
<1>4. r.next = NULL /\ r.prev = NULL /\ r.size = HeapSize - HeaderSize
  OBVIOUS
<1>5. HeapTypeOK(HeapInit)
  BY <1>1, <1>2, <1>3 DEF HeapTypeOK
<1>6. Chained(HeapInit)
  BY <1>2, <1>4, Units DEF Chained, EndOf
<1>7. Disjoint(HeapInit)
  BY <1>2 DEF Disjoint
<1> QED
  BY <1>2, <1>4, <1>5, <1>6, <1>7 DEF HeapInv, Tiled, PairOK

\* One step of the logs makes up to four calls of the heap, each on the heap the
\* one before it left.
LEMMA StepKeepsHeap == HeapInv(heap) /\ [LogNext]_logVars => HeapInv(heap')
<1> SUFFICES ASSUME HeapInv(heap), [LogNext]_logVars
             PROVE  HeapInv(heap')
  OBVIOUS
<1>1. ASSUME NEW h, HeapInv(h), NEW a PROVE HeapInv(FreeEntry(h, a))
  BY <1>1, KfreeSound DEF FreeEntry
<1>2. ASSUME NEW t \in Slots, NEW n \in TextLengths, LogAppend(t, n)
      PROVE  HeapInv(heap')
  <2>1. HeapInv(CopyOf(n).heap)
    <3>1. CASE n = NULL
      BY <3>1 DEF CopyOf
    <3>2. CASE n # NULL
      <4>1. n + 1 \in Nat
        BY <3>2, LogAssumption
      <4> QED
        BY <3>2, <4>1, KmallocSound DEF CopyOf
    <3> QED
      BY <3>1, <3>2
  <2>2. HeapInv(EntryFor(CopyOf(n)).heap)
    BY <2>1, KmallocSound, LogAssumption DEF EntryFor
  <2>3. CASE AppendNoText(n) /\ UNCHANGED <<heap, entry, log, panicked>>
    BY <2>3
  <2>4. CASE AppendNoEntry(n)
    BY <2>1, <2>4, KfreeSound DEF AppendNoEntry
  <2>5. CASE AppendEntry(t, n)
    <3>1. \/ heap' = FreeEntry(EntryFor(CopyOf(n)).heap, log[t].head)
          \/ heap' = EntryFor(CopyOf(n)).heap
      BY <2>5 DEF AppendEntry
    <3> QED
      BY <3>1, <2>2, <1>1
  <2> QED
    BY <1>2, <2>3, <2>4, <2>5 DEF LogAppend
<1>3. CASE \E t \in Slots : ClearStart(t)
  BY <1>3 DEF ClearStart
<1>4. CASE ClearNext
  BY <1>1, <1>4 DEF ClearNext
<1>5. CASE ClearEnd
  BY <1>5 DEF ClearEnd
<1>6. CASE UNCHANGED logVars
  BY <1>6 DEF logVars
<1> QED
  BY <1>2, <1>3, <1>4, <1>5, <1>6 DEF LogNext

LEMMA WellFormed == HeapInv(heap) => HeapWellFormed
  BY DEF HeapInv, Tiled, PairOK, HeapWellFormed, Coalesced

\* Whatever is logged, dropped and cleared, in any order and also when the heap
\* is full: the blocks tile the heap, the list links them in both directions and
\* no two neighbours are both free (heap.c: split_block, merge_with_next, kfree).
THEOREM HeapStaysWellFormed == LogSpec => []HeapWellFormed
<1>1. LogInit => HeapInv(heap)
  BY HeapInitSound DEF LogInit
<1>2. HeapInv(heap) /\ [LogNext]_logVars => HeapInv(heap)'
  BY StepKeepsHeap
<1> QED
  BY <1>1, <1>2, WellFormed, PTL DEF LogSpec

\* Multiples of the alignment.
Multiple(x) == x % Alignment = 0

LEMMA MultipleIs ==
  ASSUME NEW x \in Int
  PROVE  Multiple(x) <=> \E k \in Int : x = k * Alignment
<1>1. x = (x \div Alignment) * Alignment + (x % Alignment) /\ x \div Alignment \in Int
  BY Units
<1>2. ASSUME NEW k \in Int, x = k * Alignment PROVE x % Alignment = 0
  <2>1. PICK r : r = x % Alignment
    OBVIOUS
  <2>2. PICK q \in Int : q = x \div Alignment
    BY <1>1
  <2>3. r \in Int /\ 0 <= r /\ r < Alignment
    BY <2>1, Units
  <2>4. k * Alignment = q * Alignment + r
    BY <1>1, <1>2, <2>1, <2>2
  <2>5. (k - q) * Alignment = r
    BY <2>2, <2>3, <2>4, Units
  <2>6. PICK d \in Int : d = k - q
    <3>1. k - q \in Int
      BY <2>2
    <3> QED
      BY <3>1, Zenon
  <2>7. d * Alignment = r
    BY <2>5, <2>6
  <2>8. ~ (d >= 1)
    BY <2>3, <2>7, Units
  <2>9. ~ (d <= -1)
    BY <2>3, <2>7, Units
  <2>10. d = 0
    BY <2>8, <2>9
  <2> QED
    BY <2>1, <2>3, <2>7, <2>10, Units
<1>3. ASSUME x % Alignment = 0 PROVE \E k \in Int : x = k * Alignment
  <2>1. PICK q \in Int : q = x \div Alignment
    BY <1>1
  <2>2. PICK m \in Int : m = q * Alignment
    BY <2>1, Units
  <2>3. x = m
    BY <1>1, <1>3, <2>1, <2>2
  <2> QED
    BY <2>1, <2>2, <2>3
<1> QED
  BY <1>2, <1>3 DEF Multiple

LEMMA MultipleSum ==
  ASSUME NEW x \in Int, NEW y \in Int, Multiple(x), Multiple(y)
  PROVE  Multiple(x + y) /\ Multiple(x - y)
<1>1. PICK j \in Int : x = j * Alignment
  BY MultipleIs
<1>2. PICK k \in Int : y = k * Alignment
  BY MultipleIs
<1>3. x + y = (j + k) * Alignment /\ x - y = (j - k) * Alignment
  BY <1>1, <1>2, Units
<1>4. j + k \in Int /\ j - k \in Int /\ x + y \in Int /\ x - y \in Int
  OBVIOUS
<1> QED
  BY <1>3, <1>4, MultipleIs

LEMMA AlignUpIsMultiple ==
  ASSUME NEW n \in Nat
  PROVE  Multiple(AlignUp(n)) /\ AlignUp(n) \in Nat
<1>1. AlignUp(n) \in Nat
  BY AlignUpIsNat
<1>2. (n + Alignment - 1) \div Alignment \in Int
  BY Units
<1>3. AlignUp(n) \in Int
  BY <1>1
<1> QED
  BY <1>1, <1>2, <1>3, MultipleIs DEF AlignUp

LEMMA HeaderIsMultiple == Multiple(HeaderSize) /\ Multiple(HeapSize) /\ Multiple(0)
<1>1. HeaderSize % Alignment = 0 /\ HeapSize % Alignment = 0
  BY HeapAssumption
<1>2. Multiple(0)
  <2>1. 0 = 0 * Alignment
    BY Units
  <2> QED
    BY <2>1, MultipleIs
<1> QED
  BY <1>1, <1>2, Zenon DEF Multiple

AllMultiples(h) == \A a \in DOMAIN h : Multiple(a) /\ Multiple(h[a].size)

LEMMA AlignedIs == \A h : Aligned(h) <=> AllMultiples(h)
  BY DEF Aligned, AllMultiples, Multiple

LEMMA SplitAligned ==
  ASSUME NEW h, Tiled(h), AllMultiples(h), NEW a \in DOMAIN h, h[a].free,
         NEW n \in Nat, Multiple(n)
  PROVE  AllMultiples(Split(h, a, n))
<1>1. a \in Nat /\ h[a].size \in Nat
  BY Fields DEF Tiled
<1>2. CASE h[a].size < n + HeaderSize + Alignment
  BY <1>2 DEF Split
<1>3. CASE h[a].size >= n + HeaderSize + Alignment
  <2>1. PICK g : g = Split(h, a, n)
    OBVIOUS
  <2>2. IsSplit(h, a, n, g)
    BY <1>3, <2>1, SplitFields
  <2>3. PICK new : new = a + HeaderSize + n
    OBVIOUS
  <2>4. /\ DOMAIN g = DOMAIN h \cup {new}
        /\ g[a].size = n
        /\ g[new].size = h[a].size - n - HeaderSize
        /\ \A x \in DOMAIN h \ {a} : g[x].size = h[x].size
    BY <2>2, <2>3 DEF IsSplit
  <2>5. Multiple(a) /\ Multiple(h[a].size) /\ Multiple(HeaderSize)
    BY HeaderIsMultiple DEF AllMultiples
  <2>6. Multiple(new)
    <3>1. a \in Int /\ HeaderSize \in Int /\ a + HeaderSize \in Int /\ n \in Int
      BY <1>1, Units
    <3>2. Multiple(a + HeaderSize)
      BY <2>5, <3>1, MultipleSum, Zenon
    <3>3. Multiple(a + HeaderSize + n)
      BY <3>1, <3>2, MultipleSum, Zenon
    <3> QED
      BY <2>3, <3>3
  <2>7. Multiple(g[new].size)
    <3>1. h[a].size \in Int /\ n \in Int /\ h[a].size - n \in Int /\ HeaderSize \in Int
      BY <1>1, Units
    <3>2. Multiple(h[a].size - n)
      BY <2>5, <3>1, MultipleSum, Zenon
    <3>3. Multiple(h[a].size - n - HeaderSize)
      BY <2>5, <3>1, <3>2, MultipleSum, Zenon
    <3> QED
      BY <2>4, <3>3
  <2>8. \A x \in DOMAIN g : Multiple(x) /\ Multiple(g[x].size)
    BY <2>4, <2>6, <2>7 DEF AllMultiples
  <2> QED
    BY <2>1, <2>8 DEF AllMultiples
<1> QED
  BY <1>1, <1>2, <1>3, Units

LEMMA MergeAligned ==
  ASSUME NEW h, Tiled(h), AllMultiples(h), NEW a \in DOMAIN h, h[a].free
  PROVE  LET g == MergeWithNext(h, a)
         IN  AllMultiples(g) /\ Allocated(g) = Allocated(h)
<1>1. CASE h[a].next = NULL \/ ~ h[h[a].next].free
  BY <1>1 DEF MergeWithNext
<1>2. CASE h[a].next # NULL /\ h[h[a].next].free
  <2>1. PICK g : g = MergeWithNext(h, a)
    OBVIOUS
  <2>2. IsMerge(h, a, g)
    BY <1>2, <2>1, MergeFields
  <2>3. PICK b : b = h[a].next
    OBVIOUS
  <2>4. /\ DOMAIN g = DOMAIN h \ {b}
        /\ g[a].size = h[a].size + HeaderSize + h[b].size
        /\ \A x \in DOMAIN g : g[x].free = h[x].free
        /\ \A x \in DOMAIN g \ {a} : g[x].size = h[x].size
    BY <2>2, <2>3 DEF IsMerge
  <2>5. b \in DOMAIN h /\ h[b].free
    BY <1>2, <2>3, Successor
  <2>6. Allocated(g) = Allocated(h)
    BY <2>4, <2>5 DEF Allocated
  <2>7. h[a].size \in Nat /\ h[b].size \in Nat
    BY <2>5, Fields DEF Tiled
  <2>8. Multiple(h[a].size) /\ Multiple(h[b].size) /\ Multiple(HeaderSize)
    BY <2>5, HeaderIsMultiple DEF AllMultiples
  <2>9. Multiple(g[a].size)
    <3>1. /\ h[a].size \in Int /\ HeaderSize \in Int /\ h[b].size \in Int
          /\ h[a].size + HeaderSize \in Int
      BY <2>7, Units
    <3>2. Multiple(h[a].size + HeaderSize)
      BY <2>8, <3>1, MultipleSum, Zenon
    <3>3. Multiple(h[a].size + HeaderSize + h[b].size)
      BY <2>8, <3>1, <3>2, MultipleSum, Zenon
    <3> QED
      BY <2>4, <3>3
  <2>10. \A x \in DOMAIN g : Multiple(x) /\ Multiple(g[x].size)
    BY <2>4, <2>9 DEF AllMultiples
  <2> QED
    BY <2>1, <2>6, <2>10 DEF AllMultiples
<1> QED
  BY <1>1, <1>2

LEMMA MergeTiled ==
  ASSUME NEW h, Tiled(h), NEW a \in DOMAIN h, h[a].free
  PROVE  Tiled(MergeWithNext(h, a)) /\ a \in DOMAIN MergeWithNext(h, a)
<1>1. CASE h[a].next = NULL \/ ~ h[h[a].next].free
  BY <1>1 DEF MergeWithNext
<1>2. CASE h[a].next # NULL /\ h[h[a].next].free
  <2>1. IsMerge(h, a, MergeWithNext(h, a))
    BY <1>2, MergeFields
  <2>2. a # h[a].next
    <3>1. a \in Nat /\ h[a].next > a
      BY <1>2, Fields, Successor DEF Tiled
    <3> QED
      BY <3>1
  <2> QED
    BY <1>2, <2>1, <2>2, MergeKeepsTiling DEF IsMerge
<1> QED
  BY <1>1, <1>2

\* What kfree gives back is that block and nothing else.
LEMMA KfreeGives ==
  ASSUME NEW h, HeapInv(h), AllMultiples(h), NEW a
  PROVE  AllMultiples(Kfree(h, a)) /\ Allocated(Kfree(h, a)) = Allocated(h) \ {a}
<1>1. CASE a \notin Allocated(h)
  BY <1>1 DEF Kfree
<1>2. CASE a \in Allocated(h)
  <2>1. a \in DOMAIN h /\ Tiled(h)
    BY <1>2 DEF Allocated, HeapInv
  <2>2. PICK freed : freed = [h EXCEPT ![a].free = TRUE]
    OBVIOUS
  <2>3. /\ Tiled(freed) /\ DOMAIN freed = DOMAIN h /\ freed[a].free = TRUE
        /\ \A x \in DOMAIN h : /\ freed[x].size = h[x].size
                               /\ x # a => freed[x].free = h[x].free
    BY <2>1, <2>2, FreeKeepsTiling
  <2>4. AllMultiples(freed) /\ Allocated(freed) = Allocated(h) \ {a} /\ a \in DOMAIN freed
    BY <2>1, <2>3 DEF AllMultiples, Allocated
  <2>5. PICK merged : merged = MergeWithNext(freed, a)
    OBVIOUS
  <2>6. /\ Tiled(merged) /\ a \in DOMAIN merged
        /\ AllMultiples(merged) /\ Allocated(merged) = Allocated(h) \ {a}
    BY <2>3, <2>4, <2>5, MergeTiled, MergeAligned
  <2>7. PICK before : before = merged[a].prev
    OBVIOUS
  <2>8. Kfree(h, a) = IF before # NULL /\ merged[before].free
                        THEN MergeWithNext(merged, before) ELSE merged
    BY <1>2, <2>2, <2>5, <2>7 DEF Kfree
  <2>9. CASE before # NULL /\ merged[before].free
    <3>1. before \in DOMAIN merged
      BY <2>6, <2>7, <2>9 DEF Tiled, Chained
    <3> QED
      BY <2>6, <2>8, <2>9, <3>1, MergeAligned
  <2>10. CASE ~ (before # NULL /\ merged[before].free)
    BY <2>6, <2>8, <2>10
  <2> QED
    BY <2>9, <2>10
<1> QED
  BY <1>1, <1>2

\* Two heaps with the same headers are the same.
LEMMA SameHeap ==
  ASSUME NEW g, NEW h, DOMAIN g = DOMAIN h, g \in [DOMAIN g -> Header], h \in [DOMAIN h -> Header],
         \A x \in DOMAIN h : /\ g[x].size = h[x].size /\ g[x].free = h[x].free
                             /\ g[x].next = h[x].next /\ g[x].prev = h[x].prev
  PROVE  g = h
<1>1. ASSUME NEW x \in DOMAIN h PROVE g[x] = h[x]
  <2>1. g[x] \in Header /\ h[x] \in Header
    OBVIOUS
  <2> QED
    BY <2>1 DEF Header
<1> QED
  BY <1>1

\* What was cut off merges again: the block is as it was before the split.
LEMMA MergeUndoesSplit ==
  ASSUME NEW h, HeapInv(h), NEW a \in DOMAIN h, h[a].free, NEW n \in Nat
  PROVE  MergeWithNext(Split(h, a, n), a) = h
<1>1. a \in Nat /\ h[a].size \in Nat /\ Tiled(h) /\ PairOK(h, a)
  BY Fields DEF HeapInv, Tiled
<1>2. CASE h[a].size < n + HeaderSize + Alignment
  <2>1. MergeWithNext(h, a) = h
    BY <1>1 DEF MergeWithNext, PairOK
  <2> QED
    BY <1>2, <2>1 DEF Split
<1>3. CASE h[a].size >= n + HeaderSize + Alignment
  <2>1. PICK g : g = Split(h, a, n)
    OBVIOUS
  <2>2. PICK new : new = a + HeaderSize + n
    OBVIOUS
  <2>3. /\ IsSplit(h, a, n, g) /\ Tiled(g)
        /\ new \in Nat /\ new > a /\ new \notin DOMAIN h
    BY <1>1, <1>3, <2>1, <2>2, SplitFields, SplitKeepsTiling, NewIsFresh
  <2>4. /\ DOMAIN g = DOMAIN h \cup {new}
        /\ g[a].size = n /\ g[a].next = new /\ g[a].prev = h[a].prev
        /\ g[new].size = h[a].size - n - HeaderSize
        /\ g[new].next = h[a].next /\ g[new].free
        /\ \A x \in DOMAIN h : g[x].free = h[x].free
    BY <2>2, <2>3 DEF IsSplit
  <2>5. \A x \in DOMAIN h \ {a} : /\ g[x].size = h[x].size
                                  /\ g[x].next = h[x].next
                                  /\ g[x].prev = IF x = h[a].next THEN new ELSE h[x].prev
    BY <2>2, <2>3 DEF IsSplit
  <2>6. new # NULL /\ a # new
    BY <1>1, <2>3 DEF NULL
  <2>7. PICK m : m = MergeWithNext(g, a)
    OBVIOUS
  <2>8. IsMerge(g, a, m)
    <3>1. a \in DOMAIN g /\ g[a].next # NULL /\ g[a].free /\ g[g[a].next].free
      BY <2>4, <2>6
    <3> QED
      BY <2>3, <2>7, <3>1, MergeFields
  <2>9. /\ DOMAIN m = DOMAIN h
        /\ \A x \in DOMAIN m : m[x] \in Header
        /\ m = [x \in DOMAIN m |-> m[x]]
        /\ m[a].size = n + HeaderSize + (h[a].size - n - HeaderSize)
        /\ m[a].next = h[a].next
        /\ m[a].prev = h[a].prev
        /\ \A x \in DOMAIN m : m[x].free = h[x].free
    <3>1. /\ DOMAIN m = DOMAIN g \ {new}
          /\ \A x \in DOMAIN m : m[x] \in Header
          /\ m = [x \in DOMAIN m |-> m[x]]
          /\ m[a].size = g[a].size + HeaderSize + g[new].size
          /\ m[a].next = g[new].next
          /\ m[a].prev = g[a].prev
          /\ \A x \in DOMAIN m : m[x].free = g[x].free
      BY <2>4, <2>8 DEF IsMerge
    <3>2. DOMAIN m = DOMAIN h
      BY <2>3, <2>4, <3>1
    <3> QED
      BY <2>4, <3>1, <3>2
  <2>10. \A x \in DOMAIN h \ {a} :
           /\ m[x].size = h[x].size
           /\ m[x].next = h[x].next
           /\ m[x].prev = IF x = h[a].next THEN a ELSE h[x].prev
    BY <2>4, <2>5, <2>8, <2>9 DEF IsMerge
  <2>11. m[a].size = h[a].size
    BY <1>1, <2>9, Units
  <2>12. ASSUME NEW x \in DOMAIN h, x = h[a].next PROVE h[x].prev = a
    <3>1. x # NULL
      BY <1>1 DEF NULL, Tiled, HeapTypeOK
    <3> QED
      BY <1>1, <2>12, <3>1, Successor
  <2>13. \A x \in DOMAIN h : /\ m[x].size = h[x].size /\ m[x].free = h[x].free
                             /\ m[x].next = h[x].next /\ m[x].prev = h[x].prev
    BY <2>9, <2>10, <2>11, <2>12
  <2>14. m \in [DOMAIN m -> Header] /\ h \in [DOMAIN h -> Header]
    BY <1>1, <2>9 DEF Tiled, HeapTypeOK
  <2> QED
    BY <2>1, <2>7, <2>9, <2>13, <2>14, SameHeap
<1> QED
  BY <1>1, <1>2, <1>3, Units

\* kmalloc takes one block that was free; freeing it undoes the call.
LEMMA KmallocGives ==
  ASSUME NEW h, HeapInv(h), AllMultiples(h), NEW bytes \in Nat, NEW r, r = Kmalloc(h, bytes)
  PROVE  /\ AllMultiples(r.heap)
         /\ IF r.ptr = NULL THEN r.heap = h
            ELSE /\ r.ptr \in Nat \ Allocated(h)
                 /\ Allocated(r.heap) = Allocated(h) \cup {r.ptr}
         /\ Kfree(r.heap, r.ptr) = h
<1>1. PICK n : n = AlignUp(bytes)
  OBVIOUS
<1>2. n \in Nat /\ Multiple(n)
  BY <1>1, AlignUpIsMultiple
<1>3. CASE bytes = 0 \/ Fits(h, n) = {}
  <2>1. r = [ptr |-> NULL, heap |-> h]
    BY <1>1, <1>3 DEF Kmalloc
  <2>2. NULL \notin Allocated(h)
    BY DEF HeapInv, Tiled, HeapTypeOK, Allocated, NULL
  <2> QED
    BY <2>1, <2>2 DEF Kfree
<1>4. CASE ~ (bytes = 0 \/ Fits(h, n) = {})
  <2>1. PICK a : a = FirstFit(h, n)
    OBVIOUS
  <2>2. PICK s : s = Split(h, a, n)
    OBVIOUS
  <2>3. PICK g : g = [s EXCEPT ![a].free = FALSE]
    OBVIOUS
  <2>4. r = [ptr |-> a, heap |-> g]
    BY <1>1, <1>4, <2>1, <2>2, <2>3 DEF Kmalloc
  <2>5. a \in DOMAIN h /\ h[a].free /\ a \in Nat /\ Tiled(h)
    <3>1. a \in Fits(h, n)
      BY <1>2, <1>4, <2>1, FirstFitFits DEF HeapInv
    <3> QED
      BY <3>1, Fields DEF Fits, HeapInv, Tiled
  <2>6. Tiled(s) /\ a \in DOMAIN s /\ AllMultiples(s)
    BY <1>2, <2>2, <2>5, SplitPairs, SplitAligned
  <2>7. Allocated(s) = Allocated(h) /\ s[a].free
    <3>1. CASE s = h
      BY <2>5, <3>1
    <3>2. CASE s # h
      <4>1. h[a].size \in Nat /\ h[a].size >= n + HeaderSize + Alignment
        <5>1. h[a].size \in Nat /\ ~ (h[a].size < n + HeaderSize + Alignment)
          BY <2>2, <2>5, <3>2, Fields DEF Split, Tiled
        <5> QED
          BY <1>2, <5>1, Units
      <4>2. IsSplit(h, a, n, s)
        BY <1>2, <2>2, <2>5, <4>1, SplitFields
      <4> QED
        BY <2>5, <4>2 DEF IsSplit, Allocated
    <3> QED
      BY <3>1, <3>2
  <2>8. /\ Tiled(g) /\ DOMAIN g = DOMAIN s /\ g[a].free = FALSE
        /\ \A x \in DOMAIN s : g[x].size = s[x].size /\ (x # a => g[x].free = s[x].free)
    BY <2>3, <2>6, FreeKeepsTiling
  <2>9. AllMultiples(g)
    BY <2>6, <2>8 DEF AllMultiples
  <2>10. Allocated(g) = Allocated(h) \cup {a} /\ a \notin Allocated(h)
    <3>1. Allocated(g) = Allocated(s) \cup {a}
      BY <2>6, <2>8 DEF Allocated
    <3> QED
      BY <2>5, <2>7, <3>1 DEF Allocated
  <2>11. Kfree(g, a) = h
    <3>1. [g EXCEPT ![a].free = TRUE] = s
      <4>1. s \in [DOMAIN s -> Header] /\ s[a] \in Header /\ s[a].free = TRUE
        BY <2>6, <2>7 DEF Tiled, HeapTypeOK, Header
      <4>2. PICK f : f = [g EXCEPT ![a].free = TRUE]
        OBVIOUS
      <4>3. DOMAIN f = DOMAIN s /\ \A x \in DOMAIN s \ {a} : f[x] = s[x]
        BY <2>3, <4>2
      <4>4. g[a] = [s[a] EXCEPT !.free = FALSE] /\ f[a] = [g[a] EXCEPT !.free = TRUE]
        BY <2>3, <2>6, <4>1, <4>2
      <4>5. f[a] = s[a]
        BY <4>1, <4>4 DEF Header
      <4>6. f = [x \in DOMAIN s |-> f[x]]
        BY <2>3, <4>2
      <4> QED
        BY <4>1, <4>2, <4>3, <4>5, <4>6
    <3>2. MergeWithNext(s, a) = h
      BY <1>2, <2>2, <2>5, MergeUndoesSplit
    <3>3. PICK before : before = h[a].prev
      OBVIOUS
    <3>4. before # NULL => ~ h[before].free
      <4>1. before # NULL => before \in DOMAIN h /\ h[before].next = a
        BY <2>5, <3>3 DEF Tiled, Chained
      <4>2. a # NULL
        BY <2>5 DEF NULL
      <4> QED
        BY <2>5, <4>1, <4>2 DEF HeapInv, PairOK
    <3>5. a \in Allocated(g)
      BY <2>6, <2>8 DEF Allocated
    <3> QED
      BY <3>1, <3>2, <3>3, <3>4, <3>5 DEF Kfree
  <2>12. r.ptr = a /\ r.heap = g /\ a # NULL
    BY <2>4, <2>5 DEF NULL
  <2> QED
    BY <2>5, <2>9, <2>10, <2>11, <2>12
<1> QED
  BY <1>3, <1>4

LEMMA HeapInitAligned == AllMultiples(HeapInit) /\ Allocated(HeapInit) = {}
<1>1. /\ DOMAIN HeapInit = {0} /\ HeapInit[0].size = HeapSize - HeaderSize /\ HeapInit[0].free
  BY DEF HeapInit
<1>2. HeapSize \in Int /\ HeaderSize \in Int
  BY Units
<1>3. Multiple(HeapSize - HeaderSize)
  BY <1>2, HeaderIsMultiple, MultipleSum, Zenon
<1> QED
  BY <1>1, <1>3, HeaderIsMultiple DEF AllMultiples, Allocated

\* q is the list in memory that begins at a.
IsList(en, q, a) ==
  /\ q \in Seq(DOMAIN en)
  /\ a = IF q = <<>> THEN NULL ELSE q[1]
  /\ \A i \in 1 .. Len(q) : en[q[i]].next = IF i = Len(q) THEN NULL ELSE q[i + 1]

\* The entry behind the first k.
NextIn(q, k) == IF k = Len(q) THEN NULL ELSE q[k + 1]

LEMMA LongerIs ==
  ASSUME NEW en, DOMAIN en \subseteq Nat, NEW q, NEW a, IsList(en, q, a), NEW k \in 0 .. Len(q)
  PROVE  Longer(en, a, SubSeq(q, 1, k)) =
           IF k < Len(q) THEN SubSeq(q, 1, k + 1) ELSE SubSeq(q, 1, k)
<1>1. /\ q \in Seq(DOMAIN en) /\ Len(q) \in Nat
      /\ a = IF q = <<>> THEN NULL ELSE q[1]
      /\ \A i \in 1 .. Len(q) : q[i] \in DOMAIN en
      /\ q = <<>> <=> Len(q) = 0
  BY EmptySeq, ElementOfSeq, LenProperties DEF IsList
<1>2. PICK first : first = SubSeq(q, 1, k)
  OBVIOUS
<1>3. /\ first \in Seq(DOMAIN en) /\ Len(first) = k
      /\ \A i \in 1 .. k : first[i] = q[i]
      /\ first = <<>> <=> k = 0
  <2>1. \A i \in 1 .. k : q[i] \in DOMAIN en
    BY <1>1
  <2>2. /\ first \in Seq(DOMAIN en) /\ Len(first) = IF 1 <= k THEN k - 1 + 1 ELSE 0
        /\ \A i \in 1 .. k - 1 + 1 : first[i] = q[1 + i - 1]
    BY <1>2, <2>1, SubSeqProperties
  <2>3. Len(first) = k
    BY <2>2
  <2>4. \A i \in 1 .. k : first[i] = q[i]
    BY <1>1, <2>2
  <2>5. first = <<>> <=> k = 0
    BY <2>2, <2>3, EmptySeq
  <2> QED
    BY <2>2, <2>3, <2>4, <2>5
<1>4. PICK next : next = IF first = <<>> THEN a ELSE en[first[Len(first)]].next
  OBVIOUS
<1>5. next = NextIn(q, k)
  <2>1. CASE k = 0
    BY <1>1, <1>3, <1>4, <2>1 DEF NextIn
  <2>2. CASE k # 0
    <3>1. k \in 1 .. Len(q) /\ first # <<>> /\ first[Len(first)] = q[k]
      BY <1>1, <1>3, <2>2
    <3> QED
      BY <1>4, <3>1 DEF NextIn, IsList
  <2> QED
    BY <2>1, <2>2
<1>6. Longer(en, a, first) =
        IF next = NULL \/ next \notin DOMAIN en THEN first ELSE Append(first, next)
  BY <1>4 DEF Longer
<1>7. CASE k = Len(q)
  <2>1. next = NULL
    BY <1>5, <1>7 DEF NextIn
  <2>2. Longer(en, a, first) = first /\ ~ (k < Len(q))
    BY <1>1, <1>6, <1>7, <2>1
  <2> QED
    BY <1>2, <2>2
<1>8. CASE k < Len(q)
  <2>1. next = q[k + 1] /\ k + 1 \in 1 .. Len(q) /\ k \in Nat
    BY <1>1, <1>5, <1>8 DEF NextIn
  <2>2. next \in DOMAIN en /\ next # NULL
    BY <1>1, <2>1 DEF NULL
  <2>3. Longer(en, a, first) = Append(first, next)
    BY <1>6, <2>2
  <2>4. SubSeq(q, 1, k + 1) = SubSeq(q, 1, k) \o <<q[k + 1]>>
    <3>1. 1 \in 1 .. Len(q) /\ k + 1 \in 1 .. Len(q)
      BY <2>1
    <3>2. SubSeq(q, 1, k + 1) = SubSeq(q, 1, k + 1 - 1) \o <<q[k + 1]>>
      BY <1>1, <3>1, SubSeqRecursiveSecond
    <3> QED
      BY <2>1, <3>2
  <2>5. Append(first, next) = first \o <<next>>
    BY <1>3, <2>2, AppendIsConcat
  <2> QED
    BY <1>2, <1>8, <2>1, <2>3, <2>4, <2>5
<1> QED
  BY <1>1, <1>7, <1>8

Least(k, n) == IF k < n THEN k ELSE n

\* ListFrom follows such a list to its end, if the log's limit allows.
LEMMA ListIs ==
  ASSUME NEW en, DOMAIN en \subseteq Nat, NEW q, NEW a, IsList(en, q, a), Len(q) <= LogMax
  PROVE  ListFrom(en, a) = q
<1>1. /\ q \in Seq(DOMAIN en) /\ Len(q) \in Nat /\ LogMax \in Nat
  BY LogAssumption, LenProperties DEF IsList
<1> DEFINE K == 0 .. LogMax + 1
           Rec(f) == f = [k \in K |-> IF k = 0 THEN <<>> ELSE Longer(en, a, f[k - 1])]
           Cut(k) == SubSeq(q, 1, Least(k, Len(q)))
<1>2. Cut(0) = <<>>
  <2>1. Least(0, Len(q)) = 0 /\ SubSeq(q, 1, 0) = <<>>
    BY <1>1, SubSeqEmpty DEF Least
  <2> QED
    BY <2>1
<1>3. ASSUME NEW k \in K, k # 0 PROVE Cut(k) = Longer(en, a, Cut(k - 1))
  <2>1. PICK j : j = Least(k - 1, Len(q))
    OBVIOUS
  <2>2. j \in 0 .. Len(q) /\ Least(k, Len(q)) = IF j < Len(q) THEN j + 1 ELSE j
    BY <1>1, <1>3, <2>1 DEF Least
  <2>3. Longer(en, a, SubSeq(q, 1, j)) =
          IF j < Len(q) THEN SubSeq(q, 1, j + 1) ELSE SubSeq(q, 1, j)
    BY <2>2, LongerIs
  <2> QED
    BY <2>1, <2>2, <2>3
<1> HIDE DEF Cut
<1>4. \E f : Rec(f)
  <2>1. PICK f : f = [k \in K |-> Cut(k)]
    OBVIOUS
  <2>2. \A k \in K : k # 0 => k - 1 \in K
    BY <1>1
  <2> HIDE DEF K
  <2>3. \A k \in K : f[k] = IF k = 0 THEN <<>> ELSE Longer(en, a, f[k - 1])
    BY <1>2, <1>3, <2>1, <2>2
  <2>4. f = [k \in K |-> f[k]]
    BY <2>1
  <2>5. f = [k \in K |-> IF k = 0 THEN <<>> ELSE Longer(en, a, f[k - 1])]
    BY <2>3, <2>4
  <2> QED
    BY <2>5
<1>5. PICK list : list = CHOOSE f : Rec(f)
  OBVIOUS
<1>6. Rec(list)
  BY <1>4, <1>5
<1>7. ListFrom(en, a) = list[LogMax + 1]
  BY <1>5 DEF ListFrom
<1>8. \A k \in K : list[k] = IF k = 0 THEN <<>> ELSE Longer(en, a, list[k - 1])
  BY <1>6, Zenon
<1>9. \A k \in K : list[k] = Cut(k)
  <2>1. PICK Fails : Fails = {k \in K : list[k] # Cut(k)}
    OBVIOUS
  <2>2. SUFFICES ASSUME Fails # {} PROVE FALSE
    BY <2>1
  <2>3. PICK k \in Fails : \A j \in Fails : k <= j
    <3>1. Fails \subseteq Nat
      BY <2>1
    <3> QED
      BY <2>2, <3>1, LeastExists
  <2>4. k \in K /\ list[k] # Cut(k)
    BY <2>1
  <2>5. list[0] = <<>>
    BY <1>1, <1>8
  <2>6. k # 0
    BY <1>2, <2>4, <2>5
  <2>7. k - 1 \in K /\ ~ (k <= k - 1)
    BY <1>1, <2>4, <2>6
  <2>8. list[k - 1] = Cut(k - 1)
    BY <2>1, <2>3, <2>7
  <2> HIDE DEF K
  <2> QED
    BY <1>3, <1>8, <2>4, <2>6, <2>8
<1>10. LogMax + 1 \in K /\ Least(LogMax + 1, Len(q)) = Len(q)
  BY <1>1 DEF Least
<1> QED
  BY <1>1, <1>7, <1>9, <1>10, SubSeqFull DEF Cut

Address == Nat \cup {NULL}
Entry   == [message : Address, next : Address]

\* The blocks that entries and messages use.
Used(en) == DOMAIN en \cup ({en[a].message : a \in DOMAIN en} \ {NULL})

IsMemory(en) ==
  /\ DOMAIN en \subseteq Nat
  /\ en \in [DOMAIN en -> Entry]

\* No block is used for two things.
UsedOnce(en) ==
  \A a, b \in DOMAIN en :
    /\ en[a].message # b
    /\ a # b /\ en[a].message # NULL => en[a].message # en[b].message

\* Every entry is in one list, once.
ListedOnce(L) ==
  \A t, u \in Slots : \A i \in 1 .. Len(L[t]), j \in 1 .. Len(L[u]) :
    L[t][i] = L[u][j] => t = u /\ i = j
AllListed(en, L) ==
  \A a \in DOMAIN en : \E t \in Slots : \E i \in 1 .. Len(L[t]) : L[t][i] = a

\* L[t] is the list of slot t, which begins at F[t].
AreLists(en, L, F) ==
  /\ IsMemory(en) /\ UsedOnce(en)
  /\ L = [t \in Slots |-> L[t]] /\ F = [t \in Slots |-> F[t]]
  /\ \A t \in Slots : IsList(en, L[t], F[t]) /\ Len(L[t]) <= LogMax
  /\ ListedOnce(L) /\ AllListed(en, L)

LEMMA SeqInto ==
  ASSUME NEW T, NEW q \in Seq(T), NEW S, \A i \in 1 .. Len(q) : q[i] \in S
  PROVE  q \in Seq(S)
<1>1. Len(q) \in Nat /\ q \in [1 .. Len(q) -> T]
  BY LenProperties
<1>2. q \in [1 .. Len(q) -> S]
  BY <1>1
<1> QED
  BY <1>1, <1>2

LEMMA ListFacts ==
  ASSUME NEW en, NEW q, NEW a, IsList(en, q, a)
  PROVE  /\ Len(q) \in Nat /\ q \in Seq(DOMAIN en)
         /\ \A i \in 1 .. Len(q) : q[i] \in DOMAIN en
         /\ q = <<>> <=> Len(q) = 0
  BY EmptySeq, ElementOfSeq, LenProperties DEF IsList

\* The lists without entry a, and what that frees.
AreDropped(en, a, en2, L2, F2) ==
  /\ AreLists(en2, L2, F2)
  /\ Used(en2) = Used(en) \ {a, en[a].message}
  /\ {a, en[a].message} \ {NULL} \subseteq Used(en)
  /\ a # en[a].message /\ a \in DOMAIN en /\ en[a].next \in Address

\* log_drop_oldest, and a step of log_clear_task_id.
LEMMA DropHead ==
  ASSUME NEW en, NEW L, NEW F, AreLists(en, L, F), NEW t \in Slots, L[t] # <<>>,
         NEW a, a = F[t], NEW en2, en2 = Without(en, a),
         NEW L2, L2 = [L EXCEPT ![t] = Tail(@)], NEW F2, F2 = [F EXCEPT ![t] = en[a].next]
  PROVE  AreDropped(en, a, en2, L2, F2)
<1>1. \A u \in Slots : IsList(en, L[u], F[u]) /\ Len(L[u]) <= LogMax
  BY DEF AreLists
<1>2. \A u \in Slots : /\ Len(L[u]) \in Nat
                       /\ \A i \in 1 .. Len(L[u]) : L[u][i] \in DOMAIN en
  BY <1>1, ListFacts
<1>3. /\ Len(L[t]) # 0 /\ a = L[t][1] /\ a \in DOMAIN en /\ a \in Nat
      /\ en[a].next = IF 1 = Len(L[t]) THEN NULL ELSE L[t][2]
  <2>1. Len(L[t]) # 0 /\ Len(L[t]) \in Nat
    BY <1>1, ListFacts
  <2>2. 1 \in 1 .. Len(L[t])
    BY <2>1
  <2>3. a = L[t][1] /\ en[L[t][1]].next = IF 1 = Len(L[t]) THEN NULL ELSE L[t][1 + 1]
    BY <1>1, <2>2 DEF IsList
  <2>4. a \in DOMAIN en /\ 1 + 1 = 2
    BY <1>2, <2>2, <2>3
  <2>5. DOMAIN en \subseteq Nat
    BY DEF AreLists, IsMemory
  <2> QED
    BY <2>1, <2>3, <2>4, <2>5
<1>4. DOMAIN en2 = DOMAIN en \ {a} /\ \A x \in DOMAIN en2 : en2[x] = en[x]
  BY DEF Without
<1>5. IsMemory(en2) /\ UsedOnce(en2)
  <2>1. en2 = [x \in DOMAIN en2 |-> en2[x]]
    BY DEF Without
  <2>2. \A x \in DOMAIN en2 : en2[x] \in Entry
    BY <1>4 DEF AreLists, IsMemory
  <2>3. en2 \in [DOMAIN en2 -> Entry]
    BY <2>1, <2>2
  <2>4. UsedOnce(en2)
    BY <1>4 DEF AreLists, UsedOnce
  <2> QED
    BY <1>4, <2>3, <2>4 DEF AreLists, IsMemory
<1>6. /\ L2 = [u \in Slots |-> L2[u]] /\ F2 = [u \in Slots |-> F2[u]]
      /\ F2[t] = en[a].next /\ L2[t] = Tail(L[t])
      /\ \A u \in Slots \ {t} : L2[u] = L[u] /\ F2[u] = F[u]
  BY DEF AreLists
<1>7. /\ Len(L2[t]) = Len(L[t]) - 1
      /\ \A i \in 1 .. Len(L[t]) - 1 : L2[t][i] = L[t][i + 1]
      /\ L2[t] \in Seq(DOMAIN en)
  BY <1>1, <1>6, HeadTailProperties DEF IsList
<1>8. \A u \in Slots : \A i \in 1 .. Len(L[u]) : L[u][i] = a => u = t /\ i = 1
  <2>1. 1 \in 1 .. Len(L[t])
    BY <1>2, <1>3
  <2> QED
    BY <1>3, <2>1 DEF AreLists, ListedOnce
<1>9. ASSUME NEW u \in Slots PROVE IsList(en2, L2[u], F2[u]) /\ Len(L2[u]) <= LogMax
  <2>1. CASE u = t
    <3>1. ASSUME NEW i \in 1 .. Len(L2[t]) PROVE L2[t][i] \in DOMAIN en2
      <4>1. i + 1 \in 1 .. Len(L[t]) /\ i + 1 # 1 /\ L2[t][i] = L[t][i + 1]
        BY <1>2, <1>3, <1>7
      <4> QED
        BY <1>2, <1>4, <1>8, <4>1
    <3>2. L2[t] \in Seq(DOMAIN en2)
      BY <1>7, <3>1, SeqInto
    <3>3. F2[t] = IF L2[t] = <<>> THEN NULL ELSE L2[t][1]
      <4>1. L2[t] = <<>> <=> Len(L2[t]) = 0
        BY <1>7, EmptySeq
      <4> QED
        BY <1>2, <1>3, <1>6, <1>7, <4>1
    <3>4. ASSUME NEW i \in 1 .. Len(L2[t])
          PROVE  en2[L2[t][i]].next = IF i = Len(L2[t]) THEN NULL ELSE L2[t][i + 1]
      <4>1. /\ i + 1 \in 1 .. Len(L[t]) /\ L2[t][i] = L[t][i + 1]
            /\ i # Len(L2[t]) => L2[t][i + 1] = L[t][i + 1 + 1]
            /\ i = Len(L2[t]) <=> i + 1 = Len(L[t])
        BY <1>2, <1>3, <1>7
      <4>2. en[L[t][i + 1]].next = IF i + 1 = Len(L[t]) THEN NULL ELSE L[t][i + 1 + 1]
        BY <1>1, <4>1 DEF IsList
      <4> QED
        BY <1>4, <3>1, <4>1, <4>2
    <3>5. Len(L2[t]) <= LogMax
      BY <1>1, <1>2, <1>7, LogAssumption
    <3>6. IsList(en2, L2[t], F2[t])
      BY <3>2, <3>3, <3>4, Zenon DEF IsList
    <3> QED
      BY <2>1, <3>5, <3>6
  <2>2. CASE u # t
    <3>1. L2[u] = L[u] /\ F2[u] = F[u] /\ IsList(en, L[u], F[u]) /\ Len(L[u]) <= LogMax
      BY <1>1, <1>6, <2>2
    <3>2. \A i \in 1 .. Len(L[u]) : L[u][i] \in DOMAIN en2
      BY <1>2, <1>4, <1>8, <2>2
    <3>3. L[u] \in Seq(DOMAIN en2)
      BY <3>1, <3>2, SeqInto DEF IsList
    <3> QED
      BY <1>4, <3>1, <3>2, <3>3 DEF IsList
  <2> QED
    BY <2>1, <2>2
<1>10. ListedOnce(L2)
  <2>1. \A u \in Slots : \A i \in 1 .. Len(L2[u]) :
          LET k == IF u = t THEN i + 1 ELSE i
          IN  k \in 1 .. Len(L[u]) /\ L2[u][i] = L[u][k]
    BY <1>2, <1>3, <1>6, <1>7
  <2>2. ASSUME NEW u \in Slots, NEW v \in Slots, NEW i \in 1 .. Len(L2[u]),
               NEW j \in 1 .. Len(L2[v]), L2[u][i] = L2[v][j]
        PROVE  u = v /\ i = j
    <3>1. PICK k \in 1 .. Len(L[u]) : L2[u][i] = L[u][k] /\ k = IF u = t THEN i + 1 ELSE i
      BY <2>1
    <3>2. PICK l \in 1 .. Len(L[v]) : L2[v][j] = L[v][l] /\ l = IF v = t THEN j + 1 ELSE j
      BY <2>1
    <3>3. u = v /\ k = l
      BY <2>2, <3>1, <3>2 DEF AreLists, ListedOnce
    <3> QED
      BY <3>1, <3>2, <3>3
  <2> QED
    BY <2>2 DEF ListedOnce
<1>11. AllListed(en2, L2)
  <2>1. ASSUME NEW x \in DOMAIN en2 PROVE \E u \in Slots : \E i \in 1 .. Len(L2[u]) : L2[u][i] = x
    <3>0. PICK u \in Slots : \E k \in 1 .. Len(L[u]) : L[u][k] = x
      BY <1>4 DEF AreLists, AllListed
    <3>1. PICK k \in 1 .. Len(L[u]) : L[u][k] = x
      BY <3>0
    <3>2. CASE u # t
      BY <1>6, <3>1, <3>2
    <3>3. CASE u = t
      <4>1. k # 1
        BY <1>3, <1>4, <3>1, <3>3
      <4>2. k - 1 \in 1 .. Len(L2[t]) /\ L2[t][k - 1] = L[t][k]
        BY <1>2, <1>7, <3>3, <4>1
      <4> QED
        BY <3>1, <3>3, <4>2
    <3> QED
      BY <3>2, <3>3
  <2> QED
    BY <2>1 DEF AllListed
<1>12. AreLists(en2, L2, F2)
  BY <1>5, <1>6, <1>9, <1>10, <1>11 DEF AreLists
<1>13. Used(en2) = Used(en) \ {a, en[a].message}
  <2>1. UsedOnce(en)
    BY DEF AreLists
  <2>2. ASSUME NEW x PROVE x \in Used(en2) <=> x \in Used(en) \ {a, en[a].message}
    BY <1>3, <1>4, <2>1 DEF Used, UsedOnce
  <2> QED
    BY <2>2
<1>14. {a, en[a].message} \ {NULL} \subseteq Used(en) /\ a # en[a].message
  BY <1>3 DEF Used, UsedOnce, AreLists
<1>15. en[a].next \in Address
  <2>1. en[a] \in Entry
    BY <1>3 DEF AreLists, IsMemory
  <2> QED
    BY <2>1 DEF Entry
<1> QED
  BY <1>3, <1>12, <1>13, <1>14, <1>15 DEF AreDropped

\* The entry p with message m becomes the tail of a list.
Put(en, q, p, m) ==
  LET new == With(en, p, [message |-> m, next |-> NULL])
  IN  IF q = <<>> THEN new ELSE [new EXCEPT ![q[Len(q)]].next = p]

IsPut(en, q, p, m, en2) ==
  /\ IsMemory(en2) /\ DOMAIN en2 = DOMAIN en \cup {p}
  /\ en2[p].message = m /\ en2[p].next = NULL
  /\ \A x \in DOMAIN en :
       /\ en2[x].message = en[x].message
       /\ en2[x].next = IF q # <<>> /\ x = q[Len(q)] THEN p ELSE en[x].next

LEMMA PutGives ==
  ASSUME NEW en, IsMemory(en), NEW q \in Seq(DOMAIN en), NEW p \in Nat, p \notin DOMAIN en, NEW m \in Address,
         NEW en2, en2 = Put(en, q, p, m)
  PROVE  IsPut(en, q, p, m, en2)
<1>0. /\ \A i \in 1 .. Len(q) : q[i] \in DOMAIN en
      /\ Len(q) \in Nat /\ (q = <<>> <=> Len(q) = 0)
  BY EmptySeq, ElementOfSeq, LenProperties
<1>1. PICK r : r = [message |-> m, next |-> NULL]
  OBVIOUS
<1>2. r \in Entry /\ r.message = m /\ r.next = NULL
  BY <1>1 DEF Entry, Address
<1>3. PICK new : new = With(en, p, r)
  OBVIOUS
<1>4. /\ DOMAIN new = DOMAIN en \cup {p} /\ new[p] = r
      /\ \A x \in DOMAIN en : new[x] = en[x] /\ x # p
      /\ new = [x \in DOMAIN new |-> new[x]]
  BY <1>3 DEF With
<1>5. \A x \in DOMAIN new : new[x] \in Entry
  BY <1>2, <1>4 DEF IsMemory
<1>6. new \in [DOMAIN new -> Entry] /\ DOMAIN new \subseteq Nat
  BY <1>4, <1>5 DEF IsMemory
<1>7. CASE q = <<>>
  <2>1. en2 = new
    BY <1>1, <1>3, <1>7 DEF Put
  <2> QED
    BY <1>2, <1>4, <1>6, <1>7, <2>1 DEF IsMemory, IsPut
<1>8. CASE q # <<>>
  <2>1. PICK tail : tail = q[Len(q)]
    OBVIOUS
  <2>2. tail \in DOMAIN en
    BY <1>0, <1>8, <2>1
  <2>3. en2 = [new EXCEPT ![tail].next = p]
    BY <1>1, <1>3, <1>8, <2>1 DEF Put
  <2>4. /\ DOMAIN en2 = DOMAIN new
        /\ \A x \in DOMAIN new \ {tail} : en2[x] = new[x]
        /\ en2[tail] = [new[tail] EXCEPT !.next = p]
        /\ en2 = [x \in DOMAIN en2 |-> en2[x]]
    <3>1. tail \in DOMAIN new
      BY <1>4, <2>2
    <3>2. PICK changed : changed = [new[tail] EXCEPT !.next = p]
      OBVIOUS
    <3>3. en2 = [new EXCEPT ![tail] = changed]
      BY <2>3, <3>2
    <3> QED
      BY <3>1, <3>2, <3>3
  <2>5. new[tail] \in Entry /\ new[tail] = en[tail] /\ tail # p
    BY <1>4, <1>5, <2>2
  <2>6. en2[tail] \in Entry /\ en2[tail].message = en[tail].message /\ en2[tail].next = p
    BY <2>4, <2>5 DEF Entry, Address
  <2>7. en2 \in [DOMAIN en2 -> Entry]
    <3>1. \A x \in DOMAIN en2 : en2[x] \in Entry
      BY <1>5, <2>4, <2>6
    <3> QED
      BY <2>4, <3>1
  <2>8. IsMemory(en2) /\ DOMAIN en2 = DOMAIN en \cup {p}
    BY <1>4, <1>6, <2>4, <2>7 DEF IsMemory
  <2>9. en2[p].message = m /\ en2[p].next = NULL
    BY <1>2, <1>4, <2>4, <2>5
  <2>10. \A x \in DOMAIN en :
           /\ en2[x].message = en[x].message
           /\ en2[x].next = IF x = tail THEN p ELSE en[x].next
    BY <1>4, <2>4, <2>6
  <2> QED
    BY <1>8, <2>1, <2>8, <2>9, <2>10 DEF IsPut
<1> QED
  BY <1>7, <1>8

\* The lists with entry p, and what that uses.
ArePushed(en, p, m, en2, L2, F2) ==
  AreLists(en2, L2, F2) /\ Used(en2) = Used(en) \cup ({p, m} \ {NULL})

\* An append to a list with room.
LEMMA PushTail ==
  ASSUME NEW en, NEW L, NEW F, AreLists(en, L, F), NEW t \in Slots, Len(L[t]) < LogMax,
         NEW p \in Nat, p \notin Used(en), NEW m \in Address,
         m = NULL \/ (m \notin Used(en) /\ m # p),
         NEW en2, en2 = Put(en, L[t], p, m), NEW L2, L2 = [L EXCEPT ![t] = Append(@, p)],
         NEW F2, F2 = [F EXCEPT ![t] = IF @ = NULL THEN p ELSE @]
  PROVE  ArePushed(en, p, m, en2, L2, F2)
<1>1. \A u \in Slots : IsList(en, L[u], F[u]) /\ Len(L[u]) <= LogMax
  BY DEF AreLists
<1>2. \A u \in Slots : /\ Len(L[u]) \in Nat /\ L[u] \in Seq(DOMAIN en)
                       /\ \A i \in 1 .. Len(L[u]) : L[u][i] \in DOMAIN en
                       /\ L[u] = <<>> <=> Len(L[u]) = 0
  BY <1>1, ListFacts
<1>3. PICK q : q = L[t]
  OBVIOUS
<1>4. PICK n \in Nat : n = Len(q)
  BY <1>2, <1>3
<1>5. p \notin DOMAIN en /\ p # NULL /\ DOMAIN en \subseteq Nat
  BY DEF Used, AreLists, IsMemory, NULL
<1>6. /\ IsMemory(en2) /\ DOMAIN en2 = DOMAIN en \cup {p}
      /\ en2[p].message = m /\ en2[p].next = NULL
      /\ \A x \in DOMAIN en :
           /\ en2[x].message = en[x].message
           /\ en2[x].next = IF q # <<>> /\ x = q[n] THEN p ELSE en[x].next
  <2>1. q \in Seq(DOMAIN en) /\ IsMemory(en) /\ en2 = Put(en, q, p, m) /\ m \in Address
    BY <1>2, <1>3 DEF AreLists
  <2>2. IsPut(en, q, p, m, en2)
    BY <1>5, <2>1, PutGives, Zenon
  <2> QED
    BY <1>4, <2>2 DEF IsPut
<1>7. /\ L2 = [u \in Slots |-> L2[u]] /\ F2 = [u \in Slots |-> F2[u]]
      /\ F2[t] = (IF F[t] = NULL THEN p ELSE F[t]) /\ L2[t] = Append(q, p)
      /\ \A u \in Slots \ {t} : L2[u] = L[u] /\ F2[u] = F[u]
  BY <1>3 DEF AreLists
<1>8. /\ Len(L2[t]) = n + 1 /\ L2[t] \in Seq(DOMAIN en2)
      /\ \A i \in 1 .. n : L2[t][i] = q[i]
      /\ L2[t][n + 1] = p
  <2>1. q \in Seq(DOMAIN en2) /\ p \in DOMAIN en2
    BY <1>2, <1>3, <1>6, SeqMonotonic
  <2>2. PICK longer : longer = Append(q, p)
    OBVIOUS
  <2>3. /\ longer \in Seq(DOMAIN en2) /\ Len(longer) = Len(q) + 1
        /\ \A i \in 1 .. Len(q) : longer[i] = q[i]
        /\ longer[Len(q) + 1] = p
    BY <2>1, <2>2, AppendProperties
  <2> QED
    BY <1>4, <1>7, <2>2, <2>3
<1>9. \A u \in Slots \ {t} : L[u] \in Seq(DOMAIN en2)
  BY <1>2, <1>6, SeqMonotonic
<1>10. \A u \in Slots : \A i \in 1 .. Len(L[u]) : q # <<>> /\ L[u][i] = q[n] => u = t /\ i = n
  <2>1. q # <<>> => n \in 1 .. Len(L[t])
    BY <1>2, <1>3, <1>4
  <2> QED
    BY <1>3, <2>1 DEF AreLists, ListedOnce
<1>11. ASSUME NEW u \in Slots PROVE IsList(en2, L2[u], F2[u]) /\ Len(L2[u]) <= LogMax
  <2>1. CASE u = t
    <3>1. F2[t] = IF L2[t] = <<>> THEN NULL ELSE L2[t][1]
      <4>1. L2[t] # <<>>
        BY <1>4, <1>8, EmptySeq
      <4>2. CASE n = 0
        <5>1. F[t] = NULL
          <6>1. L[t] = <<>> <=> Len(L[t]) = 0
            BY <1>2
          <6>2. F[t] = IF L[t] = <<>> THEN NULL ELSE L[t][1]
            BY <1>1 DEF IsList
          <6> QED
            BY <1>3, <1>4, <4>2, <6>1, <6>2
        <5> QED
          BY <1>7, <1>8, <4>1, <4>2, <5>1
      <4>3. CASE n # 0
        <5>1. F[t] = q[1] /\ 1 \in 1 .. n
          BY <1>1, <1>2, <1>3, <1>4, <4>3 DEF IsList
        <5>2. q[1] # NULL
          BY <1>2, <1>3, <1>4, <1>5, <5>1 DEF NULL
        <5> QED
          BY <1>7, <1>8, <4>1, <5>1, <5>2
      <4> QED
        BY <4>2, <4>3
    <3>2. ASSUME NEW i \in 1 .. Len(L2[t])
          PROVE  en2[L2[t][i]].next = IF i = Len(L2[t]) THEN NULL ELSE L2[t][i + 1]
      <4>1. CASE i = n + 1
        BY <1>6, <1>8, <4>1
      <4>2. CASE i # n + 1
        <5>1. i \in 1 .. n /\ L2[t][i] = q[i] /\ q[i] \in DOMAIN en /\ i # Len(L2[t])
          BY <1>2, <1>3, <1>4, <1>8, <3>2, <4>2
        <5>2. en[q[i]].next = IF i = n THEN NULL ELSE q[i + 1]
          BY <1>1, <1>3, <1>4, <5>1 DEF IsList
        <5>3. q # <<>>
          BY <1>2, <1>3, <1>4, <5>1
        <5>4. CASE i = n
          BY <1>6, <1>8, <5>1, <5>3, <5>4
        <5>5. CASE i # n
          <6>1. q[i] # q[n]
            BY <1>3, <1>4, <1>10, <5>1, <5>3, <5>5
          <6>2. L2[t][i + 1] = q[i + 1]
            <7>1. i + 1 \in 1 .. n
              BY <5>1, <5>5
            <7> QED
              BY <1>8, <7>1
          <6> QED
            BY <1>6, <5>1, <5>2, <5>5, <6>1, <6>2
        <5> QED
          BY <5>4, <5>5
      <4> QED
        BY <4>1, <4>2
    <3>3. IsList(en2, L2[t], F2[t])
      BY <1>8, <3>1, <3>2, Zenon DEF IsList
    <3>4. Len(L2[t]) <= LogMax
      BY <1>3, <1>4, <1>8, LogAssumption
    <3> QED
      BY <2>1, <3>3, <3>4
  <2>2. CASE u # t
    <3>1. L2[u] = L[u] /\ F2[u] = F[u] /\ IsList(en, L[u], F[u]) /\ Len(L[u]) <= LogMax
      BY <1>1, <1>7, <2>2
    <3>2. \A i \in 1 .. Len(L[u]) : L[u][i] \in DOMAIN en /\ ~ (q # <<>> /\ L[u][i] = q[n])
      BY <1>2, <1>10, <2>2
    <3>3. L[u] \in Seq(DOMAIN en2)
      BY <1>9, <2>2
    <3>4. \A i \in 1 .. Len(L[u]) : en2[L[u][i]].next = en[L[u][i]].next
      BY <1>6, <3>2
    <3> QED
      BY <3>1, <3>3, <3>4 DEF IsList
  <2> QED
    BY <2>1, <2>2
<1>12. \A u \in Slots : \A i \in 1 .. Len(L2[u]) :
         IF u = t /\ i = n + 1 THEN L2[u][i] = p
         ELSE i \in 1 .. Len(L[u]) /\ L2[u][i] = L[u][i] /\ L2[u][i] # p
  <2>1. ASSUME NEW u \in Slots, NEW i \in 1 .. Len(L2[u])
        PROVE  IF u = t /\ i = n + 1 THEN L2[u][i] = p
               ELSE i \in 1 .. Len(L[u]) /\ L2[u][i] = L[u][i] /\ L2[u][i] # p
    <3>1. CASE u = t /\ i = n + 1
      BY <1>8, <3>1
    <3>2. CASE ~ (u = t /\ i = n + 1)
      <4>1. i \in 1 .. Len(L[u]) /\ L2[u][i] = L[u][i]
        BY <1>3, <1>4, <1>7, <1>8, <3>2
      <4>2. L[u][i] # p
        BY <1>2, <1>5, <4>1
      <4> QED
        BY <3>2, <4>1, <4>2
    <3> QED
      BY <3>1, <3>2
  <2> QED
    BY <2>1
<1>13. ListedOnce(L2)
  <2>1. ASSUME NEW u \in Slots, NEW v \in Slots,
               NEW i \in 1 .. Len(L2[u]), NEW j \in 1 .. Len(L2[v]), L2[u][i] = L2[v][j]
        PROVE  u = v /\ i = j
    <3>1. /\ IF u = t /\ i = n + 1 THEN L2[u][i] = p
             ELSE i \in 1 .. Len(L[u]) /\ L2[u][i] = L[u][i] /\ L2[u][i] # p
          /\ IF v = t /\ j = n + 1 THEN L2[v][j] = p
             ELSE j \in 1 .. Len(L[v]) /\ L2[v][j] = L[v][j] /\ L2[v][j] # p
      BY <1>12
    <3>2. CASE L2[u][i] = p
      BY <2>1, <3>1, <3>2
    <3>3. CASE L2[u][i] # p
      <4>1. /\ i \in 1 .. Len(L[u]) /\ j \in 1 .. Len(L[v])
            /\ L[u][i] = L[v][j]
        BY <2>1, <3>1, <3>3
      <4> QED
        BY <4>1 DEF AreLists, ListedOnce
    <3> QED
      BY <3>2, <3>3
  <2> QED
    BY <2>1 DEF ListedOnce
<1>14. AllListed(en2, L2)
  <2>1. ASSUME NEW x \in DOMAIN en2 PROVE \E u \in Slots : \E i \in 1 .. Len(L2[u]) : L2[u][i] = x
    <3>1. CASE x = p
      <4>1. n + 1 \in 1 .. Len(L2[t])
        BY <1>8
      <4> QED
        BY <1>8, <3>1, <4>1
    <3>2. CASE x # p
      <4>1. PICK u \in Slots : \E i \in 1 .. Len(L[u]) : L[u][i] = x
        BY <1>6, <3>2 DEF AreLists, AllListed
      <4>2. PICK i \in 1 .. Len(L[u]) : L[u][i] = x
        BY <4>1
      <4>3. i \in 1 .. Len(L2[u]) /\ L2[u][i] = x
        BY <1>3, <1>4, <1>7, <1>8, <4>2
      <4> QED
        BY <4>3
    <3> QED
      BY <3>1, <3>2
  <2> QED
    BY <2>1 DEF AllListed
<1>15. UsedOnce(en2)
  <2>1. UsedOnce(en)
    BY DEF AreLists
  <2>2. /\ \A a \in DOMAIN en : en[a].message # p
        /\ m \notin DOMAIN en /\ m # p
        /\ m # NULL => \A a \in DOMAIN en : en[a].message # m
    BY <1>5 DEF Used, NULL
  <2> QED
    BY <1>6, <2>1, <2>2 DEF UsedOnce
<1>16. Used(en2) = Used(en) \cup ({p, m} \ {NULL})
  <2>1. ASSUME NEW x PROVE x \in Used(en2) <=> x \in Used(en) \cup ({p, m} \ {NULL})
    BY <1>5, <1>6 DEF Used
  <2> QED
    BY <2>1
<1>17. AreLists(en2, L2, F2)
  BY <1>6, <1>7, <1>11, <1>13, <1>14, <1>15 DEF AreLists
<1> QED
  BY <1>16, <1>17 DEF ArePushed

FirstOf(lg, cl) == [t \in Slots |-> IF cl.task = t THEN cl.at ELSE lg[t].head]

\* The invariant: L[t] is the list of slot t.
LogOk(h, en, lg, cl, L) ==
  /\ HeapInv(h) /\ AllMultiples(h)
  /\ lg \in [Slots -> [head : Address, tail : Address, count : Nat]]
  /\ cl \in [task : Slots \cup {NULL}, at : Address]
  /\ cl.task = NULL => cl.at = NULL
  /\ AreLists(en, L, FirstOf(lg, cl))
  /\ Allocated(h) = Used(en)
  /\ \A t \in Slots : cl.task # t =>
       /\ lg[t].count = Len(L[t])
       /\ L[t] # <<>> => lg[t].tail = L[t][Len(L[t])]

LogInv == panicked = FALSE /\ \E L : LogOk(heap, entry, log, clearing, L)

LEMMA NoSlotIsNull == NULL \notin Slots
  BY LogAssumption DEF NULL

LEMMA ListsAre ==
  ASSUME NEW en, NEW L, NEW F, AreLists(en, L, F), NEW t \in Slots
  PROVE  ListFrom(en, F[t]) = L[t]
  BY ListIs DEF AreLists, IsMemory

\* What a step needs to know of a list.
LEMMA ListHolds ==
  ASSUME NEW en, NEW L, NEW F, AreLists(en, L, F), NEW t \in Slots
  PROVE  /\ Len(L[t]) \in Nat /\ Len(L[t]) <= LogMax
         /\ L[t] \in Seq(DOMAIN en)
         /\ L[t] = <<>> <=> Len(L[t]) = 0
         /\ F[t] = NULL <=> L[t] = <<>>
         /\ F[t] \in Address
         /\ L[t] # <<>> => F[t] = L[t][1] /\ F[t] \in DOMAIN en
<1>1. IsList(en, L[t], F[t]) /\ Len(L[t]) <= LogMax /\ DOMAIN en \subseteq Nat
  BY DEF AreLists, IsMemory
<1>2. /\ Len(L[t]) \in Nat /\ L[t] \in Seq(DOMAIN en)
      /\ \A i \in 1 .. Len(L[t]) : L[t][i] \in DOMAIN en
      /\ L[t] = <<>> <=> Len(L[t]) = 0
  BY <1>1, ListFacts
<1>3. F[t] = IF L[t] = <<>> THEN NULL ELSE L[t][1]
  BY <1>1 DEF IsList
<1>4. L[t] # <<>> => L[t][1] \in DOMAIN en /\ L[t][1] \in Nat
  BY <1>1, <1>2
<1> QED
  BY <1>1, <1>2, <1>3, <1>4 DEF Address, NULL

\* Two calls of kfree.
LEMMA FreeGives ==
  ASSUME NEW h, HeapInv(h), AllMultiples(h), NEW a, NEW m, NEW g, g = Kfree(Kfree(h, m), a)
  PROVE  HeapInv(g) /\ AllMultiples(g) /\ Allocated(g) = Allocated(h) \ {a, m}
<1>1. PICK k : k = Kfree(h, m)
  OBVIOUS
<1>2. HeapInv(k) /\ AllMultiples(k) /\ Allocated(k) = Allocated(h) \ {m}
  BY <1>1, KfreeSound, KfreeGives
<1>3. g = Kfree(k, a)
  BY <1>1
<1>4. HeapInv(g) /\ AllMultiples(g) /\ Allocated(g) = Allocated(k) \ {a}
  BY <1>2, <1>3, KfreeSound, KfreeGives
<1> QED
  BY <1>2, <1>4

\* What is new in a heap after an allocation, and how it is undone.
IsGrant(h, r) ==
  /\ HeapInv(r.heap) /\ AllMultiples(r.heap)
  /\ IF r.ptr = NULL THEN r.heap = h
     ELSE r.ptr \in Nat \ Allocated(h) /\ Allocated(r.heap) = Allocated(h) \cup {r.ptr}
  /\ Kfree(r.heap, r.ptr) = h

LEMMA CopyGives ==
  ASSUME HeapInv(heap), AllMultiples(heap), NEW n \in TextLengths
  PROVE  IsGrant(heap, CopyOf(n))
<1>1. CASE n = NULL
  <2>1. CopyOf(n).ptr = NULL /\ CopyOf(n).heap = heap
    BY <1>1 DEF CopyOf
  <2>2. Kfree(heap, NULL) = heap
    BY DEF Kfree, Allocated, HeapInv, Tiled, HeapTypeOK, NULL
  <2> QED
    BY <2>1, <2>2 DEF IsGrant
<1>2. CASE n # NULL
  <2>1. PICK r : r = Kmalloc(heap, n + 1)
    OBVIOUS
  <2>2. CopyOf(n) = r /\ n + 1 \in Nat
    BY <1>2, <2>1, LogAssumption DEF CopyOf
  <2> QED
    BY <2>1, <2>2, KmallocGives, KmallocSound DEF IsGrant
<1> QED
  BY <1>1, <1>2

LEMMA EntryGives ==
  ASSUME NEW copy, HeapInv(copy.heap), AllMultiples(copy.heap)
  PROVE  IsGrant(copy.heap, EntryFor(copy))
<1>1. PICK r : r = Kmalloc(copy.heap, EntrySize)
  OBVIOUS
<1>2. EntryFor(copy) = r /\ EntrySize \in Nat
  BY <1>1, LogAssumption DEF EntryFor
<1> QED
  BY <1>1, <1>2, KmallocGives, KmallocSound DEF IsGrant

\* The list of slot t after an append of p.
Appended(L, t, p) ==
  [L EXCEPT ![t] = Append(IF Len(L[t]) = LogMax THEN Tail(L[t]) ELSE L[t], p)]

\* The state of the list when log_append_task_id links the new entry: the oldest
\* one is gone if the log was full.
IsRoom(L, t, rest, left, M, G) ==
  /\ AreLists(left, M, G)
  /\ Len(M[t]) < LogMax
  /\ M = [L EXCEPT ![t] = IF Len(L[t]) = LogMax THEN Tail(L[t]) ELSE L[t]]
  /\ G = [FirstOf(log, clearing) EXCEPT ![t] = rest.head]
  /\ rest.tail \in Address /\ rest.count = Len(M[t])
  /\ M[t] # <<>> => rest.tail = M[t][Len(M[t])]

\* The blocks this frees.
Freed(full, head, left) ==
  LET dead == {head, entry[head].message}
  IN  /\ Used(left) = IF full THEN Used(entry) \ dead ELSE Used(entry)
      /\ full => dead \ {NULL} \subseteq Used(entry)

IsFull(t) == log[t].count >= LogMax
RestOf(t) == IF IsFull(t) THEN Dropped(log[t]) ELSE log[t]
LeftOf(t) == IF IsFull(t) THEN Without(entry, log[t].head) ELSE entry

LEMMA RoomMade ==
  ASSUME NEW L, LogOk(heap, entry, log, clearing, L), clearing.task = NULL, NEW t \in Slots
  PROVE  \E M, G : IsRoom(L, t, RestOf(t), LeftOf(t), M, G) /\ Freed(IsFull(t), log[t].head, LeftOf(t))
<1> DEFINE full == IsFull(t)
<1>0. PICK rest, left : rest = RestOf(t) /\ left = LeftOf(t)
  OBVIOUS
<1>1. PICK F : F = FirstOf(log, clearing)
  OBVIOUS
<1>2. /\ F[t] = log[t].head /\ F = [u \in Slots |-> F[u]]
      /\ log[t] \in [head : Address, tail : Address, count : Nat]
  BY <1>1, NoSlotIsNull DEF FirstOf, LogOk
<1>3. AreLists(entry, L, F)
  BY <1>1 DEF LogOk
<1>4. /\ log[t].count = Len(L[t])
      /\ L[t] # <<>> => log[t].tail = L[t][Len(L[t])]
  BY NoSlotIsNull DEF LogOk
<1>5. /\ Len(L[t]) \in Nat /\ Len(L[t]) <= LogMax
      /\ L[t] = <<>> <=> Len(L[t]) = 0
      /\ L[t] \in Seq(DOMAIN entry)
  BY <1>3, ListHolds
<1>6. LogMax \in Nat /\ LogMax # 0
  BY LogAssumption
<1>7. full <=> Len(L[t]) = LogMax
  <2>1. (log[t].count >= LogMax) <=> Len(L[t]) = LogMax
    BY <1>4, <1>5, <1>6
  <2> QED
    BY <2>1, Zenon DEF IsFull
<1>8. L = [u \in Slots |-> L[u]]
  BY <1>3 DEF AreLists
<1>9. CASE full
  <2>1. PICK a : a = log[t].head
    OBVIOUS
  <2>2. L[t] # <<>> /\ a = F[t] /\ left = Without(entry, a) /\ rest = Dropped(log[t])
    BY <1>0, <1>2, <1>5, <1>6, <1>7, <1>9, <2>1 DEF RestOf, LeftOf
  <2>3. PICK M : M = [L EXCEPT ![t] = Tail(@)]
    OBVIOUS
  <2>4. PICK G : G = [F EXCEPT ![t] = entry[a].next]
    OBVIOUS
  <2>5. /\ AreLists(left, M, G)
        /\ Used(left) = Used(entry) \ {a, entry[a].message}
        /\ {a, entry[a].message} \ {NULL} \subseteq Used(entry)
    <3>1. AreDropped(entry, a, left, M, G)
      BY <1>3, <2>2, <2>3, <2>4, DropHead, Zenon
    <3> QED
      BY <3>1 DEF AreDropped
  <2>6. M[t] = Tail(L[t]) /\ G[t] = entry[a].next
    BY <1>2, <1>8, <2>3, <2>4
  <2>7. /\ Len(M[t]) = Len(L[t]) - 1
        /\ \A i \in 1 .. Len(M[t]) : M[t][i] = L[t][i + 1]
    BY <1>5, <2>2, <2>6, HeadTailProperties
  <2>8. /\ rest.head = entry[a].next /\ rest.count = log[t].count - 1
        /\ rest.tail = IF entry[a].next = NULL THEN NULL ELSE log[t].tail
    BY <2>1, <2>2 DEF Dropped
  <2>9. /\ Len(M[t]) < LogMax /\ rest.count = Len(M[t])
    BY <1>4, <1>5, <1>6, <2>7, <2>8
  <2>10. rest.tail \in Address
    BY <1>2, <2>8 DEF Address
  <2>11. M[t] # <<>> => rest.tail = M[t][Len(M[t])]
    <3>1. G[t] = NULL <=> M[t] = <<>>
      BY <2>5, ListHolds
    <3>2. M[t] # <<>> => Len(M[t]) \in Nat /\ Len(M[t]) # 0
      BY <2>5, ListHolds
    <3>3. M[t] # <<>> => M[t][Len(M[t])] = L[t][Len(L[t])]
      BY <1>5, <2>7, <3>2
    <3> QED
      BY <1>4, <2>2, <2>6, <2>8, <3>1, <3>3
  <2>12. IsRoom(L, t, rest, left, M, G)
    BY <1>1, <1>7, <1>9, <2>3, <2>4, <2>5, <2>8, <2>9, <2>10, <2>11 DEF IsRoom
  <2> QED
    BY <1>0, <1>9, <2>1, <2>5, <2>12 DEF Freed
<1>10. CASE ~ full
  <2>1. left = entry /\ rest = log[t]
    BY <1>0, <1>10 DEF RestOf, LeftOf
  <2>2. L = [L EXCEPT ![t] = IF Len(L[t]) = LogMax THEN Tail(L[t]) ELSE L[t]]
    BY <1>7, <1>8, <1>10
  <2>3. F = [F EXCEPT ![t] = rest.head]
    BY <1>2, <2>1
  <2>4. Len(L[t]) < LogMax
    BY <1>5, <1>6, <1>7, <1>10
  <2>5. IsRoom(L, t, rest, left, L, F)
    BY <1>1, <1>2, <1>3, <1>4, <2>1, <2>2, <2>3, <2>4 DEF IsRoom
  <2> QED
    BY <1>0, <1>10, <2>1, <2>5 DEF Freed
<1> QED
  BY <1>0, <1>9, <1>10

\* What both allocations of an append take was not in use.
LEMMA GrantsApart ==
  ASSUME NEW h, HeapInv(h), NEW c, IsGrant(h, c), NEW e, IsGrant(c.heap, e), e.ptr # NULL
  PROVE  /\ e.ptr \in Nat /\ e.ptr \notin Allocated(h) /\ c.ptr \in Address
         /\ c.ptr = NULL \/ (c.ptr \notin Allocated(h) /\ c.ptr # e.ptr)
         /\ Allocated(e.heap) = Allocated(h) \cup ({e.ptr, c.ptr} \ {NULL})
         /\ HeapInv(e.heap) /\ AllMultiples(e.heap)
<1>1. /\ e.ptr \in Nat \ Allocated(c.heap)
      /\ Allocated(e.heap) = Allocated(c.heap) \cup {e.ptr}
      /\ HeapInv(e.heap) /\ AllMultiples(e.heap)
  BY DEF IsGrant
<1>2. CASE c.ptr = NULL
  <2>1. c.heap = h
    BY <1>2 DEF IsGrant
  <2> QED
    BY <1>1, <1>2, <2>1 DEF Address, NULL
<1>3. CASE c.ptr # NULL
  <2>1. c.ptr \in Nat \ Allocated(h) /\ Allocated(c.heap) = Allocated(h) \cup {c.ptr}
    BY <1>3 DEF IsGrant
  <2> QED
    BY <1>1, <1>3, <2>1 DEF Address, NULL
<1> QED
  BY <1>2, <1>3

LEMMA AppendEntryOk ==
  ASSUME NEW L, LogOk(heap, entry, log, clearing, L), clearing = Nowhere, clearing' = clearing,
         panicked = FALSE, NEW t \in Slots, NEW n \in TextLengths, AppendEntry(t, n)
  PROVE  /\ panicked' = FALSE
         /\ LogOk(heap', entry', log', clearing', Appended(L, t, log'[t].tail))
<1>1. PICK copy : copy = CopyOf(n)
  OBVIOUS
<1>2. PICK node : node = EntryFor(copy)
  OBVIOUS
<1>3. PICK p, m, head : p = node.ptr /\ m = copy.ptr /\ head = log[t].head
  OBVIOUS
<1> DEFINE full == IsFull(t)
<1>5. PICK rest : rest = RestOf(t)
  OBVIOUS
<1>6. PICK left : left = LeftOf(t)
  OBVIOUS
<1>7. PICK new : new = With(left, p, [message |-> m, next |-> NULL])
  OBVIOUS
<1>8. /\ p # NULL
      /\ panicked' = (full /\ FreePanics(node.heap, head))
      /\ heap' = IF full THEN FreeEntry(node.heap, head) ELSE node.heap
      /\ entry' = IF rest.head = NULL THEN new ELSE [new EXCEPT ![rest.tail].next = p]
      /\ log' = [log EXCEPT ![t] = Linked(rest, p)]
  BY <1>1, <1>2, <1>3, <1>5, <1>6, <1>7, Zenon DEF AppendEntry, IsFull, RestOf, LeftOf
<1>9. /\ HeapInv(heap) /\ AllMultiples(heap) /\ Allocated(heap) = Used(entry)
      /\ clearing.task = NULL /\ clearing.at = NULL
      /\ AreLists(entry, L, FirstOf(log, clearing))
  BY DEF LogOk, Nowhere
<1>10. /\ p \in Nat /\ p \notin Used(entry) /\ m \in Address
       /\ m = NULL \/ (m \notin Used(entry) /\ m # p)
       /\ Allocated(node.heap) = Used(entry) \cup ({p, m} \ {NULL})
       /\ HeapInv(node.heap) /\ AllMultiples(node.heap)
  <2>1. IsGrant(heap, copy)
    BY <1>1, <1>9, CopyGives
  <2>2. HeapInv(copy.heap) /\ AllMultiples(copy.heap)
    BY <2>1 DEF IsGrant
  <2>3. IsGrant(copy.heap, node)
    BY <1>2, <2>2, EntryGives
  <2> QED
    BY <1>3, <1>8, <1>9, <2>1, <2>3, GrantsApart
<1>11. PICK M, G : IsRoom(L, t, rest, left, M, G) /\ Freed(full, head, left)
  <2>1. head = log[t].head
    BY <1>3
  <2> QED
    BY <1>5, <1>6, <1>9, <2>1, RoomMade, Zenon
<1>12. panicked' = FALSE
  BY <1>8, <1>10, <1>11 DEF FreePanics, Freed
<1>13. HeapInv(heap') /\ AllMultiples(heap')
       /\ Allocated(heap') = Used(left) \cup ({p, m} \ {NULL})
  <2>1. CASE full
    <3>1. PICK dead : dead = entry[head].message
      OBVIOUS
    <3>2. heap' = Kfree(Kfree(node.heap, dead), head)
      BY <1>8, <2>1, <3>1 DEF FreeEntry
    <3>3. /\ HeapInv(heap') /\ AllMultiples(heap')
          /\ Allocated(heap') = Allocated(node.heap) \ {head, dead}
      BY <1>10, <3>2, FreeGives
    <3>4. /\ Used(left) = Used(entry) \ {head, dead}
          /\ {head, dead} \ {NULL} \subseteq Used(entry)
      BY <1>11, <2>1, <3>1 DEF Freed
    <3>5. ASSUME NEW x PROVE x \in Allocated(heap') <=> x \in Used(left) \cup ({p, m} \ {NULL})
      BY <1>10, <3>3, <3>4
    <3> QED
      BY <3>3, <3>5
  <2>2. CASE ~ full
    BY <1>8, <1>10, <1>11, <2>2 DEF Freed
  <2> QED
    BY <2>1, <2>2
<1>14. /\ AreLists(left, M, G)
       /\ Len(M[t]) < LogMax
       /\ M = [L EXCEPT ![t] = IF Len(L[t]) = LogMax THEN Tail(L[t]) ELSE L[t]]
       /\ G = [FirstOf(log, clearing) EXCEPT ![t] = rest.head]
       /\ rest.tail \in Address /\ rest.count = Len(M[t])
       /\ M[t] # <<>> => rest.tail = M[t][Len(M[t])]
  BY <1>11 DEF IsRoom
<1>15. /\ M = [u \in Slots |-> M[u]] /\ L = [u \in Slots |-> L[u]]
       /\ G[t] = rest.head
  BY <1>9, <1>14 DEF AreLists, FirstOf
<1>27. rest.head = NULL <=> M[t] = <<>>
  <2>1. AreLists(left, M, G)
    BY <1>14
  <2>2. G[t] = NULL <=> M[t] = <<>>
    BY <2>1, ListHolds
  <2> QED
    BY <1>15, <2>2
<1>28. rest.head \in Address /\ Len(M[t]) \in Nat
  <2>1. G[t] \in Address /\ Len(M[t]) \in Nat
    BY <1>14, ListHolds, Zenon
  <2> QED
    BY <1>15, <2>1
<1>16. entry' = Put(left, M[t], p, m)
  <2>1. M[t] # <<>> => rest.tail = M[t][Len(M[t])]
    BY <1>14
  <2> QED
    BY <1>7, <1>8, <1>27, <2>1, Zenon DEF Put
<1>17. PICK M2 : M2 = [M EXCEPT ![t] = Append(@, p)]
  OBVIOUS
<1>18. PICK G2 : G2 = [G EXCEPT ![t] = IF @ = NULL THEN p ELSE @]
  OBVIOUS
<1>19. AreLists(entry', M2, G2) /\ Used(entry') = Used(left) \cup ({p, m} \ {NULL})
  <2>1. p \notin Used(left) /\ (m = NULL \/ (m \notin Used(left) /\ m # p))
    BY <1>10, <1>11 DEF Freed
  <2>2. AreLists(left, M, G) /\ Len(M[t]) < LogMax
    BY <1>14
  <2>3. p \in Nat /\ m \in Address
    BY <1>10
  <2>4. ArePushed(left, p, m, entry', M2, G2)
    BY <1>16, <1>17, <1>18, <2>1, <2>2, <2>3, PushTail, Zenon
  <2> QED
    BY <2>4 DEF ArePushed
<1>20. PICK linked : linked = Linked(rest, p)
  OBVIOUS
<1>21. /\ linked.head = (IF rest.head = NULL THEN p ELSE rest.head)
       /\ linked.tail = p /\ linked.count = Len(M[t]) + 1
       /\ linked \in [head : Address, tail : Address, count : Nat]
  <2>1. rest.head \in Address /\ Len(M[t]) \in Nat
    BY <1>28
  <2>2. linked = [head |-> IF rest.head = NULL THEN p ELSE rest.head, tail |-> p,
                  count |-> Len(M[t]) + 1]
    BY <1>14, <1>20 DEF Linked
  <2>3. (IF rest.head = NULL THEN p ELSE rest.head) \in Address /\ p \in Address
    BY <1>10, <2>1 DEF Address
  <2> QED
    BY <2>1, <2>2, <2>3
<1>22. /\ log' = [log EXCEPT ![t] = linked] /\ log'[t] = linked
       /\ \A u \in Slots \ {t} : log'[u] = log[u]
       /\ log' \in [Slots -> [head : Address, tail : Address, count : Nat]]
  BY <1>8, <1>20, <1>21 DEF LogOk
<1>23. G2 = FirstOf(log', clearing')
  <2>1. \A u \in Slots : clearing.task # u
    BY <1>9, NoSlotIsNull
  <2>2. FirstOf(log, clearing) = [u \in Slots |-> log[u].head]
    BY <2>1 DEF FirstOf
  <2>3. FirstOf(log', clearing') = [u \in Slots |-> log'[u].head]
    BY <2>1 DEF FirstOf
  <2>4. G = [[u \in Slots |-> log[u].head] EXCEPT ![t] = rest.head]
    BY <1>14, <2>2
  <2>5. \A u \in Slots : G2[u] = log'[u].head
    BY <1>15, <1>18, <1>21, <1>22, <2>4
  <2>6. G2 = [u \in Slots |-> G2[u]]
    BY <1>18, <2>4
  <2> QED
    BY <2>3, <2>5, <2>6
<1>24. M2 = Appended(L, t, p)
  <2>1. PICK base : base = IF Len(L[t]) = LogMax THEN Tail(L[t]) ELSE L[t]
    OBVIOUS
  <2>2. M = [L EXCEPT ![t] = base] /\ Appended(L, t, p) = [L EXCEPT ![t] = Append(base, p)]
    BY <1>14, <2>1 DEF Appended
  <2>3. M2 = [[L EXCEPT ![t] = base] EXCEPT ![t] = Append(base, p)]
    BY <1>15, <1>17, <2>2
  <2> QED
    BY <2>2, <2>3
<1>25. ASSUME NEW u \in Slots, clearing'.task # u
       PROVE  /\ log'[u].count = Len(M2[u])
              /\ M2[u] # <<>> => log'[u].tail = M2[u][Len(M2[u])]
  <2>1. CASE u = t
    <3>1. M2[t] = Append(M[t], p) /\ M[t] \in Seq(Nat) /\ Len(M[t]) \in Nat
      <4>1. M[t] \in Seq(DOMAIN left) /\ Len(M[t]) \in Nat /\ DOMAIN left \subseteq Nat
        BY <1>14, ListHolds DEF AreLists, IsMemory
      <4> QED
        BY <1>15, <1>17, <4>1, SeqMonotonic
    <3>2. Len(M2[t]) = Len(M[t]) + 1 /\ M2[t][Len(M[t]) + 1] = p
      BY <1>10, <3>1, AppendProperties
    <3> QED
      BY <1>21, <1>22, <2>1, <3>2
  <2>2. CASE u # t
    <3>1. M2[u] = L[u] /\ log'[u] = log[u]
      BY <1>14, <1>15, <1>17, <1>22, <2>2
    <3>2. clearing.task # u
      BY <1>9, NoSlotIsNull
    <3> QED
      BY <3>1, <3>2 DEF LogOk
  <2> QED
    BY <2>1, <2>2
<1>26. LogOk(heap', entry', log', clearing', M2)
  <2>1. AreLists(entry', M2, FirstOf(log', clearing')) /\ Allocated(heap') = Used(entry')
    BY <1>13, <1>19, <1>23
  <2>2. /\ clearing' \in [task : Slots \cup {NULL}, at : Address]
        /\ clearing'.task = NULL => clearing'.at = NULL
    BY DEF LogOk
  <2> QED
    BY <1>13, <1>22, <1>25, <2>1, <2>2 DEF LogOk
<1> QED
  BY <1>12, <1>21, <1>22, <1>24, <1>26

\* An append either leaves everything as it was or puts an entry last.
AppendOutcome(L, t, L2) ==
  \/ L2 = L /\ heap' = heap
  \/ L2 = Appended(L, t, log'[t].tail)

LEMMA AppendOk ==
  ASSUME NEW L, LogOk(heap, entry, log, clearing, L), panicked = FALSE,
         NEW t \in Slots, NEW n \in TextLengths, LogAppend(t, n)
  PROVE  /\ panicked' = FALSE
         /\ \E L2 : LogOk(heap', entry', log', clearing', L2) /\ AppendOutcome(L, t, L2)
<1>1. clearing = Nowhere /\ clearing' = clearing
  BY DEF LogAppend, Runs
<1>2. CASE AppendNoText(n) /\ UNCHANGED <<heap, entry, log, panicked>>
  BY <1>1, <1>2 DEF AppendOutcome
<1>3. CASE AppendNoEntry(n) /\ UNCHANGED <<entry, log, panicked>>
  <2>1. heap' = heap
    <3>1. IsGrant(heap, CopyOf(n))
      BY CopyGives DEF LogOk
    <3> QED
      BY <1>3, <3>1 DEF AppendNoEntry, IsGrant
  <2> QED
    BY <1>1, <1>3, <2>1 DEF AppendOutcome
<1>4. CASE AppendEntry(t, n)
  BY <1>1, <1>4, AppendEntryOk DEF AppendOutcome
<1> QED
  BY <1>2, <1>3, <1>4 DEF LogAppend

LEMMA ClearStartOk ==
  ASSUME NEW L, LogOk(heap, entry, log, clearing, L), panicked = FALSE,
         NEW t \in Slots, ClearStart(t)
  PROVE  panicked' = FALSE /\ LogOk(heap', entry', log', clearing', L)
<1>1. /\ clearing.task = NULL /\ clearing' = [task |-> t, at |-> log[t].head]
      /\ heap' = heap /\ entry' = entry /\ log' = log /\ panicked' = panicked
  BY DEF ClearStart, Runs, Nowhere
<1>2. clearing'.task = t /\ clearing'.at = log[t].head /\ t # NULL
  BY <1>1, NoSlotIsNull
<1>3. log[t].head \in Address
  BY DEF LogOk
<1>4. clearing' \in [task : Slots \cup {NULL}, at : Address]
  BY <1>1, <1>3
<1>5. FirstOf(log', clearing') = FirstOf(log, clearing)
  BY <1>1, <1>2, NoSlotIsNull DEF FirstOf
<1>6. \A u \in Slots : clearing.task # u
  BY <1>1, NoSlotIsNull
<1> QED
  BY <1>1, <1>2, <1>4, <1>5, <1>6 DEF LogOk

LEMMA ClearNextOk ==
  ASSUME NEW L, LogOk(heap, entry, log, clearing, L), panicked = FALSE, ClearNext
  PROVE  panicked' = FALSE /\ \E L2 : LogOk(heap', entry', log', clearing', L2)
<1>1. PICK t, a : t = clearing.task /\ a = clearing.at
  OBVIOUS
<1>2. PICK m : m = entry[a].message
  OBVIOUS
<1>3. /\ a # NULL /\ heap' = Kfree(Kfree(heap, m), a)
      /\ panicked' = FreePanics(heap, a)
      /\ entry' = Without(entry, a)
      /\ clearing' = [clearing EXCEPT !.at = entry[a].next]
      /\ log' = log
  BY <1>1, <1>2 DEF ClearNext, FreeEntry
<1>4. t \in Slots
  BY <1>1, <1>3 DEF LogOk
<1>5. PICK F : F = FirstOf(log, clearing)
  OBVIOUS
<1>6. F[t] = a /\ AreLists(entry, L, F)
  BY <1>1, <1>4, <1>5 DEF FirstOf, LogOk
<1>7. L[t] # <<>>
  <2>1. F[t] = NULL <=> L[t] = <<>>
    BY <1>4, <1>6, ListHolds
  <2> QED
    BY <1>3, <1>6, <2>1
<1>8. PICK L2 : L2 = [L EXCEPT ![t] = Tail(@)]
  OBVIOUS
<1>9. PICK F2 : F2 = [F EXCEPT ![t] = entry[a].next]
  OBVIOUS
<1>10. AreDropped(entry, a, entry', L2, F2)
  BY <1>3, <1>4, <1>6, <1>7, <1>8, <1>9, DropHead, Zenon
<1>11. /\ AreLists(entry', L2, F2)
       /\ Used(entry') = Used(entry) \ {a, m}
       /\ {a, m} \ {NULL} \subseteq Used(entry)
       /\ entry[a].next \in Address
  BY <1>2, <1>10 DEF AreDropped
<1>12. HeapInv(heap') /\ AllMultiples(heap') /\ Allocated(heap') = Used(entry')
  <2>1. HeapInv(heap) /\ AllMultiples(heap) /\ Allocated(heap) = Used(entry)
    BY DEF LogOk
  <2> QED
    BY <1>3, <1>11, <2>1, FreeGives
<1>13. panicked' = FALSE
  BY <1>2, <1>3, <1>11 DEF FreePanics, LogOk
<1>14. /\ clearing'.task = t /\ clearing'.at = entry[a].next /\ t # NULL
       /\ clearing' \in [task : Slots \cup {NULL}, at : Address]
  BY <1>1, <1>3, <1>4, <1>11, NoSlotIsNull DEF LogOk
<1>15. F2 = FirstOf(log', clearing')
  BY <1>1, <1>3, <1>4, <1>5, <1>9, <1>14 DEF FirstOf
<1>16. \A u \in Slots : clearing'.task # u =>
         /\ log'[u].count = Len(L2[u])
         /\ L2[u] # <<>> => log'[u].tail = L2[u][Len(L2[u])]
  <2>1. \A u \in Slots : u # t => L2[u] = L[u]
    BY <1>6, <1>8 DEF AreLists
  <2> QED
    BY <1>1, <1>3, <1>14, <2>1 DEF LogOk
<1>17. log' \in [Slots -> [head : Address, tail : Address, count : Nat]]
  BY <1>3 DEF LogOk
<1>18. LogOk(heap', entry', log', clearing', L2)
  BY <1>11, <1>12, <1>14, <1>15, <1>16, <1>17 DEF LogOk
<1> QED
  BY <1>13, <1>18

LEMMA ClearEndOk ==
  ASSUME NEW L, LogOk(heap, entry, log, clearing, L), panicked = FALSE, ClearEnd
  PROVE  panicked' = FALSE /\ LogOk(heap', entry', log', clearing', L)
<1>1. PICK t : t = clearing.task
  OBVIOUS
<1>2. /\ t \in Slots /\ t # NULL /\ clearing.at = NULL
      /\ log' = [log EXCEPT ![t] = NoLog] /\ clearing' = Nowhere
      /\ heap' = heap /\ entry' = entry /\ panicked' = panicked
  BY <1>1 DEF ClearEnd, LogOk
<1>3. NoLog \in [head : Address, tail : Address, count : Nat]
  BY DEF NoLog, Address
<1>4. /\ log' \in [Slots -> [head : Address, tail : Address, count : Nat]]
      /\ log'[t] = NoLog /\ \A u \in Slots \ {t} : log'[u] = log[u]
  BY <1>2, <1>3 DEF LogOk
<1>5. NoLog.head = NULL /\ NoLog.count = 0
  BY DEF NoLog
<1>6. /\ clearing'.task = NULL /\ clearing'.at = NULL
      /\ clearing' \in [task : Slots \cup {NULL}, at : Address]
  BY <1>2 DEF Nowhere, Address
<1>7. FirstOf(log', clearing') = FirstOf(log, clearing)
  <2>1. \A u \in Slots : FirstOf(log', clearing')[u] = FirstOf(log, clearing)[u]
    BY <1>1, <1>2, <1>4, <1>5, <1>6, NoSlotIsNull DEF FirstOf
  <2> QED
    BY <2>1 DEF FirstOf
<1>8. L[t] = <<>> /\ Len(L[t]) = 0
  <2>1. AreLists(entry, L, FirstOf(log, clearing)) /\ FirstOf(log, clearing)[t] = NULL
    BY <1>1, <1>2 DEF LogOk, FirstOf
  <2>2. PICK F : F = FirstOf(log, clearing)
    OBVIOUS
  <2>3. (F[t] = NULL <=> L[t] = <<>>) /\ (L[t] = <<>> <=> Len(L[t]) = 0)
    BY <1>2, <2>1, <2>2, ListHolds
  <2> QED
    BY <2>1, <2>2, <2>3
<1>9. \A u \in Slots : clearing'.task # u =>
        /\ log'[u].count = Len(L[u])
        /\ L[u] # <<>> => log'[u].tail = L[u][Len(L[u])]
  BY <1>1, <1>4, <1>5, <1>8 DEF LogOk
<1> QED
  BY <1>2, <1>4, <1>6, <1>7, <1>9 DEF LogOk

LEMMA LogInvInit == LogInit => LogInv
<1> SUFFICES ASSUME LogInit PROVE LogInv
  OBVIOUS
<1>1. /\ heap = HeapInit /\ entry = [a \in {} |-> {}] /\ log = [t \in Slots |-> NoLog]
      /\ clearing = Nowhere /\ panicked = FALSE
  BY DEF LogInit
<1>2. PICK L : L = [t \in Slots |-> <<>>]
  OBVIOUS
<1>3. /\ DOMAIN entry = {} /\ Used(entry) = {} /\ entry \in [{} -> Entry]
  BY <1>1 DEF Used
<1>4. clearing.task = NULL /\ clearing.at = NULL
      /\ clearing \in [task : Slots \cup {NULL}, at : Address]
  BY <1>1 DEF Nowhere, Address
<1>5. NoLog \in [head : Address, tail : Address, count : Nat] /\ NoLog.count = 0 /\ NoLog.head = NULL
  BY DEF NoLog, Address
<1>6. PICK F : F = FirstOf(log, clearing)
  OBVIOUS
<1>7. F = [t \in Slots |-> F[t]] /\ \A t \in Slots : F[t] = NULL
  BY <1>1, <1>4, <1>5, <1>6, NoSlotIsNull DEF FirstOf
<1>8. \A t \in Slots : L[t] = <<>> /\ Len(L[t]) = 0
  BY <1>2, EmptySeq
<1>9. \A t \in Slots : IsList(entry, L[t], F[t]) /\ Len(L[t]) <= LogMax
  <2> SUFFICES ASSUME NEW t \in Slots PROVE IsList(entry, L[t], F[t]) /\ Len(L[t]) <= LogMax
    OBVIOUS
  <2>1. <<>> \in Seq(DOMAIN entry) /\ LogMax \in Nat
    BY EmptySeq, LogAssumption
  <2>2. L[t] = <<>> /\ F[t] = NULL /\ Len(L[t]) = 0
    BY <1>7, <1>8
  <2>3. 1 .. Len(L[t]) = {}
    BY <2>2
  <2> QED
    BY <2>1, <2>2, <2>3 DEF IsList
<1>10. AreLists(entry, L, F)
  <2>1. IsMemory(entry) /\ UsedOnce(entry) /\ AllListed(entry, L)
    BY <1>3 DEF IsMemory, UsedOnce, AllListed
  <2>2. ListedOnce(L)
    BY <1>8 DEF ListedOnce
  <2> QED
    BY <1>2, <1>7, <1>9, <2>1, <2>2 DEF AreLists
<1>11. LogOk(heap, entry, log, clearing, L)
  <2>1. HeapInv(heap) /\ AllMultiples(heap) /\ Allocated(heap) = Used(entry)
    BY <1>1, <1>3, HeapInitSound, HeapInitAligned
  <2>2. log \in [Slots -> [head : Address, tail : Address, count : Nat]]
    BY <1>1, <1>5
  <2> QED
    BY <1>1, <1>4, <1>5, <1>6, <1>8, <1>10, <2>1, <2>2 DEF LogOk
<1> QED
  BY <1>1, <1>11 DEF LogInv

LEMMA LogInvStep == LogInv /\ [LogNext]_logVars => LogInv'
<1> SUFFICES ASSUME LogInv, [LogNext]_logVars PROVE LogInv'
  OBVIOUS
<1>1. panicked = FALSE
  BY DEF LogInv
<1>2. PICK L : LogOk(heap, entry, log, clearing, L)
  BY DEF LogInv
<1>3. CASE \E t \in Slots, n \in TextLengths : LogAppend(t, n)
  BY <1>1, <1>2, <1>3, AppendOk DEF LogInv
<1>4. CASE \E t \in Slots : ClearStart(t)
  BY <1>1, <1>2, <1>4, ClearStartOk DEF LogInv
<1>5. CASE ClearNext
  BY <1>1, <1>2, <1>5, ClearNextOk DEF LogInv
<1>6. CASE ClearEnd
  BY <1>1, <1>2, <1>6, ClearEndOk DEF LogInv
<1>7. CASE UNCHANGED logVars
  BY <1>1, <1>2, <1>7 DEF LogInv, logVars
<1> QED
  BY <1>3, <1>4, <1>5, <1>6, <1>7 DEF LogNext

\* The list that the property computes is the one the invariant names.
LEMMA ListOf ==
  ASSUME NEW L, LogOk(heap, entry, log, clearing, L), NEW t \in Slots
  PROVE  List(t) = L[t]
<1>1. PICK F : F = FirstOf(log, clearing)
  OBVIOUS
<1>2. AreLists(entry, L, F) /\ F[t] = First(t)
  BY <1>1 DEF LogOk, FirstOf, First
<1>3. ListFrom(entry, F[t]) = L[t]
  BY <1>2, ListsAre
<1> QED
  BY <1>2, <1>3 DEF List

LEMMA ListOfNext ==
  ASSUME NEW L, LogOk(heap', entry', log', clearing', L), NEW t \in Slots
  PROVE  List(t)' = L[t]
<1>1. PICK F : F = FirstOf(log', clearing')
  OBVIOUS
<1>2. AreLists(entry', L, F) /\ F[t] = First(t)'
  BY <1>1 DEF LogOk, FirstOf, First
<1>3. ListFrom(entry', F[t]) = L[t]
  BY <1>2, ListsAre
<1> QED
  BY <1>2, <1>3 DEF List

LEMMA EntriesAre ==
  ASSUME NEW L, LogOk(heap, entry, log, clearing, L), NEW t \in Slots
  PROVE  Entries(t) = {L[t][i] : i \in 1 .. Len(L[t])}
<1>1. List(t) = L[t]
  BY ListOf
<1>2. L[t] \in Seq(DOMAIN entry)
  BY ListHolds DEF LogOk
<1>3. DOMAIN L[t] = 1 .. Len(L[t])
  BY <1>2, LenProperties
<1> QED
  BY <1>1, <1>3 DEF Entries

\* The entries of the lists and their messages are all that is used.
LEMMA AllUsed ==
  ASSUME NEW L, LogOk(heap, entry, log, clearing, L)
  PROVE  Used(entry) = UNION {Entries(t) \cup Messages(t) : t \in Slots}
<1>1. AllListed(entry, L)
  BY DEF LogOk, AreLists
<1>2. \A t \in Slots : Entries(t) = {L[t][i] : i \in 1 .. Len(L[t])}
  BY EntriesAre
<1>3. \A t \in Slots : Entries(t) \subseteq DOMAIN entry
  <2> SUFFICES ASSUME NEW t \in Slots PROVE Entries(t) \subseteq DOMAIN entry
    OBVIOUS
  <2>1. L[t] \in Seq(DOMAIN entry)
    BY ListHolds DEF LogOk
  <2>2. \A i \in 1 .. Len(L[t]) : L[t][i] \in DOMAIN entry
    BY <2>1, ElementOfSeq
  <2> QED
    BY <1>2, <2>2
<1>4. \A a \in DOMAIN entry : \E t \in Slots : a \in Entries(t)
  BY <1>1, <1>2 DEF AllListed
<1>5. ASSUME NEW a \in Used(entry)
      PROVE  \E t \in Slots : a \in Entries(t) \cup Messages(t)
  <2>1. CASE a \in DOMAIN entry
    BY <1>4, <2>1
  <2>2. CASE a \notin DOMAIN entry
    <3>1. PICK b \in DOMAIN entry : a = entry[b].message /\ a # NULL
      BY <2>2 DEF Used
    <3>2. PICK t \in Slots : b \in Entries(t)
      BY <1>4
    <3> QED
      BY <3>1, <3>2 DEF Messages
  <2> QED
    BY <2>1, <2>2
<1>6. ASSUME NEW t \in Slots, NEW a \in Entries(t) \cup Messages(t)
      PROVE  a \in Used(entry)
  BY <1>3 DEF Used, Messages
<1> QED
  BY <1>5, <1>6

LEMMA InvLeaksNothing == LogInv => NothingLeaks
<1> SUFFICES ASSUME LogInv PROVE NothingLeaks
  OBVIOUS
<1>1. PICK L : LogOk(heap, entry, log, clearing, L)
  BY DEF LogInv
<1>2. ~ panicked
  BY DEF LogInv
<1>3. Aligned(heap)
  BY <1>1, AlignedIs DEF LogOk
<1>4. Allocated(heap) = UNION {Entries(t) \cup Messages(t) : t \in Slots}
  BY <1>1, AllUsed DEF LogOk
<1>5. \A t, u \in Slots : t # u => Entries(t) \cap Entries(u) = {}
  <2> SUFFICES ASSUME NEW t \in Slots, NEW u \in Slots, NEW a, a \in Entries(t), a \in Entries(u)
               PROVE  t = u
    OBVIOUS
  <2>1. PICK i \in 1 .. Len(L[t]) : a = L[t][i]
    BY <1>1, EntriesAre
  <2>2. PICK j \in 1 .. Len(L[u]) : a = L[u][j]
    BY <1>1, EntriesAre
  <2>3. ListedOnce(L)
    BY <1>1 DEF LogOk, AreLists
  <2> QED
    BY <2>1, <2>2, <2>3 DEF ListedOnce
<1>6. \A a, b \in DOMAIN entry :
        /\ entry[a].message # b
        /\ a # b /\ entry[a].message # NULL => entry[a].message # entry[b].message
  BY <1>1 DEF LogOk, AreLists, UsedOnce
<1>7. \A t \in Slots : clearing.task # t =>
        /\ Len(List(t)) = log[t].count
        /\ log[t].count > 0 => log[t].tail = List(t)[log[t].count]
  <2> SUFFICES ASSUME NEW t \in Slots, clearing.task # t
               PROVE  /\ Len(List(t)) = log[t].count
                      /\ log[t].count > 0 => log[t].tail = List(t)[log[t].count]
    OBVIOUS
  <2>1. List(t) = L[t]
    BY <1>1, ListOf
  <2>2. log[t].count = Len(L[t]) /\ (L[t] # <<>> => log[t].tail = L[t][Len(L[t])])
    BY <1>1 DEF LogOk
  <2>3. L[t] = <<>> <=> Len(L[t]) = 0
    BY <1>1, ListHolds DEF LogOk
  <2> QED
    BY <2>1, <2>2, <2>3
<1> QED
  BY <1>2, <1>3, <1>4, <1>5, <1>6, <1>7 DEF NothingLeaks

\* Whatever is logged, dropped and cleared, and wherever the heap runs out: the
\* allocated blocks are the entries and messages of the lists and nothing else,
\* none is used twice, no kfree panics and every block is aligned
\* (log.c: log_append_task_id, log_drop_oldest, log_clear_task_id).
THEOREM LogsLeakNothing == LogSpec => []NothingLeaks
  BY LogInvInit, LogInvStep, InvLeaksNothing, PTL DEF LogSpec

LEMMA AppendQueues ==
  ASSUME LogInv, NEW t \in Slots, NEW n \in TextLengths, LogAppend(t, n)
  PROVE  /\ \/ List(t)' = List(t) /\ heap' = heap
            \/ List(t)' = (IF Len(List(t)) = LogMax THEN Tail(List(t)) ELSE List(t))
                            \o <<log'[t].tail>>
         /\ \A u \in Slots \ {t} : List(u)' = List(u)
<1>1. PICK L : LogOk(heap, entry, log, clearing, L)
  BY DEF LogInv
<1>2. PICK L2 : LogOk(heap', entry', log', clearing', L2) /\ AppendOutcome(L, t, L2)
  BY <1>1, AppendOk DEF LogInv
<1>3. \A u \in Slots : List(u) = L[u] /\ List(u)' = L2[u]
  <2> SUFFICES ASSUME NEW u \in Slots PROVE List(u) = L[u] /\ List(u)' = L2[u]
    OBVIOUS
  <2> QED
    BY <1>1, <1>2, ListOf, ListOfNext
<1>4. CASE L2 = L /\ heap' = heap
  BY <1>3, <1>4
<1>5. CASE L2 = Appended(L, t, log'[t].tail)
  <2>1. PICK p : p = log'[t].tail
    OBVIOUS
  <2>2. PICK M : M = IF Len(L[t]) = LogMax THEN Tail(L[t]) ELSE L[t]
    OBVIOUS
  <2>3. L = [u \in Slots |-> L[u]]
    BY <1>1 DEF LogOk, AreLists
  <2>4. L2[t] = Append(M, p) /\ \A u \in Slots \ {t} : L2[u] = L[u]
    BY <1>5, <2>1, <2>2, <2>3 DEF Appended
  <2>5. M \in Seq(Nat) /\ p \in Address
    <3>1. L[t] \in Seq(DOMAIN entry) /\ (L[t] = <<>> <=> Len(L[t]) = 0) /\ DOMAIN entry \subseteq Nat
      <4>1. DOMAIN entry \subseteq Nat
        BY <1>1 DEF LogOk, AreLists, IsMemory
      <4> QED
        BY <1>1, <4>1, ListHolds DEF LogOk
    <3>2. L[t] \in Seq(Nat)
      BY <3>1
    <3>3. Len(L[t]) = LogMax => Tail(L[t]) \in Seq(Nat)
      BY <3>1, <3>2, LogAssumption
    <3>4. p \in Address
      BY <1>2, <2>1 DEF LogOk
    <3> QED
      BY <2>2, <3>2, <3>3, <3>4
  <2>6. Append(M, p) = M \o <<p>>
    <3>1. M \in Seq(Address)
      BY <2>5 DEF Address
    <3> QED
      BY <2>5, <3>1, AppendIsConcat
  <2> QED
    BY <1>3, <2>1, <2>2, <2>4, <2>6
<1> QED
  BY <1>2, <1>4, <1>5 DEF AppendOutcome

\* For every heap, message and log depth: an append is all or nothing.  If it
\* fails the whole heap is what it was, so the copy that was made before the entry
\* could not be leaves no trace; if it succeeds the new entry is the last of its
\* list and only a full list loses its oldest (log.c: log_append_task_id).
THEOREM AppendsAreQueues == LogSpec => AppendIsQueue
<1>1. LogInv /\ [LogNext]_logVars =>
        [\A t \in Slots, n \in TextLengths : LogAppend(t, n) =>
           /\ \/ List(t)' = List(t) /\ heap' = heap
              \/ List(t)' = (IF Len(List(t)) = LogMax THEN Tail(List(t)) ELSE List(t))
                              \o <<log'[t].tail>>
           /\ \A u \in Slots \ {t} : List(u)' = List(u)]_logVars
  BY AppendQueues
<1> QED
  BY <1>1, LogInvInit, LogInvStep, PTL DEF LogSpec, AppendIsQueue
=============================================================================
