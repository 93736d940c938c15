--------------------------- MODULE ConsoleProofs ---------------------------
(***************************************************************************)
(* The serial console, for every size of its rings and FIFOs, every number *)
(* of writers and dumpers and every set of characters: the receive ring is *)
(* the queue of AbstractInput, the trace keeps the newest records, the     *)
(* bytes of a writer stay in order, the signals of the transmit ring       *)
(* suffice for the writers that wait, the shell does not sleep on input    *)
(* and a dump gets shorter with each of its turns.                         *)
(*                                                                         *)
(* A ring and its two indices are read as a sequence (Ring); what is taken *)
(* from it and put into it is proved of the sequence once (RingPop,        *)
(* RingPush, RingFill) and used for the trace and for the receive ring.    *)
(***************************************************************************)
EXTENDS Console, Sequences, SequenceTheorems, FiniteSetTheorems, WellFoundedInduction, TLAPS

\* The remainder, as a name the provers need not look behind.
Mod(x, n) == x % n

\* Remainders of what is less than twice the divisor.
LEMMA Wrap ==
  ASSUME NEW n \in Nat \ {0}, NEW x \in 0 .. n + n - 1
  PROVE  Mod(x, n) = (IF x < n THEN x ELSE x - n)
  BY DEF Mod

-----------------------------------------------------------------------------
\* A ring of n cells, read from t and written at h, as a sequence.
Put(c, h, e)     == [c EXCEPT ![h] = e]
Cells(n, S)      == [0 .. n - 1 -> S]
Used(h, t, n)    == Mod(h - t + n, n)
Ring(c, h, t, n) == [k \in 1 .. Used(h, t, n) |-> c[Mod(t + k - 1, n)]]
Cell(t, k, n)    == IF t + k - 1 < n THEN t + k - 1 ELSE t + k - 1 - n

IsRing(c, h, t, n, S) ==
  /\ Ring(c, h, t, n) \in Seq(S)
  /\ Len(Ring(c, h, t, n)) = Used(h, t, n)
  /\ \A k \in 1 .. Used(h, t, n) : Ring(c, h, t, n)[k] = c[Cell(t, k, n)]

LEMMA UsedIs ==
  ASSUME NEW n \in Nat \ {0}, NEW h \in 0 .. n - 1, NEW t \in 0 .. n - 1
  PROVE  /\ Used(h, t, n) = (IF t <= h THEN h - t ELSE h - t + n)
         /\ Used(h, t, n) \in 0 .. n - 1
<1>1. h - t + n \in 0 .. n + n - 1
  OBVIOUS
<1>2. Mod(h - t + n, n) = (IF h - t + n < n THEN h - t + n ELSE h - t + n - n)
  BY <1>1, Wrap
<1> QED
  BY <1>2 DEF Used

LEMMA RingIsSeq ==
  ASSUME NEW S, NEW n \in Nat \ {0}, NEW c \in Cells(n, S),
         NEW h \in 0 .. n - 1, NEW t \in 0 .. n - 1
  PROVE  IsRing(c, h, t, n, S)
<1>1. Used(h, t, n) \in 0 .. n - 1
  BY UsedIs
<1>2. ASSUME NEW k \in 1 .. Used(h, t, n)
      PROVE  /\ Mod(t + k - 1, n) = Cell(t, k, n)
             /\ c[Mod(t + k - 1, n)] \in S
  <2>1. t + k - 1 \in 0 .. n + n - 1
    BY <1>1
  <2> QED
    BY <2>1, Wrap DEF Cell, Cells
<1>3. Ring(c, h, t, n) \in [1 .. Used(h, t, n) -> S]
  BY <1>2 DEF Ring
<1>4. Ring(c, h, t, n) \in Seq(S) /\ Len(Ring(c, h, t, n)) = Used(h, t, n)
  BY <1>1, <1>3
<1> QED
  BY <1>2, <1>4 DEF Ring, IsRing

\* The oldest cell is given up.
LEMMA RingPop ==
  ASSUME NEW S, NEW n \in Nat \ {0}, NEW c \in Cells(n, S),
         NEW h \in 0 .. n - 1, NEW t \in 0 .. n - 1, h # t
  PROVE  /\ Ring(c, h, t, n) # <<>>
         /\ Ring(c, h, Mod(t + 1, n), n) = Tail(Ring(c, h, t, n))
         /\ Used(h, Mod(t + 1, n), n) = Used(h, t, n) - 1
         /\ Mod(t + 1, n) \in 0 .. n - 1
<1> DEFINE u == Mod(t + 1, n)
<1>1. u \in 0 .. n - 1 /\ u = (IF t + 1 < n THEN t + 1 ELSE 0)
  BY Wrap
<1> HIDE DEF u
<1>2. Used(h, u, n) = Used(h, t, n) - 1 /\ Used(h, t, n) \in 1 .. n - 1
  <2>1. Used(h, t, n) = (IF t <= h THEN h - t ELSE h - t + n)
    BY UsedIs
  <2>2. Used(h, u, n) = (IF u <= h THEN h - u ELSE h - u + n)
    BY <1>1, UsedIs
  <2> QED
    BY <1>1, <2>1, <2>2
<1>3. PICK r : r = Ring(c, h, t, n)
  OBVIOUS
<1>4. PICK q : q = Ring(c, h, u, n)
  OBVIOUS
<1>5. PICK l \in 1 .. n - 1 : l = Used(h, t, n)
  BY <1>2
<1>6. r \in Seq(S) /\ Len(r) = l /\ (\A k \in 1 .. l : r[k] = c[Cell(t, k, n)])
  <2>1. IsRing(c, h, t, n, S)
    BY RingIsSeq
  <2> QED
    BY <1>3, <1>5, <2>1 DEF IsRing
<1>7. q \in Seq(S) /\ Len(q) = l - 1 /\ (\A k \in 1 .. l - 1 : q[k] = c[Cell(u, k, n)])
  <2>1. IsRing(c, h, u, n, S)
    BY <1>1, RingIsSeq
  <2> QED
    BY <1>2, <1>4, <1>5, <2>1 DEF IsRing
<1>8. r # <<>>
  BY <1>6
<1>9. Tail(r) \in Seq(S) /\ Len(Tail(r)) = l - 1 /\ (\A k \in 1 .. l - 1 : Tail(r)[k] = r[k + 1])
  BY <1>6, <1>8, HeadTailProperties
<1>10. ASSUME NEW k \in 1 .. l - 1 PROVE q[k] = Tail(r)[k]
  <2>1. Cell(u, k, n) = Cell(t, k + 1, n)
    BY <1>1 DEF Cell
  <2>2. k + 1 \in 1 .. l
    OBVIOUS
  <2> QED
    BY <1>6, <1>7, <1>9, <2>1, <2>2
<1>11. q = Tail(r)
  BY <1>7, <1>9, <1>10, SeqEqual
<1> QED
  BY <1>1, <1>2, <1>3, <1>4, <1>8, <1>11 DEF u

\* A new cell is filled in.
LEMMA RingPush ==
  ASSUME NEW S, NEW n \in Nat \ {0}, NEW c \in Cells(n, S),
         NEW h \in 0 .. n - 1, NEW t \in 0 .. n - 1, Used(h, t, n) < n - 1,
         NEW e \in S
  PROVE  /\ Ring(Put(c, h, e), Mod(h + 1, n), t, n) = Append(Ring(c, h, t, n), e)
         /\ Mod(h + 1, n) \in 0 .. n - 1
<1> DEFINE g == Mod(h + 1, n)
<1>1. g \in 0 .. n - 1 /\ g = (IF h + 1 < n THEN h + 1 ELSE 0)
  BY Wrap
<1> HIDE DEF g
<1>2. Used(g, t, n) = Used(h, t, n) + 1 /\ Used(h, t, n) \in 0 .. n - 2
  <2>1. Used(h, t, n) = (IF t <= h THEN h - t ELSE h - t + n)
    BY UsedIs
  <2>2. Used(g, t, n) = (IF t <= g THEN g - t ELSE g - t + n)
    BY <1>1, UsedIs
  <2> QED
    BY <1>1, <2>1, <2>2
<1>3. PICK d : d = Put(c, h, e)
  OBVIOUS
<1>4. d \in Cells(n, S) /\ d[h] = e /\ (\A x \in 0 .. n - 1 : x # h => d[x] = c[x])
  BY <1>3 DEF Cells, Put
<1>5. IsRing(d, g, t, n, S)
  BY <1>1, <1>4, RingIsSeq
<1>6. PICK l \in 0 .. n - 2 : l = Used(h, t, n)
  BY <1>2
<1>7. PICK r : r = Ring(c, h, t, n)
  OBVIOUS
<1>8. PICK q : q = Ring(d, g, t, n)
  OBVIOUS
<1>9. r \in Seq(S) /\ Len(r) = l /\ (\A k \in 1 .. l : r[k] = c[Cell(t, k, n)])
  BY <1>6, <1>7, RingIsSeq DEF IsRing
<1>10. q \in Seq(S) /\ Len(q) = l + 1 /\ (\A k \in 1 .. l + 1 : q[k] = d[Cell(t, k, n)])
  BY <1>2, <1>5, <1>6, <1>8 DEF IsRing
<1>11. /\ Append(r, e) \in Seq(S)
       /\ Len(Append(r, e)) = l + 1
       /\ \A k \in 1 .. l : Append(r, e)[k] = r[k]
       /\ Append(r, e)[l + 1] = e
  BY <1>9, AppendProperties
<1>12. \A k \in 1 .. l + 1 : Cell(t, k, n) \in 0 .. n - 1 /\ (Cell(t, k, n) = h <=> k = l + 1)
  <2>1. l = (IF t <= h THEN h - t ELSE h - t + n)
    BY <1>6, UsedIs
  <2> QED
    BY <2>1 DEF Cell
<1>13. ASSUME NEW k \in 1 .. l + 1 PROVE q[k] = Append(r, e)[k]
  <2>1. CASE k = l + 1
    BY <1>4, <1>10, <1>11, <1>12, <2>1
  <2>2. CASE k # l + 1
    <3>1. k \in 1 .. l
      BY <2>2
    <3> QED
      BY <1>4, <1>9, <1>10, <1>11, <1>12, <2>2, <3>1
  <2> QED
    BY <2>1, <2>2
<1>14. q = Append(r, e)
  BY <1>10, <1>11, <1>13, SeqEqual
<1> QED
  BY <1>1, <1>3, <1>7, <1>8, <1>14 DEF g

\* m elements of f are filled in at once.
Filled(c, h, f, m, n) ==
  [i \in 0 .. n - 1 |-> IF Used(i, h, n) < m THEN f[Used(i, h, n) + 1] ELSE c[i]]

LEMMA RingFill ==
  ASSUME NEW S, NEW n \in Nat \ {0}, NEW c \in Cells(n, S),
         NEW h \in 0 .. n - 1, NEW t \in 0 .. n - 1,
         NEW f \in Seq(S), NEW m \in 0 .. Len(f), Used(h, t, n) + m \in 0 .. n - 1
  PROVE  /\ Ring(Filled(c, h, f, m, n), Mod(h + m, n), t, n)
              = SubSeq(Ring(c, h, t, n) \o f, 1, Used(h, t, n) + m)
         /\ Mod(h + m, n) \in 0 .. n - 1
         /\ Filled(c, h, f, m, n) \in Cells(n, S)
<1> DEFINE g == Mod(h + m, n)
<1>1. g \in 0 .. n - 1 /\ g = (IF h + m < n THEN h + m ELSE h + m - n)
  <2>1. Used(h, t, n) \in 0 .. n - 1
    BY UsedIs
  <2>2. h + m \in 0 .. n + n - 1
    BY <2>1
  <2>3. g = (IF h + m < n THEN h + m ELSE h + m - n)
    BY <2>2, Wrap
  <2> QED
    BY <2>2, <2>3
<1> HIDE DEF g
<1>2. Used(g, t, n) = Used(h, t, n) + m /\ Used(h, t, n) \in 0 .. n - 1
  <2>1. Used(h, t, n) = (IF t <= h THEN h - t ELSE h - t + n)
    BY UsedIs
  <2>2. Used(g, t, n) = (IF t <= g THEN g - t ELSE g - t + n)
    BY <1>1, UsedIs
  <2> QED
    BY <1>1, <2>1, <2>2
<1>3. PICK d : d = Filled(c, h, f, m, n)
  OBVIOUS
<1>4. PICK p : p = [i \in 0 .. n - 1 |-> Used(i, h, n)]
  OBVIOUS
<1>5. \A i \in 0 .. n - 1 : p[i] \in 0 .. n - 1 /\ p[i] = (IF h <= i THEN i - h ELSE i - h + n)
  BY <1>4, UsedIs
<1>6. \A i \in 0 .. n - 1 : d[i] = (IF p[i] < m THEN f[p[i] + 1] ELSE c[i])
  BY <1>3, <1>4 DEF Filled
<1>7. d \in Cells(n, S)
  <2>1. ASSUME NEW i \in 0 .. n - 1 PROVE d[i] \in S
    <3>1. CASE p[i] < m
      <4>1. p[i] + 1 \in 1 .. Len(f)
        BY <1>5, <3>1
      <4>2. f[p[i] + 1] \in S
        BY <4>1, ElementOfSeq
      <4> QED
        BY <1>6, <3>1, <4>2
    <3>2. CASE ~ (p[i] < m)
      BY <1>6, <3>2 DEF Cells
    <3> QED
      BY <3>1, <3>2
  <2> QED
    BY <1>3, <2>1 DEF Cells, Filled
<1>8. PICK l \in 0 .. n - 1 : l = Used(h, t, n)
  BY <1>2
<1>9. IsRing(d, g, t, n, S)
  BY <1>1, <1>7, RingIsSeq
<1>10. IsRing(c, h, t, n, S)
  BY RingIsSeq
<1>11. PICK r : r = Ring(c, h, t, n)
  OBVIOUS
<1>12. PICK q : q = Ring(d, g, t, n)
  OBVIOUS
<1>13. r \in Seq(S) /\ Len(r) = l /\ (\A k \in 1 .. l : r[k] = c[Cell(t, k, n)])
  BY <1>8, <1>10, <1>11 DEF IsRing
<1>14. q \in Seq(S) /\ Len(q) = l + m /\ (\A k \in 1 .. l + m : q[k] = d[Cell(t, k, n)])
  BY <1>2, <1>8, <1>9, <1>12 DEF IsRing
<1>15. PICK z : z = r \o f
  OBVIOUS
<1>16. /\ z \in Seq(S)
       /\ Len(z) = l + Len(f)
       /\ \A k \in 1 .. l + Len(f) : z[k] = (IF k <= l THEN r[k] ELSE f[k - l])
  BY <1>13, <1>15, ConcatProperties
<1>17. \A k \in 1 .. l + m :
         /\ Cell(t, k, n) \in 0 .. n - 1
         /\ k <= l => p[Cell(t, k, n)] = k - 1 - l + n
         /\ k > l => p[Cell(t, k, n)] = k - 1 - l
  <2>1. l = (IF t <= h THEN h - t ELSE h - t + n)
    BY <1>8, UsedIs
  <2>2. TAKE k \in 1 .. l + m
  <2>3. PICK x : x = Cell(t, k, n)
    OBVIOUS
  <2>4. x \in 0 .. n - 1 /\ x = (IF t + k - 1 < n THEN t + k - 1 ELSE t + k - 1 - n)
    BY <1>8, <2>3 DEF Cell
  <2>5. p[x] = (IF h <= x THEN x - h ELSE x - h + n)
    BY <1>5, <2>4
  <2> QED
    BY <1>8, <2>1, <2>3, <2>4, <2>5
<1>18. ASSUME NEW k \in 1 .. l + m PROVE q[k] = z[k]
  <2>1. PICK x \in 0 .. n - 1 : x = Cell(t, k, n)
    BY <1>17
  <2>2. q[k] = d[x] /\ d[x] = (IF p[x] < m THEN f[p[x] + 1] ELSE c[x])
    BY <1>6, <1>14, <2>1
  <2>3. k \in 1 .. l + Len(f)
    OBVIOUS
  <2>4. z[k] = (IF k <= l THEN r[k] ELSE f[k - l])
    BY <1>16, <2>3
  <2>5. CASE k <= l
    <3>1. ~ (p[x] < m)
      BY <1>8, <1>17, <2>1, <2>5
    <3>2. r[k] = c[x]
      BY <1>13, <2>1, <2>5
    <3> QED
      BY <2>2, <2>4, <2>5, <3>1, <3>2
  <2>6. CASE k > l
    <3>1. p[x] = k - 1 - l
      BY <1>17, <2>1, <2>6
    <3>2. p[x] < m /\ p[x] + 1 = k - l
      BY <2>6, <3>1
    <3> QED
      BY <2>2, <2>4, <2>6, <3>2
  <2> QED
    BY <2>5, <2>6
<1>19. PICK s : s = SubSeq(z, 1, l + m)
  OBVIOUS
<1>20. s \in Seq(S) /\ Len(s) = l + m /\ (\A k \in 1 .. l + m : s[k] = z[k])
  <2>1. \A k \in 1 .. l + m : z[k] \in S
    BY <1>16, ElementOfSeq
  <2> QED
    BY <1>19, <2>1, SubSeqProperties
<1>21. q = s
  BY <1>14, <1>18, <1>20, SeqEqual
<1> QED
  BY <1>1, <1>3, <1>7, <1>8, <1>11, <1>12, <1>19, <1>21, <1>15 DEF g

-----------------------------------------------------------------------------
\* The indices of the trace are slots, its cells hold record numbers.
TraceOk ==
  /\ buffer \in Cells(TraceSize, Nat)
  /\ head \in 0 .. TraceSize - 1
  /\ tail \in 0 .. TraceSize - 1
  /\ made \in 0 .. TracePeriod - 1

TraceTypes == part = "trace" => TraceOk

\* The records that wait are the ring from tail to head.
LEMMA TraceIsRing ==
  ASSUME TraceOk
  PROVE  /\ Trace!Count = Used(head, tail, TraceSize)
         /\ Trace!Waiting = Ring(buffer, head, tail, TraceSize)
         /\ Trace!Following(head) = Mod(head + 1, TraceSize)
         /\ Trace!Following(tail) = Mod(tail + 1, TraceSize)
<1>1. TraceSize \in Nat \ {0}
  BY ConsoleAssumption DEF ConsoleAssumption
<1>2. Used(head, tail, TraceSize) = (IF tail <= head THEN head - tail ELSE head - tail + TraceSize)
  BY <1>1, UsedIs DEF TraceOk
<1>3. Trace!Count = Used(head, tail, TraceSize)
  BY <1>1, <1>2 DEF Trace!Count, TraceOk
<1> QED
  BY <1>3 DEF Trace!Waiting, Trace!Following, Ring, Mod

\* The values of the next state, of the same ring.
LEMMA TraceIsRingNext ==
  ASSUME TraceOk'
  PROVE  Trace!Waiting' = Ring(buffer', head', tail', TraceSize)
<1>1. TraceSize \in Nat \ {0}
  BY ConsoleAssumption DEF ConsoleAssumption
<1>2. Used(head', tail', TraceSize)
        = (IF tail' <= head' THEN head' - tail' ELSE head' - tail' + TraceSize)
  BY <1>1, UsedIs DEF TraceOk
<1>3. Trace!Count' = Used(head', tail', TraceSize)
  BY <1>1, <1>2 DEF Trace!Count, TraceOk
<1> QED
  BY <1>3 DEF Trace!Waiting, Ring, Mod

LEMMA TraceRecord ==
  ASSUME TraceOk, Trace!Record
  PROVE  TraceOk' /\ Trace!KeepsNewest
<1>1. PICK N \in Nat \ {0} : N = TraceSize /\ N >= 2 /\ TracePeriod \in Nat /\ TracePeriod > N
  BY ConsoleAssumption DEF ConsoleAssumption
<1>2. /\ Trace!Count = Used(head, tail, N)
      /\ Trace!Waiting = Ring(buffer, head, tail, N)
      /\ Trace!Following(head) = Mod(head + 1, N)
      /\ Trace!Following(tail) = Mod(tail + 1, N)
  BY <1>1, TraceIsRing
<1>3. buffer \in Cells(N, Nat) /\ head \in 0 .. N - 1 /\ tail \in 0 .. N - 1 /\ made \in Nat
  BY <1>1 DEF TraceOk
<1>4. Mod(head + 1, N) = (IF head + 1 < N THEN head + 1 ELSE 0)
  BY <1>3, Wrap
<1>5. Mod(tail + 1, N) = (IF tail + 1 < N THEN tail + 1 ELSE 0)
  BY <1>3, Wrap
<1>6. Used(head, tail, N) = (IF tail <= head THEN head - tail ELSE head - tail + N)
  BY <1>3, UsedIs
<1>7. Mod(head + 1, N) = tail <=> Used(head, tail, N) = N - 1
  BY <1>3, <1>4, <1>6
<1>8. made' \in 0 .. TracePeriod - 1 /\ made' # made
  <2>1. made' = Mod(made + 1, TracePeriod)
    BY DEF Trace!Record, Mod
  <2>2. Mod(made + 1, TracePeriod) = (IF made + 1 < TracePeriod THEN made + 1 ELSE made + 1 - TracePeriod)
    BY <1>1, Wrap DEF TraceOk
  <2> QED
    BY <1>1, <2>1, <2>2 DEF TraceOk
<1>9. /\ buffer' = Put(buffer, head, made)
      /\ head' = Mod(head + 1, N)
      /\ tail' = (IF Mod(head + 1, N) = tail THEN Mod(tail + 1, N) ELSE tail)
  BY <1>2 DEF Trace!Record, Trace!OldestAfter, Put
<1>10. TraceOk'
  <2>1. buffer' \in Cells(N, Nat)
    BY <1>3, <1>9 DEF Cells, Put
  <2>2. head' \in 0 .. N - 1 /\ tail' \in 0 .. N - 1
    BY <1>3, <1>4, <1>5, <1>9
  <2> QED
    BY <1>1, <1>8, <2>1, <2>2 DEF TraceOk
<1>11. Trace!Waiting' = Append(Trace!Kept, made)
  <2>1. CASE Used(head, tail, N) = N - 1
    <3>1. Trace!Kept = Tail(Ring(buffer, head, tail, N))
      BY <1>1, <1>2, <2>1 DEF Trace!Kept
    <3>2. head # tail
      BY <1>1, <1>3, <1>6, <2>1
    <3>3. PICK u \in 0 .. N - 1 : u = Mod(tail + 1, N)
      BY <1>3, <1>5
    <3>4. /\ Ring(buffer, head, u, N) = Tail(Ring(buffer, head, tail, N))
          /\ Used(head, u, N) = Used(head, tail, N) - 1
      BY <1>3, <3>2, <3>3, RingPop
    <3>5. Used(head, u, N) < N - 1
      BY <2>1, <3>4
    <3>6. Ring(Put(buffer, head, made), Mod(head + 1, N), u, N)
            = Append(Ring(buffer, head, u, N), made)
      BY <1>3, <3>5, RingPush
    <3>7. tail' = u
      BY <1>7, <1>9, <2>1, <3>3
    <3> QED
      BY <1>1, <1>9, <1>10, <3>1, <3>4, <3>6, <3>7, TraceIsRingNext
  <2>2. CASE Used(head, tail, N) # N - 1
    <3>1. Trace!Kept = Ring(buffer, head, tail, N)
      BY <1>1, <1>2, <2>2 DEF Trace!Kept
    <3>2. Used(head, tail, N) < N - 1
      BY <1>3, <1>6, <2>2
    <3>3. Ring(Put(buffer, head, made), Mod(head + 1, N), tail, N)
            = Append(Ring(buffer, head, tail, N), made)
      BY <1>3, <3>2, RingPush
    <3>4. tail' = tail
      BY <1>7, <1>9, <2>2
    <3> QED
      BY <1>1, <1>9, <1>10, <3>1, <3>3, <3>4, TraceIsRingNext
  <2> QED
    BY <2>1, <2>2
<1> QED
  BY <1>8, <1>10, <1>11 DEF Trace!KeepsNewest

LEMMA TracePops ==
  ASSUME TraceOk, NEW d \in Dumpers, Trace!DumpPops(d)
  PROVE  TraceOk' /\ Trace!KeepsNewest
<1>1. TraceSize \in Nat \ {0}
  BY ConsoleAssumption DEF ConsoleAssumption
<1>2. /\ head # tail /\ tail' = Mod(tail + 1, TraceSize)
      /\ buffer' = buffer /\ head' = head /\ made' = made
  BY TraceIsRing DEF Trace!DumpPops
<1>3. /\ Ring(buffer, head, tail, TraceSize) # <<>>
      /\ Ring(buffer, head, tail', TraceSize) = Tail(Ring(buffer, head, tail, TraceSize))
      /\ tail' \in 0 .. TraceSize - 1
  BY <1>1, <1>2, RingPop DEF TraceOk
<1>4. TraceOk'
  BY <1>2, <1>3 DEF TraceOk
<1> QED
  BY <1>2, <1>3, <1>4, TraceIsRing, TraceIsRingNext DEF Trace!KeepsNewest

LEMMA TraceClears ==
  ASSUME TraceOk, Trace!Clear
  PROVE  TraceOk' /\ Trace!KeepsNewest
<1>1. TraceSize \in Nat \ {0}
  BY ConsoleAssumption DEF ConsoleAssumption
<1>2. TraceOk'
  BY <1>1 DEF TraceOk, Trace!Clear
<1>3. Used(head', tail', TraceSize) = 0
  BY <1>1, UsedIs DEF Trace!Clear
<1>4. Trace!Waiting' = <<>>
  BY <1>2, <1>3, TraceIsRingNext DEF Ring
<1> QED
  BY <1>2, <1>4 DEF Trace!Clear, Trace!KeepsNewest

LEMMA TraceNextOk ==
  ASSUME TraceOk, Trace!Next
  PROVE  TraceOk' /\ Trace!KeepsNewest
<1>1. CASE UNCHANGED <<buffer, head, tail, made>>
  BY <1>1 DEF TraceOk, Trace!KeepsNewest, Trace!Waiting, Trace!Count
<1>2. ASSUME NEW d \in Dumpers, Trace!DumpStarts(d) \/ Trace!DumpEnds(d)
      PROVE  UNCHANGED <<buffer, head, tail, made>>
  BY <1>2 DEF Trace!DumpStarts, Trace!DumpEnds
<1> QED
  BY <1>1, <1>2, TraceRecord, TracePops, TraceClears DEF Trace!Next, Trace!Dump

LEMMA TraceInit == Init => TraceTypes
<1>1. ASSUME Trace!Init PROVE TraceOk
  <2>1. TraceSize \in Nat \ {0} /\ TracePeriod \in Nat \ {0}
    BY ConsoleAssumption DEF ConsoleAssumption
  <2> QED
    BY <1>1, <2>1 DEF Trace!Init, Trace!Slots, TraceOk, Cells
<1> QED
  BY <1>1 DEF Init, TraceTypes

LEMMA TraceStepOk ==
  TraceTypes /\ [Next]_vars => TraceTypes' /\ [part = "trace" => Trace!KeepsNewest]_vars
<1> SUFFICES ASSUME TraceTypes, [Next]_vars
             PROVE  TraceTypes' /\ [part = "trace" => Trace!KeepsNewest]_vars
  OBVIOUS
<1>1. CASE TraceStep(Trace!Next)
  BY <1>1, TraceNextOk DEF TraceStep, TraceTypes
<1>2. CASE TxStep(Tx!Next) \/ LineStep(Line!Next)
  BY <1>2 DEF TxStep, LineStep, TraceTypes
<1>3. CASE UNCHANGED vars
  BY <1>3 DEF vars, traceVars, TraceTypes, TraceOk
<1> QED
  BY <1>1, <1>2, <1>3 DEF Next

\* Whatever is recorded, dumped and cleared, the trace keeps the newest records
\* in their order and without a gap (trace.c:21-82).
THEOREM TraceNewest == Spec => TraceKeepsNewest
<1>1. Spec => []TraceTypes
  BY TraceInit, TraceStepOk, PTL DEF Spec
<1> QED
  BY <1>1, TraceStepOk, PTL DEF Spec, TraceKeepsNewest

-----------------------------------------------------------------------------
\* What the FIFO and the ring hold are characters, the indices are slots, and the
\* prompt shows the line.
LineOk ==
  /\ fifo \in Seq(Line!Characters)
  /\ cells \in Cells(RxSize, Line!Characters)
  /\ rx_head \in 0 .. RxSize - 1
  /\ rx_tail \in 0 .. RxSize - 1
  /\ shown = line

LineTypes == part = "line" => LineOk

\* What the abstract queue keeps for its reader is the ring.
LEMMA UnreadIsRing ==
  Line!Unread = Ring(cells, rx_head, rx_tail, RxSize)
BY DEF Line!Unread, Ring, Used, Mod

LEMMA UnreadIsRingNext ==
  Line!Unread' = Ring(cells', rx_head', rx_tail', RxSize)
BY DEF Line!Unread, Ring, Used, Mod

\* The interrupt handler fetches what there is room for (uart.c:565-577).
LEMMA HandleFetches ==
  ASSUME LineOk, Line!HandleIrq
  PROVE  LineOk' /\ Line!Input!Fetch
<1>1. PICK N \in Nat \ {0} : N = RxSize
  BY ConsoleAssumption DEF ConsoleAssumption
<1>2. PICK C : C = Line!Characters
  OBVIOUS
<1>3. /\ fifo \in Seq(C) /\ cells \in Cells(N, C)
      /\ rx_head \in 0 .. N - 1 /\ rx_tail \in 0 .. N - 1
  BY <1>1, <1>2 DEF LineOk
<1>4. PICK L \in Nat : L = Len(fifo)
  BY <1>3, LenProperties
<1>5. PICK U \in 0 .. N - 1 : U = Used(rx_head, rx_tail, N)
  BY <1>3, UsedIs
<1>6. Line!Room = N - 1 - U
  <2>1. U = (IF rx_tail <= rx_head THEN rx_head - rx_tail ELSE rx_head - rx_tail + N)
    BY <1>3, <1>5, UsedIs
  <2>2. PICK x \in 0 .. N + N - 1 : x = rx_tail - rx_head - 1 + N
    BY <1>3
  <2>3. Mod(x, N) = (IF x < N THEN x ELSE x - N)
    BY Wrap
  <2>4. Line!Room = Mod(x, N)
    BY <1>1, <2>2 DEF Line!Room, Mod
  <2> QED
    BY <1>3, <2>1, <2>2, <2>3, <2>4
<1>7. PICK m \in 0 .. L : m = Line!Stored /\ m = (IF L <= N - 1 - U THEN L ELSE N - 1 - U)
  <2>1. Line!Stored = (IF L <= N - 1 - U THEN L ELSE N - 1 - U)
    BY <1>4, <1>6 DEF Line!Stored
  <2> QED
    BY <2>1
<1>8. m \in 0 .. Len(fifo) /\ Used(rx_head, rx_tail, N) + m \in 0 .. N - 1
  BY <1>4, <1>5, <1>7
<1>9. /\ cells' = Filled(cells, rx_head, fifo, m, N)
      /\ rx_head' = Mod(rx_head + m, N)
      /\ rx_tail' = rx_tail /\ fifo' = <<>> /\ fifo # <<>> /\ shown' = shown /\ line' = line
  BY <1>1, <1>7 DEF Line!HandleIrq, Line!Slots, Filled, Used, Mod
<1>10. PICK r : r = Ring(cells, rx_head, rx_tail, N)
  OBVIOUS
<1>11. /\ Ring(cells', rx_head', rx_tail', N) = SubSeq(r \o fifo, 1, U + m)
       /\ rx_head' \in 0 .. N - 1
       /\ cells' \in Cells(N, C)
  <2>1. /\ Ring(Filled(cells, rx_head, fifo, m, N), Mod(rx_head + m, N), rx_tail, N)
             = SubSeq(Ring(cells, rx_head, rx_tail, N) \o fifo, 1, Used(rx_head, rx_tail, N) + m)
        /\ Mod(rx_head + m, N) \in 0 .. N - 1
        /\ Filled(cells, rx_head, fifo, m, N) \in Cells(N, C)
    BY <1>3, <1>8, RingFill
  <2> QED
    BY <1>5, <1>9, <1>10, <2>1
<1>12. LineOk'
  BY <1>1, <1>2, <1>3, <1>9, <1>11 DEF LineOk
<1>13. Len(r \o fifo) = U + L
  <2>1. IsRing(cells, rx_head, rx_tail, N, C)
    BY <1>3, RingIsSeq
  <2>2. r \in Seq(C) /\ Len(r) = U
    BY <1>5, <1>10, <2>1 DEF IsRing
  <2> QED
    BY <1>3, <1>4, <2>2, ConcatProperties
<1>14. Line!Input!Min({U + L, N - 1}) = U + m
  <2>1. U + m \in {U + L, N - 1} /\ U + m <= U + L /\ U + m <= N - 1
    BY <1>7
  <2>2. \A x \in {U + L, N - 1} : (\A y \in {U + L, N - 1} : x <= y) => x = U + m
    BY <2>1
  <2> QED
    BY <2>1, <2>2 DEF Line!Input!Min
<1>15. Line!Unread' = SubSeq(Line!Unread \o fifo, 1,
                            Line!Input!Min({Len(Line!Unread \o fifo), RxSize - 1}))
  BY <1>1, <1>10, <1>11, <1>13, <1>14, UnreadIsRing, UnreadIsRingNext
<1> QED
  BY <1>9, <1>12, <1>15 DEF Line!Input!Fetch

\* uart_read_char takes the oldest character (uart.c:352-396).
LEMMA ReadByteReads ==
  ASSUME LineOk, Line!ReadByte
  PROVE  LineOk' /\ Line!Input!Read
<1>1. PICK N \in Nat \ {0} : N = RxSize
  BY ConsoleAssumption DEF ConsoleAssumption
<1>2. PICK C : C = Line!Characters
  OBVIOUS
<1>3. /\ cells \in Cells(N, C) /\ rx_head \in 0 .. N - 1 /\ rx_tail \in 0 .. N - 1
  BY <1>1, <1>2 DEF LineOk
<1>4. /\ rx_head # rx_tail /\ rx_tail' = Mod(rx_tail + 1, N)
      /\ cells' = cells /\ rx_head' = rx_head /\ fifo' = fifo
      /\ shown' = shown /\ line' = line
  BY <1>1 DEF Line!ReadByte, Mod
<1>5. /\ Ring(cells, rx_head, rx_tail, N) # <<>>
      /\ Ring(cells, rx_head, rx_tail', N) = Tail(Ring(cells, rx_head, rx_tail, N))
      /\ rx_tail' \in 0 .. N - 1
  BY <1>3, <1>4, RingPop
<1>6. LineOk'
  BY <1>1, <1>4, <1>5 DEF LineOk
<1> QED
  BY <1>1, <1>4, <1>5, <1>6, UnreadIsRing, UnreadIsRingNext DEF Line!Input!Read

\* A byte that arrives waits at the device.
LEMMA ReceiveArrives ==
  ASSUME LineOk, NEW c \in Line!Characters, Line!Receive(c)
  PROVE  LineOk' /\ Line!Input!Arrive(c)
<1>1. fifo' \in Seq(Line!Characters)
  BY DEF LineOk, Line!Receive
<1> QED
  BY <1>1, UnreadIsRing, UnreadIsRingNext DEF LineOk, Line!Receive, Line!Input!Arrive

\* The other steps leave FIFO and ring alone and change line and prompt together.
LEMMA EditKeeps ==
  ASSUME LineOk,
         \/ Line!ReadBlocks \/ Line!ReadGoesOn \/ Line!Enter \/ Line!CommandEnds
         \/ Line!Erase \/ Line!Ignore \/ \E c \in Printable : Line!Type(c)
  PROVE  LineOk' /\ UNCHANGED Line!Input!inputVars
<1>1. UNCHANGED Line!rx /\ shown' = line'
  BY DEF LineOk, Line!ReadBlocks, Line!ReadGoesOn, Line!Enter, Line!CommandEnds,
         Line!Erase, Line!Ignore, Line!Type
<1> QED
  BY <1>1, UnreadIsRing, UnreadIsRingNext DEF Line!rx, LineOk, Line!Input!inputVars

LEMMA LineNextOk ==
  ASSUME LineOk, Line!Next
  PROVE  LineOk' /\ [Line!Input!InputNext]_(Line!Input!inputVars)
<1>1. CASE \E c \in Line!Characters : Line!Receive(c)
  BY <1>1, ReceiveArrives DEF Line!Input!InputNext
<1>2. CASE Line!HandleIrq
  BY <1>2, HandleFetches DEF Line!Input!InputNext
<1>3. CASE Line!ReadByte
  BY <1>3, ReadByteReads DEF Line!Input!InputNext
<1>4. CASE \/ Line!ReadBlocks \/ Line!ReadGoesOn \/ Line!Enter \/ Line!CommandEnds
           \/ Line!Erase \/ Line!Ignore \/ \E c \in Printable : Line!Type(c)
  BY <1>4, EditKeeps
<1> QED
  BY <1>1, <1>2, <1>3, <1>4 DEF Line!Next, Line!Shell

LEMMA LineInit ==
  Init => LineTypes /\ (part = "line" => Line!Input!InputInit)
<1>1. ASSUME Line!Init PROVE LineOk /\ Line!Input!InputInit
  <2>1. PICK N \in Nat \ {0} : N = RxSize
    BY ConsoleAssumption DEF ConsoleAssumption
  <2>2. /\ fifo = <<>> /\ rx_head = 0 /\ rx_tail = 0 /\ shown = line
        /\ cells = [i \in 0 .. N - 1 |-> "other"]
    BY <1>1, <2>1 DEF Line!Init, Line!Slots
  <2>3. LineOk
    BY <2>1, <2>2 DEF LineOk, Cells, Line!Characters
  <2>4. Used(0, 0, N) = 0
    BY <2>1, UsedIs
  <2>5. Line!Unread = <<>>
    BY <2>1, <2>2, <2>4, UnreadIsRing DEF Ring
  <2> QED
    BY <2>2, <2>3, <2>5 DEF Line!Input!InputInit
<1> QED
  BY <1>1 DEF Init, LineTypes

LEMMA LineStepOk ==
  LineTypes /\ [Next]_vars
    => LineTypes' /\ [part = "line" => [Line!Input!InputNext]_(Line!Input!inputVars)]_vars
<1> SUFFICES ASSUME LineTypes, [Next]_vars
             PROVE  LineTypes' /\ [part = "line" => [Line!Input!InputNext]_(Line!Input!inputVars)]_vars
  OBVIOUS
<1>1. CASE LineStep(Line!Next)
  BY <1>1, LineNextOk DEF LineStep, LineTypes
<1>2. CASE TxStep(Tx!Next) \/ TraceStep(Trace!Next)
  BY <1>2 DEF TxStep, TraceStep, LineTypes
<1>3. CASE UNCHANGED vars
  BY <1>3 DEF vars, lineVars, LineTypes, LineOk
<1> QED
  BY <1>1, <1>2, <1>3 DEF Next

LEMMA LineTypesHold == Spec => []LineTypes
<1>1. Init => LineTypes
  BY LineInit
<1>2. LineTypes /\ [Next]_vars => LineTypes'
  BY LineStepOk
<1> QED
  BY <1>1, <1>2, PTL DEF Spec

\* The line that Enter runs is the line behind the prompt (shell.c:762-790).
THEOREM EchoHolds == Spec => []EchoIsLine
<1>1. LineTypes => EchoIsLine
  BY DEF LineTypes, LineOk, EchoIsLine, Line!EchoIsLine
<1> QED
  BY <1>1, LineTypesHold, PTL

\* The receive ring implements the queue of AbstractInput: it keeps the order and
\* drops only the newest, only when it is full (uart.c:345-399, 565-577).
THEOREM RingImplementsQueue == Spec => RingIsQueue
<1>1. Init => (part = "line" => Line!Input!InputInit)
  BY LineInit
<1>2. LineTypes /\ [Next]_vars
        => [part = "line" => [Line!Input!InputNext]_(Line!Input!inputVars)]_vars
  BY LineStepOk
<1> QED
  BY <1>1, <1>2, LineTypesHold, PTL DEF Spec, RingIsQueue

-----------------------------------------------------------------------------
\* The module of the transmit side counts as this one does.
LEMMA SameCardinality == \A S : Tx!Cardinality(S) = Cardinality(S)
  BY DEF Tx!Cardinality, Cardinality

\* How many of the first n bytes in r are of writer t.
Count(r, t, n) == Cardinality(Tx!Places(r, t, n))

LEMMA PlacesFinite ==
  ASSUME NEW r, NEW t, NEW n \in Nat
  PROVE  /\ IsFiniteSet(Tx!Places(r, t, n))
         /\ Count(r, t, n) \in 0 .. n
<1>1. PICK S : S = 1 .. n
  OBVIOUS
<1>2. PICK T : T = Tx!Places(r, t, n)
  OBVIOUS
<1>3. IsFiniteSet(S) /\ Cardinality(S) = n
  BY <1>1, FS_Interval
<1>4. T \in SUBSET S
  BY <1>1, <1>2 DEF Tx!Places
<1>5. IsFiniteSet(T) /\ Cardinality(T) <= Cardinality(S)
  BY <1>3, <1>4, FS_Subset
<1>6. Cardinality(T) \in Nat
  BY <1>5, FS_CardinalityType
<1>7. Count(r, t, n) = Cardinality(T)
  BY <1>2 DEF Count
<1>8. Count(r, t, n) \in 0 .. n
  BY <1>3, <1>5, <1>6, <1>7
<1> QED
  BY <1>2, <1>5, <1>8

\* The count of a longer beginning, byte by byte.
LEMMA CountNext ==
  ASSUME NEW r, NEW t, NEW n \in Nat
  PROVE  Count(r, t, n + 1) = (IF r[n + 1].from = t THEN Count(r, t, n) + 1 ELSE Count(r, t, n))
<1>1. IsFiniteSet(Tx!Places(r, t, n)) /\ n + 1 \notin Tx!Places(r, t, n)
  <2>1. IsFiniteSet(Tx!Places(r, t, n))
    BY PlacesFinite
  <2>2. n + 1 \notin Tx!Places(r, t, n)
    BY DEF Tx!Places
  <2> QED
    BY <2>1, <2>2
<1>2. CASE r[n + 1].from = t
  <2>1. Tx!Places(r, t, n + 1) = Tx!Places(r, t, n) \cup {n + 1}
    BY <1>2 DEF Tx!Places
  <2> QED
    BY <1>1, <1>2, <2>1, FS_AddElement DEF Count
<1>3. CASE r[n + 1].from # t
  <2>1. Tx!Places(r, t, n + 1) = Tx!Places(r, t, n)
    BY <1>3 DEF Tx!Places
  <2> QED
    BY <1>3, <2>1 DEF Count
<1> QED
  BY <1>2, <1>3

\* Only the first n bytes count.
LEMMA CountSame ==
  ASSUME NEW r, NEW q, NEW t, NEW n \in Nat, \A i \in 1 .. n : q[i] = r[i]
  PROVE  Count(q, t, n) = Count(r, t, n)
<1>1. Tx!Places(q, t, n) = Tx!Places(r, t, n)
  BY DEF Tx!Places
<1> QED
  BY <1>1 DEF Count

\* The bytes behind the first m are counted on.
LEMMA CountShift ==
  ASSUME NEW r, NEW q, NEW t, NEW m \in Nat, NEW n \in Nat,
         \A i \in 1 .. n : q[i] = r[m + i]
  PROVE  Count(r, t, m + n) = Count(r, t, m) + Count(q, t, n)
<1>1. PICK A : A = Tx!Places(r, t, m)
  OBVIOUS
<1>2. PICK B : B = Tx!Places(q, t, n)
  OBVIOUS
<1>3. PICK C : C = {i \in m + 1 .. m + n : r[i].from = t}
  OBVIOUS
<1>4. PICK f : f = [i \in B |-> m + i]
  OBVIOUS
<1>5. /\ IsFiniteSet(A) /\ IsFiniteSet(B)
      /\ Count(r, t, m) = Cardinality(A) /\ Count(q, t, n) = Cardinality(B)
      /\ Cardinality(A) \in Nat /\ Cardinality(B) \in Nat
  BY <1>1, <1>2, PlacesFinite DEF Count
<1>6. f \in Bijection(B, C)
  <2>1. ASSUME NEW i \in B PROVE i \in Int /\ m + i \in C
    BY <1>2, <1>3, <2>1 DEF Tx!Places
  <2>2. ASSUME NEW j \in C PROVE \E i \in B : m + i = j
    <3>1. j - m \in B /\ m + (j - m) = j
      BY <1>2, <1>3, <2>2 DEF Tx!Places
    <3> QED
      BY <3>1
  <2>3. f \in [B -> C]
    BY <1>4, <2>1
  <2>4. \A i, k \in B : f[i] = f[k] => i = k
    BY <1>4, <2>1
  <2>5. \A j \in C : \E i \in B : f[i] = j
    BY <1>4, <2>2
  <2>6. f \in Injection(B, C)
    BY <2>3, <2>4 DEF Injection, IsInjective
  <2>7. f \in Surjection(B, C)
    BY <2>3, <2>5 DEF Surjection
  <2> QED
    BY <2>6, <2>7 DEF Bijection
<1>7. IsFiniteSet(C) /\ Cardinality(C) = Cardinality(B)
  BY <1>5, <1>6, FS_Bijection DEF ExistsBijection
<1>8. Tx!Places(r, t, m + n) = A \cup C
  BY <1>1, <1>3 DEF Tx!Places
<1>9. A \cap C = {}
  BY <1>1, <1>3 DEF Tx!Places
<1>10. Cardinality(A \cup C) = Cardinality(A) + Cardinality(C) - Cardinality(A \cap C)
  BY <1>5, <1>7, FS_Union
<1>11. Cardinality(A \cap C) = 0
  BY <1>9, FS_EmptySet
<1>12. Cardinality(A \cup C) = Cardinality(A) + Cardinality(B)
  BY <1>5, <1>7, <1>10, <1>11
<1> QED
  BY <1>5, <1>8, <1>12 DEF Count

\* Two remainders in a row, of what is less than twice the divisor.
LEMMA WrapTwice ==
  ASSUME NEW n \in Nat \ {0}, NEW s \in 0 .. n - 1, NEW a \in Nat, NEW b \in Nat, a + b < n
  PROVE  /\ Mod(s + a, n) \in 0 .. n - 1
         /\ Mod(Mod(s + a, n) + b, n) = Mod(s + (a + b), n)
<1>1. PICK x \in 0 .. n + n - 1 : x = s + a
  OBVIOUS
<1>2. PICK y : y = Mod(x, n)
  OBVIOUS
<1>3. y = (IF x < n THEN x ELSE x - n)
  BY <1>2, Wrap
<1>4. y \in 0 .. n - 1
  BY <1>3
<1>5. PICK z \in 0 .. n + n - 1 : z = y + b
  BY <1>4
<1>6. PICK w \in 0 .. n + n - 1 : w = s + (a + b)
  OBVIOUS
<1>7. Mod(z, n) = (IF z < n THEN z ELSE z - n) /\ Mod(w, n) = (IF w < n THEN w ELSE w - n)
  BY Wrap
<1>8. Mod(z, n) = Mod(w, n)
  BY <1>1, <1>3, <1>5, <1>6, <1>7
<1> QED
  BY <1>1, <1>2, <1>4, <1>5, <1>6, <1>8

\* The bytes in r follow what s says was sent, and q says what comes next.
Numbered(r, s, q) ==
  /\ \A i \in 1 .. Len(r) : r[i].nr = Mod(s[r[i].from] + Count(r, r[i].from, i - 1), TxPeriod)
  /\ \A t \in Tx!Writers : q[t] = Mod(s[t] + Count(r, t, Len(r)), TxPeriod)

Bytes   == [from : Tx!Writers, nr : 0 .. TxPeriod - 1]
Numbers == [Tx!Writers -> 0 .. TxPeriod - 1]

\* A writer adds its next byte.
LEMMA PushNumbered ==
  ASSUME NEW r \in Seq(Bytes), Len(r) < TxSlots, NEW s \in Numbers, NEW q \in Numbers,
         Numbered(r, s, q), NEW w \in Tx!Writers
  PROVE  LET b == [from |-> w, nr |-> q[w]]
         IN  /\ Append(r, b) \in Seq(Bytes)
             /\ Len(Append(r, b)) = Len(r) + 1
             /\ Mod(q[w] + 1, TxPeriod) \in 0 .. TxPeriod - 1
             /\ Numbered(Append(r, b), s, [q EXCEPT ![w] = Mod(q[w] + 1, TxPeriod)])
<1>1. PICK P \in Nat \ {0} : P = TxPeriod /\ TxSlots \in Nat /\ TxSlots < P
  BY ConsoleAssumption DEF ConsoleAssumption
<1>2. PICK L \in Nat : L = Len(r) /\ L < TxSlots /\ L + 1 < P
  BY <1>1, LenProperties
<1>3. PICK b : b = [from |-> w, nr |-> q[w]]
  OBVIOUS
<1>4. b \in Bytes /\ b.from = w /\ b.nr = q[w]
  BY <1>3 DEF Bytes, Numbers
<1>5. PICK a : a = Append(r, b)
  OBVIOUS
<1>6. a \in Seq(Bytes) /\ Len(a) = L + 1 /\ (\A i \in 1 .. L : a[i] = r[i]) /\ a[L + 1] = b
  BY <1>2, <1>4, <1>5, AppendProperties
<1>7. \A t : Count(a, t, L + 1) = (IF t = w THEN Count(r, t, L) + 1 ELSE Count(r, t, L))
  <2>1. TAKE t
  <2>2. Count(a, t, L) = Count(r, t, L)
    BY <1>6, CountSame
  <2>3. Count(a, t, L + 1) = (IF a[L + 1].from = t THEN Count(a, t, L) + 1 ELSE Count(a, t, L))
    BY CountNext
  <2> QED
    BY <1>4, <1>6, <2>2, <2>3
<1>8. PICK p : p = [q EXCEPT ![w] = Mod(q[w] + 1, P)]
  OBVIOUS
<1>9. \A t \in Tx!Writers : p[t] = (IF t = w THEN Mod(q[w] + 1, P) ELSE q[t])
  BY <1>8 DEF Numbers
<1>10. \A t \in Tx!Writers : q[t] = Mod(s[t] + Count(r, t, L), P)
  BY <1>1, <1>2 DEF Numbered
<1>11. /\ Mod(q[w] + 1, P) = Mod(s[w] + (Count(r, w, L) + 1), P)
       /\ Mod(q[w] + 1, P) \in 0 .. P - 1
  <2>1. PICK c \in 0 .. L : c = Count(r, w, L)
    BY PlacesFinite
  <2>2. PICK x \in 0 .. P - 1 : x = s[w]
    BY <1>1 DEF Numbers
  <2>3. q[w] = Mod(x + c, P)
    BY <1>10, <2>1, <2>2
  <2>4. c \in Nat /\ 1 \in Nat /\ c + 1 < P
    BY <1>2, <2>1
  <2>5. Mod(Mod(x + c, P) + 1, P) = Mod(x + (c + 1), P)
    BY <2>4, WrapTwice
  <2>6. q[w] \in 0 .. P - 1 /\ q[w] + 1 \in 0 .. P + P - 1
    BY <1>1 DEF Numbers
  <2>7. Mod(q[w] + 1, P) \in 0 .. P - 1
    BY <2>6, Wrap
  <2> QED
    BY <2>1, <2>2, <2>3, <2>5, <2>7
<1>12. ASSUME NEW t \in Tx!Writers
       PROVE  p[t] = Mod(s[t] + Count(a, t, L + 1), P)
  BY <1>7, <1>9, <1>10, <1>11
<1>13. ASSUME NEW i \in 1 .. L + 1
       PROVE  a[i].nr = Mod(s[a[i].from] + Count(a, a[i].from, i - 1), P)
  <2>1. CASE i = L + 1
    <3>1. Count(a, w, L) = Count(r, w, L)
      BY <1>6, CountSame
    <3> QED
      BY <1>4, <1>6, <1>10, <2>1, <3>1
  <2>2. CASE i \in 1 .. L
    <3>1. a[i] = r[i] /\ r[i].nr = Mod(s[r[i].from] + Count(r, r[i].from, i - 1), P)
      BY <1>1, <1>2, <1>6, <2>2 DEF Numbered
    <3>2. i - 1 \in Nat /\ \A j \in 1 .. i - 1 : a[j] = r[j]
      BY <1>6, <2>2
    <3>3. Count(a, r[i].from, i - 1) = Count(r, r[i].from, i - 1)
      BY <3>2, CountSame
    <3> QED
      BY <3>1, <3>3
  <2> QED
    BY <2>1, <2>2
<1>14. Numbered(a, s, p)
  BY <1>1, <1>6, <1>12, <1>13 DEF Numbered
<1> QED
  BY <1>1, <1>2, <1>3, <1>5, <1>6, <1>8, <1>11, <1>14

\* The first m bytes are sent.
LEMMA DropNumbered ==
  ASSUME NEW r \in Seq(Bytes), Len(r) <= TxSlots, NEW s \in Numbers, NEW q \in Numbers,
         Numbered(r, s, q), NEW m \in 0 .. Len(r)
  PROVE  LET z == [t \in Tx!Writers |-> Mod(s[t] + Count(r, t, m), TxPeriod)]
         IN  /\ SubSeq(r, m + 1, Len(r)) \in Seq(Bytes)
             /\ Len(SubSeq(r, m + 1, Len(r))) = Len(r) - m
             /\ z \in Numbers
             /\ Numbered(SubSeq(r, m + 1, Len(r)), z, q)
<1>1. PICK P \in Nat \ {0} : P = TxPeriod /\ TxSlots \in Nat /\ TxSlots < P
  BY ConsoleAssumption DEF ConsoleAssumption
<1>2. PICK L \in Nat : L = Len(r) /\ L < P
  BY <1>1, LenProperties
<1>3. PICK d : d = SubSeq(r, m + 1, L)
  OBVIOUS
<1>4. d \in Seq(Bytes) /\ Len(d) = L - m /\ (\A i \in 1 .. L - m : d[i] = r[m + i])
  <2>1. \A i \in m + 1 .. L : r[i] \in Bytes
    BY <1>2, ElementOfSeq
  <2> QED
    BY <1>2, <1>3, <2>1, SubSeqProperties
<1>5. PICK z : z = [t \in Tx!Writers |-> Mod(s[t] + Count(r, t, m), P)]
  OBVIOUS
<1>6. ASSUME NEW t \in Tx!Writers, NEW n \in 0 .. L - m
      PROVE  z[t] \in 0 .. P - 1 /\ Mod(z[t] + Count(d, t, n), P) = Mod(s[t] + Count(r, t, m + n), P)
  <2>1. PICK x \in 0 .. P - 1 : x = s[t]
    BY <1>1 DEF Numbers
  <2>2. PICK a \in Nat : a = Count(r, t, m)
    BY PlacesFinite
  <2>3. PICK b \in Nat : b = Count(d, t, n)
    BY PlacesFinite
  <2>4. Count(r, t, m + n) = a + b
    BY <1>4, <2>2, <2>3, CountShift
  <2>5. a + b < P
    <3>1. Count(r, t, m + n) \in 0 .. m + n
      BY PlacesFinite
    <3> QED
      BY <1>2, <2>4, <3>1
  <2>6. Mod(x + a, P) \in 0 .. P - 1 /\ Mod(Mod(x + a, P) + b, P) = Mod(x + (a + b), P)
    BY <2>5, WrapTwice
  <2>7. z[t] = Mod(x + a, P)
    BY <1>5, <2>1, <2>2
  <2> QED
    BY <2>1, <2>3, <2>4, <2>6, <2>7
<1>7. z \in Numbers
  <2>1. 0 \in 0 .. L - m
    BY <1>2
  <2>2. \A t \in Tx!Writers : z[t] \in 0 .. P - 1
    BY <1>6, <2>1
  <2> QED
    BY <1>1, <1>5, <2>2 DEF Numbers
<1>8. ASSUME NEW t \in Tx!Writers
      PROVE  q[t] = Mod(z[t] + Count(d, t, L - m), P)
  <2>1. q[t] = Mod(s[t] + Count(r, t, L), P)
    BY <1>1, <1>2 DEF Numbered
  <2>2. L - m \in 0 .. L - m /\ m + (L - m) = L
    BY <1>2
  <2> QED
    BY <1>6, <2>1, <2>2
<1>9. ASSUME NEW i \in 1 .. L - m
      PROVE  d[i].nr = Mod(z[d[i].from] + Count(d, d[i].from, i - 1), P)
  <2>1. m + i \in 1 .. L /\ d[i] = r[m + i] /\ i - 1 \in 0 .. L - m /\ m + i - 1 = m + (i - 1)
    BY <1>2, <1>4
  <2>2. r[m + i].nr = Mod(s[r[m + i].from] + Count(r, r[m + i].from, m + i - 1), P)
    BY <1>1, <1>2, <2>1 DEF Numbered
  <2>3. r[m + i].from \in Tx!Writers
    <3>1. r[m + i] \in Bytes
      BY <1>2, <2>1, ElementOfSeq
    <3> QED
      BY <3>1 DEF Bytes
  <2> QED
    BY <1>6, <2>1, <2>2, <2>3
<1>10. Numbered(d, z, q)
  BY <1>1, <1>4, <1>8, <1>9 DEF Numbered
<1> QED
  BY <1>1, <1>2, <1>3, <1>4, <1>5, <1>7, <1>10

-----------------------------------------------------------------------------
\* What holds between the steps of the transmit side.
TxTypes ==
  /\ writer \in [Tx!Tasks -> {"READY", "BLOCKED"}]
  /\ at_tx \in [Tx!Writers -> {"idle", "lock", "write", "waiting"}]
  /\ waiters \subseteq Tx!Writers
  /\ ring \in Seq(Bytes)
  /\ Len(ring) <= TxSlots
  /\ tx_fifo \in 0 .. TxDepth
  /\ queued \in Numbers
  /\ sent \in Numbers

TxOk ==
  /\ TxTypes
  /\ Numbered(ring, sent, queued)
  /\ Tx!EnoughSignals
  /\ Tx!WaiterIsQueued

TxHolds == part = "tx" => TxOk

LEMMA WritersAre == Tx!Writers = 1 .. MaxTasks - 1 /\ IsFiniteSet(Tx!Writers)
<1>1. MaxTasks \in Nat /\ MaxTasks >= 2
  BY ConsoleAssumption DEF ConsoleAssumption
<1>2. Tx!Writers = 1 .. MaxTasks - 1
  BY <1>1 DEF Tx!Writers, Tx!Tasks, Tx!Idle
<1> QED
  BY <1>1, <1>2, FS_Interval

\* A nonempty set of naturals has a least element.
Less == {p \in Nat \X Nat : p[1] < p[2]}

LEMMA LeastExists ==
  ASSUME NEW S, S \subseteq Nat, S # {}
  PROVE  \E least \in S : \A x \in S : least <= x
<1>1. PICK least \in S : \A x \in S : ~ (<<x, least>> \in Less)
  <2>1. IsWellFoundedOn(Less, Nat)
    BY NatLessThanWellFounded, Zenon DEF OpToRel, Less
  <2> QED
    BY <2>1, WFMin, Zenon
<1>2. ASSUME NEW x \in S PROVE least <= x
  <2>1. <<x, least>> \notin Less
    BY <1>1
  <2>2. x \in Nat /\ least \in Nat
    OBVIOUS
  <2> QED
    BY <2>1, <2>2 DEF Less
<1> QED
  BY <1>2

\* A signal takes at least one task off a queue that is not empty, and none that it
\* leaves BLOCKED (wait_queue.c:47-73).
LEMMA SignalTakesOne ==
  ASSUME NEW w, w \subseteq Tx!Writers, NEW st \in [Tx!Tasks -> {"READY", "BLOCKED"}]
  PROVE  /\ Tx!QueueAfterWake(w, st) \subseteq w
         /\ w # {} => Cardinality(Tx!QueueAfterWake(w, st)) \in 0 .. Cardinality(w) - 1
         /\ Tx!StateAfterWake(w, st) \in [Tx!Tasks -> {"READY", "BLOCKED"}]
         /\ \A t \in w : Tx!StateAfterWake(w, st)[t] = "BLOCKED" => t \in Tx!QueueAfterWake(w, st)
         /\ \A t \in Tx!Writers : Tx!StateAfterWake(w, st)[t] = "BLOCKED" => st[t] = "BLOCKED"
<1>1. Tx!Writers \subseteq Tx!Tasks /\ Tx!Writers \subseteq Nat /\ IsFiniteSet(Tx!Writers)
  BY WritersAre DEF Tx!Writers, Tx!Tasks
<1>2. PICK v : v = Tx!QueueAfterWake(w, st)
  OBVIOUS
<1>3. v \subseteq w
  BY <1>2 DEF Tx!QueueAfterWake
<1>4. ASSUME w # {} PROVE Cardinality(v) \in 0 .. Cardinality(w) - 1
  <2>1. PICK least \in w : \A x \in w : least <= x
    BY <1>1, <1>4, LeastExists
  <2>2. least \notin v
    <3>1. SUFFICES ASSUME least \in v PROVE FALSE
      OBVIOUS
    <3>2. PICK i \in w : i < least
      BY <1>2, <3>1 DEF Tx!QueueAfterWake, Tx!Blocked
    <3>3. least <= i /\ i \in Nat /\ least \in Nat
      BY <1>1, <2>1
    <3> QED
      BY <3>2, <3>3
  <2>3. PICK u : u = w \ {least}
    OBVIOUS
  <2>4. w \in SUBSET Tx!Writers
    OBVIOUS
  <2>5. IsFiniteSet(w)
    BY <1>1, <2>4, FS_Subset
  <2>6. IsFiniteSet(u) /\ Cardinality(u) = Cardinality(w) - 1 /\ Cardinality(w) \in Nat
    BY <2>1, <2>3, <2>5, FS_RemoveElement, FS_CardinalityType
  <2>7. v \in SUBSET u
    BY <1>3, <2>2, <2>3
  <2>8. IsFiniteSet(v) /\ Cardinality(v) <= Cardinality(u)
    BY <2>6, <2>7, FS_Subset
  <2>9. Cardinality(v) \in Nat
    BY <2>8, FS_CardinalityType
  <2> QED
    BY <2>6, <2>8, <2>9
<1>5. PICK nst : nst = Tx!StateAfterWake(w, st)
  OBVIOUS
<1>6. nst \in [Tx!Tasks -> {"READY", "BLOCKED"}]
  BY <1>5 DEF Tx!StateAfterWake
<1>7. ASSUME NEW t \in w, nst[t] = "BLOCKED" PROVE t \in v
  <2>1. t \in Tx!Tasks /\ st[t] = "BLOCKED" /\ t \in Tx!Blocked(w, st)
    BY <1>1, <1>5, <1>7 DEF Tx!StateAfterWake, Tx!Blocked
  <2>2. PICK j \in Tx!Blocked(w, st) : ~ (t <= j)
    BY <1>5, <1>7, <2>1 DEF Tx!StateAfterWake
  <2>3. j < t
    BY <1>1, <2>2 DEF Tx!Blocked
  <2> QED
    BY <1>2, <2>2, <2>3 DEF Tx!QueueAfterWake
<1>8. ASSUME NEW t \in Tx!Writers, nst[t] = "BLOCKED" PROVE st[t] = "BLOCKED"
  BY <1>1, <1>5, <1>8 DEF Tx!StateAfterWake
<1> QED
  BY <1>2, <1>3, <1>4, <1>5, <1>6, <1>7, <1>8

\* The bytes left by one drain are enough for the signals left to be given.
LEMMA SignalsLeft ==
  ASSUME NEW d \in Nat, NEW c \in Nat, NEW k \in 0 .. c - 1,
         NEW L \in Nat, NEW m \in 0 .. d, L >= d * c
  PROVE  L - m >= d * k
<1>1. d * (c - 1) = d * c - d
  OBVIOUS
<1>2. PICK j \in Nat : c - 1 = k + j
  <2>1. c - 1 - k \in Nat /\ c - 1 = k + (c - 1 - k)
    OBVIOUS
  <2> QED
    BY <2>1
<1>3. d * (k + j) = d * k + d * j /\ d * j \in Nat /\ d * k \in Nat /\ d * c \in Nat
  OBVIOUS
<1> QED
  BY <1>1, <1>2, <1>3

\* uart_tx_drain keeps the numbers in order and gives its signal.
LEMMA DrainKeeps ==
  ASSUME TxTypes, Tx!WaiterIsQueued, NEW r \in Seq(Bytes), Len(r) <= TxSlots,
         NEW q \in Numbers, Numbered(r, sent, q),
         waiters # {} => Len(r) >= TxDepth * Cardinality(waiters),
         Tx!Drain(r), at_tx' = at_tx
  PROVE  /\ writer' \in [Tx!Tasks -> {"READY", "BLOCKED"}] /\ waiters' \subseteq Tx!Writers
         /\ ring' \in Seq(Bytes) /\ Len(ring') <= TxSlots
         /\ tx_fifo' \in 0 .. TxDepth /\ sent' \in Numbers
         /\ Numbered(ring', sent', q)
         /\ Tx!EnoughSignals' /\ Tx!WaiterIsQueued'
<1>1. PICK D \in Nat \ {0} : D = TxDepth /\ TxSlots \in Nat
  BY ConsoleAssumption DEF ConsoleAssumption
<1>2. PICK L \in Nat : L = Len(r) /\ L <= TxSlots
  BY LenProperties
<1>3. PICK m \in 0 .. L : m = Tx!Moved(r) /\ m + tx_fifo \in 0 .. D /\ m \in 0 .. D
  <2>1. tx_fifo \in 0 .. D
    BY <1>1 DEF TxTypes
  <2>2. Tx!Moved(r) = (IF L < D - tx_fifo THEN L ELSE D - tx_fifo)
    BY <1>1, <1>2 DEF Tx!Moved
  <2>3. Tx!Moved(r) \in 0 .. L /\ Tx!Moved(r) + tx_fifo \in 0 .. D /\ Tx!Moved(r) \in 0 .. D
    BY <2>1, <2>2
  <2> QED
    BY <2>3
<1>4. /\ ring' = SubSeq(r, m + 1, Len(r))
      /\ tx_fifo' = tx_fifo + m
      /\ sent' = [t \in Tx!Writers |-> Mod(sent[t] + Count(r, t, m), TxPeriod)]
      /\ txirq' = (m < L)
  <2>1. ring' = SubSeq(r, m + 1, Len(r)) /\ tx_fifo' = tx_fifo + m /\ txirq' = (m < L)
    BY <1>2, <1>3 DEF Tx!Drain
  <2>2. sent' = Tx!SentAfter(r)
    BY DEF Tx!Drain
  <2>3. Tx!SentAfter(r) = [t \in Tx!Writers |-> Mod(sent[t] + Count(r, t, m), TxPeriod)]
    BY <1>3, SameCardinality DEF Tx!SentAfter, Count, Mod
  <2> QED
    BY <2>1, <2>2, <2>3
<1>5. /\ ring' \in Seq(Bytes) /\ Len(ring') = L - m
      /\ sent' \in Numbers /\ Numbered(ring', sent', q)
  BY <1>2, <1>4, DropNumbered DEF TxTypes
<1>6. tx_fifo' \in 0 .. TxDepth /\ Len(ring') <= TxSlots
  BY <1>1, <1>2, <1>3, <1>4, <1>5 DEF TxTypes
<1>7. waiters \subseteq Tx!Writers /\ writer \in [Tx!Tasks -> {"READY", "BLOCKED"}]
  BY DEF TxTypes
<1>8. IsFiniteSet(waiters) /\ Cardinality(waiters) \in Nat
  <2>1. waiters \in SUBSET Tx!Writers
    BY <1>7
  <2>2. IsFiniteSet(waiters)
    BY <2>1, WritersAre, FS_Subset
  <2> QED
    BY <2>2, FS_CardinalityType
<1>9. CASE m > 0
  <2>1. waiters' = Tx!QueueAfterWake(waiters, writer) /\ writer' = Tx!StateAfterWake(waiters, writer)
    BY <1>3, <1>9 DEF Tx!Drain
  <2>2. /\ waiters' \subseteq waiters
        /\ waiters # {} => Cardinality(waiters') \in 0 .. Cardinality(waiters) - 1
        /\ writer' \in [Tx!Tasks -> {"READY", "BLOCKED"}]
        /\ \A t \in waiters : writer'[t] = "BLOCKED" => t \in waiters'
        /\ \A t \in Tx!Writers : writer'[t] = "BLOCKED" => writer[t] = "BLOCKED"
    BY <1>7, <2>1, SignalTakesOne
  <2>3. Tx!EnoughSignals'
    <3>1. SUFFICES ASSUME waiters' # {}
                   PROVE  m < L /\ L - m >= TxDepth * Cardinality(waiters')
      <4>1. (m < L) => txirq'
        BY <1>4
      <4>2. Tx!EnoughSignals'
              <=> (waiters' # {} => txirq' /\ Len(ring') >= TxDepth * Cardinality(waiters'))
        BY SameCardinality DEF Tx!EnoughSignals
      <4> QED
        BY <1>5, <4>1, <4>2
    <3>2. waiters # {}
      BY <2>2, <3>1
    <3>3. PICK c \in Nat : c = Cardinality(waiters)
      BY <1>8
    <3>4. PICK k \in 0 .. c - 1 : k = Cardinality(waiters')
      BY <2>2, <3>2, <3>3
    <3>5. k # 0
      <4>1. waiters' \in SUBSET waiters
        BY <2>2
      <4>2. IsFiniteSet(waiters')
        BY <1>8, <4>1, FS_Subset
      <4> QED
        BY <3>1, <3>4, <4>2, FS_EmptySet
    <3>6. L >= D * c
      BY <1>1, <1>2, <3>2, <3>3
    <3>7. L - m >= D * k
      BY <1>3, <3>6, SignalsLeft
    <3>8. D * k >= 1
      BY <3>5
    <3> QED
      BY <1>1, <3>4, <3>7, <3>8
  <2>4. Tx!WaiterIsQueued'
    BY <2>2 DEF Tx!WaiterIsQueued, Tx!WaitsForRoom
  <2> QED
    BY <1>5, <1>6, <1>7, <2>2, <2>3, <2>4
<1>10. CASE m = 0
  <2>1. waiters' = waiters /\ writer' = writer
    BY <1>3, <1>10 DEF Tx!Drain
  <2>2. Tx!EnoughSignals'
    <3>1. SUFFICES ASSUME waiters # {}
                   PROVE  0 < L /\ L >= TxDepth * Cardinality(waiters)
      <4>1. (0 < L) => txirq'
        BY <1>4, <1>10
      <4>2. Tx!EnoughSignals'
              <=> (waiters' # {} => txirq' /\ Len(ring') >= TxDepth * Cardinality(waiters'))
        BY SameCardinality DEF Tx!EnoughSignals
      <4>3. Len(ring') = L
        BY <1>5, <1>10
      <4> QED
        BY <2>1, <4>1, <4>2, <4>3
    <3>2. PICK c \in Nat : c = Cardinality(waiters) /\ c # 0
      BY <1>8, <3>1, FS_EmptySet
    <3>3. L >= D * c /\ D * c >= 1
      BY <1>1, <1>2, <3>1, <3>2
    <3> QED
      BY <1>1, <3>2, <3>3
  <2>3. Tx!WaiterIsQueued'
    BY <2>1 DEF Tx!WaiterIsQueued, Tx!WaitsForRoom
  <2> QED
    BY <1>5, <1>6, <1>7, <2>1, <2>2, <2>3
<1> QED
  BY <1>3, <1>9, <1>10

LEMMA WriteByteOk ==
  ASSUME TxOk, NEW w \in Tx!Writers, Tx!WriteByte(w)
  PROVE  TxOk'
<1>1. TxTypes /\ Numbered(ring, sent, queued) /\ Tx!WaiterIsQueued
  BY DEF TxOk
<1>2. /\ ring \in Seq(Bytes) /\ Len(ring) <= TxSlots
      /\ queued \in Numbers /\ sent \in Numbers
  BY <1>1 DEF TxTypes
<1>3. TxSlots \in Nat /\ TxDepth \in Nat \ {0}
  BY ConsoleAssumption DEF ConsoleAssumption
<1>4. PICK L \in Nat : L = Len(ring) /\ L < TxSlots
  <2>1. Len(ring) # TxSlots
    BY DEF Tx!WriteByte, Tx!Full
  <2>2. Len(ring) \in Nat
    BY <1>2, LenProperties
  <2> QED
    BY <1>2, <1>3, <2>1, <2>2
<1>5. PICK b : b = [from |-> w, nr |-> queued[w]]
  OBVIOUS
<1>6. PICK r : r = Append(ring, b)
  OBVIOUS
<1>7. PICK q : q = [queued EXCEPT ![w] = Mod(queued[w] + 1, TxPeriod)]
  OBVIOUS
<1>8. /\ r \in Seq(Bytes) /\ Len(r) = L + 1
      /\ Mod(queued[w] + 1, TxPeriod) \in 0 .. TxPeriod - 1
      /\ Numbered(r, sent, q)
  BY <1>1, <1>2, <1>4, <1>5, <1>6, <1>7, PushNumbered
<1>9. q \in Numbers
  BY <1>2, <1>7, <1>8 DEF Numbers
<1>10. Len(r) <= TxSlots
  BY <1>3, <1>4, <1>8
<1>11. waiters # {} => Len(r) >= TxDepth * Cardinality(waiters)
  <2>1. ASSUME waiters # {} PROVE Len(ring) >= TxDepth * Cardinality(waiters)
    BY <2>1, SameCardinality DEF TxOk, Tx!EnoughSignals
  <2>2. PICK c \in Nat : c = Cardinality(waiters)
    <3>1. waiters \in SUBSET Tx!Writers
      BY <1>1 DEF TxTypes
    <3>2. IsFiniteSet(waiters)
      BY <3>1, WritersAre, FS_Subset
    <3> QED
      BY <3>2, FS_CardinalityType
  <2>3. TxDepth * c \in Nat
    BY <1>3
  <2> QED
    BY <1>4, <1>8, <2>1, <2>2, <2>3
<1>12. Tx!Drain(r) /\ at_tx' = at_tx /\ queued' = q
  BY <1>5, <1>6, <1>7 DEF Tx!WriteByte, Tx!Byte, Mod
<1>13. /\ writer' \in [Tx!Tasks -> {"READY", "BLOCKED"}] /\ waiters' \subseteq Tx!Writers
       /\ ring' \in Seq(Bytes) /\ Len(ring') <= TxSlots
       /\ tx_fifo' \in 0 .. TxDepth /\ sent' \in Numbers
       /\ Numbered(ring', sent', q)
       /\ Tx!EnoughSignals' /\ Tx!WaiterIsQueued'
  BY <1>1, <1>8, <1>9, <1>10, <1>11, <1>12, DrainKeeps
<1>14. TxTypes'
  BY <1>1, <1>9, <1>12, <1>13 DEF TxTypes
<1> QED
  BY <1>12, <1>13, <1>14 DEF TxOk

LEMMA TxIrqOk ==
  ASSUME TxOk, Tx!TxIrq
  PROVE  TxOk'
<1>1. TxTypes /\ Numbered(ring, sent, queued) /\ Tx!WaiterIsQueued
  BY DEF TxOk
<1>2. ring \in Seq(Bytes) /\ Len(ring) <= TxSlots /\ queued \in Numbers
  BY <1>1 DEF TxTypes
<1>3. waiters # {} => Len(ring) >= TxDepth * Cardinality(waiters)
  BY SameCardinality DEF TxOk, Tx!EnoughSignals
<1>4. Tx!Drain(ring) /\ at_tx' = at_tx /\ queued' = queued
  BY DEF Tx!TxIrq
<1>5. /\ writer' \in [Tx!Tasks -> {"READY", "BLOCKED"}] /\ waiters' \subseteq Tx!Writers
      /\ ring' \in Seq(Bytes) /\ Len(ring') <= TxSlots
      /\ tx_fifo' \in 0 .. TxDepth /\ sent' \in Numbers
      /\ Numbered(ring', sent', queued)
      /\ Tx!EnoughSignals' /\ Tx!WaiterIsQueued'
  BY <1>1, <1>2, <1>3, <1>4, DrainKeeps
<1>6. TxTypes'
  BY <1>1, <1>2, <1>4, <1>5 DEF TxTypes
<1> QED
  BY <1>4, <1>5, <1>6 DEF TxOk

\* A full ring holds a FIFO's worth of bytes for every writer (uart.c:230-242).
LEMMA WriteFullOk ==
  ASSUME TxOk, NEW w \in Tx!Writers, Tx!WriteFull(w)
  PROVE  TxOk'
<1>1. /\ writer' = [writer EXCEPT ![w] = "BLOCKED"]
      /\ waiters' = waiters \cup {w} /\ txirq' = TRUE
      /\ ring' = ring /\ tx_fifo' = tx_fifo /\ queued' = queued /\ sent' = sent
      /\ at_tx' = [at_tx EXCEPT ![w] = "waiting"] /\ Len(ring) = TxSlots
  BY DEF Tx!WriteFull, Tx!numbers, Tx!Full
<1>2. w \in Tx!Tasks
  BY DEF Tx!Writers
<1>3. TxTypes'
  BY <1>1, <1>2 DEF TxOk, TxTypes
<1>4. Numbered(ring', sent', queued')
  BY <1>1 DEF TxOk
<1>5. Tx!EnoughSignals'
  <2>1. PICK T \in Nat : T = MaxTasks /\ T >= 2
    BY ConsoleAssumption DEF ConsoleAssumption
  <2>2. PICK D \in Nat : D = TxDepth
    BY ConsoleAssumption DEF ConsoleAssumption
  <2>3. PICK N \in Nat : N = TxSlots /\ N >= D * T
    BY <2>1, <2>2, ConsoleAssumption DEF ConsoleAssumption
  <2>4. IsFiniteSet(Tx!Writers) /\ Cardinality(Tx!Writers) = T - 1
    <3>1. Tx!Writers = 1 .. T - 1
      BY <2>1, WritersAre
    <3> QED
      BY <2>1, <3>1, FS_Interval
  <2>5. waiters' \in SUBSET Tx!Writers
    BY <1>3 DEF TxTypes
  <2>6. IsFiniteSet(waiters') /\ Cardinality(waiters') <= T - 1
    BY <2>4, <2>5, FS_Subset
  <2>7. PICK c \in Nat : c = Cardinality(waiters')
    BY <2>6, FS_CardinalityType
  <2>8. PICK j \in Nat : T = c + j
    <3>1. T - c \in Nat /\ T = c + (T - c)
      BY <2>6, <2>7
    <3> QED
      BY <3>1
  <2>9. D * (c + j) = D * c + D * j /\ D * j \in Nat /\ D * c \in Nat
    OBVIOUS
  <2>10. Len(ring') >= TxDepth * Cardinality(waiters')
    BY <1>1, <2>2, <2>3, <2>7, <2>8, <2>9
  <2> QED
    BY <1>1, <2>10, SameCardinality DEF Tx!EnoughSignals
<1>6. Tx!WaiterIsQueued'
  BY <1>1, <1>2 DEF TxOk, TxTypes, Tx!WaiterIsQueued, Tx!WaitsForRoom, Tx!Writers
<1> QED
  BY <1>3, <1>4, <1>5, <1>6 DEF TxOk

\* The other steps of a writer and of the line leave ring and queue alone.
LEMMA OtherTxOk ==
  ASSUME TxOk,
         \/ Tx!Transmit
         \/ \E t \in Tx!Writers :
              \/ \E n \in 1 .. MaxBytes : Tx!Puts(t, n)
              \/ Tx!Lock(t) \/ Tx!Woken(t) \/ Tx!Unlock(t)
              \/ Tx!BlockElsewhere(t) \/ Tx!OtherWakeup(t)
  PROVE  TxOk'
<1>1. /\ waiters' = waiters /\ txirq' = txirq
      /\ ring' = ring /\ queued' = queued /\ sent' = sent
  BY DEF Tx!Transmit, Tx!Puts, Tx!Lock, Tx!Woken, Tx!Unlock, Tx!BlockElsewhere,
         Tx!OtherWakeup, Tx!numbers
<1>2. CASE Tx!Transmit
  <2>1. writer' = writer /\ at_tx' = at_tx /\ tx_fifo > 0 /\ tx_fifo' = tx_fifo - 1
    BY <1>2 DEF Tx!Transmit
  <2>2. TxDepth \in Nat
    BY ConsoleAssumption DEF ConsoleAssumption
  <2> QED
    BY <1>1, <2>1, <2>2 DEF TxOk, TxTypes, Tx!EnoughSignals, Tx!WaiterIsQueued, Tx!WaitsForRoom
<1>3. ASSUME NEW t \in Tx!Writers,
             \/ \E n \in 1 .. MaxBytes : Tx!Puts(t, n)
             \/ Tx!Lock(t) \/ Tx!Woken(t) \/ Tx!Unlock(t)
             \/ Tx!BlockElsewhere(t) \/ Tx!OtherWakeup(t)
      PROVE  TxOk'
  <2>1. t \in Tx!Tasks
    BY DEF Tx!Writers
  <2>2. tx_fifo' = tx_fifo
    BY <1>3 DEF Tx!Puts, Tx!Lock, Tx!Woken, Tx!Unlock, Tx!BlockElsewhere, Tx!OtherWakeup
  <2>3. writer' \in [Tx!Tasks -> {"READY", "BLOCKED"}]
    BY <1>3, <2>1 DEF TxOk, TxTypes, Tx!Puts, Tx!Lock, Tx!Woken, Tx!Unlock,
                      Tx!BlockElsewhere, Tx!OtherWakeup, Tx!Wakeup
  <2>4. \/ writer' = writer /\ at_tx' = at_tx
        \/ /\ at_tx[t] # "waiting" \/ writer[t] = "READY"
           /\ writer' = writer
           /\ \E p \in {"idle", "lock", "write"} : at_tx' = [at_tx EXCEPT ![t] = p]
        \/ /\ at_tx[t] # "waiting"
           /\ at_tx' = at_tx /\ writer' = [writer EXCEPT ![t] = "BLOCKED"]
        \/ at_tx' = at_tx /\ writer' = Tx!Wakeup(writer, t)
    BY <1>3 DEF Tx!At, Tx!Puts, Tx!Lock, Tx!Woken, Tx!Unlock, Tx!BlockElsewhere, Tx!OtherWakeup
  <2>5. ASSUME NEW u \in Tx!Writers, Tx!WaitsForRoom(u)' PROVE Tx!WaitsForRoom(u)
    <3>1. u \in Tx!Tasks /\ at_tx'[u] = "waiting" /\ writer'[u] = "BLOCKED"
      BY <2>5 DEF Tx!Writers, Tx!WaitsForRoom
    <3> QED
      BY <2>1, <2>4, <3>1 DEF TxOk, TxTypes, Tx!WaitsForRoom, Tx!Wakeup
  <2>6. at_tx' \in [Tx!Writers -> {"idle", "lock", "write", "waiting"}]
    BY <2>4 DEF TxOk, TxTypes
  <2>7. Tx!WaiterIsQueued'
    BY <1>1, <2>5 DEF TxOk, Tx!WaiterIsQueued
  <2>8. TxTypes'
    BY <1>1, <2>2, <2>3, <2>6 DEF TxOk, TxTypes
  <2> QED
    BY <1>1, <2>7, <2>8 DEF TxOk, Tx!EnoughSignals
<1> QED
  BY <1>2, <1>3

LEMMA TxInit == Init => TxHolds
<1>1. ASSUME Tx!Init PROVE TxOk
  <2>1. /\ writer \in [Tx!Tasks -> {"READY", "BLOCKED"}]
        /\ waiters = {} /\ ring = <<>> /\ tx_fifo = 0
        /\ queued = [t \in Tx!Writers |-> 0] /\ sent = [t \in Tx!Writers |-> 0]
        /\ at_tx = [t \in Tx!Writers |-> "idle"]
    BY <1>1 DEF Tx!Init
  <2>2. /\ TxPeriod \in Nat \ {0} /\ TxSlots \in Nat /\ TxDepth \in Nat
    BY ConsoleAssumption DEF ConsoleAssumption
  <2>3. <<>> \in Seq(Bytes) /\ Len(<<>>) = 0
    OBVIOUS
  <2>4. TxTypes
    BY <2>1, <2>2, <2>3 DEF TxTypes, Numbers
  <2>5. ASSUME NEW t \in Tx!Writers PROVE queued[t] = Mod(sent[t] + Count(ring, t, 0), TxPeriod)
    <3>1. Count(ring, t, 0) = 0
      BY PlacesFinite
    <3>2. Mod(0, TxPeriod) = 0
      BY <2>2, Wrap
    <3> QED
      BY <2>1, <3>1, <3>2
  <2>6. Numbered(ring, sent, queued)
    BY <2>1, <2>3, <2>5 DEF Numbered
  <2> QED
    BY <2>1, <2>4, <2>6 DEF TxOk, Tx!EnoughSignals, Tx!WaiterIsQueued, Tx!WaitsForRoom
<1> QED
  BY <1>1 DEF Init, TxHolds

LEMMA TxStepOk == TxHolds /\ [Next]_vars => TxHolds'
<1> SUFFICES ASSUME TxHolds, [Next]_vars PROVE TxHolds'
  OBVIOUS
<1>1. CASE TxStep(Tx!Next)
  BY <1>1, WriteByteOk, WriteFullOk, TxIrqOk, OtherTxOk DEF TxStep, TxHolds, Tx!Next
<1>2. CASE LineStep(Line!Next) \/ TraceStep(Trace!Next)
  BY <1>2 DEF LineStep, TraceStep, TxHolds
<1>3. CASE UNCHANGED vars
  BY <1>3 DEF vars, txVars, TxHolds, TxOk, TxTypes, Tx!EnoughSignals, Tx!WaiterIsQueued,
              Tx!WaitsForRoom
<1> QED
  BY <1>1, <1>2, <1>3 DEF Next

LEMMA TxAlwaysHolds == Spec => []TxHolds
BY TxInit, TxStepOk, PTL DEF Spec

\* No byte is lost, repeated or overtaken between a writer and the line
\* (uart.c:177-243, 262-281).
THEOREM BytesStayInOrder == Spec => []BytesInOrder
<1>1. TxHolds => BytesInOrder
  <2>1. SUFFICES ASSUME TxOk PROVE Tx!BytesInOrder
    BY DEF TxHolds, BytesInOrder
  <2>2. Len(ring) <= TxSlots /\ Numbered(ring, sent, queued)
    BY <2>1 DEF TxOk, TxTypes
  <2> QED
    BY <2>2, SameCardinality DEF Numbered, Count, Mod, Tx!BytesInOrder
<1> QED
  BY <1>1, TxAlwaysHolds, PTL

\* The safety part of WaiterIsWoken: every queued writer has a signal to come, and a
\* writer that waits is queued (uart.c:230-242, cond.c:96-99).
THEOREM SignalsAreEnough ==
  Spec => [](part = "tx" => Tx!EnoughSignals /\ Tx!WaiterIsQueued)
<1>1. TxHolds => (part = "tx" => Tx!EnoughSignals /\ Tx!WaiterIsQueued)
  BY DEF TxHolds, TxOk
<1> QED
  BY <1>1, TxAlwaysHolds, PTL

-----------------------------------------------------------------------------
(* What InputIsRead and DumpIsFinite rest on.                              *)

\* The shell sleeps only while the ring is empty, wherever the interrupt fell:
\* before the shell looked, or between its BLOCKED and its yield.
AwakeIfUnread == part = "line" => (blocked => shell_at = "yield" /\ rx_head = rx_tail)

\* A byte that comes while the ring is empty is stored, and wakes the reader.
LEMMA EmptyRingStores ==
  ASSUME LineOk, Line!HandleIrq, rx_head = rx_tail
  PROVE  Line!Stored # 0
<1>1. PICK N \in Nat \ {0, 1} : N = RxSize
  BY ConsoleAssumption DEF ConsoleAssumption
<1>2. PICK x \in 0 .. N - 1 : x = N - 1
  OBVIOUS
<1>3. rx_tail - rx_head - 1 + N = x
  BY <1>1, <1>2 DEF LineOk
<1>4. Mod(x, N) = x
  BY <1>1, Wrap
<1>5. Line!Room = N - 1
  BY <1>1, <1>2, <1>3, <1>4 DEF Line!Room, Mod
<1>6. Len(fifo) \in Nat \ {0}
  <2>1. fifo \in Seq(Line!Characters) /\ fifo # <<>>
    BY DEF LineOk, Line!HandleIrq
  <2> QED
    BY <2>1
<1> QED
  BY <1>1, <1>5, <1>6 DEF Line!Stored

LEMMA ReaderAwake ==
  LineTypes /\ AwakeIfUnread /\ [Next]_vars => AwakeIfUnread'
<1> SUFFICES ASSUME LineTypes, AwakeIfUnread, [Next]_vars PROVE AwakeIfUnread'
  OBVIOUS
<1>1. CASE LineStep(Line!Next)
  <2>1. part' = part /\ LineOk /\ Line!Next
    BY <1>1 DEF LineStep, LineTypes
  <2>2. blocked => shell_at = "yield" /\ rx_head = rx_tail
    BY <1>1 DEF LineStep, AwakeIfUnread
  <2>3. CASE \E c \in Line!Characters : Line!Receive(c)
    BY <2>1, <2>2, <2>3 DEF Line!Receive, AwakeIfUnread
  <2>4. CASE Line!HandleIrq
    <3>1. blocked => ~ blocked'
      BY <2>1, <2>2, <2>4, EmptyRingStores DEF Line!HandleIrq, Line!WakeReader
    <3>2. ~ blocked => ~ blocked'
      BY <2>4 DEF Line!HandleIrq, Line!WakeReader
    <3> QED
      BY <3>1, <3>2 DEF AwakeIfUnread
  <2>5. CASE Line!ReadBlocks
    BY <2>5 DEF Line!ReadBlocks, Line!rx, AwakeIfUnread
  <2>6. ASSUME shell_at # "yield" \/ ~ blocked, blocked' = blocked PROVE AwakeIfUnread'
    BY <2>2, <2>6 DEF AwakeIfUnread
  <2>7. CASE Line!ReadByte \/ Line!ReadGoesOn \/ Line!Enter \/ Line!CommandEnds
             \/ Line!Erase \/ Line!Ignore
    BY <2>6, <2>7 DEF Line!ReadByte, Line!ReadGoesOn, Line!Enter, Line!CommandEnds,
                      Line!Erase, Line!Ignore
  <2>8. ASSUME NEW c \in Printable, Line!Type(c) PROVE AwakeIfUnread'
    <3>1. shell_at # "yield" /\ blocked' = blocked
      BY <2>8, ConsoleAssumption DEF ConsoleAssumption, Line!Type
    <3> QED
      BY <2>6, <3>1
  <2> QED
    BY <2>1, <2>3, <2>4, <2>5, <2>7, <2>8 DEF Line!Next, Line!Shell
<1>2. CASE TxStep(Tx!Next) \/ TraceStep(Trace!Next)
  BY <1>2 DEF TxStep, TraceStep, AwakeIfUnread
<1>3. CASE UNCHANGED vars
  BY <1>3 DEF vars, lineVars, AwakeIfUnread
<1> QED
  BY <1>1, <1>2, <1>3 DEF Next

\* For a ring of any size: no byte is left in it while its reader sleeps
\* (uart.c:352-396).
THEOREM NoReadLost == Spec => []AwakeIfUnread
<1>1. Init => AwakeIfUnread
  BY DEF Init, Line!Init, AwakeIfUnread
<1> QED
  BY <1>1, ReaderAwake, LineTypesHold, PTL DEF Spec

\* Each dump has a number of reads left that the ring bounds.
DumpsBounded == part = "trace" => dump \in [Dumpers -> -1 .. TraceSize - 1]

\* A turn of a dump lowers what its loop has left, the last one ends it, and
\* nobody else's step raises it, however many records its own output makes and
\* whoever takes records away from it (shell.c:523-530).
DumpsShorten ==
  part = "trace" =>
    \A d \in Dumpers :
      Trace!Dumping(d) =>
        /\ dump'[d] \in -1 .. dump[d]
        /\ Trace!Dump(d) => dump'[d] < dump[d]

LEMMA TraceDumps ==
  ASSUME TraceOk, Trace!Next, dump \in [Dumpers -> -1 .. TraceSize - 1]
  PROVE  /\ dump' \in [Dumpers -> -1 .. TraceSize - 1]
         /\ \A d \in Dumpers :
              Trace!Dumping(d) =>
                /\ dump'[d] \in -1 .. dump[d]
                /\ Trace!Dump(d) => dump'[d] < dump[d]
<1>1. PICK N \in Nat \ {0} : N = TraceSize
  BY ConsoleAssumption DEF ConsoleAssumption
<1>2. Trace!Count \in 0 .. N - 1
  BY <1>1, TraceIsRing, UsedIs DEF TraceOk
<1>3. \A d \in Dumpers : dump[d] \in -1 .. N - 1
  BY <1>1
<1>4. ASSUME NEW d \in Dumpers, Trace!Dumping(d), Trace!Dump(d)
      PROVE  dump'[d] \in -1 .. dump[d] /\ dump'[d] < dump[d]
  <2>1. dump[d] \in -1 .. N - 1 /\ dump[d] # -1
    BY <1>3, <1>4 DEF Trace!Dumping, Trace!Idle
  <2>2. dump'[d] = -1 \/ dump'[d] = dump[d] - 1
    BY <1>4 DEF Trace!Dump, Trace!DumpPops, Trace!DumpEnds, Trace!LeftAfter, Trace!Idle
  <2> QED
    BY <2>1, <2>2
<1>5. CASE Trace!Record \/ Trace!Clear
  <2>1. dump' = dump
    BY <1>5 DEF Trace!Record, Trace!Clear
  <2> QED
    BY <1>1, <1>3, <1>4, <2>1
<1>6. ASSUME NEW e \in Dumpers, Trace!DumpStarts(e)
      PROVE  /\ dump' = [dump EXCEPT ![e] = dump'[e]] /\ dump'[e] \in -1 .. N - 1
             /\ ~ Trace!Dumping(e)
  BY <1>2, <1>6 DEF Trace!DumpStarts, Trace!Dumping
<1>7. ASSUME NEW e \in Dumpers, Trace!Dump(e)
      PROVE  dump' = [dump EXCEPT ![e] = dump'[e]] /\ dump'[e] \in -1 .. N - 1
  <2>1. dump' = [dump EXCEPT ![e] = dump'[e]]
    BY <1>7 DEF Trace!Dump, Trace!DumpPops, Trace!DumpEnds
  <2>2. dump[e] \in 0 .. N - 1
    BY <1>3, <1>7 DEF Trace!Dump, Trace!DumpPops, Trace!DumpEnds
  <2>3. dump'[e] = -1 \/ dump'[e] = dump[e] - 1
    BY <1>7 DEF Trace!Dump, Trace!DumpPops, Trace!DumpEnds, Trace!LeftAfter, Trace!Idle
  <2> QED
    BY <2>1, <2>2, <2>3
<1>8. ASSUME NEW e \in Dumpers, Trace!DumpStarts(e) \/ Trace!Dump(e)
      PROVE  /\ dump' \in [Dumpers -> -1 .. TraceSize - 1]
             /\ \A d \in Dumpers :
                  Trace!Dumping(d) =>
                    /\ dump'[d] \in -1 .. dump[d]
                    /\ Trace!Dump(d) => dump'[d] < dump[d]
  <2>1. dump' = [dump EXCEPT ![e] = dump'[e]] /\ dump'[e] \in -1 .. N - 1
    BY <1>6, <1>7, <1>8
  <2>2. \A d \in Dumpers : d # e => dump'[d] = dump[d]
    BY <2>1
  <2>3. Trace!Dumping(e) => Trace!Dump(e)
    BY <1>6, <1>8
  <2>4. ASSUME NEW d \in Dumpers, Trace!Dumping(d)
        PROVE  dump'[d] \in -1 .. dump[d] /\ (Trace!Dump(d) => dump'[d] < dump[d])
    <3>1. CASE Trace!Dump(d)
      BY <1>4, <2>4, <3>1
    <3>2. CASE ~ Trace!Dump(d)
      <4>1. dump'[d] = dump[d]
        BY <2>2, <2>3, <2>4, <3>2
      <4> QED
        BY <1>3, <3>2, <4>1
    <3> QED
      BY <3>1, <3>2
  <2> QED
    BY <1>1, <2>1, <2>4
<1> QED
  BY <1>5, <1>8 DEF Trace!Next

\* For a trace of any size and any dumpers: a dump takes at most TraceSize turns.
THEOREM DumpsGetShorter == Spec => []DumpsBounded /\ [][DumpsShorten]_vars
<1>1. Init => DumpsBounded
  <2>1. -1 \in -1 .. TraceSize - 1
    BY ConsoleAssumption DEF ConsoleAssumption
  <2> QED
    BY <2>1 DEF Init, Trace!Init, Trace!Idle, DumpsBounded
<1>2. TraceTypes /\ DumpsBounded /\ [Next]_vars => DumpsBounded' /\ [DumpsShorten]_vars
  <2> SUFFICES ASSUME TraceTypes, DumpsBounded, [Next]_vars
               PROVE  DumpsBounded' /\ [DumpsShorten]_vars
    OBVIOUS
  <2>1. CASE TraceStep(Trace!Next)
    BY <2>1, TraceDumps DEF TraceStep, TraceTypes, DumpsBounded, DumpsShorten
  <2>2. CASE TxStep(Tx!Next) \/ LineStep(Line!Next)
    BY <2>2 DEF TxStep, LineStep, DumpsBounded, DumpsShorten
  <2>3. CASE UNCHANGED vars
    BY <2>3 DEF vars, traceVars, DumpsBounded
  <2> QED
    BY <2>1, <2>2, <2>3 DEF Next
<1>3. Spec => []TraceTypes
  BY TraceInit, TraceStepOk, PTL DEF Spec
<1> QED
  BY <1>1, <1>2, <1>3, PTL DEF Spec
=============================================================================
