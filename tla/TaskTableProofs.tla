-------------------------- MODULE TaskTableProofs --------------------------
(***************************************************************************)
(* What a switch does to a task table of any size, and that there is       *)
(* always a task to switch to: the lemmas on TaskTable that the proofs     *)
(* about the modules with tasks share.  The searches of the scheduler and  *)
(* of the wait queue return the first slot that fits; that such a slot     *)
(* exists whenever any slot fits rests on LeastExists; so do the lemmas    *)
(* on sums over a table and on folds of a sequence, which have to do       *)
(* without an induction over data.                                         *)
(***************************************************************************)
EXTENDS TaskTable, FiniteSets, FiniteSetTheorems, WellFoundedInduction, TLAPS

\* A nonempty set of naturals has a least element.
Less == {p \in Nat \X Nat : p[1] < p[2]}

\* The library's well-foundedness of < on Nat, without its relation operator.
LEMMA LeastExists ==
  ASSUME NEW S, S \subseteq Nat, S # {}
  PROVE  \E least \in S : \A x \in S : least <= x
<1>1. PICK least \in S : \A x \in S : ~ (<<x, least>> \in Less)
  <2>1. IsWellFoundedOn(Less, Nat)
    BY NatLessThanWellFounded, Zenon DEF OpToRel, Less
  <2> QED
    BY <2>1, WFMin, Zenon
<1>2. ASSUME NEW x \in S PROVE least <= x
  <2>1. <<x, least>> \notin Less
    BY <1>1
  <2>2. x \in Nat /\ least \in Nat
    OBVIOUS
  <2>3. ~ (x < least)
    BY <2>1, <2>2 DEF Less
  <2> QED
    BY <2>2, <2>3
<1> QED
  BY <1>2

-----------------------------------------------------------------------------
LEMMA IdleIsTask == Idle \in Tasks /\ NoTask \notin Tasks
BY MaxTasksAssumption DEF Tasks, Idle, NoTask

\* What a switch does to the table: n was READY, or is the caller giving up its
\* turn, and now runs; the others keep their state or are reaped.
LEMMA SwitchEffect ==
  ASSUME NEW st \in [Tasks -> TaskStates], NEW cur, NEW n \in Tasks, NEW after,
         Switch(st, cur, n, after)
  PROVE  /\ after \in [Tasks -> TaskStates]
         /\ after[n] = "RUNNING"
         /\ st[n] = "READY" \/ (n = cur /\ st[n] = "RUNNING")
         /\ \A i \in Tasks \ {n} :
              after[i] = IF i \in Reaped(st, cur) THEN "UNUSED"
                         ELSE IF i = cur /\ st[i] = "RUNNING" THEN "READY"
                         ELSE st[i]
         /\ n \notin Reaped(st, cur)
         /\ n = Idle => \A i \in Tasks \ {Idle} : after[i] # "READY"
<1> DEFINE mid == AfterYield(st, cur)
<1>1. mid \in [Tasks -> TaskStates]
  BY DEF AfterYield, TaskStates
<1>2. PickNext(mid, cur, n) /\ after = [mid EXCEPT ![n] = "RUNNING"]
  BY DEF Switch
<1>3. mid[n] = "READY"
  BY <1>2 DEF PickNext
<1>4. n = Idle => \A i \in Tasks \ {Idle} : mid[i] # "READY"
  BY <1>2 DEF PickNext
<1>5. n \notin Reaped(st, cur) /\ (st[n] = "READY" \/ (n = cur /\ st[n] = "RUNNING"))
  BY <1>3 DEF AfterYield, Reaped
<1>6. after \in [Tasks -> TaskStates] /\ after[n] = "RUNNING"
  BY <1>1, <1>2 DEF TaskStates
<1>7. \A i \in Tasks \ {n} : after[i] = mid[i]
  BY <1>1, <1>2
<1> QED
  BY <1>1, <1>4, <1>5, <1>6, <1>7 DEF AfterYield

\* With the idle task READY the search of scheduler_pick_next finds a task: the
\* offset of any other READY task lies in the scanned range, so there is a first.
LEMMA NextExists ==
  ASSUME NEW st \in [Tasks -> TaskStates], NEW cur \in Tasks \cup {NoTask},
         st[Idle] = "READY"
  PROVE  \E n \in Tasks : PickNext(st, cur, n)
<1> DEFINE base == IF cur = NoTask THEN 0 ELSE cur
           Fits(k) == Slot(cur, k) # Idle /\ st[Slot(cur, k)] = "READY"
           Offsets == {k \in 1 .. MaxTasks : Fits(k)}
<1>1. CASE \A i \in Tasks \ {Idle} : st[i] # "READY"
  BY <1>1, IdleIsTask DEF PickNext
<1>2. CASE \E i \in Tasks \ {Idle} : st[i] = "READY"
  <2>1. PICK i \in Tasks \ {Idle} : st[i] = "READY"
    BY <1>2
  <2>2. base \in 0 .. MaxTasks - 1 /\ i \in 0 .. MaxTasks - 1 /\ MaxTasks \in Nat
    BY MaxTasksAssumption DEF Tasks, NoTask
  <2>3. \E k \in 1 .. MaxTasks : Slot(cur, k) = i
    <3>1. CASE i > base
      <4>1. i - base \in 1 .. MaxTasks /\ (base + (i - base)) % MaxTasks = i
        BY <2>2, <3>1
      <4> QED
        BY <4>1 DEF Slot
    <3>2. CASE i <= base
      <4>1. i - base + MaxTasks \in 1 .. MaxTasks
        BY <2>2, <3>2
      <4>2. base + (i - base + MaxTasks) = i + MaxTasks
        BY <2>2
      <4>3. (i + MaxTasks) % MaxTasks = i
        BY <2>2, MaxTasksAssumption
      <4> QED
        BY <4>1, <4>2, <4>3 DEF Slot
    <3> QED
      BY <2>2, <3>1, <3>2
  <2>4. Offsets \subseteq Nat /\ Offsets # {}
    BY <2>1, <2>3
  <2>5. PICK k \in Offsets : \A j \in Offsets : k <= j
    BY <2>4, LeastExists
  <2>6. ASSUME NEW j \in 1 .. k - 1
        PROVE  j \in 1 .. MaxTasks /\ j \notin Offsets
    <3>1. k \in 1 .. MaxTasks /\ MaxTasks \in Nat
      BY <2>2
    <3>2. j \in 1 .. MaxTasks /\ ~ (k <= j)
      BY <3>1
    <3> QED
      BY <2>5, <3>2
  <2>7. Slot(cur, k) \in Tasks
    <3>1. base + k \in Nat
      BY <2>2
    <3> QED
      BY <2>2, <3>1, MaxTasksAssumption DEF Slot, Tasks
  <2> QED
    BY <2>5, <2>6, <2>7 DEF PickNext
<1> QED
  BY <1>1, <1>2

-----------------------------------------------------------------------------
(* Sums over a finite set: MapThenSumSet of the community modules, by the  *)
(* recursion it is defined with.                                           *)

\* The element that the folds of the community modules take from a set next.
Pick(T) == CHOOSE x \in T : TRUE

\* What MapThenSumSet computes for the subsets of S is a function g of this form.
IsSums(f, S, g) ==
  g = [T \in SUBSET S |-> IF T = {} THEN 0 ELSE f[Pick(T)] + g[T \ {Pick(T)}]]

Sum(f, S) == (CHOOSE g : IsSums(f, S, g))[S]

LEMMA PickIn == ASSUME NEW T, T # {} PROVE Pick(T) \in T
BY DEF Pick

LEMMA Smaller ==
  ASSUME NEW T, IsFiniteSet(T), T # {}
  PROVE  /\ Cardinality(T) \in Nat \ {0} /\ IsFiniteSet(T \ {Pick(T)})
         /\ Cardinality(T \ {Pick(T)}) = Cardinality(T) - 1
<1>1. Pick(T) \in T
  BY PickIn
<1>2. Cardinality(T) \in Nat /\ Cardinality(T) # 0
  BY FS_CardinalityType, FS_EmptySet
<1> QED
  BY <1>1, <1>2, FS_RemoveElement

\* What holds of the empty set and of a set if it holds of what is left after a
\* pick holds of every finite set: there is no least set where it fails.
LEMMA NoneFails ==
  ASSUME NEW S, IsFiniteSet(S), NEW Fails, Fails \subseteq SUBSET S,
         \A T \in Fails : T # {} /\ T \ {Pick(T)} \in Fails
  PROVE  Fails = {}
<1> SUFFICES ASSUME Fails # {} PROVE FALSE
  OBVIOUS
<1>1. \A T \in Fails : IsFiniteSet(T) /\ Cardinality(T) \in Nat
  BY FS_Subset, FS_CardinalityType
<1> DEFINE Sizes == {Cardinality(T) : T \in Fails}
<1>2. Sizes \subseteq Nat /\ Sizes # {}
  BY <1>1
<1>3. PICK least \in Sizes : \A n \in Sizes : least <= n
  BY <1>2, LeastExists
<1>4. PICK T \in Fails : Cardinality(T) = least
  OBVIOUS
<1>5. Cardinality(T \ {Pick(T)}) = Cardinality(T) - 1
  BY <1>1, <1>4, Smaller
<1>6. T \ {Pick(T)} \in Fails
  BY <1>4
<1>7. Cardinality(T \ {Pick(T)}) \in Sizes
  BY <1>6
<1>8. least \in Nat
  BY <1>2
<1> HIDE DEF Sizes
<1> QED
  BY <1>3, <1>4, <1>5, <1>7, <1>8

\* g is right for the subsets of S of at most n elements.
RightUpTo(f, S, n, g) ==
  \A T \in SUBSET S : Cardinality(T) <= n =>
    g[T] = IF T = {} THEN 0 ELSE f[Pick(T)] + g[T \ {Pick(T)}]

LEMMA SumsUpTo ==
  ASSUME NEW f, NEW S, IsFiniteSet(S), NEW n \in Nat
  PROVE  \E g : RightUpTo(f, S, n, g)
<1> SUFFICES ASSUME ~ \E g : RightUpTo(f, S, n, g) PROVE FALSE
  OBVIOUS
<1> DEFINE Fails == {k \in Nat : ~ \E g : RightUpTo(f, S, k, g)}
<1>1. PICK k \in Fails : \A j \in Fails : k <= j
  <2>1. Fails \subseteq Nat /\ Fails # {}
    OBVIOUS
  <2> QED
    BY <2>1, LeastExists
<1>2. \A T \in SUBSET S : IsFiniteSet(T) /\ Cardinality(T) \in Nat
  BY FS_Subset, FS_CardinalityType
<1>3. CASE k = 0
  <2>1. \A T \in SUBSET S : Cardinality(T) <= 0 => T = {}
    BY <1>2, FS_EmptySet
  <2>2. RightUpTo(f, S, 0, [T \in SUBSET S |-> 0])
    BY <2>1 DEF RightUpTo
  <2> QED
    BY <1>3, <2>2
<1>4. CASE k # 0
  <2>1. k - 1 \in Nat /\ ~ (k <= k - 1)
    BY <1>4
  <2>2. PICK g : RightUpTo(f, S, k - 1, g)
    BY <1>1, <2>1
  <2>3. PICK h : h = [T \in SUBSET S |-> IF Cardinality(T) <= k - 1 THEN g[T]
                        ELSE IF T = {} THEN 0 ELSE f[Pick(T)] + g[T \ {Pick(T)}]]
    OBVIOUS
  <2>4. ASSUME NEW T \in SUBSET S, Cardinality(T) <= k
        PROVE  h[T] = IF T = {} THEN 0 ELSE f[Pick(T)] + h[T \ {Pick(T)}]
    <3>1. CASE T = {}
      <4>1. Cardinality(T) = 0
        BY <3>1, FS_EmptySet
      <4>2. Cardinality(T) <= k - 1
        BY <2>1, <4>1
      <4>3. h[T] = g[T]
        BY <2>3, <4>2
      <4>4. g[T] = 0
        BY <2>2, <3>1, <4>2 DEF RightUpTo
      <4> QED
        BY <3>1, <4>3, <4>4
    <3>2. CASE T # {}
      <4>1. /\ Cardinality(T \ {Pick(T)}) = Cardinality(T) - 1
            /\ Cardinality(T) \in Nat
        BY <1>2, <3>2, Smaller
      <4>2. Cardinality(T \ {Pick(T)}) <= k - 1
        BY <2>1, <2>4, <4>1
      <4>3. h[T \ {Pick(T)}] = g[T \ {Pick(T)}]
        BY <2>3, <4>2
      <4>4. h[T] = f[Pick(T)] + g[T \ {Pick(T)}]
        <5>1. CASE Cardinality(T) <= k - 1
          <6>1. h[T] = g[T]
            BY <2>3, <5>1
          <6>2. g[T] = f[Pick(T)] + g[T \ {Pick(T)}]
            BY <2>2, <3>2, <5>1 DEF RightUpTo
          <6> QED
            BY <6>1, <6>2
        <5>2. CASE ~ (Cardinality(T) <= k - 1)
          BY <2>3, <3>2, <5>2
        <5> QED
          BY <5>1, <5>2
      <4> QED
        BY <3>2, <4>3, <4>4
    <3> QED
      BY <3>1, <3>2
  <2>5. RightUpTo(f, S, k, h)
    BY <2>4 DEF RightUpTo
  <2> QED
    BY <2>5
<1> QED
  BY <1>3, <1>4

\* The sums of the subsets of a finite set.
LEMMA SumsExist ==
  ASSUME NEW f, NEW S, IsFiniteSet(S)
  PROVE  \E g : IsSums(f, S, g) /\ Sum(f, S) = g[S]
<1>1. Cardinality(S) \in Nat
  BY FS_CardinalityType
<1>2. PICK g : RightUpTo(f, S, Cardinality(S), g)
  BY <1>1, SumsUpTo
<1>3. \A T \in SUBSET S : Cardinality(T) <= Cardinality(S)
  BY FS_Subset
<1>4. PICK h : h = [T \in SUBSET S |-> g[T]]
  OBVIOUS
<1>5. \A T \in SUBSET S : h[T] = IF T = {} THEN 0 ELSE f[Pick(T)] + h[T \ {Pick(T)}]
  BY <1>2, <1>3, <1>4 DEF RightUpTo
<1>6. h = [T \in SUBSET S |-> h[T]]
  BY <1>4
<1>7. IsSums(f, S, h)
  BY <1>5, <1>6 DEF IsSums
<1>8. IsSums(f, S, CHOOSE x : IsSums(f, S, x))
  BY <1>7
<1> QED
  BY <1>8 DEF Sum

LEMMA SumsNat ==
  ASSUME NEW f, NEW S, IsFiniteSet(S), \A x \in S : f[x] \in Nat
  PROVE  \E g : /\ IsSums(f, S, g) /\ Sum(f, S) = g[S]
                /\ \A T \in SUBSET S : g[T] \in Nat
<1>1. PICK g : IsSums(f, S, g) /\ Sum(f, S) = g[S]
  BY SumsExist
<1>2. \A T \in SUBSET S : /\ T = {} => g[T] = 0
                          /\ T # {} => g[T] = f[Pick(T)] + g[T \ {Pick(T)}]
  BY <1>1 DEF IsSums
<1>3. PICK Fails : Fails = {T \in SUBSET S : g[T] \notin Nat}
  OBVIOUS
<1>4. ASSUME NEW T \in Fails PROVE T # {} /\ T \ {Pick(T)} \in Fails
  <2>1. T \in SUBSET S /\ g[T] \notin Nat
    BY <1>3
  <2>2. T # {} /\ g[T] = f[Pick(T)] + g[T \ {Pick(T)}]
    <3>1. T = {} => g[T] = 0
      BY <1>2, <2>1
    <3>2. T # {} => g[T] = f[Pick(T)] + g[T \ {Pick(T)}]
      BY <1>2, <2>1
    <3> QED
      BY <2>1, <3>1, <3>2
  <2>3. Pick(T) \in S /\ T \ {Pick(T)} \in SUBSET S
    BY <2>1, <2>2, PickIn
  <2>4. f[Pick(T)] \in Nat
    BY <2>3
  <2> QED
    BY <1>3, <2>1, <2>2, <2>3, <2>4
<1>5. Fails = {}
  BY <1>3, <1>4, NoneFails
<1> QED
  BY <1>1, <1>3, <1>5

LEMMA SumIsNat ==
  ASSUME NEW f, NEW S, IsFiniteSet(S), \A x \in S : f[x] \in Nat
  PROVE  Sum(f, S) \in Nat
BY SumsNat

\* Equal summands have equal sums.
LEMMA SumSame ==
  ASSUME NEW f, NEW e, NEW S, IsFiniteSet(S), \A x \in S : f[x] \in Nat /\ e[x] = f[x]
  PROVE  Sum(e, S) = Sum(f, S)
<1>1. PICK g : IsSums(f, S, g) /\ Sum(f, S) = g[S]
  BY SumsExist
<1>2. PICK h : IsSums(e, S, h) /\ Sum(e, S) = h[S]
  BY SumsExist
<1>3. \A T \in SUBSET S : T # {} => Pick(T) \in S /\ T \ {Pick(T)} \in SUBSET S
  BY PickIn
<1>4. PICK Fails : Fails = {T \in SUBSET S : h[T] # g[T]}
  OBVIOUS
<1>5. ASSUME NEW T \in Fails PROVE T # {} /\ T \ {Pick(T)} \in Fails
  <2>1. T \in SUBSET S /\ h[T] # g[T]
    BY <1>4
  <2>2. CASE T = {}
    BY <1>1, <1>2, <2>1, <2>2 DEF IsSums
  <2>3. CASE T # {}
    <3>1. g[T] = f[Pick(T)] + g[T \ {Pick(T)}] /\ h[T] = e[Pick(T)] + h[T \ {Pick(T)}]
      BY <1>1, <1>2, <2>1, <2>3 DEF IsSums
    <3>2. Pick(T) \in S /\ T \ {Pick(T)} \in SUBSET S
      BY <1>3, <2>1, <2>3
    <3> QED
      BY <1>4, <2>1, <2>3, <3>1, <3>2
  <2> QED
    BY <2>2, <2>3
<1>6. Fails = {}
  BY <1>4, <1>5, NoneFails
<1> QED
  BY <1>1, <1>2, <1>4, <1>6

\* A summand is no more than the sum.
LEMMA SumHas ==
  ASSUME NEW f, NEW S, IsFiniteSet(S), \A x \in S : f[x] \in Nat, NEW a \in S
  PROVE  f[a] <= Sum(f, S)
<1>1. PICK g : /\ IsSums(f, S, g) /\ Sum(f, S) = g[S]
               /\ \A T \in SUBSET S : g[T] \in Nat
  BY SumsNat
<1>2. PICK Fails : Fails = {T \in SUBSET S : a \in T /\ ~ (f[a] <= g[T])}
  OBVIOUS
<1>3. ASSUME NEW T \in Fails PROVE T # {} /\ T \ {Pick(T)} \in Fails
  <2>1. T \in SUBSET S /\ a \in T /\ ~ (f[a] <= g[T])
    BY <1>2
  <2>2. T # {}
    BY <2>1
  <2>3. g[T] = f[Pick(T)] + g[T \ {Pick(T)}]
    BY <1>1, <2>1, <2>2 DEF IsSums
  <2>4. Pick(T) \in S /\ T \ {Pick(T)} \in SUBSET S
    BY <2>1, <2>2, PickIn
  <2>5. f[Pick(T)] \in Nat /\ f[a] \in Nat /\ g[T \ {Pick(T)}] \in Nat
    BY <1>1, <2>4
  <2>6. Pick(T) # a /\ ~ (f[a] <= g[T \ {Pick(T)}])
    BY <2>1, <2>3, <2>5
  <2> QED
    BY <1>2, <2>1, <2>2, <2>4, <2>6
<1>4. Fails = {}
  BY <1>2, <1>3, NoneFails
<1> QED
  BY <1>1, <1>2, <1>4

\* A sum of numbers up to M.
LEMMA SumAtMost ==
  ASSUME NEW f, NEW S, IsFiniteSet(S), NEW M \in Nat,
         \A x \in S : f[x] \in Nat /\ f[x] <= M
  PROVE  Sum(f, S) <= Cardinality(S) * M
<1>1. PICK g : /\ IsSums(f, S, g) /\ Sum(f, S) = g[S]
               /\ \A T \in SUBSET S : g[T] \in Nat
  BY SumsNat
<1>2. PICK Fails : Fails = {T \in SUBSET S : ~ (g[T] <= Cardinality(T) * M)}
  OBVIOUS
<1>3. ASSUME NEW T \in Fails PROVE T # {} /\ T \ {Pick(T)} \in Fails
  <2>1. T \in SUBSET S /\ ~ (g[T] <= Cardinality(T) * M)
    BY <1>2
  <2>2. T # {}
    <3>1. CASE T = {}
      <4>1. Cardinality(T) = 0 /\ g[T] = 0
        BY <1>1, <3>1, FS_EmptySet DEF IsSums
      <4> QED
        BY <2>1, <4>1
    <3> QED
      BY <3>1
  <2>3. g[T] = f[Pick(T)] + g[T \ {Pick(T)}]
    BY <1>1, <2>1, <2>2 DEF IsSums
  <2>4. Pick(T) \in S /\ T \ {Pick(T)} \in SUBSET S
    BY <2>1, <2>2, PickIn
  <2>5. PICK p : p = f[Pick(T)]
    OBVIOUS
  <2>6. PICK r : r = g[T \ {Pick(T)}]
    OBVIOUS
  <2>7. p \in Nat /\ p <= M /\ r \in Nat /\ ~ (p + r <= Cardinality(T) * M)
    BY <1>1, <2>1, <2>3, <2>4, <2>5, <2>6
  <2>8. PICK c \in Nat : c = Cardinality(T \ {Pick(T)}) /\ Cardinality(T) = c + 1
    <3>1. IsFiniteSet(T)
      BY <2>1, FS_Subset
    <3>2. /\ Cardinality(T) \in Nat \ {0}
          /\ Cardinality(T \ {Pick(T)}) = Cardinality(T) - 1
      BY <2>2, <3>1, Smaller
    <3> QED
      BY <3>2
  <2>9. (c + 1) * M = c * M + M /\ c * M \in Nat
    BY <2>8
  <2>10. ~ (r <= c * M)
    BY <2>7, <2>8, <2>9
  <2> QED
    BY <1>2, <2>2, <2>4, <2>6, <2>8, <2>10
<1>4. Fails = {}
  BY <1>2, <1>3, NoneFails
<1> QED
  BY <1>1, <1>2, <1>4

\* If one summand grows by d at most, and no other does, the sum grows by d at most.
LEMMA SumGrows ==
  ASSUME NEW f, NEW e, NEW S, IsFiniteSet(S), NEW a, NEW d \in Nat,
         \A x \in S : /\ f[x] \in Nat /\ e[x] \in Nat
                      /\ x # a => e[x] <= f[x]
                      /\ e[x] <= f[x] + d
  PROVE  Sum(e, S) <= Sum(f, S) + d
<1>1. PICK g : /\ IsSums(f, S, g) /\ Sum(f, S) = g[S]
               /\ \A T \in SUBSET S : g[T] \in Nat
  BY SumsNat
<1>2. PICK h : /\ IsSums(e, S, h) /\ Sum(e, S) = h[S]
               /\ \A T \in SUBSET S : h[T] \in Nat
  BY SumsNat
<1> DEFINE Holds(T) == /\ h[T] <= g[T] + d
                       /\ a \notin T => h[T] <= g[T]
<1>3. PICK Fails : Fails = {T \in SUBSET S : ~ Holds(T)}
  OBVIOUS
<1>4. ASSUME NEW T \in Fails PROVE T # {} /\ T \ {Pick(T)} \in Fails
  <2>1. T \in SUBSET S /\ ~ Holds(T)
    BY <1>3
  <2>2. T # {}
    <3>1. CASE T = {}
      <4>1. h[T] = 0 /\ g[T] = 0
        BY <1>1, <1>2, <3>1 DEF IsSums
      <4> QED
        BY <2>1, <4>1
    <3> QED
      BY <3>1
  <2>3. PICK p : p = Pick(T)
    OBVIOUS
  <2>4. g[T] = f[p] + g[T \ {p}] /\ h[T] = e[p] + h[T \ {p}]
    BY <1>1, <1>2, <2>1, <2>2, <2>3 DEF IsSums
  <2>5. p \in T /\ p \in S /\ T \ {p} \in SUBSET S
    BY <2>1, <2>2, <2>3, PickIn
  <2>6. f[p] \in Nat /\ e[p] \in Nat /\ (p # a => e[p] <= f[p]) /\ e[p] <= f[p] + d
    BY <2>5
  <2>7. g[T \ {p}] \in Nat /\ h[T \ {p}] \in Nat
    BY <1>1, <1>2, <2>5
  <2>8. ~ Holds(T \ {p})
    <3>1. SUFFICES ASSUME Holds(T \ {p}) PROVE FALSE
      OBVIOUS
    <3>2. CASE p = a
      BY <2>1, <2>4, <2>6, <2>7, <3>1, <3>2
    <3>3. CASE p # a
      <4>1. a \in T <=> a \in T \ {p}
        BY <3>3
      <4> QED
        BY <2>1, <2>4, <2>6, <2>7, <3>1, <3>3, <4>1
    <3> QED
      BY <3>2, <3>3
  <2> HIDE DEF Holds
  <2> QED
    BY <1>3, <2>2, <2>3, <2>5, <2>8
<1>5. Fails = {}
  <2> HIDE DEF Holds
  <2> QED
    BY <1>3, <1>4, NoneFails
<1> QED
  BY <1>1, <1>2, <1>3, <1>5

-----------------------------------------------------------------------------
(* Folds of a sequence: FoldLeft of the community modules, by the recursion *)
(* it is defined with, for a step that is given as a function.             *)

\* The index that FoldLeft takes next.
Top(T) == CHOOSE x \in T : \A y \in T : x >= y

IsFolds(step, base, q, g) ==
  g = [T \in SUBSET DOMAIN q |->
         IF T = {} THEN base ELSE step[<<g[T \ {Top(T)}], q[Top(T)]>>]]

LEMMA TopIn ==
  ASSUME NEW n \in Nat, NEW T, T \subseteq 1 .. n, T # {}
  PROVE  /\ Top(T) \in T /\ \A y \in T : Top(T) >= y
         /\ IsFiniteSet(T) /\ Cardinality(T) \in Nat \ {0}
         /\ Cardinality(T \ {Top(T)}) = Cardinality(T) - 1
<1> DEFINE Down == {n - x : x \in T}
<1>1. Down \subseteq Nat /\ Down # {}
  <2>1. \A x \in T : n - x \in Nat
    OBVIOUS
  <2> QED
    BY <2>1
<1>2. PICK d \in Down : \A y \in Down : d <= y
  BY <1>1, LeastExists
<1>3. \E x \in T : \A y \in T : x >= y
  <2>1. PICK x \in T : d = n - x
    OBVIOUS
  <2>2. ASSUME NEW y \in T PROVE x >= y
    <3>1. n - x <= n - y
      BY <1>2, <2>1
    <3> QED
      BY <3>1
  <2> QED
    BY <2>1, <2>2
<1>4. Top(T) \in T /\ \A y \in T : Top(T) >= y
  BY <1>3 DEF Top
<1>5. IsFiniteSet(1 .. n)
  BY FS_Interval
<1>6. IsFiniteSet(T) /\ Cardinality(T) \in Nat /\ Cardinality(T) # 0
  BY <1>5, FS_Subset, FS_CardinalityType, FS_EmptySet
<1>7. Cardinality(T \ {Top(T)}) = Cardinality(T) - 1
  BY <1>4, <1>6, FS_RemoveElement
<1> QED
  BY <1>4, <1>6, <1>7

\* What holds of {} and of a set if it holds of what is left without its top.
LEMMA NoTopFails ==
  ASSUME NEW n \in Nat, NEW Fails, Fails \subseteq SUBSET (1 .. n),
         \A T \in Fails : T # {} /\ T \ {Top(T)} \in Fails
  PROVE  Fails = {}
<1> SUFFICES ASSUME Fails # {} PROVE FALSE
  OBVIOUS
<1>1. \A T \in Fails : /\ Cardinality(T) \in Nat \ {0}
                       /\ Cardinality(T \ {Top(T)}) = Cardinality(T) - 1
  BY TopIn
<1> DEFINE Sizes == {Cardinality(T) : T \in Fails}
<1>2. Sizes \subseteq Nat /\ Sizes # {}
  BY <1>1
<1>3. PICK least \in Sizes : \A k \in Sizes : least <= k
  BY <1>2, LeastExists
<1>4. PICK T \in Fails : Cardinality(T) = least
  OBVIOUS
<1>5. Cardinality(T \ {Top(T)}) \in Sizes /\ least \in Nat
  BY <1>2
<1> HIDE DEF Sizes
<1> QED
  BY <1>1, <1>3, <1>4, <1>5

\* g is right for the sets of at most k indices.
FoldsUpTo(step, base, q, k, g) ==
  \A T \in SUBSET DOMAIN q : Cardinality(T) <= k =>
    g[T] = IF T = {} THEN base ELSE step[<<g[T \ {Top(T)}], q[Top(T)]>>]

LEMMA FoldsUpToExist ==
  ASSUME NEW n \in Nat, NEW q, DOMAIN q = 1 .. n, NEW step, NEW base, NEW size \in Nat
  PROVE  \E g : FoldsUpTo(step, base, q, size, g)
<1> SUFFICES ASSUME ~ \E g : FoldsUpTo(step, base, q, size, g) PROVE FALSE
  OBVIOUS
<1> DEFINE Fails == {k \in Nat : ~ \E g : FoldsUpTo(step, base, q, k, g)}
<1>1. PICK k \in Fails : \A j \in Fails : k <= j
  <2>1. Fails \subseteq Nat /\ Fails # {}
    OBVIOUS
  <2> QED
    BY <2>1, LeastExists
<1>2. \A T \in SUBSET DOMAIN q : T # {} =>
         Cardinality(T) \in Nat \ {0} /\ Cardinality(T \ {Top(T)}) = Cardinality(T) - 1
  BY TopIn
<1>3. Cardinality({}) = 0
  BY FS_EmptySet
<1>4. CASE k = 0
  <2>1. ASSUME NEW T \in SUBSET DOMAIN q, T # {} PROVE ~ (Cardinality(T) <= 0)
    <3>1. Cardinality(T) \in Nat \ {0}
      BY <1>2, <2>1
    <3> QED
      BY <3>1
  <2>2. FoldsUpTo(step, base, q, 0, [T \in SUBSET DOMAIN q |-> base])
    BY <2>1 DEF FoldsUpTo
  <2> QED
    BY <1>4, <2>2
<1>5. CASE k # 0
  <2>1. k - 1 \in Nat /\ ~ (k <= k - 1)
    BY <1>5
  <2>2. PICK g : FoldsUpTo(step, base, q, k - 1, g)
    BY <1>1, <2>1
  <2> DEFINE Value(T) == IF T = {} THEN base ELSE step[<<g[T \ {Top(T)}], q[Top(T)]>>]
  <2>3. PICK h : h = [T \in SUBSET DOMAIN q |-> Value(T)]
    OBVIOUS
  <2>4. \A T \in SUBSET DOMAIN q : Cardinality(T) <= k - 1 => h[T] = g[T]
    BY <2>2, <2>3 DEF FoldsUpTo
  <2>5. ASSUME NEW T \in SUBSET DOMAIN q, Cardinality(T) <= k
        PROVE  h[T] = IF T = {} THEN base ELSE step[<<h[T \ {Top(T)}], q[Top(T)]>>]
    <3>1. CASE T = {}
      BY <2>3, <3>1
    <3>2. CASE T # {}
      <4>1. Cardinality(T \ {Top(T)}) <= k - 1
        BY <1>2, <2>1, <2>5, <3>2
      <4>2. h[T \ {Top(T)}] = g[T \ {Top(T)}]
        BY <2>4, <4>1
      <4> QED
        BY <2>3, <3>2, <4>2
    <3> QED
      BY <3>1, <3>2
  <2> HIDE DEF Value
  <2>6. FoldsUpTo(step, base, q, k, h)
    BY <2>5 DEF FoldsUpTo
  <2> QED
    BY <2>6
<1> QED
  BY <1>4, <1>5

LEMMA FoldsExist ==
  ASSUME NEW n \in Nat, NEW q, DOMAIN q = 1 .. n, NEW step, NEW base
  PROVE  \E g : IsFolds(step, base, q, g)
<1>1. PICK g : FoldsUpTo(step, base, q, n, g)
  BY FoldsUpToExist
<1>2. ASSUME NEW T \in SUBSET DOMAIN q PROVE Cardinality(T) <= n
  <2>1. IsFiniteSet(1 .. n) /\ Cardinality(1 .. n) = n
    BY FS_Interval
  <2> QED
    BY <2>1, FS_Subset
<1>3. PICK h : h = [T \in SUBSET DOMAIN q |-> g[T]]
  OBVIOUS
<1>4. \A T \in SUBSET DOMAIN q :
        h[T] = IF T = {} THEN base ELSE step[<<h[T \ {Top(T)}], q[Top(T)]>>]
  BY <1>1, <1>2, <1>3 DEF FoldsUpTo
<1>5. h = [T \in SUBSET DOMAIN q |-> h[T]]
  BY <1>3
<1> QED
  BY <1>4, <1>5 DEF IsFolds

\* The value of a fold at the first k elements.
Upto(g, k) == g[1 .. k]

Stepwise(step, base, q, n, g) ==
  /\ Upto(g, 0) = base
  /\ \A k \in 1 .. n : Upto(g, k) = step[<<Upto(g, k - 1), q[k]>>]

LEMMA FoldsStepwise ==
  ASSUME NEW n \in Nat, NEW q, DOMAIN q = 1 .. n, NEW step, NEW base, NEW g,
         IsFolds(step, base, q, g)
  PROVE  Stepwise(step, base, q, n, g)
<1>1. \A T \in SUBSET (1 .. n) :
         g[T] = IF T = {} THEN base ELSE step[<<g[T \ {Top(T)}], q[Top(T)]>>]
  BY DEF IsFolds
<1>2. 1 .. 0 = {}
  OBVIOUS
<1>3. ASSUME NEW k \in 1 .. n PROVE Upto(g, k) = step[<<Upto(g, k - 1), q[k]>>]
  <2>1. PICK T : T = 1 .. k
    OBVIOUS
  <2>2. T \in SUBSET (1 .. n) /\ T # {} /\ k \in T
    BY <2>1
  <2>3. Top(T) \in T /\ Top(T) >= k
    BY <2>2, TopIn
  <2>4. Top(T) = k
    BY <2>1, <2>3
  <2>5. T \ {k} = 1 .. k - 1
    BY <2>1
  <2> QED
    BY <1>1, <2>1, <2>2, <2>4, <2>5 DEF Upto
<1> QED
  BY <1>1, <1>2, <1>3 DEF Upto, Stepwise

SameUpto(q, r, k) == \A j \in 1 .. k : q[j] = r[j]

\* Folds of two sequences that agree up to an index agree there.
LEMMA FoldsAgree ==
  ASSUME NEW n \in Nat, NEW q, DOMAIN q = 1 .. n, NEW m \in Nat, NEW r, DOMAIN r = 1 .. m,
         NEW step, NEW base, NEW g, IsFolds(step, base, q, g), NEW h, IsFolds(step, base, r, h),
         NEW k \in Nat, k <= n, k <= m, SameUpto(q, r, k)
  PROVE  Upto(g, k) = Upto(h, k)
<1> DEFINE Fails == {j \in 0 .. k : Upto(g, j) # Upto(h, j)}
<1> SUFFICES ASSUME Fails # {} PROVE FALSE
  OBVIOUS
<1>1. Fails \subseteq Nat
  OBVIOUS
<1>2. PICK j \in Fails : \A i \in Fails : j <= i
  BY <1>1, LeastExists
<1>3. j \in 0 .. k /\ Upto(g, j) # Upto(h, j)
  OBVIOUS
<1>4. Stepwise(step, base, q, n, g) /\ Stepwise(step, base, r, m, h)
  BY FoldsStepwise
<1>5. Upto(g, 0) = base /\ Upto(h, 0) = base
  BY <1>4 DEF Stepwise
<1>6. j \in 1 .. k /\ j - 1 \in 0 .. k /\ ~ (j <= j - 1)
  BY <1>3, <1>5
<1>7. Upto(g, j - 1) = Upto(h, j - 1)
  BY <1>2, <1>6
<1>8. j \in 1 .. n /\ j \in 1 .. m /\ q[j] = r[j]
  BY <1>6 DEF SameUpto
<1>9. Upto(g, j) = step[<<Upto(g, j - 1), q[j]>>] /\ Upto(h, j) = step[<<Upto(h, j - 1), r[j]>>]
  BY <1>4, <1>8 DEF Stepwise
<1> QED
  BY <1>3, <1>7, <1>8, <1>9

\* The folds of a sequence stay in the set that each step stays in.
LEMMA FoldsTyped ==
  ASSUME NEW n \in Nat, NEW q, DOMAIN q = 1 .. n, NEW step, NEW A, NEW base \in A,
         \A a \in A : \A j \in 1 .. n : step[<<a, q[j]>>] \in A,
         NEW g, IsFolds(step, base, q, g)
  PROVE  \A T \in SUBSET DOMAIN q : g[T] \in A
<1>1. PICK Fails : Fails = {T \in SUBSET (1 .. n) : g[T] \notin A}
  OBVIOUS
<1>2. ASSUME NEW T \in Fails PROVE T # {} /\ T \ {Top(T)} \in Fails
  <2>1. T \in SUBSET (1 .. n) /\ g[T] \notin A
    BY <1>1
  <2>2. g[T] = IF T = {} THEN base ELSE step[<<g[T \ {Top(T)}], q[Top(T)]>>]
    BY <2>1 DEF IsFolds
  <2>3. T # {}
    BY <2>1, <2>2
  <2>4. Top(T) \in 1 .. n /\ T \ {Top(T)} \in SUBSET (1 .. n)
    BY <2>1, <2>3, TopIn
  <2>5. g[T \ {Top(T)}] \notin A
    BY <2>1, <2>2, <2>3, <2>4
  <2> QED
    BY <1>1, <2>3, <2>4, <2>5
<1>3. Fails = {}
  BY <1>2, <1>1, NoTopFails
<1> QED
  BY <1>1, <1>3
=============================================================================
