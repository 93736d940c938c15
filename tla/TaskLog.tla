------------------------------ MODULE TaskLog ------------------------------
(***************************************************************************)
(* The per-task logs of kernel/memory/log.c on the kernel heap: one linked *)
(* list of entries for each task slot, entries and messages allocated one  *)
(* by one.  log_append and log_clear run to their end without a yield.     *)
(* (log_dump does not: see LogDump.)                                       *)
(*                                                                         *)
(* Addresses are those of block headers: what kmalloc returns is HeaderSize *)
(* further on.                                                             *)
(***************************************************************************)
EXTENDS Heap, Sequences

CONSTANTS Slots,       \* the task slots that log
          LogMax,      \* LOG_MAX_ENTRIES_PER_TASK
          EntrySize,   \* sizeof(log_entry_t)
          TextLengths  \* the lengths of the messages; NULL is no message

ASSUME LogAssumption ==
  /\ Slots \subseteq Nat
  /\ LogMax \in Nat \ {0}
  /\ EntrySize \in Nat \ {0}
  /\ TextLengths \subseteq Nat \cup {NULL}

VARIABLES heap,      \* the block headers
          entry,     \* the log entries in memory, by address
          log,       \* task_logs
          clearing,  \* log_clear_task_id: its task_id and current
          panicked   \* kfree found a block that is not allocated

logVars == <<heap, entry, log, clearing, panicked>>

Nowhere == [task |-> NULL, at |-> NULL]
NoLog   == [head |-> NULL, tail |-> NULL, count |-> 0]

Without(f, a) == [x \in DOMAIN f \ {a} |-> f[x]]
With(f, a, v) == [x \in DOMAIN f \cup {a} |-> IF x = a THEN v ELSE f[x]]

FreeEntryOnly(h, a) == Kfree(h, a)

\* An entry and its message go back to the heap, as in log_drop_oldest and
\* log_clear_task_id: the message first.
FreeEntry(h, a)  == Kfree(Kfree(h, entry[a].message), a)
FreePanics(h, a) == ~ ({a, entry[a].message} \ {NULL} \subseteq Allocated(h))

LogInit ==
  /\ heap = HeapInit
  /\ entry = [a \in {} |-> {}]
  /\ log = [t \in Slots |-> NoLog]
  /\ clearing = Nowhere
  /\ panicked = FALSE

\* Nothing else runs while a list is cleared, and nothing after a panic.
Runs == clearing = Nowhere /\ ~ panicked

-----------------------------------------------------------------------------
(* log_append_task_id: the copy of the message, then the entry.            *)
CopyOf(n) == IF n = NULL THEN [ptr |-> NULL, heap |-> heap] ELSE Kmalloc(heap, n + 1)
EntryFor(copy) == Kmalloc(copy.heap, EntrySize)

AppendNoText(n) == n # NULL /\ CopyOf(n).ptr = NULL

AppendNoEntryLeaking(n) ==
  /\ ~ AppendNoText(n)
  /\ EntryFor(CopyOf(n)).ptr = NULL
  /\ heap' = CopyOf(n).heap

\* No room for the entry: the copy is freed again and -1 returned.
AppendNoEntry(n) ==
  LET copy == CopyOf(n)
  IN  /\ ~ AppendNoText(n)
      /\ EntryFor(copy).ptr = NULL
      /\ heap' = Kfree(copy.heap, copy.ptr)

\* log_drop_oldest on a list that is full.
Dropped(l) ==
  LET next == entry[l.head].next
  IN  [head |-> next, tail |-> IF next = NULL THEN NULL ELSE l.tail, count |-> l.count - 1]

\* The new entry becomes the tail.
Linked(l, a) == [head |-> IF l.head = NULL THEN a ELSE l.head, tail |-> a, count |-> l.count + 1]

AppendEntry(t, n) ==
  LET copy == CopyOf(n)
      node == EntryFor(copy)
      full == log[t].count >= LogMax
      rest == IF full THEN Dropped(log[t]) ELSE log[t]
      left == IF full THEN Without(entry, log[t].head) ELSE entry
      new  == With(left, node.ptr, [message |-> copy.ptr, next |-> NULL])
  IN  /\ ~ AppendNoText(n)
      /\ node.ptr # NULL
      /\ panicked' = (full /\ FreePanics(node.heap, log[t].head))
      /\ heap' = IF full THEN FreeEntry(node.heap, log[t].head) ELSE node.heap
      /\ entry' = IF rest.head = NULL THEN new ELSE [new EXCEPT ![rest.tail].next = node.ptr]
      /\ log' = [log EXCEPT ![t] = Linked(rest, node.ptr)]

LogAppend(t, n) ==
  /\ Runs
  /\ UNCHANGED clearing
  /\ \/ AppendNoText(n) /\ UNCHANGED <<heap, entry, log, panicked>>
     \/ AppendNoEntry(n) /\ UNCHANGED <<entry, log, panicked>>
     \/ AppendEntry(t, n)

-----------------------------------------------------------------------------
(* log_clear_task_id, from task_reap_dying or the shell: one entry a step.  *)
ClearStart(t) ==
  /\ Runs
  /\ clearing' = [task |-> t, at |-> log[t].head]
  /\ UNCHANGED <<heap, entry, log, panicked>>

ClearNext ==
  LET a == clearing.at
  IN  /\ ~ panicked
      /\ a # NULL
      /\ heap' = FreeEntry(heap, a)
      /\ panicked' = FreePanics(heap, a)
      /\ entry' = Without(entry, a)
      /\ clearing' = [clearing EXCEPT !.at = entry[a].next]
      /\ UNCHANGED log

ClearEnd ==
  /\ ~ panicked
  /\ clearing.task # NULL
  /\ clearing.at = NULL
  /\ log' = [log EXCEPT ![clearing.task] = NoLog]
  /\ clearing' = Nowhere
  /\ UNCHANGED <<heap, entry, panicked>>

LogNext ==
  \/ \E t \in Slots, n \in TextLengths : LogAppend(t, n)
  \/ \E t \in Slots : ClearStart(t)
  \/ ClearNext
  \/ ClearEnd

LogSpec == LogInit /\ [][LogNext]_logVars

-----------------------------------------------------------------------------
\* The blocks of the heap tile it without a gap or an overlap, the list runs
\* through them in both directions, and no two free blocks are neighbours,
\* whatever was allocated, split, freed and merged (kmalloc and kfree).
HeapWellFormed ==
  /\ HeapTypeOK(heap)
  /\ Chained(heap) /\ Disjoint(heap) /\ Coalesced(heap)

\* Where the list of slot t begins: at current while it is being cleared.
First(t) == IF clearing.task = t THEN clearing.at ELSE log[t].head

\* One more entry behind the first ones of the list that begins at a.
Longer(en, a, first) ==
  LET next == IF first = <<>> THEN a ELSE en[first[Len(first)]].next
  IN  IF next = NULL \/ next \notin DOMAIN en THEN first ELSE Append(first, next)

\* The list that begins at a; should it not end, LogMax + 1 entries of it.
ListFrom(en, a) ==
  LET list[k \in 0 .. LogMax + 1] == IF k = 0 THEN <<>> ELSE Longer(en, a, list[k - 1])
  IN  list[LogMax + 1]

List(t)     == ListFrom(entry, First(t))
Entries(t)  == {List(t)[i] : i \in DOMAIN List(t)}
Messages(t) == {entry[a].message : a \in Entries(t)} \ {NULL}

\* No leak, no dangling pointer and no double free: the allocated blocks are
\* exactly the entries and messages of the lists, no block is used twice, and
\* no kfree met a block that was already free.  Every block is aligned.
NothingLeaks ==
  /\ ~ panicked
  /\ Aligned(heap)
  /\ Allocated(heap) = UNION {Entries(t) \cup Messages(t) : t \in Slots}
  /\ \A t, u \in Slots : t # u => Entries(t) \cap Entries(u) = {}
  /\ \A a, b \in DOMAIN entry :
       /\ entry[a].message # b
       /\ a # b /\ entry[a].message # NULL => entry[a].message # entry[b].message
  /\ \A t \in Slots : clearing.task # t =>
       /\ Len(List(t)) = log[t].count
       /\ log[t].count > 0 => log[t].tail = List(t)[log[t].count]

\* A log is a bounded queue: an append that fails leaves the list and the whole
\* heap as they were (the copy's split is undone by the merge), one that
\* succeeds puts its entry last and costs at most the oldest entry, and the
\* lists of the other slots are never touched.
AppendIsQueue ==
  [][\A t \in Slots, n \in TextLengths : LogAppend(t, n) =>
       /\ \/ List(t)' = List(t) /\ heap' = heap
          \/ List(t)' = (IF Len(List(t)) = LogMax THEN Tail(List(t)) ELSE List(t))
                          \o <<log'[t].tail>>
       /\ \A u \in Slots \ {t} : List(u)' = List(u)]_logVars
=============================================================================
