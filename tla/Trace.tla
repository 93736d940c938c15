------------------------------- MODULE Trace -------------------------------
(***************************************************************************)
(* The trace of the kernel (src/kernel/debug/trace.c): a ring in which the *)
(* newest records overwrite the oldest, filled by the scheduler and read   *)
(* by the dump (shell_cmd_trace_dump, src/kernel/io/shell.c), which the    *)
(* shell and the joystick menu may run at the same time.  A dump prints    *)
(* between two reads; the tasks that run meanwhile record, dump and clear. *)
(***************************************************************************)
EXTENDS Integers, Sequences

CONSTANTS
  BufferSize,  \* TRACE_BUFFER_SIZE, 128 in the code
  Period,      \* record numbers wrap here: bound, beyond the ring
  Dumpers      \* the tasks that run shell_cmd_trace_dump

VARIABLES
  buffer,   \* trace_buffer; a record stands for its fields
  head,     \* trace_head
  tail,     \* trace_tail
  dump,     \* of each dumper, the reads its loop has left, or Idle
  made      \* the number of the next record

vars == <<buffer, head, tail, dump, made>>

Slots == 0 .. BufferSize - 1
Idle  == -1

Init ==
  /\ buffer = [i \in Slots |-> 0]
  /\ head = 0 /\ tail = 0
  /\ dump = [d \in Dumpers |-> Idle]
  /\ made = 0

Following(i) == (i + 1) % BufferSize

\* Faulty variant: a full ring is noticed when it has run over.
OldestAfterLate(h, t) == IF h = t /\ made # 0 THEN Following(t) ELSE t

\* The tail, once a full ring has given up its oldest record.
OldestAfter(h, t) == IF Following(h) = t THEN Following(t) ELSE t

\* trace_record_irq_disabled
Record ==
  /\ tail' = OldestAfter(head, tail)
  /\ buffer' = [buffer EXCEPT ![head] = made]
  /\ head' = Following(head)
  /\ made' = (made + 1) % Period
  /\ UNCHANGED dump

\* trace_count
Count == IF head >= tail THEN head - tail ELSE BufferSize - tail + head

\* shell_cmd_trace_dump, to its loop.
DumpStarts(d) ==
  /\ dump[d] = Idle
  /\ dump' = [dump EXCEPT ![d] = Count]
  /\ UNCHANGED <<buffer, head, tail, made>>

\* Faulty variant: the loop goes on while there are records.
LeftAfterAll(n) == n

LeftAfter(n) == n - 1

\* One turn: trace_pop, and the record is printed.
DumpPops(d) ==
  /\ dump[d] > 0 /\ head # tail
  /\ tail' = Following(tail)
  /\ dump' = [dump EXCEPT ![d] = LeftAfter(@)]
  /\ UNCHANGED <<buffer, head, made>>

\* The loop has run out, or another task has emptied the ring.
DumpEnds(d) ==
  /\ dump[d] = 0 \/ (dump[d] > 0 /\ head = tail)
  /\ dump' = [dump EXCEPT ![d] = Idle]
  /\ UNCHANGED <<buffer, head, tail, made>>

\* trace_clear, of the command "trace clear".
Clear ==
  /\ head' = 0 /\ tail' = 0
  /\ UNCHANGED <<buffer, dump, made>>

Dump(d) == DumpPops(d) \/ DumpEnds(d)

Next == Record \/ Clear \/ \E d \in Dumpers : DumpStarts(d) \/ Dump(d)

\* A task that prints is run again (ReadyRuns of Sched, WaiterIsWoken of UartTx).
FairSpec == Init /\ [][Next]_vars /\ \A d \in Dumpers : WF_vars(Dump(d))

-----------------------------------------------------------------------------
\* The records that wait for a dump, oldest first.
Waiting == [n \in 1 .. Count |-> buffer[(tail + n - 1) % BufferSize]]

\* A full ring gives up its oldest record, and no other, for a new one.
Kept == IF Count = BufferSize - 1 THEN Tail(Waiting) ELSE Waiting

\* Whatever is recorded, dumped by two tasks in turns and cleared, the records
\* that wait are the newest ones, without a gap and in their order, so that each
\* is printed at most once and after the older ones (trace.c:21-82).
KeepsNewest ==
  IF made' # made
    THEN Waiting' = Append(Kept, made)
    ELSE Waiting' \in {Waiting, <<>>} \/ (Waiting # <<>> /\ Waiting' = Tail(Waiting))

Dumping(d) == dump[d] # Idle
=============================================================================
