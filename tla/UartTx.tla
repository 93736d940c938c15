------------------------------- MODULE UartTx -------------------------------
(***************************************************************************)
(* Console output of src/rpi4/drivers/uart.c once the scheduler runs:      *)
(* tasks write strings under uart_tx_mutex into the transmit ring; the     *)
(* ring drains into the FIFO of the Mini UART, from the writer and from    *)
(* the interrupt handler; a writer that finds the ring full waits on       *)
(* uart_tx_not_full (src/kernel/sync/cond.c), which gives up the mutex.    *)
(*                                                                         *)
(* The mutex is the one AbstractLock describes and KernelMutex implements. *)
(* Output before the scheduler runs polls the FIFO and is left out.  A     *)
(* drain is quick against the line: no byte leaves the FIFO during it.     *)
(***************************************************************************)
EXTENDS WaitQueue, Sequences, FiniteSets

CONSTANTS
  Slots,      \* UART_TX_BUFFER_SIZE - 1, 511 in the code
  Depth,      \* bytes the FIFO holds, 8 in the Mini UART
  MaxBytes,   \* bound on the bytes of a string
  Period,     \* byte numbers wrap here: bound, beyond the ring
  StrayWoken  \* tasks woken whatever they are BLOCKED on (KernelMutex)

\* Slots >= Depth * MaxTasks: the ring holds a FIFO's worth of bytes for every task
\* that may wait, 63 FIFOs and 31 tasks in the code.

Writers == Tasks \ {Idle}

VARIABLES
  state,    \* task_t.state, of a writer: BLOCKED, or READY to go on
  pc,       \* where each writer is, see below
  left,     \* the bytes of its string still to be queued
  holder,   \* who holds uart_tx_mutex, or NoTask
  waiters,  \* uart_tx_not_full.waiters
  ring,     \* uart_tx_buffer from tail to head
  fifo,     \* bytes in the hardware FIFO
  txirq,    \* AUX_MU_IER_TX_ENABLE
  queued,   \* the number of each writer's next byte
  sent      \* the number of each writer's next byte to enter the FIFO

numbers == <<queued, sent>>
vars == <<state, pc, left, holder, waiters, ring, fifo, txirq, numbers>>

\* The values of pc:
\*   idle      outside uart.c
\*   lock      in mutex_lock, of uart_lock_tx or of cond_wait
\*   write     holding the mutex
\*   waiting   in cond_wait_irq_disabled

\* uart_init and uart_init_tx_lock
Init ==
  /\ state = [t \in Tasks |-> "READY"]
  /\ pc = [t \in Writers |-> "idle"]
  /\ left = [t \in Writers |-> 0]
  /\ holder = NoTask
  /\ waiters = {}
  /\ ring = <<>>
  /\ fifo = 0
  /\ txirq = FALSE
  /\ queued = [t \in Writers |-> 0]
  /\ sent = [t \in Writers |-> 0]

At(t, place) == pc[t] = place /\ state[t] = "READY"

Full == Len(ring) = Slots

\* The next byte of writer t, numbered modulo Period.
Byte(t) == [from |-> t, nr |-> queued[t]]

-----------------------------------------------------------------------------
\* The bytes a drain moves from ring r: uart_can_write is asked before each.
Moved(r) == IF Len(r) < Depth - fifo THEN Len(r) ELSE Depth - fifo

\* The places of writer t's bytes among the first n of r.
Places(r, t, n) == {i \in 1 .. n : r[i].from = t}

\* The drain's effect on the count of what was sent.
SentAfter(r) ==
  [t \in Writers |-> (sent[t] + Cardinality(Places(r, t, Moved(r)))) % Period]

\* Faulty variant: the condition is signalled once the ring is empty.
DrainSignalsEmpty(r) ==
  /\ ring' = SubSeq(r, Moved(r) + 1, Len(r))
  /\ fifo' = fifo + Moved(r)
  /\ sent' = SentAfter(r)
  /\ txirq' = (Moved(r) < Len(r))
  /\ IF Moved(r) = Len(r)
       THEN /\ waiters' = QueueAfterWake(waiters, state)
            /\ state' = StateAfterWake(waiters, state)
       ELSE UNCHANGED <<waiters, state>>

\* uart_tx_drain on ring r: one signal, however many bytes have moved; the TX
\* interrupt stays enabled as long as bytes are left.
Drain(r) ==
  /\ ring' = SubSeq(r, Moved(r) + 1, Len(r))
  /\ fifo' = fifo + Moved(r)
  /\ sent' = SentAfter(r)
  /\ txirq' = (Moved(r) < Len(r))
  /\ IF Moved(r) > 0
       THEN /\ waiters' = QueueAfterWake(waiters, state)
            /\ state' = StateAfterWake(waiters, state)
       ELSE UNCHANGED <<waiters, state>>

-----------------------------------------------------------------------------
\* uart_puts of a string of n bytes, or uart_putc.
Puts(t, n) ==
  /\ At(t, "idle")
  /\ left' = [left EXCEPT ![t] = n]
  /\ pc' = [pc EXCEPT ![t] = "lock"]
  /\ UNCHANGED <<state, holder, waiters, ring, fifo, txirq, numbers>>

\* mutex_lock returns: in uart_lock_tx, or at the end of cond_wait.
Lock(t) ==
  /\ At(t, "lock")
  /\ holder = NoTask
  /\ holder' = t
  /\ pc' = [pc EXCEPT ![t] = "write"]
  /\ UNCHANGED <<state, left, waiters, ring, fifo, txirq, numbers>>

\* uart_write_byte, when the ring has room: push, and drain at once.
WriteByte(t) ==
  /\ At(t, "write")
  /\ left[t] > 0 /\ ~Full
  /\ Drain(Append(ring, Byte(t)))
  /\ left' = [left EXCEPT ![t] = @ - 1]
  /\ queued' = [queued EXCEPT ![t] = (@ + 1) % Period]
  /\ UNCHANGED <<pc, holder>>

\* Faulty variant: what does not fit is dropped, as it is on the receive side.
WriteFullDropping(t) ==
  /\ At(t, "write")
  /\ left[t] > 0 /\ Full
  /\ txirq' = TRUE
  /\ left' = [left EXCEPT ![t] = @ - 1]
  /\ queued' = [queued EXCEPT ![t] = (@ + 1) % Period]
  /\ UNCHANGED <<pc, state, holder, waiters, ring, fifo, sent>>

\* uart_write_byte, when it has not: the writer queues on uart_tx_not_full and
\* gives up the mutex, in one critical section.
WriteFull(t) ==
  /\ At(t, "write")
  /\ left[t] > 0 /\ Full
  /\ txirq' = TRUE
  /\ waiters' = waiters \cup {t}
  /\ state' = [state EXCEPT ![t] = "BLOCKED"]
  /\ holder' = NoTask
  /\ pc' = [pc EXCEPT ![t] = "waiting"]
  /\ UNCHANGED <<left, ring, fifo, numbers>>

\* scheduler_yield in cond_wait_irq_disabled returns: the mutex again, then the
\* byte again.
Woken(t) ==
  /\ At(t, "waiting")
  /\ pc' = [pc EXCEPT ![t] = "lock"]
  /\ UNCHANGED <<state, left, holder, waiters, ring, fifo, txirq, numbers>>

\* The string is queued: uart_unlock_tx.
Unlock(t) ==
  /\ At(t, "write")
  /\ left[t] = 0
  /\ holder' = NoTask
  /\ pc' = [pc EXCEPT ![t] = "idle"]
  /\ UNCHANGED <<state, left, waiters, ring, fifo, txirq, numbers>>

\* A writer blocks on something else: the mutex, or outside uart.c.
BlockElsewhere(t) ==
  /\ At(t, "idle") \/ At(t, "lock")
  /\ state' = [state EXCEPT ![t] = "BLOCKED"]
  /\ UNCHANGED <<pc, left, holder, waiters, ring, fifo, txirq, numbers>>

\* It is woken from there, or by a handler that does not ask what it waits for.
OtherWakeup(t) ==
  /\ pc[t] \in {"idle", "lock"} \/ t \in StrayWoken
  /\ state[t] = "BLOCKED"
  /\ state' = Wakeup(state, t)
  /\ UNCHANGED <<pc, left, holder, waiters, ring, fifo, txirq, numbers>>

\* uart_handle_irq, its transmit half: it runs for a received byte too, when the
\* FIFO may be full.
TxIrq ==
  /\ txirq
  /\ Drain(ring)
  /\ UNCHANGED <<pc, left, holder, queued>>

\* A byte leaves the FIFO on the line.
Transmit ==
  /\ fifo > 0
  /\ fifo' = fifo - 1
  /\ UNCHANGED <<state, pc, left, holder, waiters, ring, txirq, numbers>>

Next ==
  \/ \E t \in Writers :
       \/ \E n \in 1 .. MaxBytes : Puts(t, n)
       \/ Lock(t) \/ WriteByte(t) \/ WriteFull(t) \/ Woken(t) \/ Unlock(t)
       \/ BlockElsewhere(t) \/ OtherWakeup(t)
  \/ TxIrq
  \/ Transmit

Spec == Init /\ [][Next]_vars

\* The line goes on by itself, and the interrupt of an emptied FIFO is taken:
\* every critical section of the kernel is short.  No task is assumed to run.
Fairness == WF_vars(Transmit) /\ WF_vars(TxIrq)

FairSpec == Spec /\ Fairness

-----------------------------------------------------------------------------
WaitsForRoom(t) == pc[t] = "waiting" /\ state[t] = "BLOCKED"

\* No byte is lost, repeated or overtaken between a writer and the line, however
\* often the writer had to wait in the middle of its string: each byte in the ring
\* has the number that follows what its writer has sent and what is ahead of it
\* there (uart.c:177-243, 262-281).
BytesInOrder ==
  /\ Len(ring) <= Slots
  /\ \A i \in 1 .. Len(ring) :
       LET t == ring[i].from
       IN  ring[i].nr = (sent[t] + Cardinality(Places(ring, t, i - 1))) % Period
  /\ \A t \in Writers :
       queued[t] = (sent[t] + Cardinality(Places(ring, t, Len(ring)))) % Period

\* Every task queued on uart_tx_not_full still has a signal to come, although a
\* drain gives one signal for up to Depth bytes: what is left in the ring takes a
\* drain for each, and the interrupt that drains it is enabled (uart.c:230-242).
EnoughSignals ==
  waiters # {} => txirq /\ Len(ring) >= Depth * Cardinality(waiters)

\* A writer BLOCKED on the condition is in its queue: none waits for a signal
\* that went to somebody else (cond.c:96-99, wait_queue.c:47-73).
WaiterIsQueued ==
  \A t \in Writers : WaitsForRoom(t) => t \in waiters
=============================================================================
