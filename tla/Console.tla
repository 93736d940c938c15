------------------------------ MODULE Console ------------------------------
(***************************************************************************)
(* The serial console: the transmit side of the UART with its writers, the *)
(* receive side with the shell's line editor, and the trace, whose dump    *)
(* goes out there.  They share no variable, so one of them is chosen at    *)
(* the start, and the states of this module are the sum of theirs.         *)
(***************************************************************************)
EXTENDS Integers, FiniteSets

CONSTANTS
  MaxTasks, TxSlots, TxDepth, MaxBytes, TxPeriod, StrayWoken,        \* of UartTx
  Printable, FifoSize, RxSize, LineSize,                             \* of ShellLine
  TraceSize, TracePeriod, Dumpers                                    \* of Trace

\* The transmit ring holds a FIFO's worth of bytes for every task that may wait, 63
\* FIFOs and 31 tasks in the code; byte and record numbers wrap beyond the rings;
\* each ring keeps one slot empty and needs another one.
ASSUME ConsoleAssumption ==
  /\ MaxTasks \in Nat /\ MaxTasks >= 2
  /\ TxDepth \in Nat \ {0} /\ TxSlots \in Nat /\ TxSlots >= TxDepth * MaxTasks
  /\ TxPeriod \in Nat /\ TxPeriod > TxSlots
  /\ MaxBytes \in Nat
  /\ Printable \cap {"read", "yield", "run", "enter", "erase", "other"} = {}
  /\ FifoSize \in Nat /\ LineSize \in Nat
  /\ RxSize \in Nat /\ RxSize >= 2
  /\ TraceSize \in Nat /\ TraceSize >= 2
  /\ TracePeriod \in Nat /\ TracePeriod > TraceSize

VARIABLES
  part,                                                    \* what is looked at
  writer, at_tx, left, holder, waiters, ring, tx_fifo, txirq, queued,
  sent,                                                    \* of UartTx
  fifo, cells, rx_head, rx_tail, blocked, shell_at, line, shown,     \* of ShellLine
  buffer, head, tail, dump, made                                     \* of Trace

txVars    == <<writer, at_tx, left, holder, waiters, ring, tx_fifo, txirq, queued, sent>>
lineVars  == <<fifo, cells, rx_head, rx_tail, blocked, shell_at, line, shown>>
traceVars == <<buffer, head, tail, dump, made>>
vars      == <<part, txVars, lineVars, traceVars>>

Tx      == INSTANCE UartTx
           WITH Slots <- TxSlots, Depth <- TxDepth, Period <- TxPeriod,
                state <- writer, pc <- at_tx, fifo <- tx_fifo
Line    == INSTANCE ShellLine
           WITH BufferSize <- RxSize,
                head <- rx_head, tail <- rx_tail, at <- shell_at
Trace   == INSTANCE Trace WITH BufferSize <- TraceSize, Period <- TracePeriod

NoTx    == /\ writer = 0 /\ at_tx = 0 /\ left = 0 /\ holder = 0 /\ waiters = 0 /\ ring = 0
           /\ tx_fifo = 0 /\ txirq = 0 /\ queued = 0 /\ sent = 0
NoLine  == /\ fifo = 0 /\ cells = 0 /\ rx_head = 0 /\ rx_tail = 0
           /\ blocked = 0 /\ shell_at = 0 /\ line = 0 /\ shown = 0
NoTrace == buffer = 0 /\ head = 0 /\ tail = 0 /\ dump = 0 /\ made = 0

Init ==
  \/ part = "tx" /\ Tx!Init /\ NoLine /\ NoTrace
  \/ part = "line" /\ Line!Init /\ NoTx /\ NoTrace
  \/ part = "trace" /\ Trace!Init /\ NoTx /\ NoLine

\* A step of one part, the others being unused.
TxStep(A) ==
  /\ part = "tx" /\ A
  /\ UNCHANGED <<part, lineVars, traceVars>>
LineStep(A) ==
  /\ part = "line" /\ A
  /\ UNCHANGED <<part, txVars, traceVars>>
TraceStep(A) ==
  /\ part = "trace" /\ A
  /\ UNCHANGED <<part, txVars, lineVars>>

Next ==
  \/ TxStep(Tx!Next)
  \/ LineStep(Line!Next)
  \/ TraceStep(Trace!Next)

Spec == Init /\ [][Next]_vars

\* The fairness of UartTx, ShellLine and Trace.
FairSpec ==
  /\ Spec
  /\ WF_vars(TxStep(Tx!Transmit))
  /\ WF_vars(TxStep(Tx!TxIrq))
  /\ WF_vars(LineStep(Line!HandleIrq))
  /\ WF_vars(LineStep(Line!Shell))
  /\ \A d \in Dumpers : WF_vars(TraceStep(Trace!Dump(d)))

-----------------------------------------------------------------------------
\* No byte is lost, repeated or overtaken between a writer and the line, however
\* often the writer had to wait in the middle of its string (uart.c:177-281).
BytesInOrder == part = "tx" => Tx!BytesInOrder

\* A writer that waits for room is queued, a signal for it is to come, and it is
\* woken, unless others fill the ring again and again: the lowest id is signalled
\* first, and no fairness among writers is promised (uart.c:230-242, cond.c:72-105).
WaiterIsWoken ==
  /\ [](part = "tx" => Tx!EnoughSignals /\ Tx!WaiterIsQueued)
  /\ \A t \in Tx!Writers :
       LET waits == part = "tx" /\ Tx!WaitsForRoom(t)
       IN  \/ []<><<part = "tx" /\ \E u \in Tx!Writers \ {t} : Tx!WriteFull(u)>>_vars
           \/ waits ~> ~ waits

\* The line that Enter runs is the line that stands behind the prompt, after any
\* mix of typing, erasing an empty line and typing past its end (shell.c:762-790).
EchoIsLine == part = "line" => Line!EchoIsLine

\* The receive ring, with its wrapping indices, is a queue that drops only the
\* newest bytes, and only when it is full (uart.c:345-399, 565-577).
RingIsQueue ==
  /\ part = "line" => Line!Input!InputInit
  /\ [][part = "line" => [Line!Input!InputNext]_(Line!Input!inputVars)]_vars

\* A byte in the ring is read in the end, wherever its interrupt fell: before the
\* shell looked, or between its BLOCKED and its yield (uart.c:352-396).
InputIsRead ==
  \A i \in Line!Slots : LET waits == part = "line" /\ Line!WaitsIn(i) IN waits ~> ~ waits

\* Whatever is recorded, dumped by two tasks in turns and cleared, the records
\* that wait are the newest ones, without a gap and in their order (trace.c:21-82).
TraceKeepsNewest == [][part = "trace" => Trace!KeepsNewest]_vars

\* A dump ends although its own output, and every task switch it causes, makes new
\* records, and another dump takes records away from it (shell.c:523-530).
DumpIsFinite ==
  \A d \in Dumpers : LET dumps == part = "trace" /\ Trace!Dumping(d) IN dumps ~> ~ dumps
=============================================================================
