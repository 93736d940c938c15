----------------------------- MODULE ShellLine -----------------------------
(***************************************************************************)
(* Typing at the UART shell: the receive FIFO of the Mini UART, the        *)
(* interrupt handler that empties it into the receive ring                 *)
(* (src/rpi4/drivers/uart.c), and the shell task that reads the ring,      *)
(* edits its line and runs it (src/kernel/io/shell.c).                     *)
(*                                                                         *)
(* What the shell writes of its own is followed to the cells behind the    *)
(* prompt on the terminal.  Commands are steps that take their time; what  *)
(* they do is in the modules of the parts they command.                    *)
(***************************************************************************)
EXTENDS Integers, Sequences, FiniteSets

CONSTANTS
  Printable,   \* the characters from ' ' to '~'
  FifoSize,    \* bytes the FIFO holds, 8 in the Mini UART
  BufferSize,  \* UART_RX_BUFFER_SIZE, 128 in the code
  LineSize     \* SHELL_BUFFER_SIZE, 64 in the code

VARIABLES
  fifo,     \* bytes received and not read from AUX_MU_IO_REG
  cells,    \* uart_rx_buffer
  head,     \* uart_rx_head
  tail,     \* uart_rx_tail
  blocked,  \* state = BLOCKED of the shell task
  at,       \* where the shell task is, see below
  line,     \* buffer, up to len
  shown     \* the cells of the terminal from the prompt to the cursor

rx   == <<fifo, cells, head, tail>>
vars == <<rx, blocked, at, line, shown>>

\* The values of at:
\*   read     at the top of uart_read_char's loop
\*   yield    past the loop's last irq_enable, or switched away
\*   c        uart_read_char has returned the character c
\*   run      in shell_execute_command

Characters == Printable \cup {"enter", "erase", "other"}
Slots      == 0 .. BufferSize - 1

\* uart_init drains the FIFO; the shell has printed its prompt.
Init ==
  /\ fifo = <<>>
  /\ cells = [i \in Slots |-> "other"]
  /\ head = 0 /\ tail = 0
  /\ blocked = FALSE
  /\ at = "read"
  /\ line = <<>>
  /\ shown = <<>>

-----------------------------------------------------------------------------
\* A byte arrives; the FIFO loses what it has no room for.
Receive(c) ==
  /\ Len(fifo) < FifoSize
  /\ fifo' = Append(fifo, c)
  /\ UNCHANGED <<cells, head, tail, blocked, at, line, shown>>

\* The free slots of the ring: one stays empty.
Room == (tail - head - 1 + BufferSize) % BufferSize

\* Faulty variant: a full ring takes a byte in the slot it keeps empty.
StoredFull == IF Len(fifo) <= Room + 1 THEN Len(fifo) ELSE Room + 1

\* How many of the bytes in the FIFO the ring takes.
Stored == IF Len(fifo) <= Room THEN Len(fifo) ELSE Room

\* task_wakeup_irq_disabled of the shell, if a byte was stored.
WakeReader == blocked' = (blocked /\ Stored = 0)

\* The receive half of uart_handle_irq, with its loop.
HandleIrq ==
  /\ fifo # <<>>
  /\ cells' = [i \in Slots |-> LET n == (i - head + BufferSize) % BufferSize
                               IN  IF n < Stored THEN fifo[n + 1] ELSE cells[i]]
  /\ head' = (head + Stored) % BufferSize
  /\ fifo' = <<>>
  /\ WakeReader
  /\ UNCHANGED <<tail, at, line, shown>>

-----------------------------------------------------------------------------
\* uart_read_char, from irq_disable to irq_enable: a byte is there.
ReadByte ==
  /\ at = "read" /\ head # tail
  /\ at' = cells[tail]
  /\ tail' = (tail + 1) % BufferSize
  /\ UNCHANGED <<fifo, cells, head, blocked, line, shown>>

\* Faulty variant: the look at the ring is older than the critical section.
ReadBlocksUnlooked ==
  /\ at = "read"
  /\ blocked' = TRUE
  /\ at' = "yield"
  /\ UNCHANGED <<rx, line, shown>>

\* None is there.
ReadBlocks ==
  /\ at = "read" /\ head = tail
  /\ blocked' = TRUE
  /\ at' = "yield"
  /\ UNCHANGED <<rx, line, shown>>

\* scheduler_yield returns, as the task was woken before it or in it.
ReadGoesOn ==
  /\ at = "yield" /\ ~ blocked
  /\ at' = "read"
  /\ UNCHANGED <<rx, blocked, line, shown>>

Enter ==
  /\ at = "enter"
  /\ IF line # <<>>
       THEN at' = "run" /\ UNCHANGED <<line, shown>>
       ELSE at' = "read" /\ shown' = <<>> /\ UNCHANGED line
  /\ UNCHANGED <<rx, blocked>>

\* The command has returned, the next prompt is printed.
CommandEnds ==
  /\ at = "run"
  /\ line' = <<>> /\ shown' = <<>>
  /\ at' = "read"
  /\ UNCHANGED <<rx, blocked>>

Front(s) == SubSeq(s, 1, Len(s) - 1)

\* "\b \b" takes the last cell off the terminal.
Erase ==
  /\ at = "erase"
  /\ IF line # <<>>
       THEN line' = Front(line) /\ shown' = Front(shown)
       ELSE UNCHANGED <<line, shown>>
  /\ at' = "read"
  /\ UNCHANGED <<rx, blocked>>

\* Faulty variant: a character the line has no room for is echoed.
TypeEchoing(c) ==
  /\ at = c
  /\ line' = IF Len(line) < LineSize - 1 THEN Append(line, c) ELSE line
  /\ shown' = Append(shown, c)
  /\ at' = "read"
  /\ UNCHANGED <<rx, blocked>>

\* A printable character, echoed if the line has room for it.
Type(c) ==
  /\ at = c
  /\ IF Len(line) < LineSize - 1
       THEN line' = Append(line, c) /\ shown' = Append(shown, c)
       ELSE UNCHANGED <<line, shown>>
  /\ at' = "read"
  /\ UNCHANGED <<rx, blocked>>

Ignore ==
  /\ at = "other"
  /\ at' = "read"
  /\ UNCHANGED <<rx, blocked, line, shown>>

Shell ==
  \/ ReadByte \/ ReadBlocks \/ ReadGoesOn
  \/ Enter \/ CommandEnds \/ Erase \/ Ignore
  \/ \E c \in Printable : Type(c)

Next == (\E c \in Characters : Receive(c)) \/ HandleIrq \/ Shell

\* The interrupt stays raised while the FIFO holds a byte, and the scheduler runs
\* the shell whenever it is not BLOCKED (ReadyRuns of Sched).
FairSpec == Init /\ [][Next]_vars /\ WF_vars(HandleIrq) /\ WF_vars(Shell)

-----------------------------------------------------------------------------
\* The bytes in the ring, oldest first.
Unread == [n \in 1 .. (head - tail + BufferSize) % BufferSize |->
             cells[(tail + n - 1) % BufferSize]]

\* The abstract queue that the ring implements.
Input == INSTANCE AbstractInput
           WITH Capacity <- BufferSize - 1, LineDepth <- FifoSize,
                coming <- fifo, unread <- Unread

\* The line that Enter runs is the line the user sees behind the prompt, after
\* any mix of typing, erasing an empty line and typing past its end
\* (shell.c:762-790).
EchoIsLine == at \in {"read", "yield", "run"} => shown = line

\* The oldest unread byte is in slot i.
WaitsIn(i) == tail = i /\ head # i
=============================================================================
