------------------------------ MODULE Joystick ------------------------------
(***************************************************************************)
(* The joystick task (src/kernel/tasks/joystick_task.c), the driver it     *)
(* polls the Sense HAT with (src/sensehat/joystick.c) and the GPIO         *)
(* interrupt that tells it to (handle_gpio_irq, src/kernel/irq.c).         *)
(*                                                                         *)
(* The handler wakes the task wherever it is BLOCKED, also in the two I2C  *)
(* transfers of joystick_service_change, which then return early (module   *)
(* I2c).  Cut short in the first, the service fails; cut short in the      *)
(* second, it goes on with what its local holds, and leaves the transfer   *)
(* behind, busy, so that the next one to start is refused.                 *)
(***************************************************************************)
EXTENDS Integers, Sequences

CONSTANTS
  Directions,  \* direction keys; the center key is the one called "center"
  QueueSlots,  \* JOY_EVENT_QUEUE_SIZE - 1, 15 in the code
  BusErrors    \* whether an I2C read may fail by itself

Keys == Directions \cup {"center"}

VARIABLES
  keys,     \* the key register of the Sense HAT: the set of keys held down
  edge,     \* GPIO23 has an edge that was not handled yet
  pending,  \* joystick_irq_pending
  prev,     \* joystick_prev_state
  queue,    \* joystick_event_queue
  blocked,  \* state = BLOCKED of the task
  busy,     \* i2c_transfer.busy, for a transfer of this task
  answer,   \* {what the I2C read under way has brought}, {} before
  failed,   \* the last joystick_service_change reported a failed read
  pc        \* where the task is, see below

i2cVars == <<busy, answer, failed>>
vars == <<keys, edge, pending, prev, queue, blocked, i2cVars, pc>>

\* The values of pc:
\*   loop      top of the loop in joystick_task
\*   read      joystick_service_change, before its transfer
\*   reading   in the transfer
\*   events    the loop that hands out events
\*   check     before the irq_disable that precedes blocking
\*   block     past the checks, before BLOCKED is set
\*   wait      BLOCKED set, scheduler_yield called

\* joystick_init has read the keys; the task enters its loop.
Init ==
  /\ keys \in SUBSET Keys
  /\ prev = keys
  /\ edge = FALSE
  /\ pending = FALSE
  /\ queue = <<>>
  /\ blocked = FALSE
  /\ busy = FALSE
  /\ answer = {}
  /\ failed = FALSE
  /\ pc = "loop"

\* joystick_decode_event: at most one event of a transition, the center key
\* first, direction keys when they go down.
Decode(old, new) ==
  IF "center" \in new \ old THEN {"center press"}
  ELSE IF "center" \in old \ new THEN {"center release"}
  ELSE IF new \ old = {} THEN {}
  ELSE {CHOOSE k \in new \ old : TRUE}

\* joystick_enqueue_event: a full queue drops the event.
Enqueued(q, events) ==
  IF events = {} \/ Len(q) = QueueSlots THEN q
  ELSE Append(q, CHOOSE e \in events : TRUE)

-----------------------------------------------------------------------------
\* A key goes down or up; the Sense HAT signals it on GPIO23.
Press(k) ==
  /\ keys' = IF k \in keys THEN keys \ {k} ELSE keys \cup {k}
  /\ edge' = TRUE
  /\ UNCHANGED <<pending, prev, queue, blocked, i2cVars, pc>>

\* handle_gpio_irq
GpioIrq ==
  /\ edge
  /\ edge' = FALSE
  /\ pending' = TRUE
  /\ blocked' = FALSE
  /\ UNCHANGED <<keys, prev, queue, i2cVars, pc>>

\* joystick_consume_irq at the top of the loop.
Consume ==
  /\ pc = "loop"
  /\ pc' = IF pending THEN "read" ELSE "events"
  /\ pending' = FALSE
  /\ UNCHANGED <<keys, edge, prev, queue, blocked, i2cVars>>

\* joystick_service_change: the transfer is started and waited for.
ReadStart ==
  /\ pc = "read" /\ ~busy
  /\ pc' = "reading"
  /\ busy' = TRUE
  /\ blocked' = TRUE
  /\ answer' = {}
  /\ UNCHANGED <<keys, edge, pending, prev, queue, failed>>

\* An earlier transfer is still busy: i2c_recover, and the service ends.
ReadRefused ==
  /\ pc = "read" /\ busy
  /\ pc' = "loop"
  /\ busy' = FALSE
  /\ failed' = TRUE
  /\ UNCHANGED <<keys, edge, pending, prev, queue, blocked, answer>>

\* The I2C interrupt completes the transfer with the keys as they are now.  Of
\* one left behind, nobody takes the answer, but its task is woken all the same.
ReadDone ==
  /\ busy
  /\ busy' = FALSE
  /\ answer' = IF pc = "reading" THEN {keys} ELSE {}
  /\ blocked' = FALSE
  /\ UNCHANGED <<keys, edge, pending, prev, queue, failed, pc>>

\* Another task takes the bus, is refused and recovers the driver.
OtherRecovers ==
  /\ busy /\ pc # "reading"
  /\ busy' = FALSE
  /\ UNCHANGED <<keys, edge, pending, prev, queue, blocked, answer, failed, pc>>

\* Faulty variant: the flag is cleared once the change is read.
ReadReturnsClearing(state) ==
  /\ pc = "reading" /\ ~blocked
  /\ answer = {} \/ state \in answer
  /\ prev' = state
  /\ queue' = Enqueued(queue, Decode(prev, state))
  /\ answer' = {}
  /\ failed' = FALSE
  /\ pending' = FALSE
  /\ pc' = "loop"
  /\ UNCHANGED <<keys, edge, blocked, busy>>

\* The read returns 0: the state read, or the uninitialized local of a transfer
\* that was cut short, is decoded, kept and reported.
ReadReturns(state) ==
  /\ pc = "reading" /\ ~blocked
  /\ answer = {} \/ state \in answer
  /\ prev' = state
  /\ queue' = Enqueued(queue, Decode(prev, state))
  /\ answer' = {}
  /\ failed' = FALSE
  /\ pc' = "loop"
  /\ UNCHANGED <<keys, edge, pending, blocked, busy>>

\* It returns -1, on an I2C error or because its first transfer was cut short:
\* i2c_recover, and the service ends.
ReadFails ==
  /\ pc = "reading" /\ ~blocked
  /\ answer = {} \/ BusErrors
  /\ answer' = {}
  /\ busy' = FALSE
  /\ failed' = TRUE
  /\ pc' = "loop"
  /\ UNCHANGED <<keys, edge, pending, prev, queue, blocked>>

\* joystick_read_event, and the handler or the menu gets the event.
HandOut ==
  /\ pc = "events"
  /\ queue # <<>>
  /\ queue' = Tail(queue)
  /\ UNCHANGED <<keys, edge, pending, prev, blocked, i2cVars, pc>>

EventsDone ==
  /\ pc = "events"
  /\ queue = <<>>
  /\ pc' = "check"
  /\ UNCHANGED <<keys, edge, pending, prev, queue, blocked, i2cVars>>

\* From irq_disable to the irq_enable in joystick_consume_irq, which ends the
\* critical section of the caller too.
Check ==
  /\ pc = "check"
  /\ IF queue # <<>>
       THEN pc' = "loop" /\ UNCHANGED pending
       ELSE pc' = (IF pending THEN "read" ELSE "block") /\ pending' = FALSE
  /\ UNCHANGED <<keys, edge, prev, queue, blocked, i2cVars>>

\* task->state = BLOCKED, with IRQs enabled since Check.
Block ==
  /\ pc = "block"
  /\ blocked' = TRUE
  /\ pc' = "wait"
  /\ UNCHANGED <<keys, edge, pending, prev, queue, i2cVars>>

\* scheduler_yield returns.
Continue ==
  /\ pc = "wait" /\ ~blocked
  /\ pc' = "loop"
  /\ UNCHANGED <<keys, edge, pending, prev, queue, blocked, i2cVars>>

TaskStep ==
  \/ Consume \/ ReadStart \/ ReadRefused \/ ReadFails \/ HandOut \/ EventsDone
  \/ Check \/ Block \/ Continue
  \/ \E state \in SUBSET Keys : ReadReturns(state)

Next ==
  \/ \E k \in Keys : Press(k)
  \/ GpioIrq
  \/ ReadDone
  \/ OtherRecovers
  \/ TaskStep

Spec == Init /\ [][Next]_vars

-----------------------------------------------------------------------------
\* A key change the driver has not seen is signalled, or about to be read, unless
\* the read that was to see it reported an error.  The flag is cleared before the
\* read, so that a change during the read sets it again, and a GPIO interrupt
\* that cuts the read short leaves the flag for another one (joystick.c:67-77,
\* joystick_task.c:81-84); when that one is refused, an error is reported.
ChangeNotForgotten ==
  keys # prev => \/ edge \/ pending
                 \/ pc = "read"
                 \/ pc = "reading" /\ (blocked \/ answer = {keys})
                 \/ failed
=============================================================================
