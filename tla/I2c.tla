-------------------------------- MODULE I2c --------------------------------
(***************************************************************************)
(* The interrupt-driven I2C driver (src/rpi4/drivers/i2c.c) under the bus  *)
(* lock (i2c_bus.c), as the Sense HAT drivers use it: a task takes the     *)
(* lock, writes, or writes a register number and reads, once or more       *)
(* often, and gives the lock back.  There is one transfer record, shared   *)
(* by the task that waits and the interrupt handler.                       *)
(*                                                                         *)
(* The lock is the one AbstractLock describes and KernelMutex implements:  *)
(* a client that is stopped while it has it keeps it.  Only its holder     *)
(* touches the driver, so the scheduler is left out: a client is BLOCKED,  *)
(* free to go on, or gone.  The handler's branch for an interrupt without  *)
(* a busy transfer only stops the controller, which is idle then           *)
(* (RecordSound), and is left out.                                         *)
(***************************************************************************)
EXTENDS Integers

CONSTANTS
  Clients,          \* ids of the tasks that use I2C: joystick, LED, environment
  WokenEarly,       \* those that something else wakes whatever they are BLOCKED
                    \* on: joystick (handle_gpio_irq), LED (led_submit_frame)
  StoppableClients, \* those that task_request_stop may hit: environment
  MaxLen            \* bound on the bytes of a transfer

ASSUME I2cAssumption ==
  /\ Clients \subseteq Nat
  /\ WokenEarly \subseteq Clients /\ StoppableClients \subseteq Clients
  /\ MaxLen \in Nat \ {0}

\* No holder of the bus lock, and no task to wake.
Nobody == -1

VARIABLES
  bus,        \* holder of the bus lock, or Nobody
  phase,      \* where each client is, see Phases
  job,        \* "write": i2c_write; "write_read": i2c_write_read
  leg,        \* the transfer of the job under way: "write" or "read"
  blocked,    \* task_t.state = BLOCKED
  gone,       \* stopped: DYING, or reaped and its slot not taken again
  result,     \* what i2c_wait_for_transfer returned
  transfer,   \* i2c_transfer
  controller  \* the BSC controller: "idle" or "running"

clientVars == <<phase, job, leg, result>>
busVars == <<bus, clientVars, blocked, gone, transfer, controller>>

Phases == {
  "idle",     \* outside the driver
  "begin",    \* the bus lock is held, i2c_start_write or _read is next
  "started",  \* transfer started, i2c_wait_for_transfer is next
  "waiting",  \* BLOCKED set in i2c_wait_for_transfer
  "returned", \* i2c_wait_for_transfer returned
  "recover",  \* the transfer could not be started, i2c_recover is next
  "unlock"}   \* the job is over, the bus lock is still held

\* i2c_transfer_reset
NoTransfer ==
  [busy |-> FALSE, done |-> FALSE, error |-> 0, op |-> "none",
   waiting |-> Nobody, pos |-> 0, len |-> 0]

\* i2c_init
BusInit ==
  /\ bus = Nobody
  /\ phase = [t \in Clients |-> "idle"]
  /\ job = [t \in Clients |-> "write"]
  /\ leg = [t \in Clients |-> "write"]
  /\ blocked = [t \in Clients |-> FALSE]
  /\ gone = [t \in Clients |-> FALSE]
  /\ result = [t \in Clients |-> 0]
  /\ transfer = NoTransfer
  /\ controller = "idle"

Awake(t) == ~blocked[t] /\ ~gone[t]

-----------------------------------------------------------------------------
\* i2c_bus_lock, and the call of i2c_write or i2c_write_read.
Begin(t) ==
  /\ phase[t] = "idle" /\ Awake(t)
  /\ bus = Nobody
  /\ bus' = t
  /\ phase' = [phase EXCEPT ![t] = "begin"]
  /\ \E j \in {"write", "write_read"} : job' = [job EXCEPT ![t] = j]
  /\ leg' = [leg EXCEPT ![t] = "write"]
  /\ UNCHANGED <<blocked, result, transfer, controller, gone>>

\* i2c_start_write, which fills the FIFO as far as it goes, or i2c_start_read.
Start(t) ==
  /\ phase[t] = "begin"
  /\ ~transfer.busy
  /\ \E len \in 1 .. MaxLen, pos \in 0 .. MaxLen :
       /\ pos <= IF leg[t] = "write" THEN len ELSE 0
       /\ transfer' = [busy |-> TRUE, done |-> FALSE, error |-> 0,
                       op |-> leg[t], waiting |-> t, pos |-> pos, len |-> len]
  /\ controller' = "running"
  /\ phase' = [phase EXCEPT ![t] = "started"]
  /\ UNCHANGED <<bus, job, leg, result, blocked, gone>>

\* i2c_can_start_transfer refuses: a transfer is still busy.
StartRefused(t) ==
  /\ phase[t] = "begin"
  /\ transfer.busy
  /\ phase' = [phase EXCEPT ![t] = "recover"]
  /\ UNCHANGED <<bus, job, leg, result, blocked, transfer, controller, gone>>

\* i2c_wait_for_transfer, when the transfer is over by then.
WaitNot(t) ==
  /\ phase[t] = "started"
  /\ transfer.done
  /\ result' = [result EXCEPT ![t] = transfer.error]
  /\ phase' = [phase EXCEPT ![t] = "returned"]
  /\ UNCHANGED <<bus, job, leg, blocked, transfer, controller, gone>>

\* Faulty variant: done is not looked at again with IRQs disabled.
WaitUnchecked(t) ==
  /\ phase[t] = "started"
  /\ blocked' = [blocked EXCEPT ![t] = TRUE]
  /\ phase' = [phase EXCEPT ![t] = "waiting"]
  /\ UNCHANGED <<bus, job, leg, result, transfer, controller, gone>>

\* i2c_wait_for_transfer, up to its scheduler_yield, when it is not.
Wait(t) ==
  /\ phase[t] = "started"
  /\ ~transfer.done
  /\ blocked' = [blocked EXCEPT ![t] = TRUE]
  /\ phase' = [phase EXCEPT ![t] = "waiting"]
  /\ UNCHANGED <<bus, job, leg, result, transfer, controller, gone>>

\* scheduler_yield returns: whoever woke the task, the transfer is taken to be
\* over and its error field is the result.
Resume(t) ==
  /\ phase[t] = "waiting" /\ Awake(t)
  /\ result' = [result EXCEPT ![t] = transfer.error]
  /\ phase' = [phase EXCEPT ![t] = "returned"]
  /\ UNCHANGED <<bus, job, leg, blocked, transfer, controller, gone>>

\* Faulty variant: only the software state is reset.
RecoverSoftware(t) ==
  /\ \/ phase[t] = "recover"
     \/ phase[t] = "returned" /\ result[t] < 0
  /\ transfer' = NoTransfer
  /\ result' = [result EXCEPT ![t] = -1]
  /\ phase' = [phase EXCEPT ![t] = "unlock"]
  /\ UNCHANGED <<bus, job, leg, blocked, controller, gone>>

\* The failure path of i2c_write and i2c_read: i2c_recover, and -1.
Recover(t) ==
  /\ \/ phase[t] = "recover"
     \/ phase[t] = "returned" /\ result[t] < 0
  /\ transfer' = NoTransfer
  /\ controller' = "idle"
  /\ result' = [result EXCEPT ![t] = -1]
  /\ phase' = [phase EXCEPT ![t] = "unlock"]
  /\ UNCHANGED <<bus, job, leg, blocked, gone>>

\* The success path: i2c_write_read resets the controller, not the record, and
\* goes on to its read.
Succeed(t) ==
  /\ phase[t] = "returned" /\ result[t] >= 0
  /\ IF job[t] = "write_read" /\ leg[t] = "write"
       THEN /\ controller' = "idle"
            /\ leg' = [leg EXCEPT ![t] = "read"]
            /\ phase' = [phase EXCEPT ![t] = "begin"]
       ELSE /\ phase' = [phase EXCEPT ![t] = "unlock"]
            /\ UNCHANGED <<controller, leg>>
  /\ UNCHANGED <<bus, job, result, blocked, transfer, gone>>

\* env_task reads three values, and the sensors' initialization many registers,
\* under one lock.
NextJob(t) ==
  /\ phase[t] = "unlock" /\ Awake(t)
  /\ phase' = [phase EXCEPT ![t] = "begin"]
  /\ \E j \in {"write", "write_read"} : job' = [job EXCEPT ![t] = j]
  /\ leg' = [leg EXCEPT ![t] = "write"]
  /\ UNCHANGED <<bus, result, blocked, gone, transfer, controller>>

\* i2c_bus_unlock
BusUnlock(t) ==
  /\ phase[t] = "unlock" /\ Awake(t)
  /\ bus' = Nobody
  /\ phase' = [phase EXCEPT ![t] = "idle"]
  /\ UNCHANGED <<job, leg, result, blocked, transfer, controller, gone>>

\* Outside the driver a client waits for other things too.
BlockElsewhere(t) ==
  /\ phase[t] = "idle" /\ Awake(t)
  /\ blocked' = [blocked EXCEPT ![t] = TRUE]
  /\ UNCHANGED <<bus, clientVars, gone, transfer, controller>>

\* The wake-up it waits for there, or one that does not ask where it waits.
OtherWakeup(t) ==
  /\ blocked[t]
  /\ phase[t] = "idle" \/ t \in WokenEarly
  /\ blocked' = [blocked EXCEPT ![t] = FALSE]
  /\ UNCHANGED <<bus, clientVars, gone, transfer, controller>>

\* Where another task may run while t has the bus lock: in the wait for a transfer,
\* and in the uart_puts of i2c_write_read, which reports that a leg failed.
MayYield(t) ==
  \/ phase[t] \in {"idle", "waiting"}
  \/ phase[t] = "unlock" /\ job[t] = "write_read" /\ result[t] < 0

\* task_request_stop: the task is DYING and runs no more, whatever it has begun.
\* The bus lock, the record and the controller are not told.
Stop(t) ==
  /\ t \in StoppableClients /\ ~gone[t] /\ MayYield(t)
  /\ gone' = [gone EXCEPT ![t] = TRUE]
  /\ blocked' = [blocked EXCEPT ![t] = FALSE]
  /\ UNCHANGED <<bus, clientVars, transfer, controller>>

\* The task is reaped, and task_create gives its slot and its stack to a new one.
Reuse(t) ==
  /\ gone[t]
  /\ gone' = [gone EXCEPT ![t] = FALSE]
  /\ phase' = [phase EXCEPT ![t] = "idle"]
  /\ UNCHANGED <<bus, job, leg, result, blocked, transfer, controller>>

-----------------------------------------------------------------------------
\* i2c_finish_transfer(error), with pos bytes moved by the handler before.
Finish(error, pos) ==
  /\ transfer' = [transfer EXCEPT !.error = error, !.done = TRUE,
                                  !.busy = FALSE, !.op = "none", !.pos = pos]
  /\ controller' = "idle"
  /\ blocked' = [t \in Clients |-> blocked[t] /\ t # transfer.waiting]

IrqTaken == controller = "running" /\ transfer.busy

\* i2c_handle_irq while the transfer goes on: bytes move between the FIFO and
\* the caller's buffer.
IrqService ==
  /\ IrqTaken
  /\ \E pos \in transfer.pos + 1 .. transfer.len :
       transfer' = [transfer EXCEPT !.pos = pos]
  /\ UNCHANGED <<bus, clientVars, blocked, controller, gone>>

\* Faulty variant: what is left in the FIFO at the end is not read.
IrqDoneUndrained ==
  /\ IrqTaken
  /\ transfer.op = "write" => transfer.pos = transfer.len
  /\ Finish(0, transfer.pos)
  /\ UNCHANGED <<bus, clientVars, gone>>

\* i2c_handle_irq with DONE: the controller has sent every byte it was given, or
\* the rest of the bytes received is in the FIFO and is read.
IrqDone ==
  /\ IrqTaken
  /\ transfer.op = "write" => transfer.pos = transfer.len
  /\ Finish(0, transfer.len)
  /\ UNCHANGED <<bus, clientVars, gone>>

\* i2c_handle_irq with ERR or CLKT: i2c_reset_controller and the result -1.
IrqError ==
  /\ IrqTaken
  /\ Finish(-1, transfer.pos)
  /\ UNCHANGED <<bus, clientVars, gone>>

ClientStep(t) ==
  \/ Start(t) \/ StartRefused(t)
  \/ WaitNot(t) \/ Wait(t) \/ Resume(t)
  \/ Recover(t) \/ Succeed(t)

BusNext ==
  \/ \E t \in Clients :
       \/ Begin(t) \/ ClientStep(t) \/ NextJob(t) \/ BusUnlock(t)
       \/ BlockElsewhere(t) \/ OtherWakeup(t)
       \/ Stop(t) \/ Reuse(t)
  \/ IrqService
  \/ IrqDone
  \/ IrqError

BusSpec == BusInit /\ [][BusNext]_busVars

\* A client in the driver gets the CPU while it is not BLOCKED and not stopped, and
\* has only so many jobs to do under one lock; the controller ends every transfer
\* it is left to run, with DONE or with an error.
BusFairness ==
  /\ WF_busVars(\E t \in Clients : ClientStep(t))
  /\ SF_busVars(\E t \in Clients : BusUnlock(t))
  /\ WF_busVars(IrqService)
  /\ WF_busVars(IrqDone \/ IrqError)

FairBusSpec == BusSpec /\ BusFairness

-----------------------------------------------------------------------------
\* Every variable stays in its range.
BusTypeOK ==
  /\ bus \in Clients \cup {Nobody}
  /\ phase \in [Clients -> Phases]
  /\ job \in [Clients -> {"write", "write_read"}]
  /\ leg \in [Clients -> {"write", "read"}]
  /\ blocked \in [Clients -> BOOLEAN]
  /\ gone \in [Clients -> BOOLEAN]
  /\ result \in [Clients -> {0, -1}]
  /\ transfer \in [busy : BOOLEAN, done : BOOLEAN, error : {0, -1},
                   op : {"none", "write", "read"},
                   waiting : Clients \cup {Nobody},
                   pos : 0 .. MaxLen, len : 0 .. MaxLen]
  /\ controller \in {"idle", "running"}

\* t is in the driver, with the bus lock.
Inside(t) == phase[t] # "idle" /\ ~gone[t]

\* The bus lock is held, but not by anybody in the driver: its holder was stopped.
BusLost == bus # Nobody /\ ~ Inside(bus)

\* The handler reads and writes the buffer of a caller that is still there, unless
\* the caller was woken early or was stopped with the bus lock: the buffers are
\* locals of the drivers' functions (led_matrix.c, i2c.c:504-512).
BufferAlive ==
  transfer.busy =>
    /\ transfer.waiting \in Clients
    /\ \/ phase[transfer.waiting] \in {"started", "waiting"} /\ ~gone[transfer.waiting]
       \/ transfer.waiting \in WokenEarly
       \/ BusLost /\ bus = transfer.waiting

\* A task that waits for a transfer is woken: the transfer it started is running
\* and is charged to it.  Else the completion came between the task's last look
\* and its BLOCKED and nothing ends the wait (i2c.c:347-371).
WaiterIsServed ==
  \A t \in Clients :
    phase[t] = "waiting" /\ blocked[t] =>
      transfer.busy /\ controller = "running" /\ transfer.waiting = t

\* The controller runs no transfer that the driver has forgotten.
NoneForgotten == controller = "running" => transfer.busy

\* The holder of the bus lock is refused a start only after a client that was woken
\* early left its transfer busy.
RefusedAfterStray ==
  \A t \in Clients : phase[t] = "begin" /\ transfer.busy => transfer.waiting \in WokenEarly

\* The record is true to the controller, to the caller's buffer and to the task
\* that waits: the controller runs no transfer the driver has forgotten (a later
\* one would find its bytes and its interrupts, i2c.c:533-538); the buffer belongs
\* to a caller in the driver, except in the two cases named above, of which the
\* second lets nobody start a transfer again; a wait has a transfer that ends it;
\* and the holder of the bus lock is refused a start only after a client that was
\* woken early left its transfer busy (i2c.c:269-272).
RecordSound ==
  /\ BusTypeOK
  /\ NoneForgotten /\ BufferAlive /\ WaiterIsServed /\ RefusedAfterStray

\* What i2c_wait_for_transfer owes client t.
Served(t) ==
  phase[t] = "returned" =>
    /\ transfer.done /\ ~transfer.busy
    /\ result[t] = transfer.error
    /\ result[t] = 0 => transfer.pos = transfer.len

\* To a client that only its transfer wakes, i2c_wait_for_transfer returns when
\* the transfer is over, and its result says how: 0 means that every byte has
\* moved.  What a client that is woken early leaves behind does not reach it.
ResultHonest == \A t \in Clients \ WokenEarly : Served(t)

\* Every client blocks until its transfer is over.  i2c.c:332, "Block the current
\* task until the active transfer completes."
WaitIsComplete == \A t \in Clients : Served(t)

\* Whoever takes the bus lock gives it back, whatever the controller answers and
\* whoever wakes the client, unless it is stopped with the lock.
JobEnds == \A t \in Clients : bus = t ~> bus # t \/ BusLost

\* Whoever takes the bus lock gives it back.  docs/report/core_components.tex:41,
\* "Every driver-level access to a Sense HAT device must acquire the bus lock before
\* starting communication and release it afterwards."
BusComesBack == \A t \in Clients : bus = t ~> bus # t
=============================================================================
