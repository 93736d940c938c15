# raspi-os in TLA+

A verification project for raspi-os, a bare-metal kernel for the Raspberry Pi 4
with the Sense HAT: one core, cooperative tasks, interrupts, a heap, drivers for
UART, I2C, joystick, LED matrix and HDMI, a shell, a joystick menu and a few
applications.  The modules model the code under `src/`; TLC checks them on small
instances; the modules whose names end in `Proofs` hold theorems that TLAPS
checks for every value of the constants.  Paths below are relative to `src/src/`
of the repository.

Run a module with `tlc -config X.cfg M`, check a proof with `tlapm M.tla`.
`PROJECT.json` lists the runs, the source lines of each definition, a faulty
variant of the code for every property (the operators marked "Faulty variant", or
named after what they get wrong), the hazards, the findings and the theorems.

## 1. The system

Tasks run on one core.  A task keeps the CPU until it calls `scheduler_yield`,
by itself, in `task_sleep`, in a wait for a mutex, a condition, an I2C transfer
or a full transmit ring, or in `task_exit`.  Interrupts cut in wherever IRQs are
enabled: the timer (100 Hz), the UART, I2C and GPIO 23, the joystick's line.
A handler never switches tasks; it changes flags and makes tasks READY.

| Part | Source | State | Operations | Calls, and is called by |
|---|---|---|---|---|
| scheduler, tasks | `kernel/sched/*.c`, `kernel/timer.c`, `arch/irq_init.S`, `kernel/main.c` | task table, current task, tick, IRQ mask | create, stop, exit, reap, yield, block, sleep, wake, tick | everything |
| synchronization | `kernel/sync/*.c` | a bit set of waiters; locked, owner | lock, unlock, wait, signal | I2C bus, UART |
| I2C | `rpi4/drivers/i2c.c`, `i2c_bus.c` | one transfer record, bus mutex | write, read, write_read, interrupt, recovery | joystick, LED task, sensors |
| joystick | `sensehat/joystick.c`, `kernel/tasks/joystick_task.c` | pending flag, last keys, event ring, handler | signal, service, hand out | GPIO interrupt; menu, game |
| UART | `rpi4/drivers/uart.c` | two rings, mutex, condition | write a string, drain, receive, read, interrupt | console, shell |
| heap | `kernel/memory/heap.c` | doubly linked blocks | kmalloc, kfree | logs |
| logs | `kernel/memory/log.c` | a list per slot | append, drop, dump, clear | all tasks; reaping |
| LED sharing | `kernel/tasks/led_task.c` | owner, one frame slot | acquire, submit, release, render | applications, shell |
| HDMI panes | `rpi4/hdmi/hdmi.c` | two panes: cells, cursor, dirty cells, owner | put, clear, present, acquire, release | console, applications, menu |
| HDMI console | `kernel/io/hdmi_console.c` | character ring | enqueue, render, clear | console; HDMI panes |
| shell, menu | `kernel/io/shell.c`, `joy_menu.c` | line; menu level | start, stop, views | every part |
| applications | `kernel/tasks/*_task.c` | registered ids, their data | acquire, draw, leave, cleanup | displays, sensors |
| environment | `kernel/tasks/env_task.c`, `sensehat/hts221.c`, `lps25h.c` | latest sample, history ring, calibration | initialize, sample, read, stop | I2C; dashboards, shell |
| trace, diagnostics | `kernel/debug/trace.c`, `diag.c` | record ring; counters at the last snapshot | record, dump, clear, snapshot | scheduler; shell, menu, dashboard |
| shutdown | `kernel/shutdown.c` | | release, clear, halt | shell, menu; displays |
| rest | `kernel/irq.c`, `util/`, `arch/`, `rpi4/soc/` | registers | dispatch, conversion | |

What is hard here, and what makes each part correct:

* **Scheduler.** Wake-ups come between `BLOCKED` and the yield, and between the
  idle task's yield and its `wfe`; slots are stopped, reaped and reused at any
  time.  Exactly one task is RUNNING; a READY task runs; no sleeper is overdue;
  the idle task never waits for an event that has gone by; a stopped task stays
  stopped and its stack is not reused while it is on it.
* **Mutexes.** A waiter is woken and retries; in between anybody may take the
  lock.  Handlers wake waiters early, and applications are stopped while they wait for
  a mutex or hold one.  One holder at most, whoever is BLOCKED can be found by an
  unlock, and a wake-up is lost in two ways only; that it is lost at all is a finding (section 5).
* **I2C.** The interrupt completes a transfer at any point of the client's path
  to its wait; other handlers may wake the client, and a command may stop it there.  A result
  is honest, the record is true to its transfer and its waiter, every job ends unless its task is stopped.
* **Joystick.** The line's edge against the read that clears it; reads cut short
  by the very interrupt they serve.  A change is not forgotten.
* **UART.** Writers that wait in the middle of a string give up the mutex; one
  signal per drain of several bytes.  No byte is lost or changes places; every
  waiter is woken.  Received bytes race the shell's look at the ring; a full ring
  drops the newest ones, and no others; what is typed is read.
* **Shell, menu.** The line editor's echo and its buffer are two copies of one
  line; the menu's pane, its scrolling and the levels another pair.  What runs is
  what is shown.
* **Trace, samples, diagnostics.** Readers yield in the middle of a dump, tasks are
  stopped and slots reused between two readings.  The newest records in order;
  samples of this session only; differences that cover the period.
* **Heap, logs.** Splits, merges and failed allocations in any order; a dump that
  yields while it walks a list.  The heap is tiled and coalesced, nothing leaks,
  an append works or leaves no trace.
* **Displays.** A task is stopped at any yield and others clean up after it, with
  yields of their own.  An owner keeps its display, nothing stays taken, a
  free LED matrix is dark.
* **HDMI.** Drawing is sliced and shared among whoever presents.  What is written
  gets drawn, a pane with an owner gets no console output, the cursor is shown.
* **Sensors.** Signed raw values, calibrations that rise or fall, initializations
  that break off.  A reading is on the device's own line.
* **Tic-tac-toe, game of life.** The record agrees with the board through all
  rounds, the hard CPU is never beaten; a glider crosses every edge unharmed.
* **Shutdown.** No task is stopped, and shutdown itself waits.  The matrix should be
  dark at the halt, and need not be (section 5).

## 2. Modules

| Module | Models | An action is |
|---|---|---|
| `TaskTable` | operators on the task table: `PickNext`, `WakeSleepers`, `Reaped`, `Wakeup`; used by every module with tasks | |
| `Sched` | scheduler.c, task.c, timer.c, the IRQ mask and the event register | a stretch of code that no interrupt cuts into |
| `WaitQueue` | wait_queue.c | |
| `KernelMutex` | mutex.c on the scheduler, the I2C and UART locks | code between two yields or critical sections |
| `AbstractLock` | what a lock promises: one holder, nobody falls asleep on a free lock, a free one that an awake user wants is taken, a user may vanish with it | |
| `I2c` | i2c.c, i2c_bus.c | code between IRQ boundaries; one interrupt |
| `Joystick` | joystick.c, joystick_task.c, the GPIO interrupt | code between IRQ boundaries |
| `UartTx` | transmit half of uart.c, cond.c | one byte, or a wait of a writer; a byte on the line; an interrupt |
| `Heap` | heap.c as operators on a block table | |
| `TaskLog`, `LogDump` | log.c on `Heap`; `LogDump` adds the dump | one call of log.c; clearing is one free at a time |
| `AppTasks` | life cycles of the six display and sensor tasks, led_task.c, pane ownership, start and stop of shell and menu | code between two yields |
| `TextPane` | operators on one pane of hdmi.c | |
| `HdmiConsole` | hdmi_console.c, the pane's owner, the menu's drawing | code between two yields |
| `Shutdown` | shutdown.c on `AppTasks` | code between two yields |
| `ShellLine` | receive half of uart.c, the shell's line editor | a byte, an interrupt, code between two looks at the ring |
| `AbstractInput` | what a serial line promises its reader: a queue that drops the newest | |
| `JoyMenu` | joy_menu.c: levels, selection, window, presses | one event of the joystick |
| `TicTacToe` | tictactoe_task.c | one joystick event, one CPU turn |
| `GameOfLife` | gol_task.c: board, ages, reseeding | one generation |
| `Trace` | trace.c and the dump of shell.c | one record, one turn of a dump's loop |
| `EnvStore` | env_task.c: latest sample and history | a turn of the task, a stop |
| `Sensors` | hts221.c, lps25h.c | one transfer of the initialization, one reading |
| `Diag` | diag.c with the counters of the task table | a charge, a task's begin or end, a snapshot |
| `Console` | `UartTx`, `ShellLine` and `Trace` together | |
| `Programs` | `Joystick`, `JoyMenu`, `TicTacToe`, `GameOfLife`, `EnvStore`, `Sensors` and `Diag` together | |
| `Displays` | `AppTasks` and `HdmiConsole` together | |
| `Kernel` | `KernelMutex`, `I2c` and `TaskLog` together | |
| `MCPrograms` | sets of devices, boards and readings for `Programs` | |
| `MCKernel`, `MCLogDump` | constants for TLC | |
| `TaskTableProofs` | lemmas on the table, on least elements, sums and folds | |
| `SchedProofs`, `MutexProofs`, `I2cProofs`, `HeapProofs`, `DisplaysProofs`, `ConsoleProofs`, `ProgramsProofs` | theorems | |

`TaskTable` is extended by `Sched` and `AppTasks`; `WaitQueue`, on `TaskTable`, by
`KernelMutex` and `UartTx`; `KernelMutex` implements `AbstractLock` through the refinement
`Promise`.  `UartTx` and `I2c` use their mutexes as
`AbstractLock` describes them, which is why that refinement is checked.  `TaskLog` extends `Heap`, `LogDump` extends `TaskLog`,
`HdmiConsole` extends `TextPane`, `Shutdown` extends `AppTasks`.  `ShellLine` implements
`AbstractInput` through the refinement `Input`.

`Kernel`, `Console`, `Programs` and `Displays` put several modules that share no variable into
one specification: the first state chooses one of them and the others do not move, so
the states are the sum of theirs, and each property is that of one module.  TLC runs
these specifications; the theorems are about the same ones, and those on the parts of `Kernel`
about the specifications of its modules.

The parts meet at few places, which the modules
carry as parameters: which tasks some handler wakes whatever they wait for
(`StrayWoken` in `KernelMutex` and `UartTx`, `WokenEarly` in `I2c`: the shell by the UART
interrupt, the joystick task by GPIO, the LED task by `led_submit_frame`), which tasks are
stopped (`Stoppable`, `StoppableClients`: applications, wherever they let go of the CPU), and who
stops them (`Commanders`: the shell, and the joystick task in its menu, in their own code).  `Sched` lets every task call every
operation at any time, so it covers whatever the other modules' tasks do.

### State and actions against the code

* `Sched`: `state`, `system`, `wakeup_tick`, `runtime_ticks` are fields of
  `task_t`, `pc` is the point a task resumes at, `masked` is PSTATE.I, `event` the
  event register that `eret` sets and `wfe` consumes.  `Yield` is
  `scheduler_yield` with the reaping, the sleepers it wakes, the choice and the
  switch; `TimerIrq` is the tick handler.  Left out: names, stacks,
  `switch_count`, trace records, the return of an interrupt (one step each).
* `KernelMutex`: `want` is a task inside `mutex_lock`, `held` what it is between
  lock and unlock of, `locked`, `owner`, `waiters` the mutex.  `Acquire` and `Enqueue` are the
  two outcomes of a round of `mutex_lock`'s loop.  `RequestStop` does not ask what its task is doing; when
  `Yield` reaps the task, `want` and `held` go with its stack and the mutex stays as it was.  `Create` may give the slot,
  and so the bit in the queue and the owner's id, to another task.  `UsedBesides` says that the shell
  starts no second `env` (`shell.c:350`), the only application on the bus lock.
* `I2c`: `transfer` is `i2c_transfer`, `phase` where a client is in `i2c_write`,
  `i2c_read` or `i2c_write_read`, `gone` that it was stopped there.  The controller answers with DONE, an error or
  bytes, in any order.  `Stop` may come in the wait for a transfer and in the output about a
  failed one (`MayYield`): the lock, the record and its pointer to the client's stack remain; `Reuse` gives the
  slot and the stack to a new task.  The handler's path without a busy transfer is left out:
  `RecordSound` shows that the controller runs none then.
* `Joystick`: one key register, its change raises `edge`; `busy` says that the
  I2C record was left busy by a read that was cut short, which refuses the next one.
* `UartTx`: the ring holds numbered bytes, so order and loss can be told.
  A string ends at any byte up to `MaxBytes`; strings of two writers may interleave
  when one waits in the middle, as in the code.  Polling output during boot is out.
* `Heap`: a function from addresses to headers (size, free, next, prev).
  `kfree`'s and the log's checks that would panic set `panicked`.  Use before
  `heap_init` is out.  Log ticks and values are left out.
* `AppTasks`: `app` is a slot's task and where it stands, `reg` the ids the
  modules registered, `res` the displays and the LED slot, `cmd` a stop whose cleanup is
  yielding.  HDMI is taken to be present, `led_matrix_init` and
  `joystick_set_event_handler` to succeed; pane contents are in `HdmiConsole`.
* `TextPane`, `HdmiConsole`: a cell's value stands for character and colours;
  an escape sequence is one character; `draw` is what was last drawn, `lit` where a
  cursor bar is on the screen.  `AppDraw` and `MenuDraw` stand for the rendering functions: a line of
  text somewhere, on a cleared pane or on what was there.  The bar is taken as part of its cell (its last two pixel
  lines spill into the next row).  `hdmi_console_enabled` is cleared only in
  shutdown, which is out.
* `Shutdown`: the stages of `kernel_shutdown` are its waits; in each of them the
  steps of `AppTasks` go on, with the registrations and owners already taken back.
* `ShellLine`: `at` is where the shell task is, from `uart_read_char` to the end of a
  command; `shown` is what stands behind the prompt on the terminal.  One interrupt
  empties the FIFO.  A command takes its time and is otherwise left out.
* `JoyMenu`: `pane` is what the last drawing showed, so that it can be compared with
  what a press runs.  A press and its release may be split between menu and game.
  That the long press lasts 50 ticks is one flag.
* `Trace`: a record is its number; numbers wrap beyond the size of the ring.
* `EnvStore`: of a value it is kept whether it was read in the turn its sample names.
  Ticks are counted in sample intervals; the task may be scheduled late.
* `Sensors`: the device holds a calibration and packs it into registers as the
  driver unpacks them; integers stay within 32 bits for every register value,
  so no wrap-around is modelled.
* `Diag`: differences are taken modulo `Wrap`; `charged` and `same` are the history that
  the property compares them with.
* `GameOfLife`: the ages are those of the code, the random boards a given set.
* `TicTacToe`: the ring of joystick events only delays or drops events, so events
  come in any order; the displays are left out.  `Minimax` is a function of one argument, the
  call of `ttt_minimax` with its board, depth and side, as its theorems need one.

## 3. Runs

Each passing run fires every action of its modules.

| Run | Instance | Question |
|---|---|---|
| `sched` | idle task, a service, two application slots, one tick | one RUNNING task, no panic, no overdue sleeper, no wait of the idle task with IRQs masked or beside a READY task (`IdleWaitSafe`), ticks charged once, stops final, caller's slot kept, every READY task runs |
| `kernel` | mutexes: two services, both woken early, one of which starts and stops the applications of two slots at any point of theirs; the bus lock, and with the services alone the UART lock inside it. I2C: a client woken early and one that is stopped. Logs: two slots, a heap for about three entries, three message lengths | exclusion, sleepers are queued, wake-ups lost in two ways only, refinement of `AbstractLock` with its liveness; record sound (controller, buffers, waiters, refused starts), results honest, jobs end unless their task is stopped; heap well formed, nothing leaks, append all or nothing |
| `mutex_lost` | the same tasks, the bus lock | finding: an unlock wakes a task that waits for something else, and the bus lock's waiter sleeps on |
| `i2c_early` | two clients | finding: a client woken by others gets the result 0 of a running transfer |
| `i2c_stopped` | the same | finding: a client stopped in its transfer never gives the bus back |
| `console` | two writers on a ring of three with a FIFO of one; a shell with a FIFO, a ring and a line of two usable places; a trace of three slots with two dumpers | bytes in order, waiters queued and woken; echo is line, receive ring is a queue, typed input is read; newest records kept, dumps end |
| `programs` | joystick: center and one direction, a queue of two, failing and cut-short reads. Menu: lists longer than its pane. Tic-tac-toe: the whole game. Life: the real board, five random ones. Samples: history of two, six ticks. Sensors: 28 calibrations, eight raw values each. Diagnostics: three slots | changes not forgotten; what runs was marked; record agrees with board, hard CPU unbeaten, wins and threats seen; gliders glide; the store is the recent past; readings on the line; differences cover their period |
| `diag_reuse` | three slots | finding: a reused slot makes the busy percentage wrong |
| `log_dump` | two slots with room for full logs | finding: a dump walks on through a freed entry |
| `displays` | six kinds of task in two slots, the shell's commands; panes of 2x2 and 1x1, a ring of two, every budget below what there is to draw | owners keep displays, nothing stays taken, free matrix dark; cursor shown, owned pane private, output shown and no sleep before |
| `app_tasks_menu` | shell and menu command | finding: a cleanup releases the pane of the next dashboard |
| `shutdown_lit` | one slot, the shell commands | finding: the LED matrix is lit at the halt |

States and times with two workers: `sched` 16 524, seconds; `kernel` 58 520, a minute and a
quarter; `displays` 187 277, up to a minute; `programs` 158 617, up to one and
a half; `console` 155 405, up to two and a half.

**Why the bounds are enough.** `sched`: three tasks beside the idle one give a
caller, a chosen task and a bystander, one of them a service, and a slot that is
taken again; within the one tick a sleeper comes due at any point of the others' steps (two ticks
with sleeps of two, which take TLC minutes, pass as well, and the theorems hold for every bound).
`kernel`, mutexes: a holder, a waiter and a task between its wake-up and its retry on one mutex, with a
slot to which another application comes while the first one's bit is still in the queue: the least with which wake-ups
get lost, so that `WakeupsLostInTwoWays` has something to exclude.  Both mutexes with applications are too many
states; `NestedTasks` keeps the nested lock to the services, and the theorems have any number of tasks
and mutexes.  I2C: one client in a transfer, the other waiting for the bus, each also after its
predecessor was woken early or stopped; two bytes separate "some" from "all"; the joystick and the LED task
are alike for the driver, and one of them does.  `console`: strings that
follow each other fill the ring and make either or both writers wait; a FIFO of one byte is the
tightest drain, and three ring bytes are the least `ConsoleAssumption` allows (the build has
511 for at most 31 writers with a FIFO of 8); the shell's ring, FIFO and line all
overflow, and the record numbers of the trace wrap beyond its ring.  `programs`: the
histories overflow, the menu's lists scroll, calibrations lie at the ends of what
registers hold, and tasks come and go between snapshots; the board of
`GameOfLife` and the game of `TicTacToe` are those of the code.  `kernel`, logs: small enough for
both kinds of allocation failure and all four merges.  `displays`: two
applications suffice for every conflict over a display, and slots get reused;
two rows and columns have every edge; ring and budgets overflow.

**Fairness.** `sched`: the running task comes to a yield, which a cooperative
scheduler asks of every task; the timer interrupt stays pending while masked, so it is
taken when IRQs are unmasked again and again.  No device is assumed to
interrupt.  `kernel`: tasks yield and a turn of `mutex_lock` ends; nothing is assumed of devices, of
stopped tasks, nor that a critical section ends, so that `ImplementsLock` promises that a free mutex
is taken only if a task that wants it is awake.  In the driver a client that is not BLOCKED gets the CPU (which
`sched` shows of every READY task) and ends its series of jobs; the controller ends a transfer.  `console`: the
line transmits and the transmit interrupt is taken, and nothing is assumed of writers; the
receive interrupt stays raised while the FIFO holds a byte, and the shell and a
dumper run when they are not BLOCKED.
`displays`: the renderer gets its turn; the formula spells out when it
has one, instead of using `WF_vars`, because TLC evaluates `ENABLED` of the round
slowly.  Liveness properties name what may stop them: other writers that keep
refilling the ring (`WaiterIsWoken`), output that never pauses or applications
that take the pane again and again (`OutputIsShown`).  Upper rows are drawn first, so endless
output there starves the lower ones.

## 4. Proofs

Every theorem is of the specification that a run checks, and holds for every value of
the constants its `ASSUME`s allow.  Of the 40 properties of the passing runs, 33
are stated by a theorem: all but the seven that need fairness, and of those the safety part
is proved.  They are listed at the end of this section.

**Without induction over data.**  The provers cannot instantiate an induction rule, so
whatever is a search, a sum, a fold or a list is handled by least counterexamples:
if a statement fails for some number, `LeastExists` (`TaskTableProofs`,
from the well-foundedness of `<`) gives the least number it fails for, and the
definition's recursive equation leads to a smaller one.  This gives the first READY
slot that `PickNext` returns, the sum over a table when one entry
changes, the fold of a sequence when an element is appended, and the equality of
`ListFrom`, which follows `next` from a list's head, with the list that the invariant names.
That a recursive function meets its own equation has to be proved too: there are approximations of
it, each right up to some size of the argument (cardinality, free cells); a least size
without one would lead to a smaller one, and the largest is the function.

**`SchedProofs`**, for any table, boot set, sleep and tick bounds
(`SchedAssumption`, `MaxTasksAssumption`): `TypeCorrect`, `CpuOwned`, `NoPanic`, `SleepersOnTime`,
`IdleWaitIsSafe`, `StopsAreFinal`, `CallerSlotKept`, `RuntimeIsAccounted`, `RoundRobin`.  The inductive invariant
`IInv` adds to these: the idle task is always READY or RUNNING (`IdleRunnable`,
without which `PickNext` may find nobody), the program counter agrees with the
state (`PcOfCurrent`), the running slot is in use, charges stay below the clock, the event
register is set until the first `wfe` (`FirstWfe`).  Each action has a
lemma; `Yield` rests on what `TaskTableProofs` shows of `PickNext`: the first READY
slot in round-robin order.  `RoundRobin` says what that order is worth: `OffsetOf(t)`, the place of a
READY task in the search that begins at the current one, is at most `MaxTasks`; a switch to another
task lowers it, and nothing in between raises it.  That no tick is charged twice (`RuntimeIsAccounted`)
uses the lemmas on sums: a switch adds to the caller's charge only, what has passed since the
last one, and reaping sets charges to 0.

**`MutexProofs`**, for any table, any mutexes, and any sets of tasks that are woken early, that are stopped and that
stop others: `OneHolder` (mutual exclusion) needs only `MInv`: types, that a
task in the loop wants a mutex, and exclusion.  `SleepersQueued`, `WakeupsLost` and `MutexImplementsLock` use `QInv`:
`MInv`, the program counter's agreement with the state, that a slot without a task holds and wants nothing, and
that sleepers are queued.  For `WakeupsLost` each action that could leave a mutex stranded is taken apart: an unlock
finds the least BLOCKED task in the queue (`LeastExists`), and either that one waits for this mutex or the
wake-up was `Misspent`; only a stop takes away somebody who was coming (`Withdrawn`).
`MutexImplementsLock` is the safety part of the refinement that the run `kernel` checks with its liveness: `Lock`,
`Acquire`, `Enqueue` and `Unlock` are `Request`, `Take`, `Sleep` and `Release` of `AbstractLock`, an early wake-up is `Rouse`, a
stop `Vanish`, and every other step changes nothing there.  That the next task in a slot does
not own what its predecessor left locked is part of it: the holder stays `Lost`.

**`I2cProofs`**: `RecordIsSound` and `ResultsAreHonest`, for any clients, any length of transfer and
any sets `WokenEarly` and `StoppableClients`.  The invariant adds that whoever is inside the driver, or was when it was
stopped, holds the bus lock (`HolderInside`), that a stopped client is where the driver lets go of the CPU
(`GoneIsStill`), that an ended transfer has moved its bytes unless it failed
(`RecordClosed`), and that the record is the waiting client's own (`OwnTransfer`).
The client woken early may leave its transfer busy; the proof shows that this never
reaches another client's result.  One that is stopped may leave it busy too, but keeps the lock, so
nobody else gets to see it.

**`HeapProofs`**, for any heap, header, alignment, log depth, entry and message sizes:

* `HeapStaysWellFormed`.  `HeapInv` says of every pair of neighbours that they touch, are
  linked both ways and are not both free; split and merge are shown to keep `Tiled`, and
  `kmalloc` and `kfree` to restore `HeapInv`.
* `LogsLeakNothing`.  `LogInv` says that there are lists `L[t]`, one for each slot: they follow
  `next` from the slot's head (or from `current`, while the slot is being cleared), no entry is in two
  places, every entry is in one, and the allocated blocks are exactly `Used(entry)`,
  the entries and their messages.  Each operation is shown on the lists: `DropHead` for the oldest
  entry and for a step of clearing, `PushTail` for an append, `FreeGives` and `IsGrant` for the
  blocks.  Addresses and sizes stay multiples of the alignment (`SplitAligned`,
  `MergeAligned`).
* `AppendsAreQueues`.  That a failed append leaves the heap *as it was* rests on
  `MergeUndoesSplit`: freeing the copy of the message that was just allocated merges the
  two halves back to the same block, whatever its neighbours, because the heap was coalesced before.

**`DisplaysProofs`**, for any set of application tasks and slots.  `AppInv` is `TaskInv`
(a registered id is that of the task that registered it, or of one that a command is cleaning up after)
and `ResInv` (who uses a display owns it, who owns it uses it or is being cleaned up after, the game's
flags, where the joystick's events go, when the matrix is dark).  `AppInvHolds`,
`RunningTasksOwn`, `NothingIsLeftTaken` and `FreeMatrixIsDark` assume `OneAtATime`: no
command begins while another one's stop waits.  The code has no lock that ensures this; with
shell and menu both at work it can fail, which is the finding of the run
`app_tasks_menu`.  The run `displays` has the shell as its only commander, for which it holds.
`CursorStaysShown` and `OwnedPaneStaysPrivate` are about panes of any size and any text: what holds of
one character (`IsPane`, `Marked`, `Shown`) is carried through a text by the lemma on folds.
`UndrawnKeepsAwake`, the safety part of `OutputIsShown`: the renderer sleeps only when the queue is empty and no
cell is stale.  A slice with budget to spare reaches every stale cell and any slice the
first one (`LastSlice`, `SliceDraws`), so once output pauses each round leaves fewer characters or, with none left,
fewer stale cells (`RoundsLeaveLess`).

**`ConsoleProofs`**: a ring and its two indices are read as a sequence (`Ring`), and what a
push, a pop and a filling interrupt do to it is proved once.

* `TraceNewest` (`TraceOk`): records, dumps that yield and clears, for any number of dumpers.
* `RingImplementsQueue` (`LineOk`): the receive half of the UART implements `AbstractInput`; the
  interrupt takes as many bytes as the ring has places and drops the newest.
* `EchoHolds`: the line that runs is the line behind the prompt, for any line size.
* `BytesStayInOrder` (`TxOk`): each byte in the ring has the number that follows what its writer has
  sent and what is ahead of it there, through every push, drain and wait.
* `SignalsAreEnough`, the safety part of `WaiterIsWoken`: every queued writer has a signal to come.  This needs
  `TxSlots >= TxDepth * MaxTasks` in `ConsoleAssumption`: an interrupt that drains
  the FIFO's worth of bytes gives one signal only, so the ring must hold a
  FIFO's worth for each task that may wait.  The build has 63 for 31 tasks.
* `NoReadLost`, the safety part of `InputIsRead`: the shell sleeps only in its yield and only while the ring is
  empty, since a byte that comes to an empty ring is stored and wakes it (`EmptyRingStores`).
* `DumpsGetShorter`, the safety part of `DumpIsFinite`: what a dump has left is below the ring's size; each of its
  turns lowers it, and no record, clear or other dump raises it.

**`ProgramsProofs`**, one invariant for each program:

* `NothingForgotten` (`JoyOk`), for any keys and any queue: an answer on its way is out of date only if
  another change is signalled, and missing only if the interrupt that cut the read short left the flag set.
* `PressRunsMarked` (`MenuOk`), for lists and panes of any length: the pane is always `Render(menu)`, with
  the selection inside its window.
* `SnapshotsCoverPeriod` (`DiagOk`): differences modulo `Wrap` are those of the counters as long as
  a hundred times all ticks stay below it (`DiagAssumption`); in 64 bits that is more than a million years.
* `ReadingsOnLine` (`SensorsOk`), for every calibration and raw value the registers hold: one fact per
  transfer of the initialization says what is kept of it (`Kept`), and the
  division that truncates is within one of the exact quotient for either sign.
* `BoardIsKept` (`GameOk`): every move changes one cell of a board without a winner, so a line that
  becomes complete goes through that cell.
* `HardIsUnbeaten` (`HardOk`).  `Minimax`, of a board, a depth and the side to move, is shown to meet its
  equation (`MinimaxIs`) and to stay within 10 of 0; its sign does not depend on the depth
  (`Decided`).  That O need not lose is shown by a certificate instead of by playing out the games:
  `Sound` describes boards by the sums of their eight lines, an X counting 1 and an O 4; after any
  move of X there is a reply of O that is `Sound` again (`SoundAnswered`), so O holds such a board by
  induction on its free cells (`SoundHeld`), and the blank one (`BlankHeld`).  The hard CPU takes a cell
  with the best score (`HardMoveIsBest`) and so keeps what is held (`HardMoveHolds`); that the
  board of the round is held is the invariant.
* `CpuIsNotSurprised`.  For the easy CPU it is the order of its looks.  For the hard one it follows from the
  scores: only a winning cell scores 10, a cell that leaves a threat scores -9, and the
  cell that takes the only threat scores at least -8 (`HardWins`, `ThreatIsLow`, `BlockIsHigher`).
* `GliderIsUnharmed` (`LifeOk`): a glider goes through four pictures, and the fifth is the first one, a cell further.  The
  count of a cell's eight neighbours is taken apart into its looks, so a step of each picture at the origin is a
  finite check (`PhaseSteps`), and the rule is the same everywhere on the torus, which moves it to any
  other place (`GlideStep`).  The invariant names picture and place from the generation count.
* `HistoryIsRecentPast` (`StoreOk`): the history ring holds the last of the spaced samples; the
  spaced ones are a fold over all samples of the session.

**Only model-checked.**  Everything under fairness is out of TLAPS's reach, so of these seven
properties a theorem has the part without it, and TLC checks the rest:

| Property | What is proved | Left to TLC |
|---|---|---|
| `ReadyRuns` | `RoundRobin`: every switch brings a READY task nearer to the CPU | that switches go on |
| `ImplementsLock` | `MutexImplementsLock`: every step is one of `AbstractLock` | that a free wanted lock is taken |
| `JobEnds` | `RecordIsSound`: whoever waits has a transfer that will wake it | that clients run and transfers end |
| `WaiterIsWoken` | `SignalsAreEnough`: every queued writer has a signal to come | that the line transmits |
| `InputIsRead` | `NoReadLost`: the shell does not sleep on a byte | that the shell runs |
| `DumpIsFinite` | `DumpsGetShorter`: each turn lowers what is left | that turns come |
| `OutputIsShown` | `UndrawnKeepsAwake`: the renderer does not sleep on output, each round leaves less | that rounds come |

`LogDump` and `Shutdown` have no theorem, since what they state is refuted (section 5).

## 5. Findings

Checked as runs that must fail:

* `mutex_lost`: `wait_queue_wake_task_irq_disabled` wakes the first queued task that is BLOCKED on anything
  (`wait_queue.c:61`).  `env` is stopped while it waits for the bus and leaves its bit; the next application in its
  slot waits for room in the UART's ring; the new `env`, in another slot, waits for the bus.  The unlock wakes
  the former, and the latter sleeps although the bus is free, until somebody else locks and unlocks it.
* `i2c_stopped`: `env` is stopped while it waits for a transfer (`task.c:174`, `env_task.c:279`).  The bus lock
  stays taken, also when `env` is started again, so joystick and LED matrix are not served any more.  The handler
  meanwhile goes on with a buffer on the stopped task's stack, which the second case of `BufferAlive` admits.
* `i2c_early`: `i2c_wait_for_transfer` does not look at `done` after its yield; a
  joystick or LED task that is woken by others returns 0 with the transfer
  running into its buffer.
* `log_dump`: `log_dump_task_id` reads `current->next` after output that may have
  yielded while the entry was dropped and freed.
* `app_tasks_menu`: `diag_dash_cleanup_resources` yields, then releases the pane of
  whatever id is registered by then.
* `diag_reuse`: `diag_get_snapshot` subtracts the copy kept for a slot from the counter
  of whatever task has the slot now, which began at 0 (`diag.c:77`); the difference
  wraps around and the "CPU busy percentage" of the user manual is wrong.
  With slots unchanged it is right (`DeltasCoverPeriod`).
* `shutdown_lit`: `kernel_shutdown` stops no task.  Between `led_matrix_clear_shutdown` and the
  last `irq_disable` its message may wait for the UART, and an application draws: one that
  had not run before, or the game of life, whose registered id is -1 by then and so
  equals the owner of the free matrix.

Seen while modelling:

* `joystick_consume_irq` enables IRQs in the middle of the caller's critical
  section (`joystick_task.c:119-124`), so an interrupt right there is
  recorded but wakes nobody; the model of `Joystick` takes that step.
  A read that is cut short leaves the I2C record busy, so the next is refused.
* A failed LED rendering is not retried; `DarkWhenFree` excepts it.
* `log_append_task_id` allocates before it drops the oldest entry, so a full
  log on a full heap refuses an append that the drop would have made room for.
* Putting a blank on a cell that is blank already does not mark it dirty
  (`hdmi.c:282`), so the old cursor bar stays on the screen next to the new one.

## 6. Not modelled

Boot, context switch and exceptions, interrupt controller, GPIO and mailbox registers:
registers and memory layout.  Drawing, fonts, boot screen, the layout of
the dashboards, number formatting, string utilities: pure functions without state of their own.
Of the shell, the parsing of arguments and the commands that only print: `ps`, `heap` and
`diag` print a table row by row with waits in between, so a row may be older than the next.
Polling output of the UART during boot and a panic.  The frames of the LED matrix other
than the game of life's.  A second shutdown while one is under way.
`PROJECT.json` gives the reason for each part and the hazards that no property covers:
nested interrupts without saved ELR and SPSR, and the critical section that
`joystick_consume_irq` ends too early, of which nothing holds.  `parse_uint`
does not look for signed overflow (`util/convert.c:24`): of a task number too large for an
`int`, typed at the shell, nothing holds; one that fits is compared with the task table by
the functions it is given to.
Escape sequences that lose a character to the ring's overflow are out, as
sequences are single tokens.

## 7. Plan

Done: the core (scheduler, mutexes, I2C, joystick, UART in both directions), memory,
displays and applications, shell line and menu, the games, samples and sensors, trace
and diagnostics, shutdown; the proofs of section 4.  Next:

1. Larger bounds for `displays` (three slots) and `console` (three writers), as far as time
   allows.
2. `irq.S` with its registers, for nested interrupts.
