------------------------------- MODULE Sched -------------------------------
(***************************************************************************)
(* The cooperative scheduler of raspi-os on one core, with the interrupts  *)
(* that cut into it: task creation, stop requests, exit and reaping        *)
(* (src/kernel/sched/task.c), yield, block, sleep and wake-up              *)
(* (src/kernel/sched/scheduler.c), the tick handler (src/kernel/timer.c),  *)
(* the IRQ mask (src/arch/irq_init.S) and the event register that the idle *)
(* task's wfe waits on.                                                    *)
(*                                                                         *)
(* An action is a stretch of code no interrupt can cut into: the code      *)
(* between irq_disable and irq_enable, or between two such sections where  *)
(* nothing else touches the same state.  What a task does in between is    *)
(* left out: it may call any operation of the scheduler at any time.       *)
(***************************************************************************)
EXTENDS TaskTable, FiniteSetsExt

CONSTANTS
  BootTasks,   \* system tasks main() creates: the idle task and the services
  MaxSleep,    \* longest task_sleep a task asks for, in ticks
  TickBound    \* bound on system_ticks

ASSUME SchedAssumption ==
  /\ BootTasks \in 1 .. MaxTasks
  /\ MaxSleep \in Nat \ {0}
  /\ TickBound \in Nat

VARIABLES
  state,         \* task_t.state of every slot
  system,        \* task_t.flag & TASK_FLAG_SYSTEM
  wakeup_tick,   \* task_t.wakeup_tick
  runtime_ticks, \* task_t.runtime_ticks
  current,       \* current_task_id
  last_switch,   \* last_switch_tick
  ticks,         \* system_ticks
  pc,            \* where each task resumes, see PcValues
  masked,        \* PSTATE.I: irq_disable without its irq_enable so far
  event          \* the event register of the core, set by every eret

vars == <<state, system, wakeup_tick, runtime_ticks, current, last_switch,
          ticks, pc, masked, event>>

\* "fresh": the artificial frame of task_create, not entered yet;
\* "run":   in the task's own code; "yield": state set, scheduler_yield next;
\* "wfe":   the idle task, about to execute or waiting in wfe.
PcValues == {"fresh", "run", "yield", "wfe"}

\* The stack main() runs on is no task: the scheduler_start call waits there.
Booting == current = NoTask

\* The current task is in its own code, and is not the idle task.
Running(t) == current = t /\ t \in Tasks \ {Idle} /\ pc[t] = "run"

-----------------------------------------------------------------------------
\* main() at scheduler_start: IRQs are on (irq_enable, main.c:94), the boot
\* tasks wait in their slots and the eret of boot.S has set the event register.
Init ==
  /\ state = [i \in Tasks |-> IF i < BootTasks THEN "READY" ELSE "UNUSED"]
  /\ system = [i \in Tasks |-> i < BootTasks]
  /\ wakeup_tick = [i \in Tasks |-> 0]
  /\ runtime_ticks = [i \in Tasks |-> 0]
  /\ current = NoTask
  /\ last_switch = 0
  /\ ticks = 0
  /\ pc = [i \in Tasks |-> "fresh"]
  /\ masked = FALSE
  /\ event = TRUE

\* Faulty variants: the ticks of earlier turns are charged again; the path that
\* picks the caller itself returns with IRQs still disabled.
ElapsedSinceBoot == ticks
MaskedInto(n) == pc[n] = "fresh" \/ n = current

\* The ticks scheduler_yield charges to the task that gives up the CPU.
Elapsed == ticks - last_switch

\* Whether IRQs are masked when task n goes on: irq_enable follows the switch in
\* scheduler_yield, but task_bootstrap, entered the first time, has none.
MaskedAfterSwitch(n) == pc[n] = "fresh"

\* scheduler_yield, from irq_disable in the caller to irq_enable in the task
\* that gets the CPU.
Yield ==
  /\ IF Booting THEN TRUE ELSE pc[current] \in {"run", "yield"}
  /\ \E n \in Tasks :
       /\ Switch(state, current, n, state')
       /\ current' = n
       /\ masked' = MaskedAfterSwitch(n)
       /\ pc' = [i \in Tasks |->
                   IF i = n THEN IF n = Idle THEN "wfe" ELSE "run"
                   ELSE IF i = current THEN "run"
                   ELSE IF i \in Reaped(state, current) THEN "fresh"
                   ELSE pc[i]]
  /\ runtime_ticks' = [i \in Tasks |->
       IF i \in Reaped(state, current) THEN 0
       ELSE IF i = current THEN runtime_ticks[i] + Elapsed
       ELSE runtime_ticks[i]]
  /\ last_switch' = ticks
  /\ system' = [i \in Tasks |->
       IF i \in Reaped(state, current) THEN FALSE ELSE system[i]]
  /\ wakeup_tick' = [i \in Tasks |->
       IF i \in Reaped(state, current) THEN 0 ELSE wakeup_tick[i]]
  /\ UNCHANGED <<ticks, event>>

\* idle_task: wfe falls through once the event register is set, and clears it.
\* With the register clear the core sleeps until an interrupt is taken.
Wfe ==
  /\ current = Idle /\ pc[Idle] = "wfe"
  /\ event
  /\ event' = FALSE
  /\ pc' = [pc EXCEPT ![Idle] = "yield"]
  /\ UNCHANGED <<state, system, wakeup_tick, runtime_ticks, current,
                 last_switch, ticks, masked>>

\* task_block_current
Block(t) ==
  /\ Running(t)
  /\ state' = [state EXCEPT ![t] = "BLOCKED"]
  /\ pc' = [pc EXCEPT ![t] = "yield"]
  /\ masked' = FALSE
  /\ UNCHANGED <<system, wakeup_tick, runtime_ticks, current, last_switch,
                 ticks, event>>

\* task_sleep(n): every caller in the code asks for at least one tick.
Sleep(t, n) ==
  /\ Running(t)
  /\ ticks + n <= TickBound
  /\ wakeup_tick' = [wakeup_tick EXCEPT ![t] = ticks + n]
  /\ state' = [state EXCEPT ![t] = "SLEEPING"]
  /\ pc' = [pc EXCEPT ![t] = "yield"]
  /\ masked' = FALSE
  /\ UNCHANGED <<system, runtime_ticks, current, last_switch, ticks, event>>

\* scheduler_task_exit, up to its scheduler_yield.  The entry functions of the
\* system tasks never return.
Exit(t) ==
  /\ Running(t) /\ ~system[t]
  /\ state' = [state EXCEPT ![t] = "DYING"]
  /\ pc' = [pc EXCEPT ![t] = "yield"]
  /\ masked' = FALSE
  /\ UNCHANGED <<system, wakeup_tick, runtime_ticks, current, last_switch,
                 ticks, event>>

\* task_create of an application.  Applications are started by the shell and by
\* the joystick menu, both system tasks; IRQs stay as they are.
Create(t) ==
  /\ Running(t) /\ system[t]
  /\ \E i \in Tasks :
       /\ FirstUnused(state, i)
       /\ state' = [state EXCEPT ![i] = "READY"]
       /\ pc' = [pc EXCEPT ![i] = "fresh"]
       /\ system' = [system EXCEPT ![i] = FALSE]
       /\ wakeup_tick' = [wakeup_tick EXCEPT ![i] = 0]
  /\ UNCHANGED <<runtime_ticks, current, last_switch, ticks, masked, event>>

\* Faulty variant: the SYSTEM flag is not looked at.
RequestStopAny(t, id) ==
  /\ Running(t) /\ system[t]
  /\ state[id] \notin {"UNUSED", "DYING"}
  /\ state' = [state EXCEPT ![id] = "DYING"]
  /\ masked' = FALSE
  /\ UNCHANGED <<system, wakeup_tick, runtime_ticks, current, last_switch,
                 ticks, pc, event>>

\* task_request_stop(id), called by a system task, when it succeeds; whatever
\* the target was waiting for is not told.
RequestStop(t, id) ==
  /\ Running(t) /\ system[t]
  /\ state[id] \notin {"UNUSED", "DYING"}
  /\ ~system[id]
  /\ state' = [state EXCEPT ![id] = "DYING"]
  /\ masked' = FALSE
  /\ UNCHANGED <<system, wakeup_tick, runtime_ticks, current, last_switch,
                 ticks, pc, event>>

\* task_wakeup(id) from a task.  A refused stop request ends the same way, with
\* the table unchanged and IRQs enabled.
TaskWakeup(t, id) ==
  /\ Running(t)
  /\ state' = Wakeup(state, id)
  /\ masked' = FALSE
  /\ UNCHANGED <<system, wakeup_tick, runtime_ticks, current, last_switch,
                 ticks, pc, event>>

-----------------------------------------------------------------------------
\* An interrupt is taken when IRQs are not masked; its eret sets the event
\* register.  The handlers never switch tasks.

\* timer_handle_tick
TimerIrq ==
  /\ ~masked
  /\ ticks < TickBound
  /\ ticks' = ticks + 1
  /\ state' = WakeSleepers(state, wakeup_tick, ticks')
  /\ event' = TRUE
  /\ UNCHANGED <<system, wakeup_tick, runtime_ticks, current, last_switch, pc,
                 masked>>

\* A UART, GPIO or I2C interrupt whose handler wakes task id
\* (task_wakeup_irq_disabled).
DeviceIrq(id) ==
  /\ ~masked
  /\ state' = Wakeup(state, id)
  /\ event' = TRUE
  /\ UNCHANGED <<system, wakeup_tick, runtime_ticks, current, last_switch,
                 ticks, pc, masked>>

TaskStep ==
  \/ Yield
  \/ Wfe
  \/ \E t \in Tasks :
       \/ Block(t)
       \/ \E n \in 1 .. MaxSleep : Sleep(t, n)
       \/ Exit(t)
       \/ Create(t)
       \/ \E id \in Tasks : RequestStop(t, id)
       \/ \E id \in Tasks : TaskWakeup(t, id)

Next ==
  \/ TaskStep
  \/ TimerIrq
  \/ \E id \in Tasks : DeviceIrq(id)

Spec == Init /\ [][Next]_vars

\* The scheduler is cooperative: that a running task comes to a yield is what
\* it asks of every task (docs/report/evaluation_limitation.tex:9).  The timer
\* is rearmed in its handler and its interrupt stays pending while IRQs are
\* masked, which every task is when it starts: it is taken if IRQs are unmasked
\* again and again (strong fairness).  No device is assumed to interrupt.
Fairness ==
  /\ WF_vars(Yield)
  /\ WF_vars(Wfe)
  /\ SF_vars(TimerIrq)

FairSpec == Spec /\ Fairness

-----------------------------------------------------------------------------
\* Every variable stays in its range (the fields of task_t and the statics of
\* scheduler.c and timer.c).
TypeOK ==
  /\ state \in [Tasks -> TaskStates]
  /\ system \in [Tasks -> BOOLEAN]
  /\ wakeup_tick \in [Tasks -> Nat]
  /\ runtime_ticks \in [Tasks -> 0 .. TickBound]
  /\ current \in Tasks \cup {NoTask}
  /\ ticks \in 0 .. TickBound
  /\ last_switch \in 0 .. ticks
  /\ pc \in [Tasks -> PcValues]
  /\ masked \in BOOLEAN
  /\ event \in BOOLEAN

\* RUNNING is exactly the task that owns the CPU and has not yet marked itself
\* otherwise: no second RUNNING task after any mix of switches, and a task that
\* came back from scheduler_yield is never left READY or BLOCKED
\* (scheduler.c:255-258, 279, 292).
CpuOwner ==
  \A t \in Tasks :
    state[t] = "RUNNING" <=> t = current /\ (t = Idle \/ pc[t] # "yield")

\* Whenever a task, or main(), may call scheduler_yield there is a task to
\* switch to: neither blocking, stopping nor exiting tasks can lead to the panic
\* "no runnable task" of scheduler.c:267.
NeverPanics ==
  (Booting \/ pc[current] # "wfe")
    => \E n \in Tasks : PickNext(AfterYield(state, current), current, n)

\* A tick wakes every sleeper whose time has come: none oversleeps, whatever it
\* was doing between setting SLEEPING and yielding (timer.c:13-30,
\* scheduler.c:367-373).
NoOverdueSleeper ==
  \A t \in Tasks : state[t] = "SLEEPING" => wakeup_tick[t] > ticks

\* The core never waits in wfe with IRQs masked, where no interrupt could end
\* the wait.  The idle task, like every task, starts with IRQs masked; it gets
\* past its first wfe on the event register alone (scheduler.c:73-80, 308).
NoMaskedWait ==
  ~ (current = Idle /\ pc[Idle] = "wfe" /\ masked /\ ~event)

\* The core does not sleep in wfe while another task is READY: an interrupt that
\* wakes a task between the idle task's scheduler_yield and its wfe is not lost
\* (scheduler.c:77-78).
NoReadyWhileAsleep ==
  (current = Idle /\ pc[Idle] = "wfe" /\ ~event)
    => \A t \in Tasks \ {Idle} : state[t] # "READY"

\* The idle task's wfe is safe: an interrupt can always end it, and no task waits
\* for the CPU meanwhile.  Its step from scheduler_yield to wfe and every handler
\* that runs in between count (scheduler.c:73-80).
IdleWaitSafe == NoMaskedWait /\ NoReadyWhileAsleep

\* No tick is charged twice: what the tasks of the table have been charged
\* together never exceeds the time of the last switch (scheduler.c:232-244).
RuntimeAccounted ==
  MapThenSumSet(LAMBDA t : runtime_ticks[t], Tasks) <= last_switch

\* A task that is DYING is never scheduled, woken or put to sleep again; it can
\* only be reaped (task.c:146-147, scheduler.c:155, timer.c:24).
StoppedStaysStopped ==
  [][\A t \in Tasks : state[t] = "DYING" => state'[t] \in {"DYING", "UNUSED"}]_vars

\* The switch away from a task does not free its slot: context_switch still
\* stores into prev->sp, on that task's stack (task.c:191-194, scheduler.c:300).
SwitchKeepsCallerSlot ==
  [][current # NoTask /\ current' # current => state'[current] # "UNUSED"]_vars

\* Round robin: a READY task gets the CPU, unless it is stopped first, however
\* often the others are woken (scheduler.c:181-200).
ReadyRuns ==
  \A t \in Tasks \ {Idle} :
    state[t] = "READY" ~> state[t] \in {"RUNNING", "DYING", "UNUSED"}
=============================================================================
