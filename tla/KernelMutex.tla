---------------------------- MODULE KernelMutex ----------------------------
(***************************************************************************)
(* The kernel's mutexes (src/kernel/sync/mutex.c) among the tasks of the   *)
(* scheduler.  Two mutexes exist: the I2C bus lock (rpi4/drivers/i2c_bus.c)*)
(* and the UART output lock (rpi4/drivers/uart.c); a task that holds the   *)
(* first may take the second, never the other way round.                   *)
(*                                                                         *)
(* A task that is queued on a mutex may be woken by others (StrayWoken),   *)
(* and a task may be stopped anywhere outside its own steps, in mutex_lock *)
(* and in its critical section too.  Ticks, the IRQ mask of new tasks and  *)
(* the event register are in Sched and are left out here.                  *)
(***************************************************************************)
EXTENDS WaitQueue, FiniteSets

CONSTANTS
  Mutexes,     \* numbers, in the order a task may take them
  DeviceLocks, \* mutexes that a task may hold while it waits for a device
  BootTasks,   \* the idle task and the services, which are never stopped
  Commanders,  \* services that start and stop applications: the shell, and the
               \* joystick task in its menu
  StrayWoken,  \* tasks that a handler or task_wakeup may wake whatever they
               \* are blocked on: shell (uart_handle_irq), joystick
               \* (handle_gpio_irq), LED task (led_submit_frame), the HDMI
               \* renderer, tictactoe (its event handler)
  Stoppable,   \* slots whose tasks task_request_stop may hit
  OneAppOnly   \* mutexes that one application at a time uses: the bus lock, which
               \* only env_task takes, and the shell starts no second one

ASSUME KernelMutexAssumption ==
  /\ Mutexes \subseteq Nat \ {0} /\ DeviceLocks \subseteq Mutexes
  /\ BootTasks \in 2 .. MaxTasks
  /\ Commanders \subseteq 1 .. BootTasks - 1
  /\ StrayWoken \subseteq Tasks
  /\ Stoppable \subseteq BootTasks .. MaxTasks - 1
  /\ OneAppOnly \subseteq Mutexes

NoMutex == 0
\* The holder of a mutex whose task was stopped in its critical section.
LostTask == -2

VARIABLES
  state,    \* task_t.state
  current,  \* current_task_id
  pc,       \* "run": own code, "try": top of mutex_lock's loop,
            \* "yield": BLOCKED set, scheduler_yield next
  want,     \* the mutex whose mutex_lock the task is in, or NoMutex
  held,     \* the mutexes between whose lock and unlock the task's code is
  locked,   \* mutex_t.locked
  owner,    \* mutex_t.owner
  waiters   \* mutex_t.waiters

taskVars == <<state, current, pc>>
mutexVars == <<locked, owner, waiters>>
vars == <<taskVars, want, held, mutexVars>>

Running(t) == current = t /\ t \in Tasks \ {Idle}

\* mutex_init, and the boot tasks in their slots.
Init ==
  /\ state = [i \in Tasks |-> IF i < BootTasks THEN "READY" ELSE "UNUSED"]
  /\ current = NoTask
  /\ pc = [i \in Tasks |-> "run"]
  /\ want = [i \in Tasks |-> NoMutex]
  /\ held = [i \in Tasks |-> {}]
  /\ locked = [m \in Mutexes |-> FALSE]
  /\ owner = [m \in Mutexes |-> NoTask]
  /\ waiters = [m \in Mutexes |-> {}]

\* scheduler_yield.  The caller resumes in its own code, or at the top of the
\* loop in mutex_lock.  A reaped task's code is gone, with what it held or
\* wanted; the mutexes are not told.
Yield ==
  /\ IF current = NoTask THEN TRUE ELSE pc[current] # "try"
  /\ \E n \in Tasks : Switch(state, current, n, state') /\ current' = n
  /\ LET dead == Reaped(state, current)
     IN  /\ pc' = [i \in Tasks |->
                     IF i \in dead THEN "run"
                     ELSE IF i = current
                       THEN IF want[i] = NoMutex THEN "run" ELSE "try"
                     ELSE pc[i]]
         /\ want' = [i \in Tasks |-> IF i \in dead THEN NoMutex ELSE want[i]]
         /\ held' = [i \in Tasks |-> IF i \in dead THEN {} ELSE held[i]]
  /\ UNCHANGED mutexVars

\* An application other than t that is not stopped uses m.
UsedBesides(t, m) ==
  \E u \in (BootTasks .. MaxTasks - 1) \ {t} :
    state[u] # "DYING" /\ (want[u] = m \/ m \in held[u])

\* A task calls mutex_lock(m).
Lock(t, m) ==
  /\ Running(t) /\ pc[t] = "run"
  /\ \A h \in held[t] : h < m
  /\ t >= BootTasks /\ m \in OneAppOnly => ~ UsedBesides(t, m)
  /\ want' = [want EXCEPT ![t] = m]
  /\ pc' = [pc EXCEPT ![t] = "try"]
  /\ UNCHANGED <<state, current, held, mutexVars>>

\* Faulty variant: the lock is taken although it is locked by somebody who is
\* not running.
AcquireStealing(t) ==
  /\ Running(t) /\ pc[t] = "try"
  /\ LET m == want[t]
     IN  /\ locked[m] => owner[m] # t /\ state[owner[m]] = "READY"
         /\ locked' = [locked EXCEPT ![m] = TRUE]
         /\ owner' = [owner EXCEPT ![m] = t]
         /\ held' = [held EXCEPT ![t] = @ \cup {m}]
  /\ want' = [want EXCEPT ![t] = NoMutex]
  /\ pc' = [pc EXCEPT ![t] = "run"]
  /\ UNCHANGED <<state, current, waiters>>

\* Faulty variant: a mutex whose owner has the caller's id counts as free.
AcquireReentrant(t) ==
  /\ Running(t) /\ pc[t] = "try"
  /\ LET m == want[t]
     IN  /\ locked[m] => owner[m] = t
         /\ locked' = [locked EXCEPT ![m] = TRUE]
         /\ owner' = [owner EXCEPT ![m] = t]
         /\ held' = [held EXCEPT ![t] = @ \cup {m}]
  /\ want' = [want EXCEPT ![t] = NoMutex]
  /\ pc' = [pc EXCEPT ![t] = "run"]
  /\ UNCHANGED <<state, current, waiters>>

\* One turn of the loop in mutex_lock that finds the mutex free.
Acquire(t) ==
  /\ Running(t) /\ pc[t] = "try"
  /\ LET m == want[t]
     IN  /\ ~locked[m]
         /\ locked' = [locked EXCEPT ![m] = TRUE]
         /\ owner' = [owner EXCEPT ![m] = t]
         /\ held' = [held EXCEPT ![t] = @ \cup {m}]
  /\ want' = [want EXCEPT ![t] = NoMutex]
  /\ pc' = [pc EXCEPT ![t] = "run"]
  /\ UNCHANGED <<state, current, waiters>>

\* One that finds it locked: queue, BLOCKED, and on to scheduler_yield.
Enqueue(t) ==
  /\ Running(t) /\ pc[t] = "try"
  /\ locked[want[t]]
  /\ waiters' = [waiters EXCEPT ![want[t]] = @ \cup {t}]
  /\ state' = [state EXCEPT ![t] = "BLOCKED"]
  /\ pc' = [pc EXCEPT ![t] = "yield"]
  /\ UNCHANGED <<current, want, held, locked, owner>>

\* mutex_unlock(m), by the task that locked it.
Unlock(t, m) ==
  /\ Running(t) /\ pc[t] = "run"
  /\ m \in held[t] /\ \A h \in held[t] : h <= m
  /\ locked' = [locked EXCEPT ![m] = FALSE]
  /\ owner' = [owner EXCEPT ![m] = NoTask]
  /\ waiters' = [waiters EXCEPT ![m] = QueueAfterWake(@, state)]
  /\ state' = StateAfterWake(waiters[m], state)
  /\ held' = [held EXCEPT ![t] = @ \ {m}]
  /\ UNCHANGED <<current, pc, want>>

\* A task blocks until a device wakes it: an I2C transfer with the bus lock
\* held, console input, joystick input or an LED frame with no lock held.
WaitForDevice(t) ==
  /\ Running(t) /\ pc[t] = "run"
  /\ held[t] \subseteq DeviceLocks
  /\ state' = [state EXCEPT ![t] = "BLOCKED"]
  /\ pc' = [pc EXCEPT ![t] = "yield"]
  /\ UNCHANGED <<current, want, held, mutexVars>>

\* An interrupt handler, or task_wakeup from a task, wakes task id: the device
\* it waits for, or one that does not ask what it waits for.
DeviceWakeup(id) ==
  /\ state[id] = "BLOCKED"
  /\ want[id] = NoMutex \/ id \in StrayWoken
  /\ state' = Wakeup(state, id)
  /\ UNCHANGED <<current, pc, want, held, mutexVars>>

\* A command runs in its service's own code, with no mutex held.
InCommand(t) == Running(t) /\ t \in Commanders /\ pc[t] = "run" /\ held[t] = {}

\* task_request_stop(id) by a command: it does not ask what id is doing, which
\* may be waiting for a mutex or holding one.
RequestStop(t, id) ==
  /\ InCommand(t)
  /\ id \in Stoppable /\ state[id] \notin {"UNUSED", "DYING"}
  /\ state' = [state EXCEPT ![id] = "DYING"]
  /\ UNCHANGED <<current, pc, want, held, mutexVars>>

\* task_create by a command: the slot may have belonged to a stopped task.
Create(t) ==
  /\ InCommand(t)
  /\ \E i \in Tasks :
       FirstUnused(state, i) /\ state' = [state EXCEPT ![i] = "READY"]
  /\ UNCHANGED <<current, pc, want, held, mutexVars>>

\* An application's entry function returns: it holds nothing by then.
Exit(t) ==
  /\ Running(t) /\ t >= BootTasks /\ pc[t] = "run" /\ held[t] = {}
  /\ state' = [state EXCEPT ![t] = "DYING"]
  /\ pc' = [pc EXCEPT ![t] = "yield"]
  /\ UNCHANGED <<current, want, held, mutexVars>>

Next ==
  \/ Yield
  \/ \E t \in Tasks :
       \/ \E m \in Mutexes : Lock(t, m) \/ Unlock(t, m)
       \/ Acquire(t)
       \/ Enqueue(t)
       \/ WaitForDevice(t)
       \/ DeviceWakeup(t)
       \/ \E id \in Tasks : RequestStop(t, id)
       \/ Create(t)
       \/ Exit(t)

Spec == Init /\ [][Next]_vars

\* Tasks are cooperative: none keeps the CPU for ever, be it by locking and
\* unlocking in a loop (strong fairness), and a turn of mutex_lock's loop ends.
\* Nothing is assumed of the devices, nor that a critical section ends.
Fairness ==
  /\ SF_vars(Yield)
  /\ \A t \in Tasks : WF_vars(Acquire(t) \/ Enqueue(t))

FairSpec == Spec /\ Fairness

-----------------------------------------------------------------------------
\* Every variable stays in its range.
TypeOK ==
  /\ state \in [Tasks -> TaskStates]
  /\ current \in Tasks \cup {NoTask}
  /\ pc \in [Tasks -> {"run", "try", "yield"}]
  /\ want \in [Tasks -> Mutexes \cup {NoMutex}]
  /\ held \in [Tasks -> SUBSET Mutexes]
  /\ locked \in [Mutexes -> BOOLEAN]
  /\ owner \in [Mutexes -> Tasks \cup {NoTask}]
  /\ waiters \in [Mutexes -> SUBSET Tasks]

\* Mutual exclusion: two tasks are never between lock and unlock of the same
\* mutex, whatever wakes them and whoever is stopped; and the mutex says who is
\* (mutex.c:34-40).
MutualExclusion ==
  \A m \in Mutexes, t \in Tasks :
    m \in held[t] => /\ locked[m] /\ owner[m] = t
                     /\ \A u \in Tasks : m \in held[u] => u = t

\* t is BLOCKED in mutex_lock(m); u is in there and will look at m again.
Sleeps(t, m) == want[t] = m /\ state[t] = "BLOCKED"
Comes(u, m)  == want[u] = m /\ state[u] \in {"READY", "RUNNING"}

\* The mutex is free, and a task is BLOCKED on it that nobody is left to wake.
Stranded(m) == /\ ~locked[m]
               /\ \E t \in Tasks : Sleeps(t, m)
               /\ ~ \E u \in Tasks : Comes(u, m)

\* No release leaves its waiters BLOCKED on the free mutex.
\* docs/report/core_components.tex:30, "When the mutex is released, one waiting task
\* is woken up and can continue later."
NoLostWakeup == \A m \in Mutexes : ~ Stranded(m)

\* The unlock wakes a queued task that is BLOCKED on something else by now: its
\* bit was left by a wait that a handler or a stop has ended.
Misspent(m) ==
  \E u \in waiters[m] :
    state[u] = "BLOCKED" /\ want[u] # m /\ state'[u] = "READY"

\* A task that was on its way to the mutex is stopped.
Withdrawn(m) == \E u \in Tasks : Comes(u, m) /\ state'[u] = "DYING"

\* A mutex gets into that state in two ways only: its wake-up is spent on a bit
\* that outlived its wait (wait_queue.c:56-69), or the task that was woken is
\* stopped before it takes the mutex (task.c:174).  Every other unlock, retry,
\* stop, exit, reuse of a slot and early wake-up leaves each free mutex with
\* somebody to take it, or nobody BLOCKED.
WakeupsLostInTwoWays ==
  [][\A m \in Mutexes :
       ~ Stranded(m) /\ Stranded(m)' => Misspent(m) \/ Withdrawn(m)]_vars

\* A task that is BLOCKED in mutex_lock has its bit set in the queue of its mutex,
\* however often it was woken early and queued again, whatever the scans have
\* passed over, and whoever had its slot before (wait_queue.c:38, 54-70).
SleepersAreQueued ==
  \A m \in Mutexes, t \in Tasks : Sleeps(t, m) => t \in waiters[m]

\* The task whose critical section a locked mutex guards; none if that task was
\* stopped in it.
Holder(m) ==
  IF ~locked[m] THEN NoTask
  ELSE IF m \in held[owner[m]] /\ state[owner[m]] # "DYING" THEN owner[m]
  ELSE LostTask

\* The mutexes implement the abstract lock, with stops and early wake-ups as the
\* code has them: one holder, asked for and given back by itself; nobody goes to
\* sleep on a free mutex; what a stopped task held is never taken again, not even
\* by the task that gets its slot and so its id; a mutex that is free and wanted by
\* a task that is awake is taken in the end (mutex.c:28-70, task.c:151-204).
Promise ==
  INSTANCE AbstractLock WITH
    Users <- Tasks, Nobody <- NoTask, Lost <- LostTask, Nothing <- NoMutex,
    holder <- [m \in Mutexes |-> Holder(m)],
    wants <- [t \in Tasks |-> IF state[t] = "DYING" THEN NoMutex ELSE want[t]],
    asleep <- {t \in Tasks : want[t] # NoMutex /\ state[t] = "BLOCKED"}
ImplementsLock == Promise!LockSpec
=============================================================================
