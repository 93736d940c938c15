----------------------------- MODULE TaskTable -----------------------------
(***************************************************************************)
(* The task table of src/kernel/sched/task.c and the decisions the         *)
(* scheduler takes over it (src/kernel/sched/scheduler.c), as operators on *)
(* a function st from slots to task states.  Every module that has tasks   *)
(* builds its actions from these.                                          *)
(*                                                                         *)
(* The operators that search the table are relations rather than CHOOSEn   *)
(* values, so that a proof has only their defining property to use.        *)
(***************************************************************************)
EXTENDS Integers

CONSTANT MaxTasks   \* MAX_TASKS, 32 in the code

\* scheduler_init takes slot 0 for the idle task; a table with no other slot
\* could run nothing.
ASSUME MaxTasksAssumption == MaxTasks \in Nat /\ MaxTasks >= 2

Tasks == 0 .. MaxTasks - 1

TaskStates == {"UNUSED", "READY", "RUNNING", "BLOCKED", "SLEEPING", "DYING"}

\* current_task_id, and every registered task id, before it is set.
NoTask == -1

\* task_init_system runs before scheduler_init creates the idle task, so the
\* idle task always has the first slot.
Idle == 0

-----------------------------------------------------------------------------
\* Slot i is the one task_create takes: the first unused one.
FirstUnused(st, i) ==
  /\ i \in Tasks
  /\ st[i] = "UNUSED"
  /\ \A j \in Tasks : j < i => st[j] # "UNUSED"

\* Faulty variant: the state is not looked at before it is overwritten.
WakeupUnchecked(st, id) == [i \in Tasks |-> IF i = id /\ st[i] # "UNUSED"
                                              THEN "READY" ELSE st[i]]

\* The effect of task_wakeup_irq_disabled(id): only a BLOCKED task is woken.
Wakeup(st, id) ==
  [i \in Tasks |-> IF i = id /\ st[i] = "BLOCKED" THEN "READY" ELSE st[i]]

\* Faulty variant: an off-by-one in the comparison.
WakeSleepersLate(st, wakeup_tick, now) ==
  [i \in Tasks |-> IF st[i] = "SLEEPING" /\ wakeup_tick[i] < now
                     THEN "READY" ELSE st[i]]
\* timer_wake_sleeping_tasks: the sleepers whose tick has come become READY.
WakeSleepers(st, wakeup_tick, now) ==
  [i \in Tasks |-> IF st[i] = "SLEEPING" /\ wakeup_tick[i] <= now
                     THEN "READY" ELSE st[i]]

-----------------------------------------------------------------------------
\* Faulty variant: every search starts from slot 0, a fixed priority.
SlotFromZero(cur, offset) == offset % MaxTasks

\* The slots scheduler_pick_next visits, in order: offset 1, 2, ... from the
\* current task; before the scheduler runs it starts from slot 0.
Slot(cur, offset) == ((IF cur = NoTask THEN 0 ELSE cur) + offset) % MaxTasks

\* scheduler_pick_next: the first READY slot that is not the idle task's, else
\* the idle task if it is READY.  No n at all is the code's -1, a panic.
PickNext(st, cur, n) ==
  \/ \E k \in 1 .. MaxTasks :
       /\ n = Slot(cur, k)
       /\ n # Idle /\ st[n] = "READY"
       /\ \A j \in 1 .. k - 1 :
            Slot(cur, j) = Idle \/ st[Slot(cur, j)] # "READY"
  \/ /\ n = Idle /\ st[Idle] = "READY"
     /\ \A i \in Tasks \ {Idle} : st[i] # "READY"

\* Faulty variant: exclude_id is not excluded.
ReapedAll(st, cur) == {i \in Tasks : st[i] = "DYING"}

\* task_reap_dying(cur): the slots it clears.
Reaped(st, cur) == {i \in Tasks \ {cur} : st[i] = "DYING"}

\* Faulty variant: the caller is not put back to READY.
AfterYieldStillRunning(st, cur) ==
  [i \in Tasks |-> IF i \in Reaped(st, cur) THEN "UNUSED" ELSE st[i]]

\* What scheduler_yield does to the table before it picks: the caller, if still
\* RUNNING, goes back to READY, and every DYING task but the caller is reaped.
AfterYield(st, cur) ==
  [i \in Tasks |-> IF i \in Reaped(st, cur) THEN "UNUSED"
                   ELSE IF i = cur /\ st[i] = "RUNNING" THEN "READY"
                   ELSE st[i]]

\* One pass of scheduler_yield over the table: cur gives up the CPU to n.
Switch(st, cur, n, after) ==
  /\ PickNext(AfterYield(st, cur), cur, n)
  /\ after = [AfterYield(st, cur) EXCEPT ![n] = "RUNNING"]
=============================================================================
