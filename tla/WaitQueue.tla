----------------------------- MODULE WaitQueue -----------------------------
(***************************************************************************)
(* wait_queue_t of src/kernel/sync/wait_queue.c: a bit mask of task ids,   *)
(* here the set of ids whose bit is set.  Mutexes and condition variables  *)
(* are built on it.                                                        *)
(***************************************************************************)
EXTENDS TaskTable

\* The queued tasks that are BLOCKED, on this queue or on anything else: the
\* mask does not say what a task waits for.
Blocked(queue, st) == {i \in queue : st[i] = "BLOCKED"}

\* Faulty variant: the mask is cleared as a whole.
QueueAfterWakeEmpty(queue, st) == {}

\* wait_queue_wake_task_irq_disabled: the mask is scanned from id 0, every bit
\* met is cleared, and the scan ends at the first task that is BLOCKED.
QueueAfterWake(queue, st) ==
  {j \in queue : \E i \in Blocked(queue, st) : i < j}

\* Faulty variant: the scan ends at the first bit, whatever its task's state.
StateAfterWakeFirst(queue, st) ==
  [i \in Tasks |-> IF i \in Blocked(queue, st) /\ \A j \in queue : i <= j
                     THEN "READY" ELSE st[i]]

\* The same scan's effect on the task table: that first BLOCKED task is READY.
StateAfterWake(queue, st) ==
  [i \in Tasks |-> IF /\ i \in Blocked(queue, st)
                      /\ \A j \in Blocked(queue, st) : i <= j
                     THEN "READY" ELSE st[i]]
=============================================================================
