-------------------------------- MODULE Diag --------------------------------
(***************************************************************************)
(* Diagnostic snapshots (src/kernel/debug/diag.c): for each task the ticks *)
(* it ran since the last snapshot, as the difference of its counter to a   *)
(* copy kept per slot, and the share of them that was not idle.  The       *)
(* command "diag" and the diagnostics dashboard take snapshots from the    *)
(* same copies, and slots of the task table change hands between them.     *)
(***************************************************************************)
EXTENDS Integers, FiniteSetsExt

CONSTANTS
  Slots,     \* task ids; the idle task has the least
  Wrap,      \* 2^64 in the code: bound
  MaxTicks   \* bound on the ticks charged to a task in its life

VARIABLES
  used,     \* slots whose task is not UNUSED
  runtime,  \* task_t.runtime_ticks
  last,     \* last_runtime_ticks
  known,    \* initialized
  snapshot, \* {the snapshot just taken, and what its period was}
  charged,  \* ticks charged to each present task in the period
  same      \* slots that had one task since the last snapshot

vars == <<used, runtime, last, known, snapshot, charged, same>>

IdleTask == Min(Slots)

Init ==
  /\ used = {IdleTask}
  /\ runtime = [s \in Slots |-> 0]
  /\ last = [s \in Slots |-> 0]
  /\ known = FALSE
  /\ snapshot = {}
  /\ charged = [s \in Slots |-> 0]
  /\ same = {}

\* scheduler_yield charges the task it leaves.
Charge(s, ticks) ==
  /\ s \in used /\ runtime[s] + ticks <= MaxTicks
  /\ runtime' = [runtime EXCEPT ![s] = @ + ticks]
  /\ charged' = [charged EXCEPT ![s] = @ + ticks]
  /\ snapshot' = {}
  /\ UNCHANGED <<used, last, known, same>>

\* task_create takes a slot that was cleared.
Create(s) ==
  /\ s \notin used
  /\ used' = used \cup {s}
  /\ snapshot' = {}
  /\ UNCHANGED <<runtime, last, known, charged, same>>

\* task_reap_dying, with task_clear: the counter goes, the copy stays.
Reap(s) ==
  /\ s \in used \ {IdleTask}
  /\ used' = used \ {s}
  /\ runtime' = [runtime EXCEPT ![s] = 0]
  /\ charged' = [charged EXCEPT ![s] = 0]
  /\ same' = same \ {s}
  /\ snapshot' = {}
  /\ UNCHANGED <<last, known>>

-----------------------------------------------------------------------------
SumOver(f, S) == MapThenSumSet(LAMBDA s : f[s], S)

\* diag_compute_busy_percent, in arithmetic modulo Wrap.
BusyPercent(total, idle) ==
  IF total = 0 \/ idle >= total THEN 0 ELSE (((total - idle) * 100) % Wrap) \div total

\* diag_init copies the counters at the first snapshot.
Copied == IF known THEN last ELSE runtime

\* Faulty variant: the copies are made at the first snapshot only.
CopyAfterFirst == Copied

\* The copies after a snapshot: slots that are UNUSED keep theirs.
CopyAfter == [s \in Slots |-> IF s \in used THEN runtime[s] ELSE Copied[s]]

\* What the percentage stands for: the share of the ticks charged that is not idle.
BusyShare ==
  LET total == SumOver(charged, used)
  IN  IF total = 0 THEN 0 ELSE ((total - charged[IdleTask]) * 100) \div total

\* diag_get_snapshot
Snapshot ==
  LET delta == [s \in used |-> (runtime[s] - Copied[s] + Wrap) % Wrap]
      total == SumOver(delta, used) % Wrap
  IN  /\ snapshot' = {[delta |-> delta, percent |-> BusyPercent(total, delta[IdleTask]),
                       charged |-> charged, same |-> same, share |-> BusyShare,
                       whole |-> known /\ used = same, first |-> ~ known]}
      /\ last' = CopyAfter
      /\ known' = TRUE
      /\ charged' = [s \in Slots |-> 0]
      /\ same' = used
      /\ UNCHANGED <<used, runtime>>

Next ==
  \/ \E s \in Slots : \/ \E ticks \in 1 .. MaxTicks : Charge(s, ticks)
                      \/ Create(s) \/ Reap(s)
  \/ Snapshot

Spec == Init /\ [][Next]_vars

-----------------------------------------------------------------------------
\* Whoever takes a snapshot, and whoever took the one before: the difference of a
\* task that was there then is what it was charged since, and if no slot changed
\* hands the percentage is the share of the period that was not idle
\* (diag.c:24-111, task.c:27-33).
DeltasCoverPeriod ==
  \A sn \in snapshot :
    /\ \A s \in sn.same : sn.delta[s] = sn.charged[s]
    /\ sn.whole => sn.percent = sn.share

\* The percentage is the share of the ticks charged to the tasks that are present
\* which was not the idle task's (diag.c:65-110): "CPU busy percentage" is what
\* the user manual says the snapshot contains.  It is not, when a slot has gone
\* from a task that had run to a new one.
BusyIsShare == \A sn \in snapshot : ~ sn.first => sn.percent = sn.share
=============================================================================
