------------------------------ MODULE EnvStore ------------------------------
(***************************************************************************)
(* The sample store of env_task (src/kernel/tasks/env_task.c): the latest  *)
(* sample and the history ring, written by the task, read by the shell and *)
(* the dashboards at any of its yields.  The task is stopped at any of     *)
(* them and started again, with a store that still holds its former data.  *)
(*                                                                         *)
(* Of a measured value the model keeps whether it was read in the turn     *)
(* that its sample names.  What sensors return is in Sensors.              *)
(***************************************************************************)
EXTENDS Integers, Sequences, SequencesExt

CONSTANTS
  HistorySize,  \* ENV_HISTORY_SIZE, 64 in the code
  Interval,     \* ENV_HISTORY_INTERVAL_TICKS, in units of
                \* ENV_SAMPLE_INTERVAL_TICKS: 30 in the code
  Late,         \* how many units late the task may be scheduled: bound
  MaxTick       \* bound on the ticks of a session

VARIABLES
  now,      \* timer_get_ticks, from the start of the session
  at,       \* where the task is, see below
  sample,   \* the task's local: its tick, and which values are of that turn
  latest,   \* env_store.latest
  history,  \* env_store.history
  write,    \* env_store.write_index
  count,    \* env_store.count
  last,     \* env_store.last_history_tick
  running,  \* env_store.running
  taken     \* the ticks of this session's complete samples

store == <<latest, history, write, count, last>>
vars  == <<now, at, sample, store, running, taken>>

\* The values of at:
\*   none      no env_task
\*   init      in the initialization of the sensors
\*   turn      at the top of the loop
\*   read      in the transfers of one turn
\*   sleep     in task_sleep

Quantities == {"pressure", "humidity", "temperature"}
Slots      == 0 .. HistorySize - 1
NoSample   == [tick |-> 0, valid |-> FALSE, own |-> {}]

Init ==
  /\ now = 0
  /\ at = "none"
  /\ sample = NoSample
  /\ latest = NoSample
  /\ history = [i \in Slots |-> NoSample]
  /\ write = 0 /\ count = 0 /\ last = 0
  /\ running = FALSE
  /\ taken = <<>>

\* Faulty variant: the ring goes on where the last session left it.
ClearedLatest ==
  /\ latest' = [latest EXCEPT !.valid = FALSE]
  /\ running' = FALSE
  /\ UNCHANGED <<history, write, count, last>>

\* env_init
Cleared ==
  /\ write' = 0 /\ count' = 0 /\ last' = 0
  /\ latest' = [latest EXCEPT !.valid = FALSE]
  /\ running' = FALSE
  /\ UNCHANGED history

\* env_task up to its sensors; its local is what the stack holds.
Start ==
  /\ at = "none"
  /\ now' = 0
  /\ Cleared
  /\ at' = "init"
  /\ taken' = <<>>
  /\ UNCHANGED sample

\* env_set_running(1)
InitDone ==
  /\ at = "init"
  /\ running' = TRUE
  /\ at' = "turn"
  /\ UNCHANGED <<now, sample, store, taken>>

\* A sensor is not available: env_set_running(0), and the task returns.
InitFails ==
  /\ at = "init"
  /\ running' = FALSE
  /\ at' = "none"
  /\ UNCHANGED <<now, sample, store, taken>>

\* shell_cmd_stop_id ends the task wherever it is, then marks it not running.
Stop ==
  /\ at # "none"
  /\ running' = FALSE
  /\ at' = "none"
  /\ UNCHANGED <<now, sample, store, taken>>

Turn ==
  /\ at = "turn"
  /\ sample' = [sample EXCEPT !.valid = FALSE, !.tick = now, !.own = {}]
  /\ at' = "read"
  /\ UNCHANGED <<now, store, running, taken>>

Following(i) == (i + 1) % HistorySize

\* env_push
Push(s) ==
  LET stored == [s EXCEPT !.valid = TRUE]
      due    == count = 0 \/ s.tick - last >= Interval
  IN  /\ latest' = stored
      /\ IF due
           THEN /\ history' = [history EXCEPT ![write] = stored]
                /\ write' = Following(write)
                /\ count' = IF count < HistorySize THEN count + 1 ELSE count
                /\ last' = s.tick
           ELSE UNCHANGED <<history, write, count, last>>

\* The rest of a turn: all three transfers are made, those of ok bring a value; a
\* sample that misses one is not stored.
Read(ok) ==
  LET s == [sample EXCEPT !.own = ok]
  IN  /\ at = "read"
      /\ IF ok = Quantities
           THEN /\ sample' = [s EXCEPT !.valid = TRUE]
                /\ Push(s)
                /\ taken' = Append(taken, s.tick)
           ELSE /\ sample' = s
                /\ UNCHANGED <<store, taken>>
      /\ at' = "sleep"
      /\ UNCHANGED <<now, running>>

\* task_sleep returns, on time or later.
Wake(late) ==
  /\ at = "sleep"
  /\ now + 1 + late <= MaxTick
  /\ now' = now + 1 + late
  /\ at' = "turn"
  /\ UNCHANGED <<sample, store, running, taken>>

Next ==
  \/ Start \/ InitDone \/ InitFails \/ Stop \/ Turn
  \/ \E ok \in SUBSET Quantities : Read(ok)
  \/ \E late \in 0 .. Late : Wake(late)

Spec == Init /\ [][Next]_vars

-----------------------------------------------------------------------------
\* env_get_latest, as the set of what it returns.
GetLatest == IF running /\ latest.valid THEN {latest} ELSE {}

Fewer(a, b) == IF a < b THEN a ELSE b

\* env_get_history
GetHistory(max) ==
  LET n     == Fewer(max, count)
      start == (write + HistorySize - n) % HistorySize
  IN  IF ~ running THEN <<>>
      ELSE [i \in 1 .. n |-> history[(start + i - 1) % HistorySize]]

\* The ticks a history of unbounded length would hold: the first complete sample,
\* and then each that is Interval later than the one before it there.
Spaced ==
  FoldLeft(LAMBDA s, t : IF s = <<>> \/ t - Last(s) >= Interval THEN Append(s, t) ELSE s,
           <<>>, taken)

Whole(t) == [tick |-> t, valid |-> TRUE, own |-> Quantities]

\* While the task runs, a reader at any of its yields gets data of this session
\* only: as the latest sample the last complete one, with three values of one
\* turn, and as the history the newest of the spaced samples, the oldest first,
\* however the ring has wrapped and whatever a stopped session left in it
\* (env_task.c:73-84, 122-220, 274-312).
StoreIsRecentPast ==
  running =>
    /\ GetLatest = IF taken = <<>> THEN {} ELSE {Whole(Last(taken))}
    /\ \A max \in 1 .. HistorySize + 1 :
         LET n == Fewer(max, Fewer(HistorySize, Len(Spaced)))
         IN  GetHistory(max) = [i \in 1 .. n |-> Whole(Spaced[Len(Spaced) - n + i])]
=============================================================================
