---------------------------- MODULE SchedProofs ----------------------------
(***************************************************************************)
(* Safety of the scheduler for a table of any size, any number of boot     *)
(* tasks and any bounds: every property below is read off one inductive    *)
(* invariant, IInv.  The last theorem, RoundRobin, is what makes ReadyRuns *)
(* true: a switch that passes a READY task over comes nearer to it.        *)
(***************************************************************************)
EXTENDS Sched, TaskTableProofs, TLAPS

\* No task has been charged more than the time up to the last switch.
ChargedAtMost == \A t \in Tasks : runtime_ticks[t] <= last_switch

\* The idle task is a system task that only ever waits for its turn.
IdleRunnable == system[Idle] /\ state[Idle] \in {"READY", "RUNNING"}

\* Where the current task can be: the idle task in its loop, any other task in
\* its own code or on its way to scheduler_yield.
PcOfCurrent ==
  /\ current = Idle => pc[Idle] \in {"wfe", "yield"}
  /\ current \in Tasks \ {Idle} => pc[current] \in {"run", "yield"}

\* The slot of the running task is in use, even when the task is exiting.
CurrentInUse == current \in Tasks => state[current] # "UNUSED"

\* Until the idle task's first wfe nothing clears the event register, and later
\* the idle task reaches its wfe with IRQs enabled.
FirstWfe ==
  /\ pc[Idle] = "fresh" => event
  /\ current = Idle /\ pc[Idle] = "wfe" /\ masked => event

IInv ==
  /\ TypeOK
  /\ ChargedAtMost
  /\ IdleRunnable
  /\ PcOfCurrent
  /\ CurrentInUse
  /\ CpuOwner
  /\ FirstWfe
  /\ NoOverdueSleeper
  /\ NoReadyWhileAsleep

-----------------------------------------------------------------------------
LEMMA InitInv == Init => IInv
<1> SUFFICES ASSUME Init PROVE IInv
  OBVIOUS
<1> USE IdleIsTask
<1>1. TypeOK
  <2>1. state \in [Tasks -> TaskStates]
    BY DEF Init, TaskStates
  <2>2. system \in [Tasks -> BOOLEAN]
    <3>1. \A i \in Tasks : (i < BootTasks) \in BOOLEAN
      OBVIOUS
    <3> QED
      BY <3>1, Zenon DEF Init
  <2>3. /\ wakeup_tick \in [Tasks -> Nat] /\ runtime_ticks \in [Tasks -> 0 .. TickBound]
        /\ ticks \in 0 .. TickBound /\ last_switch \in 0 .. ticks
    BY SchedAssumption DEF Init
  <2>4. pc \in [Tasks -> PcValues]
    BY DEF Init, PcValues
  <2>5. current \in Tasks \cup {NoTask} /\ masked \in BOOLEAN /\ event \in BOOLEAN
    BY DEF Init
  <2> QED
    BY <2>1, <2>2, <2>3, <2>4, <2>5 DEF TypeOK
<1>2. IdleRunnable
  <2>1. Idle < BootTasks
    BY SchedAssumption DEF Idle
  <2> QED
    BY <2>1 DEF Init, IdleRunnable
<1>3. CpuOwner
  BY DEF Init, CpuOwner
<1> QED
  BY <1>1, <1>2, <1>3 DEF IInv, ChargedAtMost, PcOfCurrent, CurrentInUse, FirstWfe,
                          NoOverdueSleeper, NoReadyWhileAsleep, Init

LEMMA YieldInv == IInv /\ Yield => IInv'
<1> SUFFICES ASSUME IInv, Yield PROVE IInv'
  OBVIOUS
<1> USE IdleIsTask
<1>1. PICK n \in Tasks :
        /\ Switch(state, current, n, state')
        /\ current' = n
        /\ masked' = MaskedAfterSwitch(n)
        /\ pc' = [i \in Tasks |->
                   IF i = n THEN IF n = Idle THEN "wfe" ELSE "run"
                   ELSE IF i = current THEN "run"
                   ELSE IF i \in Reaped(state, current) THEN "fresh"
                   ELSE pc[i]]
  BY DEF Yield
<1>2. state \in [Tasks -> TaskStates] /\ TypeOK
  BY DEF IInv, TypeOK
<1>3. /\ state' \in [Tasks -> TaskStates]
      /\ state'[n] = "RUNNING"
      /\ state[n] = "READY" \/ (n = current /\ state[n] = "RUNNING")
      /\ \A i \in Tasks \ {n} :
           state'[i] = IF i \in Reaped(state, current) THEN "UNUSED"
                       ELSE IF i = current /\ state[i] = "RUNNING" THEN "READY"
                       ELSE state[i]
      /\ n \notin Reaped(state, current)
      /\ n = Idle => \A i \in Tasks \ {Idle} : state'[i] # "READY"
  BY <1>1, <1>2, SwitchEffect
<1>4. Idle \notin Reaped(state, current)
  BY DEF Reaped, IInv, IdleRunnable
<1>5. /\ runtime_ticks' = [i \in Tasks |->
           IF i \in Reaped(state, current) THEN 0
           ELSE IF i = current THEN runtime_ticks[i] + (ticks - last_switch)
           ELSE runtime_ticks[i]]
      /\ last_switch' = ticks
      /\ system' = [i \in Tasks |->
           IF i \in Reaped(state, current) THEN FALSE ELSE system[i]]
      /\ wakeup_tick' = [i \in Tasks |->
           IF i \in Reaped(state, current) THEN 0 ELSE wakeup_tick[i]]
      /\ ticks' = ticks /\ event' = event
  BY DEF Yield, Elapsed
<1>6. ChargedAtMost /\ ticks \in Nat /\ last_switch \in Nat /\ last_switch <= ticks
      /\ ticks <= TickBound /\ TickBound \in Nat
  BY <1>2, SchedAssumption DEF IInv, TypeOK
<1>7. TypeOK' /\ ChargedAtMost'
  <2>1. \A t \in Tasks : runtime_ticks[t] \in Nat /\ runtime_ticks[t] <= last_switch
    BY <1>2, <1>6 DEF TypeOK, ChargedAtMost
  <2>2. \A t \in Tasks : runtime_ticks'[t] \in Nat /\ runtime_ticks'[t] <= ticks
    BY <1>5, <1>6, <2>1
  <2>3. runtime_ticks' \in [Tasks -> 0 .. TickBound]
    BY <1>5, <1>6, <2>2
  <2>4. ChargedAtMost'
    BY <1>5, <2>2 DEF ChargedAtMost
  <2>5. system' \in [Tasks -> BOOLEAN]
    BY <1>5, <1>2 DEF TypeOK
  <2>6. wakeup_tick' \in [Tasks -> Nat]
    BY <1>5, <1>2 DEF TypeOK
  <2>7. pc' \in [Tasks -> PcValues]
    BY <1>1, <1>2 DEF TypeOK, PcValues
  <2>8. masked' \in BOOLEAN /\ event' \in BOOLEAN /\ current' \in Tasks
    BY <1>1, <1>2, <1>5, Zenon DEF TypeOK, MaskedAfterSwitch
  <2>9. ticks' \in 0 .. TickBound /\ last_switch' \in 0 .. ticks'
    BY <1>5, <1>6
  <2> QED
    BY <2>3, <2>4, <2>5, <2>6, <2>7, <2>8, <2>9, <1>3 DEF TypeOK
<1>8. IdleRunnable'
  BY <1>3, <1>4, <1>5, <1>2 DEF IInv, IdleRunnable, TypeOK
<1>9. PcOfCurrent' /\ CurrentInUse'
  BY <1>1, <1>3 DEF PcOfCurrent, CurrentInUse
<1>10. CpuOwner'
  <2> SUFFICES ASSUME NEW t \in Tasks
               PROVE  state'[t] = "RUNNING" <=> t = n /\ (t = Idle \/ pc'[t] # "yield")
    BY <1>1 DEF CpuOwner
  <2>1. CASE t = n
    BY <2>1, <1>1, <1>3
  <2>2. CASE t # n
    <3>1. state'[t] # "RUNNING"
      BY <2>2, <1>3 DEF IInv, CpuOwner
    <3> QED
      BY <2>2, <3>1
  <2> QED
    BY <2>1, <2>2
<1>11. FirstWfe'
  <2>1. pc'[Idle] = "fresh" => event'
    BY <1>1, <1>4, <1>5 DEF IInv, FirstWfe
  <2>2. n = Idle /\ masked' => event'
    BY <1>1, <1>5 DEF IInv, FirstWfe, MaskedAfterSwitch
  <2> QED
    BY <2>1, <2>2, <1>1 DEF FirstWfe
<1>12. NoOverdueSleeper'
  BY <1>3, <1>5 DEF IInv, NoOverdueSleeper
<1>13. NoReadyWhileAsleep'
  BY <1>1, <1>3 DEF NoReadyWhileAsleep
<1> QED
  BY <1>7, <1>8, <1>9, <1>10, <1>11, <1>12, <1>13 DEF IInv

\* The actions that leave the table, the flags and the accounting alone, or only
\* mark tasks in it: it is enough to look at the parts of IInv they can disturb.
LEMMA WfeInv == IInv /\ Wfe => IInv'
<1> SUFFICES ASSUME IInv, Wfe PROVE IInv'
  OBVIOUS
<1> USE IdleIsTask DEF Wfe
<1>1. TypeOK'
  BY DEF IInv, TypeOK, PcValues
<1>2. CpuOwner'
  BY DEF IInv, CpuOwner, TypeOK
<1> QED
  BY <1>1, <1>2 DEF IInv, TypeOK, ChargedAtMost, IdleRunnable, PcOfCurrent, CurrentInUse, FirstWfe,
                    NoOverdueSleeper, NoReadyWhileAsleep

LEMMA BlockInv == ASSUME NEW t \in Tasks PROVE IInv /\ Block(t) => IInv'
<1> SUFFICES ASSUME IInv, Block(t) PROVE IInv'
  OBVIOUS
<1> USE IdleIsTask DEF Block, Running
<1>1. TypeOK'
  BY DEF IInv, TypeOK, PcValues, TaskStates
<1>2. CpuOwner'
  BY DEF IInv, CpuOwner, TypeOK
<1> QED
  BY <1>1, <1>2 DEF IInv, TypeOK, ChargedAtMost, IdleRunnable, PcOfCurrent, CurrentInUse, FirstWfe,
                    NoOverdueSleeper, NoReadyWhileAsleep

LEMMA SleepInv ==
  ASSUME NEW t \in Tasks, NEW n \in 1 .. MaxSleep PROVE IInv /\ Sleep(t, n) => IInv'
<1> SUFFICES ASSUME IInv, Sleep(t, n) PROVE IInv'
  OBVIOUS
<1> USE IdleIsTask, SchedAssumption DEF Sleep, Running
<1>0. wakeup_tick' \in [Tasks -> Nat]
  <2>1. ticks + n \in Nat
    BY DEF IInv, TypeOK
  <2> QED
    BY <2>1 DEF IInv, TypeOK
<1>1. TypeOK'
  <2>1. state' \in [Tasks -> TaskStates] /\ pc' \in [Tasks -> PcValues]
    BY DEF IInv, TypeOK, PcValues, TaskStates
  <2> QED
    BY <1>0, <2>1 DEF IInv, TypeOK
<1>2. CpuOwner'
  BY DEF IInv, CpuOwner, TypeOK
<1>3. NoOverdueSleeper'
  BY DEF IInv, TypeOK, NoOverdueSleeper
<1> QED
  BY <1>1, <1>2, <1>3 DEF IInv, TypeOK, ChargedAtMost, IdleRunnable, PcOfCurrent,
                          CurrentInUse, FirstWfe, NoReadyWhileAsleep

LEMMA ExitInv == ASSUME NEW t \in Tasks PROVE IInv /\ Exit(t) => IInv'
<1> SUFFICES ASSUME IInv, Exit(t) PROVE IInv'
  OBVIOUS
<1> USE IdleIsTask DEF Exit, Running
<1>1. TypeOK'
  BY DEF IInv, TypeOK, PcValues, TaskStates
<1>2. CpuOwner'
  BY DEF IInv, CpuOwner, TypeOK
<1> QED
  BY <1>1, <1>2 DEF IInv, TypeOK, ChargedAtMost, IdleRunnable, PcOfCurrent, CurrentInUse, FirstWfe,
                    NoOverdueSleeper, NoReadyWhileAsleep

LEMMA CreateInv == ASSUME NEW t \in Tasks PROVE IInv /\ Create(t) => IInv'
<1> SUFFICES ASSUME IInv, Create(t) PROVE IInv'
  OBVIOUS
<1> USE IdleIsTask
<1>1. PICK i \in Tasks :
        /\ state[i] = "UNUSED"
        /\ state' = [state EXCEPT ![i] = "READY"]
        /\ pc' = [pc EXCEPT ![i] = "fresh"]
        /\ system' = [system EXCEPT ![i] = FALSE]
        /\ wakeup_tick' = [wakeup_tick EXCEPT ![i] = 0]
  BY DEF Create, FirstUnused
<1>2. /\ current = t /\ t \in Tasks \ {Idle} /\ pc[t] = "run"
      /\ UNCHANGED <<runtime_ticks, current, last_switch, ticks, masked, event>>
  BY DEF Create, Running
<1>3. i # Idle /\ i # t
  BY <1>1, <1>2 DEF IInv, IdleRunnable, CpuOwner
<1>4. TypeOK'
  <2>1. system' \in [Tasks -> BOOLEAN]
    BY <1>1, Zenon DEF IInv, TypeOK
  <2>2. /\ state' \in [Tasks -> TaskStates] /\ pc' \in [Tasks -> PcValues]
        /\ wakeup_tick' \in [Tasks -> Nat]
    BY <1>1 DEF IInv, TypeOK, PcValues, TaskStates
  <2>3. /\ runtime_ticks' = runtime_ticks /\ current' = current /\ ticks' = ticks
        /\ last_switch' = last_switch /\ masked' = masked /\ event' = event
    BY <1>2
  <2> QED
    BY <2>1, <2>2, <2>3, Zenon DEF IInv, TypeOK
<1>5. CpuOwner'
  BY <1>1, <1>2, <1>3 DEF IInv, CpuOwner, TypeOK
<1>6. IdleRunnable'
  BY <1>1, <1>3 DEF IInv, IdleRunnable, TypeOK
<1> QED
  BY <1>1, <1>2, <1>3, <1>4, <1>5, <1>6
     DEF IInv, TypeOK, ChargedAtMost, PcOfCurrent, CurrentInUse, FirstWfe, NoOverdueSleeper,
         NoReadyWhileAsleep

LEMMA RequestStopInv ==
  ASSUME NEW t \in Tasks, NEW id \in Tasks PROVE IInv /\ RequestStop(t, id) => IInv'
<1> SUFFICES ASSUME IInv, RequestStop(t, id) PROVE IInv'
  OBVIOUS
<1> USE IdleIsTask DEF RequestStop, Running
<1>1. TypeOK'
  BY DEF IInv, TypeOK, TaskStates
<1>2. id # Idle /\ id # current
  BY DEF IInv, IdleRunnable
<1>3. CpuOwner'
  BY <1>2 DEF IInv, CpuOwner, TypeOK
<1> QED
  BY <1>1, <1>2, <1>3 DEF IInv, TypeOK, ChargedAtMost, IdleRunnable, PcOfCurrent,
                          CurrentInUse, FirstWfe, NoOverdueSleeper, NoReadyWhileAsleep

\* task_wakeup, from a task or from a handler, turns BLOCKED into READY and does
\* nothing else to the table.
LEMMA WakeupEffect ==
  ASSUME NEW id, IInv, state' = Wakeup(state, id)
  PROVE  /\ state' \in [Tasks -> TaskStates]
         /\ \A i \in Tasks : state'[i] = state[i]
                           \/ (state[i] = "BLOCKED" /\ state'[i] = "READY")
BY DEF Wakeup, IInv, TypeOK, TaskStates

LEMMA TaskWakeupInv ==
  ASSUME NEW t \in Tasks, NEW id \in Tasks PROVE IInv /\ TaskWakeup(t, id) => IInv'
<1> SUFFICES ASSUME IInv, TaskWakeup(t, id) PROVE IInv'
  OBVIOUS
<1> USE IdleIsTask, WakeupEffect DEF TaskWakeup, Running
<1>1. TypeOK'
  BY DEF IInv, TypeOK
<1>2. CpuOwner'
  BY DEF IInv, CpuOwner
<1> QED
  BY <1>1, <1>2 DEF IInv, ChargedAtMost, IdleRunnable, PcOfCurrent, CurrentInUse, FirstWfe,
                    NoOverdueSleeper, NoReadyWhileAsleep

LEMMA DeviceIrqInv == ASSUME NEW id \in Tasks PROVE IInv /\ DeviceIrq(id) => IInv'
<1> SUFFICES ASSUME IInv, DeviceIrq(id) PROVE IInv'
  OBVIOUS
<1> USE IdleIsTask, WakeupEffect DEF DeviceIrq
<1>1. TypeOK'
  BY DEF IInv, TypeOK
<1>2. CpuOwner'
  BY DEF IInv, CpuOwner
<1> QED
  BY <1>1, <1>2 DEF IInv, ChargedAtMost, IdleRunnable, PcOfCurrent, CurrentInUse, FirstWfe,
                    NoOverdueSleeper, NoReadyWhileAsleep

LEMMA TimerIrqInv == IInv /\ TimerIrq => IInv'
<1> SUFFICES ASSUME IInv, TimerIrq PROVE IInv'
  OBVIOUS
<1> USE IdleIsTask DEF TimerIrq
<1>1. /\ state' \in [Tasks -> TaskStates]
      /\ \A i \in Tasks :
           state'[i] = IF state[i] = "SLEEPING" /\ wakeup_tick[i] <= ticks'
                         THEN "READY" ELSE state[i]
  BY DEF WakeSleepers, IInv, TypeOK, TaskStates
<1>2. ticks' = ticks + 1 /\ ticks \in Nat /\ ticks' \in 0 .. TickBound
      /\ last_switch' \in 0 .. ticks'
  BY SchedAssumption DEF IInv, TypeOK
<1>3. TypeOK'
  BY <1>1, <1>2 DEF IInv, TypeOK
<1>4. CpuOwner'
  BY <1>1 DEF IInv, CpuOwner
<1>5. NoOverdueSleeper'
  BY <1>1, <1>2 DEF IInv, TypeOK, NoOverdueSleeper
<1> QED
  BY <1>1, <1>3, <1>4, <1>5 DEF IInv, ChargedAtMost, IdleRunnable, PcOfCurrent, CurrentInUse, FirstWfe,
                                NoReadyWhileAsleep

-----------------------------------------------------------------------------
LEMMA NextInv == IInv /\ [Next]_vars => IInv'
<1> SUFFICES ASSUME IInv, [Next]_vars PROVE IInv'
  OBVIOUS
<1>1. CASE UNCHANGED vars
  BY <1>1 DEF vars, IInv, TypeOK, ChargedAtMost, IdleRunnable, PcOfCurrent, CurrentInUse, CpuOwner,
              FirstWfe, NoOverdueSleeper, NoReadyWhileAsleep
<1>2. CASE Next
  BY <1>2, YieldInv, WfeInv, BlockInv, SleepInv, ExitInv, CreateInv, RequestStopInv,
     TaskWakeupInv, TimerIrqInv, DeviceIrqInv DEF Next, TaskStep
<1> QED
  BY <1>1, <1>2

\* The invariant holds in every reachable state of the scheduler.
THEOREM Invariance == Spec => []IInv
BY InitInv, NextInv, PTL DEF Spec

\* Type correctness, for every table size.
THEOREM TypeCorrect == Spec => []TypeOK
<1>1. IInv => TypeOK
  BY DEF IInv
<1> QED
  BY <1>1, Invariance, PTL

\* At most one task is RUNNING, and it is the one current_task_id names.
THEOREM CpuOwned == Spec => []CpuOwner
<1>1. IInv => CpuOwner
  BY DEF IInv
<1> QED
  BY <1>1, Invariance, PTL

\* No tick leaves a sleeper behind whose wake-up time has come.
THEOREM SleepersOnTime == Spec => []NoOverdueSleeper
<1>1. IInv => NoOverdueSleeper
  BY DEF IInv
<1> QED
  BY <1>1, Invariance, PTL

\* The core never sleeps with IRQs masked, nor while another task is READY.
THEOREM IdleWaitIsSafe == Spec => []IdleWaitSafe
<1>1. IInv => IdleWaitSafe
  BY DEF IInv, FirstWfe, IdleWaitSafe, NoMaskedWait
<1> QED
  BY <1>1, Invariance, PTL

-----------------------------------------------------------------------------
(* The ticks that the tasks of the table have been charged together.       *)

SumAccounted == Sum(runtime_ticks, Tasks) <= last_switch

LEMMA AccountedIsSum == SumAccounted => RuntimeAccounted
<1>1. Sum(runtime_ticks, Tasks) = MapThenSumSet(LAMBDA t : runtime_ticks[t], Tasks)
  BY Zenon DEF Sum, IsSums, Pick, MapThenSumSet, MapThenFoldSet
<1> QED
  BY <1>1, Zenon DEF SumAccounted, RuntimeAccounted

LEMMA TasksFinite == IsFiniteSet(Tasks) /\ Cardinality(Tasks) = MaxTasks
<1>1. 0 \in Int /\ MaxTasks - 1 \in Int /\ MaxTasks \in Nat /\ MaxTasks >= 2
  BY MaxTasksAssumption
<1> QED
  BY <1>1, FS_Interval DEF Tasks

\* A switch charges the time since the last one, and to one task.
LEMMA YieldAccounts == IInv /\ SumAccounted /\ Yield => SumAccounted'
<1> SUFFICES ASSUME IInv, SumAccounted, Yield PROVE SumAccounted'
  OBVIOUS
<1>1. /\ runtime_ticks \in [Tasks -> 0 .. TickBound] /\ ticks \in Nat
      /\ last_switch \in Nat /\ last_switch <= ticks
  BY SchedAssumption DEF IInv, TypeOK
<1>2. Elapsed \in Nat /\ last_switch + Elapsed = ticks
  BY <1>1 DEF Elapsed
<1>3. ASSUME NEW x \in Tasks
      PROVE  /\ runtime_ticks[x] \in Nat /\ runtime_ticks'[x] \in Nat
             /\ x # current => runtime_ticks'[x] <= runtime_ticks[x]
             /\ runtime_ticks'[x] <= runtime_ticks[x] + Elapsed
  <2>1. runtime_ticks[x] \in Nat
    BY <1>1, SchedAssumption
  <2>2. runtime_ticks'[x] = IF x \in Reaped(state, current) THEN 0
                            ELSE IF x = current THEN runtime_ticks[x] + Elapsed
                            ELSE runtime_ticks[x]
    BY DEF Yield
  <2> QED
    BY <1>2, <2>1, <2>2
<1>4. Sum(runtime_ticks', Tasks) <= Sum(runtime_ticks, Tasks) + Elapsed
  BY <1>2, <1>3, TasksFinite, SumGrows
<1>5. /\ Sum(runtime_ticks, Tasks) \in Nat /\ Sum(runtime_ticks', Tasks) \in Nat
      /\ Sum(runtime_ticks, Tasks) <= last_switch
  <2>1. Sum(runtime_ticks, Tasks) \in Nat
    BY <1>3, TasksFinite, SumIsNat
  <2>2. Sum(runtime_ticks', Tasks) \in Nat
    BY <1>3, TasksFinite, SumIsNat
  <2> QED
    BY <2>1, <2>2 DEF SumAccounted
<1>6. Sum(runtime_ticks', Tasks) <= ticks
  BY <1>1, <1>2, <1>4, <1>5
<1>7. last_switch' = ticks
  BY DEF Yield
<1> QED
  BY <1>6, <1>7 DEF SumAccounted

\* RuntimeAccounted: no tick is charged twice, and none that has not been counted,
\* whatever tasks come, go and are reaped between the switches.
THEOREM RuntimeIsAccounted == Spec => []RuntimeAccounted
<1>1. Init => SumAccounted
  <2>1. SUFFICES ASSUME Init PROVE SumAccounted
    OBVIOUS
  <2>2. \A x \in Tasks : runtime_ticks[x] \in Nat /\ runtime_ticks[x] <= 0
    BY <2>1 DEF Init
  <2>3. Sum(runtime_ticks, Tasks) <= MaxTasks * 0
    BY <2>2, TasksFinite, SumAtMost
  <2> QED
    BY <2>1, <2>3, MaxTasksAssumption DEF Init, SumAccounted
<1>2. IInv /\ SumAccounted /\ [Next]_vars => SumAccounted'
  <2>1. UNCHANGED <<runtime_ticks, last_switch>> /\ SumAccounted => SumAccounted'
    BY DEF SumAccounted
  <2>2. [Next]_vars => Yield \/ UNCHANGED <<runtime_ticks, last_switch>>
    BY DEF Next, TaskStep, Wfe, Block, Sleep, Exit, Create, RequestStop, TaskWakeup, TimerIrq,
           DeviceIrq, vars
  <2> QED
    BY <2>1, <2>2, YieldAccounts
<1> QED
  BY <1>1, <1>2, AccountedIsSum, Invariance, PTL DEF Spec

-----------------------------------------------------------------------------
\* A step of the scheduler never takes a task out of DYING but to free its slot.
LEMMA StopIsFinal ==
  ASSUME IInv, [Next]_vars, NEW t \in Tasks, state[t] = "DYING"
  PROVE  state'[t] \in {"DYING", "UNUSED"}
<1>0. state \in [Tasks -> TaskStates]
  BY DEF IInv, TypeOK
<1>1. t # current \/ pc[t] = "yield" \/ t = Idle
  BY DEF IInv, CpuOwner, PcOfCurrent, IdleRunnable
<1>2. CASE Yield
  <2>1. PICK n \in Tasks : Switch(state, current, n, state')
    BY <1>2 DEF Yield
  <2>2. /\ state[n] = "READY" \/ (n = current /\ state[n] = "RUNNING")
        /\ \A i \in Tasks \ {n} :
             state'[i] = IF i \in Reaped(state, current) THEN "UNUSED"
                         ELSE IF i = current /\ state[i] = "RUNNING" THEN "READY"
                         ELSE state[i]
    BY <1>0, <2>1, SwitchEffect
  <2>3. t # n
    BY <2>2
  <2> QED
    BY <2>2, <2>3
<1>3. CASE Wfe
  BY <1>3 DEF Wfe
<1>4. ASSUME NEW u \in Tasks,
             \/ Block(u) \/ \E n \in 1 .. MaxSleep : Sleep(u, n)
             \/ Exit(u) \/ \E id \in Tasks : RequestStop(u, id)
      PROVE  state'[t] \in {"DYING", "UNUSED"}
  BY <1>0, <1>1, <1>4 DEF Block, Sleep, Exit, RequestStop, Running
<1>5. ASSUME NEW u \in Tasks, Create(u)
      PROVE  state'[t] \in {"DYING", "UNUSED"}
  BY <1>0, <1>5 DEF Create, FirstUnused
<1>6. ASSUME NEW u \in Tasks, NEW id \in Tasks, TaskWakeup(u, id)
      PROVE  state'[t] \in {"DYING", "UNUSED"}
  BY <1>0, <1>6, WakeupEffect DEF TaskWakeup
<1>7. CASE TimerIrq
  BY <1>0, <1>7 DEF TimerIrq, WakeSleepers
<1>8. ASSUME NEW id \in Tasks, DeviceIrq(id)
      PROVE  state'[t] \in {"DYING", "UNUSED"}
  BY <1>0, <1>8, WakeupEffect DEF DeviceIrq
<1>9. CASE UNCHANGED vars
  BY <1>9 DEF vars
<1> QED
  BY <1>2, <1>3, <1>4, <1>5, <1>6, <1>7, <1>8, <1>9 DEF Next, TaskStep

\* The panic of scheduler.c:267 is unreachable: the idle task is READY whenever
\* scheduler_yield picks, so there is always a task to switch to.
THEOREM NoPanic == Spec => []NeverPanics
<1>1. IInv => NeverPanics
  <2> SUFFICES ASSUME IInv PROVE NeverPanics
    OBVIOUS
  <2>1. state \in [Tasks -> TaskStates] /\ current \in Tasks \cup {NoTask}
    BY DEF IInv, TypeOK
  <2>2. AfterYield(state, current) \in [Tasks -> TaskStates]
    BY <2>1 DEF AfterYield, TaskStates
  <2>3. state[Idle] = "RUNNING" => Idle = current
    BY IdleIsTask DEF IInv, CpuOwner
  <2>4. AfterYield(state, current)[Idle] = "READY"
    BY <2>1, <2>3, IdleIsTask DEF AfterYield, Reaped, IInv, IdleRunnable
  <2> QED
    BY <2>1, <2>2, <2>4, NextExists DEF NeverPanics
<1> QED
  BY <1>1, Invariance, PTL

\* A stopped or exited task is never scheduled, woken or put to sleep again,
\* although handlers and other tasks keep using its id.
THEOREM StopsAreFinal == Spec => StoppedStaysStopped
<1>1. IInv /\ [Next]_vars
        => [\A t \in Tasks : state[t] = "DYING" => state'[t] \in {"DYING", "UNUSED"}]_vars
  BY StopIsFinal
<1> QED
  BY <1>1, Invariance, PTL DEF Spec, StoppedStaysStopped

\* scheduler_yield never frees the slot whose stack it is still running on.
THEOREM CallerSlotKept == Spec => SwitchKeepsCallerSlot
<1>1. IInv /\ [Next]_vars
        => [current # NoTask /\ current' # current => state'[current] # "UNUSED"]_vars
  <2> SUFFICES ASSUME IInv, [Next]_vars, current # NoTask, current' # current
               PROVE  state'[current] # "UNUSED"
    OBVIOUS
  <2>1. Yield
    BY DEF Next, TaskStep, Wfe, Block, Sleep, Exit, Create, RequestStop, TaskWakeup,
           TimerIrq, DeviceIrq, vars
  <2>2. PICK n \in Tasks : Switch(state, current, n, state') /\ current' = n
    BY <2>1 DEF Yield
  <2>3. current \in Tasks /\ state \in [Tasks -> TaskStates] /\ state[current] # "UNUSED"
    BY DEF IInv, TypeOK, CurrentInUse
  <2> QED
    BY <2>2, <2>3, SwitchEffect DEF Reaped
<1> QED
  BY <1>1, Invariance, PTL DEF Spec, SwitchKeepsCallerSlot

-----------------------------------------------------------------------------
(* What ReadyRuns rests on: a READY task waits for a number of switches    *)
(* that only goes down.                                                    *)

\* The offset at which scheduler_pick_next would come to t.
OffsetOf(t) ==
  LET from == IF current = NoTask THEN 0 ELSE current
  IN  IF t > from THEN t - from ELSE t - from + MaxTasks

LEMMA OffsetIs ==
  ASSUME current \in Tasks \cup {NoTask}, NEW t \in Tasks
  PROVE  OffsetOf(t) \in 1 .. MaxTasks /\ Slot(current, OffsetOf(t)) = t
<1> DEFINE from == IF current = NoTask THEN 0 ELSE current
<1>1. from \in 0 .. MaxTasks - 1 /\ t \in 0 .. MaxTasks - 1 /\ MaxTasks \in Nat \ {0}
  BY MaxTasksAssumption DEF Tasks, NoTask
<1>2. OffsetOf(t) = IF t > from THEN t - from ELSE t - from + MaxTasks
  BY DEF OffsetOf
<1>3. CASE t > from
  <2>1. OffsetOf(t) \in 1 .. MaxTasks /\ from + OffsetOf(t) = t
    BY <1>1, <1>2, <1>3
  <2>2. t % MaxTasks = t
    BY <1>1
  <2> QED
    BY <2>1, <2>2 DEF Slot
<1>4. CASE ~ t > from
  <2>1. OffsetOf(t) \in 1 .. MaxTasks /\ from + OffsetOf(t) = t + MaxTasks
    BY <1>1, <1>2, <1>4
  <2>2. (t + MaxTasks) % MaxTasks = t
    BY <1>1
  <2> QED
    BY <2>1, <2>2 DEF Slot
<1> QED
  BY <1>3, <1>4

\* From a slot that the search passes before t, t is nearer by as much.
LEMMA Nearer ==
  ASSUME current \in Tasks \cup {NoTask}, NEW t \in Tasks, NEW k \in 1 .. MaxTasks,
         k < OffsetOf(t), current' = Slot(current, k)
  PROVE  OffsetOf(t)' = OffsetOf(t) - k
<1> DEFINE from == IF current = NoTask THEN 0 ELSE current
<1>1. /\ from \in 0 .. MaxTasks - 1 /\ t \in 0 .. MaxTasks - 1 /\ MaxTasks \in Nat \ {0}
      /\ k \in Nat \ {0}
  BY MaxTasksAssumption DEF Tasks, NoTask
<1>2. OffsetOf(t) = IF t > from THEN t - from ELSE t - from + MaxTasks
  BY DEF OffsetOf
<1>3. current' = IF from + k < MaxTasks THEN from + k ELSE from + k - MaxTasks
  <2>1. from + k < MaxTasks => (from + k) % MaxTasks = from + k
    BY <1>1
  <2>2. PICK x : x = from + k - MaxTasks
    OBVIOUS
  <2>3. ~ from + k < MaxTasks => x \in 0 .. MaxTasks - 1 /\ from + k = x + MaxTasks
    BY <1>1, <1>2, <2>2
  <2>4. ~ from + k < MaxTasks => (x + MaxTasks) % MaxTasks = x
    BY <1>1, <2>3
  <2> QED
    BY <2>1, <2>2, <2>3, <2>4 DEF Slot
<1>4. current' # NoTask
  BY <1>1, <1>3 DEF NoTask
<1>5. OffsetOf(t)' = IF t > current' THEN t - current' ELSE t - current' + MaxTasks
  BY <1>4 DEF OffsetOf
<1> QED
  BY <1>1, <1>2, <1>3, <1>5

\* A switch either goes to t or comes nearer to it.
LEMMA SwitchNears ==
  ASSUME IInv, Yield, NEW t \in Tasks \ {Idle}, state[t] = "READY"
  PROVE  \/ state'[t] = "RUNNING"
         \/ state'[t] = "READY" /\ OffsetOf(t)' < OffsetOf(t)
<1>1. PICK n \in Tasks : Switch(state, current, n, state') /\ current' = n
  BY DEF Yield
<1>2. state \in [Tasks -> TaskStates] /\ current \in Tasks \cup {NoTask}
  BY DEF IInv, TypeOK
<1>3. CASE n = t
  BY <1>1, <1>2, <1>3, SwitchEffect
<1>4. CASE n # t
  <2>1. state'[t] = "READY"
    <3>1. t \notin Reaped(state, current)
      BY DEF Reaped
    <3>2. state'[t] = IF t \in Reaped(state, current) THEN "UNUSED"
                      ELSE IF t = current /\ state[t] = "RUNNING" THEN "READY"
                      ELSE state[t]
      BY <1>1, <1>2, <1>4, SwitchEffect
    <3> QED
      BY <3>1, <3>2
  <2>2. PICK mid : mid = AfterYield(state, current)
    OBVIOUS
  <2>3. PickNext(mid, current, n) /\ mid[t] = "READY"
    BY <1>1, <2>2 DEF Switch, AfterYield, Reaped
  <2>4. PICK k \in 1 .. MaxTasks :
          /\ n = Slot(current, k)
          /\ \A j \in 1 .. k - 1 :
               Slot(current, j) = Idle \/ mid[Slot(current, j)] # "READY"
    BY <2>3 DEF PickNext
  <2>5. OffsetOf(t) \in 1 .. MaxTasks /\ Slot(current, OffsetOf(t)) = t
    BY <1>2, OffsetIs
  <2>6. k # OffsetOf(t) /\ OffsetOf(t) \notin 1 .. k - 1
    BY <1>4, <2>3, <2>4, <2>5
  <2>7. k < OffsetOf(t) /\ k \in Nat \ {0} /\ OffsetOf(t) \in Nat
    BY <2>4, <2>5, <2>6, MaxTasksAssumption
  <2>8. OffsetOf(t)' = OffsetOf(t) - k
    BY <1>1, <1>2, <2>4, <2>7, Nearer
  <2> QED
    BY <2>1, <2>7, <2>8
<1> QED
  BY <1>3, <1>4

\* Between two switches a READY task stays READY unless it is stopped.
LEMMA OtherStepsWait ==
  ASSUME IInv, [Next]_vars, ~ Yield, NEW t \in Tasks \ {Idle}, state[t] = "READY"
  PROVE  state'[t] \in {"READY", "DYING"} /\ current' = current
<1>0. state \in [Tasks -> TaskStates]
  BY DEF IInv, TypeOK
<1>1. ASSUME Running(t) PROVE FALSE
  <2>1. pc[t] \in {"run", "yield"} /\ pc[t] = "run" /\ t = current
    BY <1>1 DEF Running
  <2> QED
    BY <2>1 DEF IInv, CpuOwner
<1>2. CASE Wfe
  BY <1>2 DEF Wfe
<1>3. ASSUME NEW u \in Tasks,
             Block(u) \/ (\E n \in 1 .. MaxSleep : Sleep(u, n)) \/ Exit(u)
      PROVE  state'[t] = "READY" /\ current' = current
  <2>1. u # t
    BY <1>1, <1>3 DEF Block, Sleep, Exit
  <2> QED
    BY <1>0, <1>3, <2>1 DEF Block, Sleep, Exit
<1>4. ASSUME NEW u \in Tasks, Create(u)
      PROVE  state'[t] = "READY" /\ current' = current
  BY <1>0, <1>4 DEF Create
<1>5. ASSUME NEW u \in Tasks, NEW id \in Tasks, RequestStop(u, id) \/ TaskWakeup(u, id)
      PROVE  state'[t] \in {"READY", "DYING"} /\ current' = current
  BY <1>0, <1>5, WakeupEffect DEF RequestStop, TaskWakeup
<1>6. CASE TimerIrq
  BY <1>0, <1>6 DEF TimerIrq, WakeSleepers
<1>7. ASSUME NEW id \in Tasks, DeviceIrq(id)
      PROVE  state'[t] = "READY" /\ current' = current
  BY <1>0, <1>7, WakeupEffect DEF DeviceIrq
<1>8. CASE UNCHANGED vars
  BY <1>8 DEF vars
<1> QED
  BY <1>2, <1>3, <1>4, <1>5, <1>6, <1>7, <1>8 DEF Next, TaskStep

\* Round robin: every call of scheduler_yield that passes a READY task over brings
\* the search nearer to it, and nothing in between takes it further away, whatever
\* the others do and however often they are woken.  So it runs, or is stopped, by
\* the MaxTasks-th switch (scheduler.c:181-200).
NotPassedOver ==
  \A t \in Tasks \ {Idle} :
    state[t] = "READY" =>
      /\ OffsetOf(t) \in 1 .. MaxTasks
      /\ state'[t] \in {"READY", "RUNNING", "DYING"}
      /\ state'[t] = "READY" =>
           IF Yield THEN OffsetOf(t)' < OffsetOf(t) ELSE OffsetOf(t)' = OffsetOf(t)

\* A READY task is at most MaxTasks switches from the CPU, and every switch to
\* another task brings it nearer (scheduler.c:181-200).
THEOREM RoundRobin == Spec => [][NotPassedOver]_vars
<1>1. IInv /\ [Next]_vars => [NotPassedOver]_vars
  <2>1. SUFFICES ASSUME IInv, [Next]_vars, NEW t \in Tasks \ {Idle}, state[t] = "READY"
                 PROVE  /\ OffsetOf(t) \in 1 .. MaxTasks
                        /\ state'[t] \in {"READY", "RUNNING", "DYING"}
                        /\ state'[t] = "READY" =>
                             IF Yield THEN OffsetOf(t)' < OffsetOf(t)
                             ELSE OffsetOf(t)' = OffsetOf(t)
    BY DEF NotPassedOver
  <2>2. OffsetOf(t) \in 1 .. MaxTasks
    BY <2>1, OffsetIs DEF IInv, TypeOK
  <2>3. CASE Yield
    BY <2>1, <2>2, <2>3, SwitchNears
  <2>4. CASE ~ Yield
    <3>1. state'[t] \in {"READY", "DYING"} /\ current' = current
      BY <2>1, <2>4, OtherStepsWait
    <3>2. OffsetOf(t)' = OffsetOf(t)
      BY <3>1 DEF OffsetOf
    <3> QED
      BY <2>2, <2>4, <3>1, <3>2
  <2> QED
    BY <2>3, <2>4
<1> QED
  BY <1>1, Invariance, PTL DEF Spec
=============================================================================
