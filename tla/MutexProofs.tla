---------------------------- MODULE MutexProofs ----------------------------
(***************************************************************************)
(* Safety of the mutexes for any number of tasks and mutexes, whoever is   *)
(* woken and stopped, and where.  Mutual exclusion needs the types only    *)
(* (MInv).  That sleeping tasks are queued, that a wake-up is lost in two  *)
(* ways only, and that every step is one of the abstract lock or none,     *)
(* need to know what a task's state says of what it wants and holds (QInv).*)
(***************************************************************************)
EXTENDS KernelMutex, TaskTableProofs, TLAPS

\* In the loop of mutex_lock a task has a mutex it asked for.
TryWants == \A t \in Tasks : pc[t] = "try" => want[t] \in Mutexes

MInv == TypeOK /\ TryWants /\ MutualExclusion

-----------------------------------------------------------------------------
LEMMA WakesKeepType ==
  ASSUME NEW st \in [Tasks -> TaskStates]
  PROVE  /\ \A queue \in SUBSET Tasks :
              StateAfterWake(queue, st) \in [Tasks -> TaskStates]
         /\ \A id \in Tasks : Wakeup(st, id) \in [Tasks -> TaskStates]
BY DEF StateAfterWake, Wakeup, TaskStates

LEMMA MutexNumbers == Mutexes \subseteq Nat \ {0} /\ NoMutex \notin Mutexes
BY KernelMutexAssumption DEF NoMutex

LEMMA MInit == Init => MInv
<1> SUFFICES ASSUME Init PROVE MInv
  OBVIOUS
<1>1. state \in [Tasks -> TaskStates]
  BY DEF Init, TaskStates
<1>2. locked \in [Mutexes -> BOOLEAN]
  BY Zenon DEF Init
<1>3. TypeOK
  BY <1>1, <1>2 DEF Init, TypeOK, NoTask, NoMutex
<1> QED
  BY <1>3 DEF MInv, MutualExclusion, TryWants, Init

LEMMA YieldM == MInv /\ Yield => MInv'
<1> SUFFICES ASSUME MInv, Yield PROVE MInv'
  OBVIOUS
<1>1. PICK n \in Tasks : Switch(state, current, n, state') /\ current' = n
  BY DEF Yield
<1>2. state' \in [Tasks -> TaskStates]
  BY <1>1, SwitchEffect DEF MInv, TypeOK
<1>3. /\ want' = [i \in Tasks |-> IF i \in Reaped(state, current) THEN NoMutex
                                  ELSE want[i]]
      /\ held' = [i \in Tasks |-> IF i \in Reaped(state, current) THEN {}
                                  ELSE held[i]]
      /\ pc' = [i \in Tasks |->
                  IF i \in Reaped(state, current) THEN "run"
                  ELSE IF i = current
                    THEN IF want[i] = NoMutex THEN "run" ELSE "try"
                  ELSE pc[i]]
      /\ UNCHANGED mutexVars
  BY DEF Yield
<1>4. locked' = locked /\ owner' = owner /\ waiters' = waiters
  BY <1>3 DEF mutexVars
<1>5. TypeOK'
  <2>1. /\ want' \in [Tasks -> Mutexes \cup {NoMutex}]
        /\ held' \in [Tasks -> SUBSET Mutexes]
    BY <1>3 DEF MInv, TypeOK
  <2>2. pc' \in [Tasks -> {"run", "try", "yield"}]
    BY <1>3 DEF MInv, TypeOK
  <2> QED
    BY <1>1, <1>2, <1>4, <2>1, <2>2 DEF MInv, TypeOK
<1>6. MutualExclusion'
  <2>1. \A t \in Tasks : held'[t] \subseteq held[t]
    BY <1>3
  <2> QED
    BY <1>4, <2>1 DEF MInv, MutualExclusion
<1>7. TryWants'
  <2>1. want \in [Tasks -> Mutexes \cup {NoMutex}]
    BY DEF MInv, TypeOK
  <2> QED
    BY <1>3, <2>1 DEF MInv, TryWants
<1> QED
  BY <1>5, <1>6, <1>7 DEF MInv

LEMMA AcquireM == ASSUME NEW t \in Tasks, MInv, Acquire(t) PROVE MInv'
<1> DEFINE m == want[t]
<1>1. /\ ~locked[m]
      /\ locked' = [locked EXCEPT ![m] = TRUE]
      /\ owner' = [owner EXCEPT ![m] = t]
      /\ held' = [held EXCEPT ![t] = @ \cup {m}]
      /\ want' = [want EXCEPT ![t] = NoMutex]
      /\ pc' = [pc EXCEPT ![t] = "run"]
      /\ state' = state /\ current' = current /\ waiters' = waiters
      /\ pc[t] = "try"
  BY DEF Acquire
<1>2. m \in Mutexes
  BY <1>1 DEF MInv, TryWants
<1>3. TypeOK'
  BY <1>1, <1>2 DEF MInv, TypeOK
<1>4. TryWants'
  BY <1>1 DEF MInv, TypeOK, TryWants
<1>5. MutualExclusion'
  <2> SUFFICES ASSUME NEW k \in Mutexes, NEW u \in Tasks, k \in held'[u]
               PROVE  /\ locked'[k] /\ owner'[k] = u
                      /\ \A v \in Tasks : k \in held'[v] => v = u
    BY DEF MutualExclusion
  <2>1. k = m => \A v \in Tasks : k \notin held[v]
    BY <1>1, <1>2 DEF MInv, MutualExclusion
  <2>2. k # m => \A v \in Tasks : k \in held'[v] <=> k \in held[v]
    BY <1>1 DEF MInv, TypeOK
  <2>3. CASE k = m
    BY <1>1, <1>2, <2>1, <2>3 DEF MInv, TypeOK
  <2>4. CASE k # m
    BY <1>1, <1>2, <2>2, <2>4 DEF MInv, TypeOK, MutualExclusion
  <2> QED
    BY <2>3, <2>4
<1> QED
  BY <1>3, <1>4, <1>5 DEF MInv

LEMMA UnlockM ==
  ASSUME NEW t \in Tasks, NEW m \in Mutexes, MInv, Unlock(t, m) PROVE MInv'
<1>1. /\ m \in held[t]
      /\ locked' = [locked EXCEPT ![m] = FALSE]
      /\ owner' = [owner EXCEPT ![m] = NoTask]
      /\ held' = [held EXCEPT ![t] = @ \ {m}]
      /\ waiters' = [waiters EXCEPT ![m] = QueueAfterWake(@, state)]
      /\ state' = StateAfterWake(waiters[m], state)
      /\ current' = current /\ pc' = pc /\ want' = want
  BY DEF Unlock
<1>2. TypeOK'
  <2>1. state' \in [Tasks -> TaskStates]
    BY <1>1, WakesKeepType DEF MInv, TypeOK
  <2>2. waiters' \in [Mutexes -> SUBSET Tasks]
    BY <1>1 DEF MInv, TypeOK, QueueAfterWake
  <2> QED
    BY <1>1, <2>1, <2>2 DEF MInv, TypeOK
<1>3. MutualExclusion'
  <2> SUFFICES ASSUME NEW k \in Mutexes, NEW u \in Tasks, k \in held'[u]
               PROVE  /\ locked'[k] /\ owner'[k] = u
                      /\ \A v \in Tasks : k \in held'[v] => v = u
    BY DEF MutualExclusion
  <2>1. \A v \in Tasks : held'[v] \subseteq held[v]
    BY <1>1 DEF MInv, TypeOK
  <2>2. k # m
    BY <1>1, <2>1 DEF MInv, TypeOK, MutualExclusion
  <2> QED
    BY <1>1, <2>1, <2>2 DEF MInv, TypeOK, MutualExclusion
<1> QED
  BY <1>1, <1>2, <1>3 DEF MInv, TryWants

\* Mutual exclusion is inductive together with the types.
LEMMA MNext == MInv /\ [Next]_vars => MInv'
<1> SUFFICES ASSUME MInv, [Next]_vars PROVE MInv'
  OBVIOUS
<1>1. CASE UNCHANGED vars
  BY <1>1 DEF vars, taskVars, mutexVars, MInv, TypeOK, TryWants, MutualExclusion
<1>2. CASE Yield
  BY <1>2, YieldM
<1>3. ASSUME NEW t \in Tasks, NEW m \in Mutexes, Lock(t, m) PROVE MInv'
  BY <1>3 DEF Lock, mutexVars, MInv, TypeOK, TryWants, MutualExclusion
<1>4. ASSUME NEW t \in Tasks, NEW m \in Mutexes, Unlock(t, m) PROVE MInv'
  BY <1>4, UnlockM
<1>5. ASSUME NEW t \in Tasks, Acquire(t) PROVE MInv'
  BY <1>5, AcquireM
<1>6. ASSUME NEW t \in Tasks, Enqueue(t) PROVE MInv'
  <2>1. TypeOK'
    BY <1>6 DEF Enqueue, TryWants, MInv, TypeOK, TaskStates
  <2> QED
    BY <1>6, <2>1 DEF Enqueue, MInv, TypeOK, TryWants, MutualExclusion
<1>7. ASSUME NEW t \in Tasks, WaitForDevice(t) \/ Exit(t) PROVE MInv'
  BY <1>7 DEF WaitForDevice, Exit, mutexVars, MInv, TypeOK, TaskStates,
              TryWants, MutualExclusion
<1>8. ASSUME NEW id \in Tasks, DeviceWakeup(id) PROVE MInv'
  BY <1>8, WakesKeepType DEF DeviceWakeup, mutexVars, MInv, TypeOK, TryWants,
                             MutualExclusion
<1>9. ASSUME NEW t \in Tasks, NEW id \in Tasks, RequestStop(t, id) PROVE MInv'
  BY <1>9 DEF RequestStop, mutexVars, MInv, TypeOK, TaskStates, TryWants,
              MutualExclusion
<1>10. ASSUME NEW t \in Tasks, Create(t) PROVE MInv'
  BY <1>10 DEF Create, mutexVars, MInv, TypeOK, TaskStates, TryWants,
               MutualExclusion
<1> QED
  BY <1>1, <1>2, <1>3, <1>4, <1>5, <1>6, <1>7, <1>8, <1>9, <1>10 DEF Next

\* Every variable of the mutex model stays in its range, for any number of tasks
\* and mutexes.
THEOREM MutexTypeCorrect == Spec => []TypeOK
<1>1. MInv => TypeOK
  BY DEF MInv
<1> QED
  BY <1>1, MInit, MNext, PTL DEF Spec

\* Two tasks are never between lock and unlock of the same mutex, whatever the
\* handlers wake and whichever tasks are stopped (mutex.c:34-40).
THEOREM OneHolder == Spec => []MutualExclusion
<1>1. MInv => MutualExclusion
  BY DEF MInv
<1> QED
  BY <1>1, MInit, MNext, PTL DEF Spec

-----------------------------------------------------------------------------
\* A task in its own code wants no mutex, and the current task, until it marks
\* itself otherwise, is RUNNING.
Control ==
  /\ \A t \in Tasks : pc[t] = "run" => want[t] = NoMutex
  /\ current \in Tasks /\ pc[current] # "yield" => state[current] = "RUNNING"

\* Whoever gets an unused slot finds nothing wanted and nothing held there.
UnusedIsBlank ==
  \A t \in Tasks : state[t] = "UNUSED" => want[t] = NoMutex /\ held[t] = {}

LockedHasOwner == \A m \in Mutexes : locked[m] => owner[m] \in Tasks

QInv ==
  /\ MInv
  /\ Control
  /\ UnusedIsBlank
  /\ LockedHasOwner
  /\ SleepersAreQueued

\* The scan of the wait queue wakes one task, which is queued and BLOCKED, or
\* finds none; every other BLOCKED task keeps its bit.
LEMMA WakeEffect ==
  ASSUME NEW st \in [Tasks -> TaskStates], NEW queue \in SUBSET Tasks
  PROVE  /\ \/ /\ StateAfterWake(queue, st) = st
               /\ \A i \in queue : st[i] # "BLOCKED"
            \/ \E first \in queue :
                 /\ st[first] = "BLOCKED"
                 /\ StateAfterWake(queue, st) = [st EXCEPT ![first] = "READY"]
         /\ \A i \in queue :
              StateAfterWake(queue, st)[i] = "BLOCKED" => i \in QueueAfterWake(queue, st)
<1>1. Blocked(queue, st) \subseteq Nat
  <2>1. Tasks \subseteq Nat
    BY MaxTasksAssumption DEF Tasks
  <2>2. Blocked(queue, st) \subseteq queue
    BY DEF Blocked
  <2> QED
    BY <2>1, <2>2
<1>2. CASE Blocked(queue, st) = {}
  <2>1. \A i \in queue : st[i] # "BLOCKED"
    BY <1>2 DEF Blocked
  <2>2. StateAfterWake(queue, st) = st
    BY <1>2 DEF StateAfterWake
  <2> QED
    BY <2>1, <2>2
<1>3. CASE Blocked(queue, st) # {}
  <2>1. PICK first \in Blocked(queue, st) : \A j \in Blocked(queue, st) : first <= j
    BY <1>1, <1>3, LeastExists
  <2>2. first \in queue /\ first \in Tasks /\ st[first] = "BLOCKED"
    BY <2>1 DEF Blocked
  <2>3. \A i \in Tasks : (i \in Blocked(queue, st) /\ \A j \in Blocked(queue, st) : i <= j)
                         <=> i = first
    BY <1>1, <2>1, <2>2
  <2>4. StateAfterWake(queue, st) = [st EXCEPT ![first] = "READY"]
    BY <2>2, <2>3 DEF StateAfterWake
  <2>5. ASSUME NEW i \in queue, StateAfterWake(queue, st)[i] = "BLOCKED"
        PROVE  i \in QueueAfterWake(queue, st)
    <3>1. i # first /\ i \in Blocked(queue, st)
      BY <2>2, <2>4, <2>5 DEF Blocked
    <3>2. first < i
      BY <1>1, <2>1, <3>1
    <3> QED
      BY <2>1, <3>2 DEF QueueAfterWake
  <2> QED
    BY <2>2, <2>4, <2>5
<1> QED
  BY <1>2, <1>3

LEMMA QInit == Init => QInv
<1> SUFFICES ASSUME Init PROVE QInv
  OBVIOUS
<1>1. MInv
  BY MInit
<1>2. NoTask \notin Tasks
  BY IdleIsTask
<1>3. Control /\ UnusedIsBlank
  BY <1>2 DEF Init, Control, UnusedIsBlank
<1>4. LockedHasOwner /\ SleepersAreQueued
  BY DEF Init, LockedHasOwner, SleepersAreQueued, Sleeps
<1> QED
  BY <1>1, <1>3, <1>4 DEF QInv

\* What a switch leaves of the tasks: those it reaps are gone with what they
\* wanted and held; of the others only the caller and the next one change, between
\* READY and RUNNING.
LEMMA YieldEffect ==
  ASSUME QInv, Yield
  PROVE  /\ \A i \in Reaped(state, current) :
              i \in Tasks /\ state[i] = "DYING" /\ state'[i] = "UNUSED"
         /\ \A i \in Tasks \ Reaped(state, current) :
              \/ state'[i] = state[i]
              \/ state[i] \in {"READY", "RUNNING"} /\ state'[i] \in {"READY", "RUNNING"}
         /\ \A i \in Tasks :
              /\ want'[i] = IF i \in Reaped(state, current) THEN NoMutex ELSE want[i]
              /\ held'[i] = IF i \in Reaped(state, current) THEN {} ELSE held[i]
         /\ locked' = locked /\ owner' = owner /\ waiters' = waiters
         /\ current' \in Tasks /\ state'[current'] = "RUNNING"
<1>1. PICK n \in Tasks : Switch(state, current, n, state') /\ current' = n
  BY DEF Yield
<1>2. state \in [Tasks -> TaskStates]
  BY DEF QInv, MInv, TypeOK
<1>3. /\ state'[n] = "RUNNING"
      /\ state[n] = "READY" \/ (n = current /\ state[n] = "RUNNING")
      /\ \A i \in Tasks \ {n} :
           state'[i] = IF i \in Reaped(state, current) THEN "UNUSED"
                       ELSE IF i = current /\ state[i] = "RUNNING" THEN "READY"
                       ELSE state[i]
      /\ n \notin Reaped(state, current)
  <2>1. /\ state' \in [Tasks -> TaskStates]
        /\ state'[n] = "RUNNING"
        /\ state[n] = "READY" \/ (n = current /\ state[n] = "RUNNING")
        /\ \A i \in Tasks \ {n} :
             state'[i] = IF i \in Reaped(state, current) THEN "UNUSED"
                         ELSE IF i = current /\ state[i] = "RUNNING" THEN "READY"
                         ELSE state[i]
        /\ n \notin Reaped(state, current)
        /\ n = Idle => \A i \in Tasks \ {Idle} : state'[i] # "READY"
    BY <1>1, <1>2, SwitchEffect
  <2> QED
    BY <2>1
<1>4. \A i \in Reaped(state, current) : state[i] = "DYING" /\ i \in Tasks
  BY DEF Reaped
<1>5. /\ want' = [i \in Tasks |-> IF i \in Reaped(state, current) THEN NoMutex ELSE want[i]]
      /\ held' = [i \in Tasks |-> IF i \in Reaped(state, current) THEN {} ELSE held[i]]
      /\ locked' = locked /\ owner' = owner /\ waiters' = waiters
  BY DEF Yield, mutexVars
<1> QED
  BY <1>1, <1>3, <1>4, <1>5

LEMMA YieldQ == ASSUME QInv, Yield PROVE QInv'
<1>1. MInv'
  BY YieldM DEF QInv
<1>2. Control'
  <2>1. pc' = [i \in Tasks |->
                 IF i \in Reaped(state, current) THEN "run"
                 ELSE IF i = current
                   THEN IF want[i] = NoMutex THEN "run" ELSE "try"
                 ELSE pc[i]]
    BY DEF Yield
  <2>2. \A t \in Tasks : pc'[t] = "run" => want'[t] = NoMutex
    BY <2>1, YieldEffect DEF QInv, Control
  <2> QED
    BY <2>2, YieldEffect DEF Control
<1>3. UnusedIsBlank'
  BY YieldEffect DEF QInv, UnusedIsBlank
<1>4. LockedHasOwner'
  BY YieldEffect DEF QInv, LockedHasOwner
<1>5. SleepersAreQueued'
  BY YieldEffect DEF QInv, SleepersAreQueued, Sleeps
<1> QED
  BY <1>1, <1>2, <1>3, <1>4, <1>5 DEF QInv

LEMMA LockQ ==
  ASSUME NEW t \in Tasks, NEW m \in Mutexes, QInv, Lock(t, m) PROVE QInv'
<1>1. /\ want' = [want EXCEPT ![t] = m] /\ pc' = [pc EXCEPT ![t] = "try"]
      /\ state' = state /\ current' = current /\ held' = held
      /\ locked' = locked /\ owner' = owner /\ waiters' = waiters
      /\ current = t /\ pc[t] = "run"
  BY DEF Lock, Running, mutexVars
<1>2. state[t] = "RUNNING"
  BY <1>1 DEF QInv, Control
<1>3. \A u \in Tasks : want'[u] = IF u = t THEN m ELSE want[u]
  BY <1>1 DEF QInv, MInv, TypeOK
<1>4. MInv'
  <2>1. [Next]_vars
    BY DEF Next
  <2> QED
    BY <2>1, MNext DEF QInv
<1>5. Control' /\ UnusedIsBlank'
  BY <1>1, <1>2, <1>3 DEF QInv, MInv, TypeOK, Control, UnusedIsBlank
<1>6. LockedHasOwner' /\ SleepersAreQueued'
  BY <1>1, <1>2, <1>3 DEF QInv, LockedHasOwner, SleepersAreQueued, Sleeps
<1> QED
  BY <1>4, <1>5, <1>6 DEF QInv

LEMMA AcquireQ == ASSUME NEW t \in Tasks, QInv, Acquire(t) PROVE QInv'
<1> DEFINE m == want[t]
<1>1. /\ ~locked[m]
      /\ locked' = [locked EXCEPT ![m] = TRUE]
      /\ owner' = [owner EXCEPT ![m] = t]
      /\ held' = [held EXCEPT ![t] = @ \cup {m}]
      /\ want' = [want EXCEPT ![t] = NoMutex]
      /\ pc' = [pc EXCEPT ![t] = "run"]
      /\ state' = state /\ current' = current /\ waiters' = waiters
      /\ current = t /\ pc[t] = "try"
  BY DEF Acquire, Running
<1>2. m \in Mutexes /\ state[t] = "RUNNING"
  BY <1>1 DEF QInv, MInv, TryWants, Control
<1>3. \A u \in Tasks : want'[u] = IF u = t THEN NoMutex ELSE want[u]
  BY <1>1 DEF QInv, MInv, TypeOK
<1>4. MInv'
  BY AcquireM DEF QInv
<1>5. Control' /\ UnusedIsBlank'
  BY <1>1, <1>2, <1>3 DEF QInv, MInv, TypeOK, Control, UnusedIsBlank
<1>6. LockedHasOwner'
  BY <1>1, <1>2 DEF QInv, MInv, TypeOK, LockedHasOwner
<1>7. SleepersAreQueued'
  BY <1>1, <1>2, <1>3 DEF QInv, SleepersAreQueued, Sleeps
<1> QED
  BY <1>4, <1>5, <1>6, <1>7 DEF QInv

LEMMA EnqueueQ == ASSUME NEW t \in Tasks, QInv, Enqueue(t) PROVE QInv'
<1> DEFINE m == want[t]
<1>1. /\ locked[m]
      /\ waiters' = [waiters EXCEPT ![m] = @ \cup {t}]
      /\ state' = [state EXCEPT ![t] = "BLOCKED"]
      /\ pc' = [pc EXCEPT ![t] = "yield"]
      /\ current' = current /\ want' = want /\ held' = held
      /\ locked' = locked /\ owner' = owner
      /\ current = t /\ pc[t] = "try"
  BY DEF Enqueue, Running
<1>2. m \in Mutexes /\ state[t] = "RUNNING"
  BY <1>1 DEF QInv, MInv, TryWants, Control
<1>3. \A u \in Tasks : state'[u] = IF u = t THEN "BLOCKED" ELSE state[u]
  BY <1>1 DEF QInv, MInv, TypeOK
<1>4. MInv'
  <2>1. [Next]_vars
    BY DEF Next
  <2> QED
    BY <2>1, MNext DEF QInv
<1>5. Control' /\ UnusedIsBlank' /\ LockedHasOwner'
  BY <1>1, <1>2, <1>3 DEF QInv, MInv, TypeOK, Control, UnusedIsBlank, LockedHasOwner
<1>6. SleepersAreQueued'
  <2>1. \A k \in Mutexes :
          waiters'[k] = IF k = m THEN waiters[k] \cup {t} ELSE waiters[k]
    BY <1>1, <1>2 DEF QInv, MInv, TypeOK
  <2> QED
    BY <1>1, <1>3, <2>1 DEF QInv, SleepersAreQueued, Sleeps
<1> QED
  BY <1>4, <1>5, <1>6 DEF QInv

LEMMA UnlockQ ==
  ASSUME NEW t \in Tasks, NEW m \in Mutexes, QInv, Unlock(t, m) PROVE QInv'
<1>1. /\ m \in held[t]
      /\ locked' = [locked EXCEPT ![m] = FALSE]
      /\ owner' = [owner EXCEPT ![m] = NoTask]
      /\ held' = [held EXCEPT ![t] = @ \ {m}]
      /\ waiters' = [waiters EXCEPT ![m] = QueueAfterWake(waiters[m], state)]
      /\ state' = StateAfterWake(waiters[m], state)
      /\ current' = current /\ pc' = pc /\ want' = want
  BY DEF Unlock
<1>2. state \in [Tasks -> TaskStates] /\ waiters[m] \in SUBSET Tasks
  BY DEF QInv, MInv, TypeOK
<1>3. MInv'
  BY UnlockM DEF QInv
<1>4. \A i \in Tasks : state'[i] = state[i] \/ (state[i] = "BLOCKED" /\ state'[i] = "READY")
  BY <1>1, <1>2, WakeEffect
<1>5. Control' /\ UnusedIsBlank'
  <2>1. \A i \in Tasks : held'[i] \subseteq held[i]
    BY <1>1 DEF QInv, MInv, TypeOK
  <2> QED
    BY <1>1, <1>4, <2>1 DEF QInv, Control, UnusedIsBlank
<1>6. LockedHasOwner'
  <2>1. \A k \in Mutexes : locked'[k] => k # m /\ locked[k] /\ owner'[k] = owner[k]
    BY <1>1 DEF QInv, MInv, TypeOK
  <2> QED
    BY <2>1 DEF QInv, LockedHasOwner
<1>7. SleepersAreQueued'
  <2> SUFFICES ASSUME NEW k \in Mutexes, NEW i \in Tasks, want[i] = k, state'[i] = "BLOCKED"
               PROVE  i \in waiters'[k]
    BY <1>1 DEF SleepersAreQueued, Sleeps
  <2>1. i \in waiters[k]
    BY <1>4 DEF QInv, SleepersAreQueued, Sleeps
  <2>2. CASE k = m
    <3>1. i \in QueueAfterWake(waiters[m], state)
      BY <1>1, <1>2, <2>1, <2>2, WakeEffect
    <3> QED
      BY <1>1, <2>2, <3>1 DEF QInv, MInv, TypeOK
  <2>3. CASE k # m
    BY <1>1, <2>1, <2>3 DEF QInv, MInv, TypeOK
  <2> QED
    BY <2>2, <2>3
<1> QED
  BY <1>3, <1>5, <1>6, <1>7 DEF QInv

\* A step that only changes the state of one task, and does not put it to sleep on
\* a mutex or to an end with something in hand.
LEMMA OutsiderQ ==
  ASSUME QInv, [Next]_vars, NEW t \in Tasks, NEW s \in TaskStates \ {"UNUSED"},
         state' = [state EXCEPT ![t] = s], s = "BLOCKED" => want[t] = NoMutex,
         current' = current, want' = want, held' = held,
         locked' = locked, owner' = owner, waiters' = waiters,
         \A i \in Tasks : pc'[i] = "run" => pc[i] = "run",
         current \in Tasks /\ pc'[current] # "yield"
           => state'[current] = "RUNNING"
  PROVE  QInv'
<1>1. \A i \in Tasks : state'[i] = IF i = t THEN s ELSE state[i]
  BY DEF QInv, MInv, TypeOK
<1>2. MInv'
  BY MNext DEF QInv
<1>3. Control' /\ UnusedIsBlank' /\ LockedHasOwner'
  BY <1>1 DEF QInv, Control, UnusedIsBlank, LockedHasOwner
<1>4. SleepersAreQueued'
  BY <1>1, MutexNumbers DEF QInv, SleepersAreQueued, Sleeps
<1> QED
  BY <1>2, <1>3, <1>4 DEF QInv

\* What the other steps do to the table: WaitForDevice and Exit mark the caller,
\* which wants no mutex; the others mark one task that does not run.
LEMMA OutsiderSteps ==
  ASSUME QInv, NEW t \in Tasks
  PROVE  /\ WaitForDevice(t) => /\ want[t] = NoMutex /\ state[t] = "RUNNING"
                                /\ state' = [state EXCEPT ![t] = "BLOCKED"]
         /\ Exit(t) => /\ want[t] = NoMutex /\ held[t] = {} /\ state[t] = "RUNNING"
                       /\ state' = [state EXCEPT ![t] = "DYING"]
         /\ WaitForDevice(t) \/ Exit(t) =>
              pc' = [pc EXCEPT ![t] = "yield"] /\ current = t
         /\ DeviceWakeup(t) => /\ state[t] = "BLOCKED"
                               /\ state' = [state EXCEPT ![t] = "READY"]
         /\ \A id \in Tasks : RequestStop(t, id) =>
              /\ state[id] \notin {"UNUSED", "DYING"} /\ id # current
              /\ state' = [state EXCEPT ![id] = "DYING"]
         /\ Create(t) => \E i \in Tasks : /\ state[i] = "UNUSED"
                                          /\ state' = [state EXCEPT ![i] = "READY"]
         /\ DeviceWakeup(t) \/ Create(t) \/ (\E id \in Tasks : RequestStop(t, id)) => pc' = pc
         /\ WaitForDevice(t) \/ Exit(t) \/ DeviceWakeup(t) \/ Create(t)
              \/ (\E id \in Tasks : RequestStop(t, id)) =>
              /\ current' = current /\ want' = want /\ held' = held
              /\ locked' = locked /\ owner' = owner /\ waiters' = waiters
<1>1. current = t /\ pc[t] = "run" => want[t] = NoMutex /\ state[t] = "RUNNING"
  BY DEF QInv, Control
<1>2. DeviceWakeup(t) => /\ state[t] = "BLOCKED"
                         /\ state' = [state EXCEPT ![t] = "READY"]
  BY DEF DeviceWakeup, Wakeup, QInv, MInv, TypeOK
<1>3. \A id \in Tasks : RequestStop(t, id) => id # current
  BY KernelMutexAssumption DEF RequestStop, InCommand, Running, Tasks
<1>4. Create(t) => \E i \in Tasks : /\ state[i] = "UNUSED"
                                    /\ state' = [state EXCEPT ![i] = "READY"]
  BY DEF Create, FirstUnused
<1> QED
  BY <1>1, <1>2, <1>3, <1>4
  DEF WaitForDevice, Exit, DeviceWakeup, RequestStop, Create, Running, mutexVars

LEMMA QNext == QInv /\ [Next]_vars => QInv'
<1> SUFFICES ASSUME QInv, [Next]_vars PROVE QInv'
  OBVIOUS
<1> USE DEF TaskStates
<1>1. CASE UNCHANGED vars
  BY <1>1, MNext DEF vars, taskVars, mutexVars, QInv, Control, UnusedIsBlank,
                     LockedHasOwner, SleepersAreQueued, Sleeps
<1>2. CASE Yield
  BY <1>2, YieldQ
<1>3. ASSUME NEW t \in Tasks, NEW m \in Mutexes, Lock(t, m) \/ Unlock(t, m)
      PROVE  QInv'
  BY <1>3, LockQ, UnlockQ
<1>4. ASSUME NEW t \in Tasks, Acquire(t) \/ Enqueue(t) PROVE QInv'
  BY <1>4, AcquireQ, EnqueueQ
<1>5. ASSUME NEW t \in Tasks, WaitForDevice(t) \/ Exit(t) PROVE QInv'
  <2>1. PICK s \in {"BLOCKED", "DYING"} :
          /\ state' = [state EXCEPT ![t] = s]
          /\ pc' = [pc EXCEPT ![t] = "yield"] /\ current = t
          /\ want[t] = NoMutex
          /\ current' = current /\ want' = want /\ held' = held
          /\ locked' = locked /\ owner' = owner /\ waiters' = waiters
    BY <1>5, OutsiderSteps
  <2>2. \A i \in Tasks : pc'[i] = IF i = t THEN "yield" ELSE pc[i]
    BY <2>1 DEF QInv, MInv, TypeOK
  <2>3. s \in TaskStates \ {"UNUSED"}
    BY <2>1
  <2>4. \A i \in Tasks : pc'[i] = "run" => pc[i] = "run"
    BY <2>2
  <2>5. current \in Tasks /\ pc'[current] # "yield" => state'[current] = "RUNNING"
    BY <2>1, <2>2
  <2> QED
    BY <2>1, <2>3, <2>4, <2>5, OutsiderQ
<1>6. ASSUME NEW t \in Tasks, DeviceWakeup(t) PROVE QInv'
  <2>1. /\ state[t] = "BLOCKED" /\ state' = [state EXCEPT ![t] = "READY"]
        /\ current' = current /\ pc' = pc /\ want' = want /\ held' = held
        /\ locked' = locked /\ owner' = owner /\ waiters' = waiters
    BY <1>6, OutsiderSteps
  <2>2. current \in Tasks /\ pc'[current] # "yield" => state'[current] = "RUNNING"
    BY <2>1 DEF QInv, MInv, TypeOK, Control
  <2> QED
    BY <2>1, <2>2, OutsiderQ
<1>7. ASSUME NEW t \in Tasks, NEW id \in Tasks, RequestStop(t, id) PROVE QInv'
  <2>1. /\ state' = [state EXCEPT ![id] = "DYING"] /\ id # current
        /\ current' = current /\ pc' = pc /\ want' = want /\ held' = held
        /\ locked' = locked /\ owner' = owner /\ waiters' = waiters
    BY <1>7, OutsiderSteps
  <2>2. current \in Tasks /\ pc'[current] # "yield" => state'[current] = "RUNNING"
    BY <2>1 DEF QInv, MInv, TypeOK, Control
  <2> QED
    BY <2>1, <2>2, OutsiderQ
<1>8. ASSUME NEW t \in Tasks, Create(t) PROVE QInv'
  <2>1. PICK i \in Tasks : state[i] = "UNUSED" /\ state' = [state EXCEPT ![i] = "READY"]
    BY <1>8, OutsiderSteps
  <2>2. /\ current' = current /\ pc' = pc /\ want' = want /\ held' = held
        /\ locked' = locked /\ owner' = owner /\ waiters' = waiters
    BY <1>8, OutsiderSteps
  <2>3. current \in Tasks /\ pc'[current] # "yield" => state'[current] = "RUNNING"
    BY <2>1, <2>2 DEF QInv, MInv, TypeOK, Control
  <2> QED
    BY <2>1, <2>2, <2>3, OutsiderQ
<1> QED
  BY <1>1, <1>2, <1>3, <1>4, <1>5, <1>6, <1>7, <1>8 DEF Next

\* Whoever is woken early and whoever is stopped, a task that sleeps in mutex_lock
\* has its bit in the queue (wait_queue.c:38, 54-70; task.c:151-204).
THEOREM SleepersQueued == Spec => []SleepersAreQueued
<1>1. QInv => SleepersAreQueued
  BY DEF QInv
<1> QED
  BY <1>1, QInit, QNext, PTL DEF Spec

-----------------------------------------------------------------------------
\* A mutex is not left behind by a step that keeps it unlocked, puts nobody more to
\* sleep on it and keeps everybody who is on the way to it.
LEMMA NotLeftBehind ==
  ASSUME NEW m \in Mutexes, ~ Stranded(m),
         locked'[m] \/ ~locked[m],
         \A t \in Tasks : Sleeps(t, m)' => Sleeps(t, m),
         \A t \in Tasks : Comes(t, m) => Comes(t, m)'
  PROVE  ~ Stranded(m)'
<1>1. CASE locked'[m]
  BY <1>1 DEF Stranded
<1>2. CASE ~locked[m]
  BY <1>2 DEF Stranded
<1> QED
  BY <1>1, <1>2

\* No step but an unlock and a stop can strand a mutex.
LEMMA OthersStrandNobody ==
  ASSUME NEW m \in Mutexes, QInv, ~ Stranded(m),
         NEW t \in Tasks, NEW k \in Mutexes,
         \/ UNCHANGED vars \/ Yield \/ Lock(t, k) \/ Acquire(t) \/ Enqueue(t)
         \/ WaitForDevice(t) \/ DeviceWakeup(t) \/ Create(t) \/ Exit(t)
  PROVE  ~ Stranded(m)'
<1> USE DEF Sleeps, Comes
<1> USE MutexNumbers
<1>1. CASE UNCHANGED vars
  BY <1>1, NotLeftBehind DEF vars, taskVars, mutexVars
<1>2. CASE Yield
  <2>1. locked' = locked
    BY <1>2, YieldEffect
  <2>2. \A u \in Tasks : Sleeps(u, m)' => Sleeps(u, m)
    BY <1>2, YieldEffect
  <2>3. \A u \in Tasks : Comes(u, m) => Comes(u, m)'
    BY <1>2, YieldEffect
  <2> QED
    BY <2>1, <2>2, <2>3, NotLeftBehind
<1>3. CASE Lock(t, k)
  <2>1. /\ want[t] = NoMutex /\ state[t] = "RUNNING"
        /\ locked' = locked /\ state' = state
    BY <1>3 DEF Lock, Running, mutexVars, QInv, Control
  <2>2. \A u \in Tasks : want'[u] = IF u = t THEN k ELSE want[u]
    BY <1>3 DEF Lock, QInv, MInv, TypeOK
  <2> QED
    BY <2>1, <2>2, NotLeftBehind
<1>4. CASE Acquire(t)
  <2>1. /\ want[t] \in Mutexes /\ state' = state
        /\ locked' = [locked EXCEPT ![want[t]] = TRUE]
    BY <1>4 DEF Acquire, QInv, MInv, TryWants
  <2>2. \A u \in Tasks : want'[u] = IF u = t THEN NoMutex ELSE want[u]
    BY <1>4 DEF Acquire, QInv, MInv, TypeOK
  <2>3. CASE want[t] = m
    <3>1. locked'[m]
      BY <2>1, <2>3 DEF QInv, MInv, TypeOK
    <3> QED
      BY <3>1 DEF Stranded
  <2>4. CASE want[t] # m
    <3>1. locked'[m] = locked[m]
      BY <2>1, <2>4 DEF QInv, MInv, TypeOK
    <3>2. \A u \in Tasks : Sleeps(u, m)' => Sleeps(u, m)
      BY <2>1, <2>2
    <3>3. \A u \in Tasks : Comes(u, m) => Comes(u, m)'
      BY <2>1, <2>2, <2>4
    <3> QED
      BY <3>1, <3>2, <3>3, NotLeftBehind
  <2> QED
    BY <2>3, <2>4
<1>5. CASE Enqueue(t)
  <2>1. want' = want /\ locked' = locked /\ locked[want[t]]
    BY <1>5 DEF Enqueue
  <2>2. \A u \in Tasks : state'[u] = IF u = t THEN "BLOCKED" ELSE state[u]
    BY <1>5 DEF Enqueue, QInv, MInv, TypeOK
  <2>3. CASE want[t] = m
    BY <2>1, <2>3 DEF Stranded
  <2>4. CASE want[t] # m
    BY <2>1, <2>2, <2>4, NotLeftBehind
  <2> QED
    BY <2>3, <2>4
<1>6. CASE WaitForDevice(t) \/ Exit(t)
  <2>1. want[t] = NoMutex /\ want' = want /\ locked' = locked
    BY <1>6, OutsiderSteps
  <2>2. \A u \in Tasks \ {t} : state'[u] = state[u]
    BY <1>6, OutsiderSteps DEF QInv, MInv, TypeOK
  <2> QED
    BY <2>1, <2>2, NotLeftBehind
<1>7. CASE DeviceWakeup(t)
  <2>1. want' = want /\ locked' = locked
    BY <1>7, OutsiderSteps
  <2>2. \A u \in Tasks : state'[u] = IF u = t THEN "READY" ELSE state[u]
    BY <1>7, OutsiderSteps DEF QInv, MInv, TypeOK
  <2> QED
    BY <2>1, <2>2, NotLeftBehind
<1>8. CASE Create(t)
  <2>1. want' = want /\ locked' = locked
    BY <1>8, OutsiderSteps
  <2>2. PICK i \in Tasks : state[i] = "UNUSED" /\ state' = [state EXCEPT ![i] = "READY"]
    BY <1>8, OutsiderSteps
  <2>3. want[i] = NoMutex
    BY <2>2 DEF QInv, UnusedIsBlank
  <2>4. \A u \in Tasks \ {i} : state'[u] = state[u]
    BY <2>2 DEF QInv, MInv, TypeOK
  <2> QED
    BY <2>1, <2>3, <2>4, NotLeftBehind
<1> QED
  BY <1>1, <1>2, <1>3, <1>4, <1>5, <1>6, <1>7, <1>8

\* An unlock wakes the first queued task that is BLOCKED.  If that task comes for
\* the mutex, the mutex is not stranded; if it is BLOCKED on something else, the
\* wake-up is misspent; if there is none, nobody sleeps on the mutex, because who
\* does is queued.
LEMMA UnlockStrands ==
  ASSUME NEW m \in Mutexes, QInv, ~ Stranded(m),
         NEW t \in Tasks, NEW k \in Mutexes, Unlock(t, k), Stranded(m)'
  PROVE  Misspent(m)
<1> USE DEF Sleeps, Comes
<1>1. /\ locked' = [locked EXCEPT ![k] = FALSE]
      /\ state' = StateAfterWake(waiters[k], state)
      /\ want' = want
  BY DEF Unlock
<1>2. state \in [Tasks -> TaskStates] /\ waiters[k] \in SUBSET Tasks
  BY DEF QInv, MInv, TypeOK
<1>3. \A i \in Tasks : state'[i] = state[i] \/ (state[i] = "BLOCKED" /\ state'[i] = "READY")
  BY <1>1, <1>2, WakeEffect
<1>4. k = m
  <2> SUFFICES ASSUME k # m PROVE FALSE
    OBVIOUS
  <2>1. locked'[m] = locked[m]
    BY <1>1 DEF QInv, MInv, TypeOK
  <2>2. \A u \in Tasks : Sleeps(u, m)' => Sleeps(u, m)
    BY <1>1, <1>3
  <2>3. \A u \in Tasks : Comes(u, m) => Comes(u, m)'
    BY <1>1, <1>3
  <2> QED
    BY <2>1, <2>2, <2>3, NotLeftBehind
<1>5. PICK s \in Tasks : want[s] = m /\ state'[s] = "BLOCKED"
  BY <1>1 DEF Stranded
<1>6. s \in waiters[m] /\ state[s] = "BLOCKED"
  BY <1>3, <1>5 DEF QInv, SleepersAreQueued
<1>7. PICK first \in waiters[m] :
        state[first] = "BLOCKED" /\ state' = [state EXCEPT ![first] = "READY"]
  BY <1>1, <1>2, <1>4, <1>6, WakeEffect
<1>8. first \in Tasks /\ state'[first] = "READY"
  BY <1>2, <1>4, <1>7
<1>9. want[first] # m
  BY <1>1, <1>8 DEF Stranded
<1> QED
  BY <1>7, <1>8, <1>9 DEF Misspent

\* A stop takes away one task; unless it was on its way to the mutex, all who were
\* still are.
LEMMA StopStrands ==
  ASSUME NEW m \in Mutexes, QInv, ~ Stranded(m),
         NEW t \in Tasks, NEW id \in Tasks, RequestStop(t, id), Stranded(m)'
  PROVE  Withdrawn(m)
<1>1. want' = want /\ locked' = locked
  BY OutsiderSteps
<1>2. \A u \in Tasks : state'[u] = IF u = id THEN "DYING" ELSE state[u]
  BY OutsiderSteps DEF QInv, MInv, TypeOK
<1>3. Comes(id, m)
  BY <1>1, <1>2, NotLeftBehind DEF Sleeps, Comes
<1> QED
  BY <1>2, <1>3 DEF Withdrawn

\* No step strands a mutex but an unlock whose wake-up a stale bit takes, and the
\* stop of a task that was on its way (wait_queue.c:56-69, task.c:174).
THEOREM WakeupsLost == Spec => WakeupsLostInTwoWays
<1> DEFINE Excused == \A m \in Mutexes :
                        ~ Stranded(m) /\ Stranded(m)' => Misspent(m) \/ Withdrawn(m)
<1>1. ASSUME QInv, [Next]_vars PROVE Excused
  <2> SUFFICES ASSUME NEW m \in Mutexes, ~ Stranded(m), Stranded(m)'
               PROVE  Misspent(m) \/ Withdrawn(m)
    OBVIOUS
  <2>1. m \in Mutexes /\ 0 \in Tasks
    BY IdleIsTask DEF Idle
  <2>2. ~ (UNCHANGED vars) /\ ~ Yield
    BY <1>1, <2>1, OthersStrandNobody
  <2>3. ASSUME NEW t \in Tasks,
               \/ \E k \in Mutexes : Lock(t, k)
               \/ Acquire(t) \/ Enqueue(t) \/ WaitForDevice(t) \/ DeviceWakeup(t)
               \/ Create(t) \/ Exit(t)
        PROVE  FALSE
    BY <1>1, <2>1, <2>3, OthersStrandNobody
  <2>4. ASSUME NEW t \in Tasks, NEW k \in Mutexes, Unlock(t, k) PROVE Misspent(m)
    BY <1>1, <2>4, UnlockStrands
  <2>5. ASSUME NEW t \in Tasks, NEW id \in Tasks, RequestStop(t, id) PROVE Withdrawn(m)
    BY <1>1, <2>5, StopStrands
  <2> QED
    BY <1>1, <2>2, <2>3, <2>4, <2>5 DEF Next
<1>2. QInv /\ [Next]_vars => [Excused]_vars
  BY <1>1
<1> QED
  BY <1>2, QInit, QNext, PTL DEF Spec, WakeupsLostInTwoWays

-----------------------------------------------------------------------------
\* What the abstract lock sees of the holders, the wishes and the sleepers.
Holders == [m \in Mutexes |-> Holder(m)]
Wishes  == [t \in Tasks |-> IF state[t] = "DYING" THEN NoMutex ELSE want[t]]
Asleep  == {t \in Tasks : want[t] # NoMutex /\ state[t] = "BLOCKED"}

LEMMA NobodyIsTask == NoTask \notin Tasks /\ LostTask \notin Tasks /\ NoTask # LostTask
BY MaxTasksAssumption DEF Tasks, NoTask, LostTask

\* A mutex is held by the live task in its critical section, by nobody while it is
\* unlocked, and is lost otherwise.
HolderIsAlive ==
  \A m \in Mutexes :
    /\ Holder(m) \in Tasks \cup {NoTask, LostTask}
    /\ \A t \in Tasks : Holder(m) = t <=> m \in held[t] /\ state[t] # "DYING"
    /\ Holder(m) = NoTask <=> ~ locked[m]

LEMMA HolderSays == QInv => HolderIsAlive
<1> SUFFICES ASSUME QInv, NEW m \in Mutexes
             PROVE  /\ Holder(m) \in Tasks \cup {NoTask, LostTask}
                    /\ \A t \in Tasks : Holder(m) = t <=> m \in held[t] /\ state[t] # "DYING"
                    /\ Holder(m) = NoTask <=> ~ locked[m]
  BY DEF HolderIsAlive
<1>1. CASE ~ locked[m]
  <2>1. Holder(m) = NoTask
    BY <1>1 DEF Holder
  <2>2. \A t \in Tasks : m \notin held[t]
    BY <1>1 DEF QInv, MInv, MutualExclusion
  <2> QED
    BY <1>1, <2>1, <2>2, NobodyIsTask
<1>2. CASE locked[m]
  <2>1. owner[m] \in Tasks
    BY <1>2 DEF QInv, LockedHasOwner
  <2>2. \A t \in Tasks : m \in held[t] => owner[m] = t
    BY DEF QInv, MInv, MutualExclusion
  <2>3. CASE m \in held[owner[m]] /\ state[owner[m]] # "DYING"
    <3>1. Holder(m) = owner[m]
      BY <1>2, <2>3 DEF Holder
    <3> QED
      BY <1>2, <2>1, <2>2, <2>3, <3>1, NobodyIsTask
  <2>4. CASE ~ (m \in held[owner[m]] /\ state[owner[m]] # "DYING")
    <3>1. Holder(m) = LostTask
      BY <1>2, <2>4 DEF Holder
    <3> QED
      BY <1>2, <2>2, <2>4, <3>1, NobodyIsTask
  <2> QED
    BY <2>3, <2>4
<1> QED
  BY <1>1, <1>2

\* So the holders change only with what live tasks hold and what is locked.
LEMMA HolderSame ==
  ASSUME QInv, QInv', NEW m \in Mutexes,
         locked'[m] <=> locked[m],
         \A t \in Tasks : (m \in held'[t] /\ state'[t] # "DYING")
                          <=> (m \in held[t] /\ state[t] # "DYING")
  PROVE  Holder(m)' = Holder(m)
<1>1. HolderIsAlive
  BY HolderSays
<1>2. HolderIsAlive'
  BY HolderSays, PTL
<1>3. /\ Holder(m)' \in Tasks \cup {NoTask, LostTask}
      /\ \A t \in Tasks : Holder(m)' = t <=> m \in held'[t] /\ state'[t] # "DYING"
      /\ Holder(m)' = NoTask <=> ~ locked'[m]
  BY <1>2 DEF HolderIsAlive
<1>4. /\ Holder(m) \in Tasks \cup {NoTask, LostTask}
      /\ \A t \in Tasks : Holder(m) = t <=> m \in held[t] /\ state[t] # "DYING"
      /\ Holder(m) = NoTask <=> ~ locked[m]
  BY <1>1 DEF HolderIsAlive
<1> QED
  BY <1>3, <1>4

LEMMA PromiseInit == Init => Promise!LockInit
<1> SUFFICES ASSUME Init PROVE Promise!LockInit
  OBVIOUS
<1>1. /\ \A m \in Mutexes : ~ locked[m]
      /\ \A t \in Tasks : want[t] = NoMutex
  BY DEF Init
<1>2. Holders = [m \in Mutexes |-> NoTask]
  BY <1>1 DEF Holders, Holder
<1>3. Wishes = [t \in Tasks |-> NoMutex]
  BY <1>1 DEF Wishes
<1>4. Asleep = {}
  BY <1>1 DEF Asleep
<1> QED
  BY <1>2, <1>3, <1>4 DEF Promise!LockInit, Holders, Wishes, Asleep

\* A step after which every live task holds and wants what it did, and sleeps or
\* not as it did, is none of the lock's.
LEMMA Stutters ==
  ASSUME QInv, QInv', locked' = locked,
         \A t \in Tasks :
           \/ /\ held'[t] = held[t] /\ want'[t] = want[t]
              /\ state'[t] = "DYING" <=> state[t] = "DYING"
              /\ want[t] = NoMutex \/ (state'[t] = "BLOCKED" <=> state[t] = "BLOCKED")
           \/ /\ state[t] = "DYING" \/ (held[t] = {} /\ want[t] = NoMutex)
              /\ held'[t] = {} /\ want'[t] = NoMutex
  PROVE  UNCHANGED Promise!lockVars
<1>1. \A m \in Mutexes : Holder(m)' = Holder(m)
  BY HolderSame
<1>2. Holders' = Holders
  BY <1>1 DEF Holders
<1>3. Wishes' = Wishes
  BY DEF Wishes
<1>4. Asleep' = Asleep
  BY DEF Asleep
<1> QED
  BY <1>2, <1>3, <1>4 DEF Promise!lockVars, Holders, Wishes, Asleep

LEMMA LockRequests ==
  ASSUME QInv, QInv', NEW t \in Tasks, NEW m \in Mutexes, Lock(t, m)
  PROVE  Promise!Request(t, m)
<1>1. /\ want[t] = NoMutex /\ state[t] = "RUNNING"
      /\ want' = [want EXCEPT ![t] = m]
      /\ locked' = locked /\ held' = held /\ state' = state
      /\ \A h \in held[t] : h < m
  BY DEF Lock, Running, QInv, Control, mutexVars
<1>2. m \notin held[t]
  BY <1>1, MutexNumbers
<1>3. Holders[m] # t
  BY <1>2, HolderSays DEF HolderIsAlive, Holders
<1>4. Holders' = Holders
  <2>1. \A k \in Mutexes : Holder(k)' = Holder(k)
    BY <1>1, HolderSame
  <2> QED
    BY <2>1 DEF Holders
<1>5. Wishes[t] = NoMutex /\ Wishes' = [Wishes EXCEPT ![t] = m]
  BY <1>1 DEF Wishes, QInv, MInv, TypeOK
<1>6. Asleep' = Asleep
  BY <1>1 DEF Asleep, QInv, MInv, TypeOK
<1> QED
  BY <1>3, <1>4, <1>5, <1>6 DEF Promise!Request, Holders, Wishes, Asleep

LEMMA AcquireTakes ==
  ASSUME QInv, QInv', NEW t \in Tasks, Acquire(t)
  PROVE  \E m \in Mutexes : Promise!Take(t, m)
<1>1. PICK m \in Mutexes : m = want[t]
  BY DEF Acquire, QInv, MInv, TryWants
<1>2. /\ ~ locked[m] /\ state[t] = "RUNNING"
      /\ locked' = [locked EXCEPT ![m] = TRUE]
      /\ held' = [held EXCEPT ![t] = held[t] \cup {m}]
      /\ want' = [want EXCEPT ![t] = NoMutex] /\ state' = state
  BY <1>1 DEF Acquire, Running, QInv, Control
<1>3. Holders[m] = NoTask
  BY <1>2, HolderSays DEF HolderIsAlive, Holders
<1>4. Holders' = [Holders EXCEPT ![m] = t]
  <2>1. Holder(m)' = t
    <3>1. m \in held'[t] /\ state'[t] # "DYING"
      BY <1>2 DEF QInv, MInv, TypeOK
    <3>2. HolderIsAlive'
      BY HolderSays, PTL
    <3> QED
      BY <3>1, <3>2 DEF HolderIsAlive
  <2>2. \A k \in Mutexes \ {m} : Holder(k)' = Holder(k)
    <3>1. \A k \in Mutexes \ {m} :
            /\ locked'[k] = locked[k]
            /\ \A u \in Tasks : k \in held'[u] <=> k \in held[u]
      BY <1>2 DEF QInv, MInv, TypeOK
    <3> QED
      BY <1>2, <3>1, HolderSame
  <2> QED
    BY <2>1, <2>2 DEF Holders
<1>5. /\ Wishes[t] = m /\ Wishes' = [Wishes EXCEPT ![t] = NoMutex]
      /\ t \notin Asleep /\ Asleep' = Asleep
  BY <1>1, <1>2 DEF Wishes, Asleep, QInv, MInv, TypeOK
<1> QED
  BY <1>3, <1>4, <1>5 DEF Promise!Take, Holders, Wishes, Asleep

LEMMA EnqueueSleeps ==
  ASSUME QInv, QInv', NEW t \in Tasks, Enqueue(t)
  PROVE  \E m \in Mutexes : Promise!Sleep(t, m)
<1>1. PICK m \in Mutexes : m = want[t]
  BY DEF Enqueue, QInv, MInv, TryWants
<1>2. /\ locked[m] /\ state[t] = "RUNNING"
      /\ state' = [state EXCEPT ![t] = "BLOCKED"]
      /\ locked' = locked /\ held' = held /\ want' = want
  BY <1>1 DEF Enqueue, Running, QInv, Control
<1>3. \A u \in Tasks : state'[u] = IF u = t THEN "BLOCKED" ELSE state[u]
  BY <1>2 DEF QInv, MInv, TypeOK
<1>4. Holders[m] # NoTask
  BY <1>2, HolderSays DEF HolderIsAlive, Holders
<1>5. Holders' = Holders
  <2>1. \A k \in Mutexes : Holder(k)' = Holder(k)
    BY <1>2, <1>3, HolderSame
  <2> QED
    BY <2>1 DEF Holders
<1>6. Wishes[t] = m /\ Wishes' = Wishes
  BY <1>1, <1>2, <1>3 DEF Wishes
<1>7. t \notin Asleep /\ Asleep' = Asleep \cup {t}
  BY <1>1, <1>2, <1>3, MutexNumbers DEF Asleep
<1> QED
  BY <1>4, <1>5, <1>6, <1>7 DEF Promise!Sleep, Holders, Wishes, Asleep

LEMMA UnlockReleases ==
  ASSUME QInv, QInv', NEW t \in Tasks, NEW m \in Mutexes, Unlock(t, m)
  PROVE  Promise!Release(t, m)
<1>1. /\ m \in held[t] /\ state[t] = "RUNNING"
      /\ locked' = [locked EXCEPT ![m] = FALSE]
      /\ held' = [held EXCEPT ![t] = held[t] \ {m}]
      /\ state' = StateAfterWake(waiters[m], state) /\ want' = want
  BY DEF Unlock, Running, QInv, Control
<1>2. \/ state' = state
      \/ \E first \in waiters[m] :
           state[first] = "BLOCKED" /\ state' = [state EXCEPT ![first] = "READY"]
  <2>1. state \in [Tasks -> TaskStates] /\ waiters[m] \in SUBSET Tasks
    BY DEF QInv, MInv, TypeOK
  <2> QED
    BY <1>1, <2>1, WakeEffect
<1>3. \A u \in Tasks : state'[u] = "DYING" <=> state[u] = "DYING"
  BY <1>2 DEF QInv, MInv, TypeOK
<1>4. Holders[m] = t
  BY <1>1, HolderSays DEF HolderIsAlive, Holders
<1>5. Holders' = [Holders EXCEPT ![m] = NoTask]
  <2>1. Holder(m)' = NoTask
    BY <1>1 DEF Holder, QInv, MInv, TypeOK
  <2>2. \A k \in Mutexes \ {m} : Holder(k)' = Holder(k)
    <3>1. \A k \in Mutexes \ {m} :
            /\ locked'[k] = locked[k]
            /\ \A u \in Tasks : k \in held'[u] <=> k \in held[u]
      BY <1>1 DEF QInv, MInv, TypeOK
    <3> QED
      BY <1>3, <3>1, HolderSame
  <2> QED
    BY <2>1, <2>2 DEF Holders
<1>6. Wishes' = Wishes
  BY <1>1, <1>3 DEF Wishes
<1>7. Asleep' = Asleep \/ \E w \in Asleep : Asleep' = Asleep \ {w}
  <2>1. CASE state' = state
    BY <1>1, <2>1 DEF Asleep
  <2>2. ASSUME NEW first \in waiters[m],
               state[first] = "BLOCKED", state' = [state EXCEPT ![first] = "READY"]
        PROVE  Asleep' = Asleep \/ \E w \in Asleep : Asleep' = Asleep \ {w}
    <3>1. first \in Tasks
      BY DEF QInv, MInv, TypeOK
    <3>2. \A u \in Tasks : state'[u] = IF u = first THEN "READY" ELSE state[u]
      BY <2>2 DEF QInv, MInv, TypeOK
    <3>3. CASE want[first] = NoMutex
      <4>1. Asleep' = Asleep
        BY <1>1, <2>2, <3>2, <3>3 DEF Asleep
      <4> QED
        BY <4>1
    <3>4. CASE want[first] # NoMutex
      <4>1. first \in Asleep /\ Asleep' = Asleep \ {first}
        BY <1>1, <2>2, <3>1, <3>2, <3>4 DEF Asleep
      <4> QED
        BY <4>1
    <3> QED
      BY <3>3, <3>4
  <2> QED
    BY <1>2, <2>1, <2>2
<1> QED
  BY <1>4, <1>5, <1>6, <1>7 DEF Promise!Release, Holders, Wishes, Asleep

LEMMA WakeupRouses ==
  ASSUME QInv, QInv', NEW t \in Tasks, DeviceWakeup(t)
  PROVE  Promise!Rouse(t) \/ UNCHANGED Promise!lockVars
<1>1. /\ state[t] = "BLOCKED" /\ state' = [state EXCEPT ![t] = "READY"]
      /\ want' = want /\ held' = held /\ locked' = locked
  BY OutsiderSteps
<1>2. \A u \in Tasks : state'[u] = IF u = t THEN "READY" ELSE state[u]
  BY <1>1 DEF QInv, MInv, TypeOK
<1>3. CASE want[t] = NoMutex
  BY <1>1, <1>2, <1>3, Stutters
<1>4. CASE want[t] # NoMutex
  <2>1. Holders' = Holders
    <3>1. \A k \in Mutexes : Holder(k)' = Holder(k)
      BY <1>1, <1>2, HolderSame
    <3> QED
      BY <3>1 DEF Holders
  <2>2. Wishes' = Wishes
    BY <1>1, <1>2 DEF Wishes
  <2>3. t \in Asleep /\ Asleep' = Asleep \ {t}
    BY <1>1, <1>2, <1>4 DEF Asleep
  <2> QED
    BY <2>1, <2>2, <2>3 DEF Promise!Rouse, Holders, Wishes, Asleep
<1> QED
  BY <1>3, <1>4

\* What the stopped task holds is lost, what it wants forgotten.
LEMMA StopVanishes ==
  ASSUME QInv, QInv', NEW t \in Tasks, NEW id \in Tasks, RequestStop(t, id)
  PROVE  Promise!Vanish(id)
<1>1. /\ state' = [state EXCEPT ![id] = "DYING"] /\ state[id] # "DYING"
      /\ want' = want /\ held' = held /\ locked' = locked
  BY OutsiderSteps
<1>2. \A u \in Tasks : state'[u] = IF u = id THEN "DYING" ELSE state[u]
  BY <1>1 DEF QInv, MInv, TypeOK
<1>3. \A k \in Mutexes : Holder(k)' = IF Holder(k) = id THEN LostTask ELSE Holder(k)
  <2> SUFFICES ASSUME NEW k \in Mutexes
               PROVE  Holder(k)' = IF Holder(k) = id THEN LostTask ELSE Holder(k)
    OBVIOUS
  <2>1. CASE Holder(k) = id
    <3>1. locked[k] /\ k \in held[id]
      BY <2>1, HolderSays, NobodyIsTask DEF HolderIsAlive
    <3>2. Holder(k)' \notin Tasks \cup {NoTask}
      <4>1. HolderIsAlive'
        BY HolderSays, PTL
      <4>2. \A u \in Tasks : ~ (k \in held'[u] /\ state'[u] # "DYING")
        BY <1>1, <1>2, <3>1 DEF QInv, MInv, MutualExclusion
      <4> QED
        BY <1>1, <3>1, <4>1, <4>2 DEF HolderIsAlive
    <3>3. HolderIsAlive'
      BY HolderSays, PTL
    <3> QED
      BY <2>1, <3>2, <3>3 DEF HolderIsAlive
  <2>2. CASE Holder(k) # id
    <3>1. ~ (k \in held[id] /\ state[id] # "DYING")
      BY <2>2, HolderSays DEF HolderIsAlive
    <3> QED
      BY <1>1, <1>2, <2>2, <3>1, HolderSame
  <2> QED
    BY <2>1, <2>2
<1>4. Holders' = [k \in Mutexes |-> IF Holders[k] = id THEN LostTask ELSE Holders[k]]
  BY <1>3 DEF Holders
<1>5. Wishes' = [Wishes EXCEPT ![id] = NoMutex]
  BY <1>1, <1>2 DEF Wishes
<1>6. Asleep' = Asleep \ {id}
  BY <1>1, <1>2 DEF Asleep
<1> QED
  BY <1>4, <1>5, <1>6 DEF Promise!Vanish, Holders, Wishes, Asleep

LEMMA PromiseNext ==
  ASSUME QInv, QInv', [Next]_vars
  PROVE  [Promise!LockNext]_(Promise!lockVars)
<1>1. CASE UNCHANGED vars
  BY <1>1, Stutters DEF vars, taskVars, mutexVars
<1>2. CASE Yield
  <2>1. locked' = locked
    BY <1>2, YieldEffect
  <2>2. \A t \in Tasks :
          \/ /\ held'[t] = held[t] /\ want'[t] = want[t]
             /\ state'[t] = "DYING" <=> state[t] = "DYING"
             /\ state'[t] = "BLOCKED" <=> state[t] = "BLOCKED"
          \/ state[t] = "DYING" /\ held'[t] = {} /\ want'[t] = NoMutex
    BY <1>2, YieldEffect
  <2> QED
    BY <2>1, <2>2, Stutters
<1>3. ASSUME NEW t \in Tasks, NEW m \in Mutexes, Lock(t, m) \/ Unlock(t, m)
      PROVE  Promise!LockNext
  BY <1>3, LockRequests, UnlockReleases DEF Promise!LockNext
<1>4. ASSUME NEW t \in Tasks, Acquire(t) \/ Enqueue(t) PROVE Promise!LockNext
  BY <1>4, AcquireTakes, EnqueueSleeps DEF Promise!LockNext
<1>5. ASSUME NEW t \in Tasks, WaitForDevice(t) \/ Exit(t)
      PROVE  UNCHANGED Promise!lockVars
  <2>1. /\ want[t] = NoMutex /\ state[t] = "RUNNING"
        /\ want' = want /\ held' = held /\ locked' = locked
    BY <1>5, OutsiderSteps
  <2>2. \A u \in Tasks \ {t} : state'[u] = state[u]
    BY <1>5, OutsiderSteps DEF QInv, MInv, TypeOK
  <2>3. state'[t] # "DYING" \/ held[t] = {}
    BY <1>5, OutsiderSteps DEF QInv, MInv, TypeOK
  <2> QED
    BY <2>1, <2>2, <2>3, Stutters
<1>6. ASSUME NEW t \in Tasks, DeviceWakeup(t)
      PROVE  Promise!LockNext \/ UNCHANGED Promise!lockVars
  BY <1>6, WakeupRouses DEF Promise!LockNext
<1>7. ASSUME NEW t \in Tasks, NEW id \in Tasks, RequestStop(t, id)
      PROVE  Promise!LockNext
  BY <1>7, StopVanishes DEF Promise!LockNext
<1>8. ASSUME NEW t \in Tasks, Create(t) PROVE UNCHANGED Promise!lockVars
  <2>1. want' = want /\ held' = held /\ locked' = locked
    BY <1>8, OutsiderSteps
  <2>2. PICK i \in Tasks : state[i] = "UNUSED" /\ state' = [state EXCEPT ![i] = "READY"]
    BY <1>8, OutsiderSteps
  <2>3. want[i] = NoMutex /\ held[i] = {}
    BY <2>2 DEF QInv, UnusedIsBlank
  <2>4. \A u \in Tasks \ {i} : state'[u] = state[u]
    BY <2>2 DEF QInv, MInv, TypeOK
  <2> QED
    BY <2>1, <2>3, <2>4, Stutters
<1> QED
  BY <1>1, <1>2, <1>3, <1>4, <1>5, <1>6, <1>7, <1>8 DEF Next

\* Every step of mutex_lock, mutex_unlock, the scheduler, the handlers and the
\* stops is a step of the abstract lock or none: only a free mutex is taken, by a
\* task that asked for it; only its holder releases it; nobody goes to sleep on a
\* free one; and the lock of a stopped holder is lost, also to the next task with
\* its id (mutex.c:28-70, task.c:151-204).
THEOREM MutexImplementsLock == Spec => Promise!LockInit /\ [][Promise!LockNext]_(Promise!lockVars)
<1>1. QInv /\ QInv' /\ [Next]_vars => [Promise!LockNext]_(Promise!lockVars)
  BY PromiseNext
<1> QED
  BY <1>1, QInit, QNext, PromiseInit, PTL DEF Spec
=============================================================================
