--------------------------- MODULE AbstractLock ----------------------------
(***************************************************************************)
(* What a set of mutexes promises the tasks that use it, with no queue, no *)
(* scheduler and no task states.  A mutex has at most one holder; only a   *)
(* task that asked takes it, and only its holder gives it back.  A task    *)
(* sleeps only on a mutex that is not free, and one that is free is taken  *)
(* in the end if somebody who wants it is awake.                           *)
(*                                                                         *)
(* What it does not promise: that any particular task gets it, that a task *)
(* sleeps until it is released (Rouse), that a release wakes somebody who  *)
(* still wants it, and that a mutex outlives its holder: the lock of a     *)
(* user that vanishes is lost, also to the next one with the same name.    *)
(***************************************************************************)
CONSTANTS Users, Mutexes,
  Nobody,    \* no holder
  Lost,      \* the holder has vanished
  Nothing    \* no mutex wanted

VARIABLES
  holder,   \* the user in the critical section of each mutex, Nobody or Lost
  wants,    \* the mutex each user is waiting for, or Nothing
  asleep    \* the users that sleep while they wait

lockVars == <<holder, wants, asleep>>

LockInit ==
  /\ holder = [m \in Mutexes |-> Nobody]
  /\ wants = [u \in Users |-> Nothing]
  /\ asleep = {}

Request(u, m) ==
  /\ wants[u] = Nothing /\ holder[m] # u
  /\ wants' = [wants EXCEPT ![u] = m]
  /\ UNCHANGED <<holder, asleep>>

Take(u, m) ==
  /\ wants[u] = m /\ holder[m] = Nobody /\ u \notin asleep
  /\ holder' = [holder EXCEPT ![m] = u]
  /\ wants' = [wants EXCEPT ![u] = Nothing]
  /\ UNCHANGED asleep

Sleep(u, m) ==
  /\ wants[u] = m /\ holder[m] # Nobody /\ u \notin asleep
  /\ asleep' = asleep \cup {u}
  /\ UNCHANGED <<holder, wants>>

\* At most one user is woken.
Release(u, m) ==
  /\ holder[m] = u
  /\ holder' = [holder EXCEPT ![m] = Nobody]
  /\ asleep' = asleep \/ \E w \in asleep : asleep' = asleep \ {w}
  /\ UNCHANGED wants

Rouse(u) ==
  /\ u \in asleep
  /\ asleep' = asleep \ {u}
  /\ UNCHANGED <<holder, wants>>

\* A user is gone, wherever it was; what it held is lost.
Vanish(u) ==
  /\ holder' = [m \in Mutexes |-> IF holder[m] = u THEN Lost ELSE holder[m]]
  /\ wants' = [wants EXCEPT ![u] = Nothing]
  /\ asleep' = asleep \ {u}

LockNext ==
  \E u \in Users :
    \/ \E m \in Mutexes : Request(u, m) \/ Take(u, m) \/ Sleep(u, m) \/ Release(u, m)
    \/ Rouse(u)
    \/ Vanish(u)

Takeable(m) == holder[m] = Nobody /\ \E u \in Users \ asleep : wants[u] = m

\* The fairness is that of Take, some u's for each m, without its ENABLED.
LockSpec ==
  /\ LockInit /\ [][LockNext]_lockVars
  /\ \A m \in Mutexes : []<>~Takeable(m)
=============================================================================
