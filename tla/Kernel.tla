------------------------------- MODULE Kernel -------------------------------
(***************************************************************************)
(* The kernel's mutexes (KernelMutex), the I2C driver behind one of them   *)
(* (I2c), and the logs of the tasks on the heap (TaskLog).  They share no  *)
(* variable: I2c takes its lock from AbstractLock, which KernelMutex       *)
(* implements, and nothing in the logs waits for a mutex.  So one of them  *)
(* is chosen at the start, and the others' variables keep their initial    *)
(* values.                                                                 *)
(***************************************************************************)
EXTENDS KernelMutex, I2c, TaskLog

CONSTANT NestedTasks   \* bound: with more tasks than that nobody uses the UART lock

ASSUME KernelAssumption == NestedTasks \in Nat

VARIABLE part   \* what is looked at: "mutex", "bus" or "log"

kernelVars == <<part, vars, busVars, logVars>>

KernelInit ==
  /\ part \in {"mutex", "bus", "log"}
  /\ Init /\ BusInit /\ LogInit

\* The UART output lock is the mutex that nobody keeps while waiting for a device.
UartUnused ==
  \A m \in Mutexes \ DeviceLocks : ~locked[m] /\ \A t \in Tasks : want[t] # m
MutexBound ==
  Cardinality({t \in Tasks : state[t] # "UNUSED"}) > NestedTasks => UartUnused

MutexStep(A) ==
  part = "mutex" /\ A /\ MutexBound' /\ UNCHANGED <<part, busVars, logVars>>
BusStep(A)   == part = "bus" /\ A /\ UNCHANGED <<part, vars, logVars>>
LogStep(A)   == part = "log" /\ A /\ UNCHANGED <<part, vars, busVars>>

KernelNext == MutexStep(Next) \/ BusStep(BusNext) \/ LogStep(LogNext)

\* The fairness of KernelMutex and of I2c; the logs have none.
KernelSpec ==
  /\ KernelInit /\ [][KernelNext]_kernelVars
  /\ SF_kernelVars(MutexStep(Yield))
  /\ \A t \in Tasks : WF_kernelVars(MutexStep(Acquire(t) \/ Enqueue(t)))
  /\ WF_kernelVars(BusStep(\E t \in Clients : ClientStep(t)))
  /\ SF_kernelVars(BusStep(\E t \in Clients : BusUnlock(t)))
  /\ WF_kernelVars(BusStep(IrqService))
  /\ WF_kernelVars(BusStep(IrqDone \/ IrqError))
=============================================================================
