----------------------------- MODULE I2cProofs -----------------------------
(***************************************************************************)
(* Safety of the I2C driver for any number of clients, any length of       *)
(* transfer, any set of clients that something else wakes early and any    *)
(* set that may be stopped, with the bus lock and inside a transfer too.   *)
(*                                                                         *)
(* One fact carries the rest: whoever is inside the driver holds the bus   *)
(* lock (HolderInside), so the record has one task to be true to, which is *)
(* the stopped one for good if that went with the lock.                    *)
(***************************************************************************)
EXTENDS I2c, TLAPS

\* A client is inside the driver only while it holds the bus lock.
HolderInside == \A t \in Clients : phase[t] # "idle" => bus = t

\* A stopped client went where the driver lets go of the CPU, and nothing wakes it.
GoneIsStill ==
  \A t \in Clients :
    gone[t] => ~ blocked[t] /\ phase[t] \in {"idle", "waiting", "unlock"}

\* A busy record is not done, and a transfer that ended without an error has
\* moved all its bytes.
RecordClosed ==
  /\ transfer.busy => ~ transfer.done
  /\ transfer.done /\ transfer.error = 0 => transfer.pos = transfer.len

Over    == transfer.done /\ ~ transfer.busy
UnderWay == transfer.busy /\ controller = "running"

\* Until it is back from its wait, the record is that of the client which started
\* it; a client that only its transfer wakes is awake when the transfer is over.
OwnTransfer ==
  \A t \in Clients :
    /\ phase[t] \in {"started", "waiting"} => transfer.waiting = t /\ (Over \/ UnderWay)
    /\ phase[t] = "waiting" /\ blocked[t] => UnderWay
    /\ phase[t] = "waiting" /\ ~ blocked[t] /\ ~ gone[t] /\ t \notin WokenEarly => Over

Inv == RecordSound /\ ResultHonest /\ HolderInside /\ GoneIsStill /\ RecordClosed /\ OwnTransfer

USE I2cAssumption

-----------------------------------------------------------------------------
LEMMA NobodyIsNoClient == Nobody \notin Clients
BY DEF Nobody

LEMMA InvInit == BusInit => Inv
BY DEF BusInit, Inv, RecordSound, BusTypeOK, Phases, NoTransfer, Nobody, NoneForgotten, RefusedAfterStray,
       BufferAlive, BusLost, Inside, WaiterIsServed, ResultHonest, Served, HolderInside,
       GoneIsStill, RecordClosed, OwnTransfer, Over, UnderWay

LEMMA InvBegin == ASSUME Inv, NEW t \in Clients, Begin(t) PROVE Inv'
<1> USE DEF Begin, Inv
<1>1. BusTypeOK'
  BY DEF RecordSound, BusTypeOK, Phases
<1>2. WaiterIsServed' /\ NoneForgotten'
  BY DEF RecordSound, WaiterIsServed, NoneForgotten
<1>3. RefusedAfterStray'
  <2>1. transfer.busy => transfer.waiting \in WokenEarly
    <3> SUFFICES ASSUME transfer.busy PROVE transfer.waiting \in WokenEarly
      OBVIOUS
    <3>1. transfer.waiting \in Clients
      BY DEF RecordSound, BufferAlive
    <3>2. phase[transfer.waiting] = "idle"
      BY <3>1, NobodyIsNoClient DEF HolderInside
    <3> QED
      BY <3>1, <3>2 DEF RecordSound, BufferAlive, BusLost
  <2> QED
    BY <2>1 DEF RefusedAfterStray
<1>4. ResultHonest'
  BY DEF RecordSound, BusTypeOK, ResultHonest, Served
<1>5. HolderInside'
  BY NobodyIsNoClient DEF RecordSound, BusTypeOK, HolderInside
<1>6. RecordClosed' /\ OwnTransfer'
  BY DEF RecordClosed, OwnTransfer, Over, UnderWay
<1>7. BufferAlive'
  BY <1>3 DEF RecordSound, BusTypeOK, RefusedAfterStray, BufferAlive
<1>8. GoneIsStill'
  BY DEF RecordSound, BusTypeOK, GoneIsStill, Awake
<1> QED
  BY <1>1, <1>2, <1>3, <1>4, <1>5, <1>6, <1>7, <1>8 DEF RecordSound

LEMMA InvStart == ASSUME Inv, NEW t \in Clients, Start(t) PROVE Inv'
<1> USE DEF Start, Inv
<1>1. BusTypeOK'
  BY DEF RecordSound, BusTypeOK, Phases
<1>2. BufferAlive'
  BY DEF RecordSound, BusTypeOK, BufferAlive, BusLost, Inside, HolderInside, GoneIsStill,
         RecordClosed, OwnTransfer, Over
<1>3. WaiterIsServed'
  BY DEF WaiterIsServed, HolderInside
<1>4. NoneForgotten'
  BY DEF NoneForgotten
<1>5. RefusedAfterStray'
  BY DEF RecordSound, BusTypeOK, HolderInside, RefusedAfterStray
<1>6. ResultHonest'
  <2>1. \A u \in Clients : phase'[u] # "returned"
    BY DEF RecordSound, BusTypeOK, HolderInside
  <2> QED
    BY <2>1 DEF ResultHonest, Served
<1>7. HolderInside'
  BY DEF HolderInside
<1>8. RecordClosed'
  BY DEF RecordClosed
<1>9. OwnTransfer'
  BY DEF OwnTransfer, UnderWay, HolderInside
<1>10. GoneIsStill'
  BY DEF RecordSound, BusTypeOK, GoneIsStill
<1> QED
  BY <1>1, <1>2, <1>3, <1>4, <1>5, <1>6, <1>7, <1>8, <1>9, <1>10 DEF RecordSound

LEMMA InvStartRefused == ASSUME Inv, NEW t \in Clients, StartRefused(t) PROVE Inv'
<1> USE DEF StartRefused, Inv
<1>1. BusTypeOK'
  BY DEF RecordSound, BusTypeOK, Phases
<1>2. BufferAlive'
  BY DEF RecordSound, BusTypeOK, BufferAlive, BusLost, Inside, HolderInside, GoneIsStill,
         RecordClosed, OwnTransfer, Over
<1>3. WaiterIsServed'
  BY DEF WaiterIsServed, HolderInside
<1>4. NoneForgotten'
  BY DEF NoneForgotten
<1>5. RefusedAfterStray'
  BY DEF RecordSound, RefusedAfterStray
<1>6. ResultHonest'
  BY DEF RecordSound, BusTypeOK, ResultHonest, Served
<1>7. HolderInside'
  BY DEF HolderInside
<1>8. RecordClosed'
  BY DEF RecordClosed
<1>9. OwnTransfer'
  BY DEF OwnTransfer, HolderInside
<1>10. GoneIsStill'
  BY DEF RecordSound, BusTypeOK, GoneIsStill
<1> QED
  BY <1>1, <1>2, <1>3, <1>4, <1>5, <1>6, <1>7, <1>8, <1>9, <1>10 DEF RecordSound

LEMMA InvWaitNot == ASSUME Inv, NEW t \in Clients, WaitNot(t) PROVE Inv'
<1> USE DEF WaitNot, Inv
<1>1. BusTypeOK'
  BY DEF RecordSound, BusTypeOK, Phases
<1>2. BufferAlive'
  BY DEF RecordSound, BusTypeOK, BufferAlive, BusLost, Inside, HolderInside, GoneIsStill,
         RecordClosed, OwnTransfer, Over
<1>3. WaiterIsServed'
  BY DEF WaiterIsServed, HolderInside
<1>4. NoneForgotten'
  BY DEF RecordSound, NoneForgotten
<1>5. RefusedAfterStray'
  BY DEF HolderInside, RefusedAfterStray
<1>6. ResultHonest'
  BY DEF RecordSound, BusTypeOK, ResultHonest, Served, RecordClosed
<1>7. HolderInside'
  BY DEF HolderInside
<1>8. RecordClosed'
  BY DEF RecordClosed
<1>9. OwnTransfer'
  BY DEF OwnTransfer, Over, UnderWay
<1>10. GoneIsStill'
  BY DEF RecordSound, BusTypeOK, GoneIsStill
<1> QED
  BY <1>1, <1>2, <1>3, <1>4, <1>5, <1>6, <1>7, <1>8, <1>9, <1>10 DEF RecordSound

LEMMA InvWait == ASSUME Inv, NEW t \in Clients, Wait(t) PROVE Inv'
<1> USE DEF Wait, Inv
<1>1. BusTypeOK'
  BY DEF RecordSound, BusTypeOK, Phases
<1>2. BufferAlive'
  BY DEF RecordSound, BusTypeOK, BufferAlive, BusLost, Inside, HolderInside, GoneIsStill,
         RecordClosed, OwnTransfer, Over
<1>3. WaiterIsServed'
  BY DEF WaiterIsServed, OwnTransfer, Over, UnderWay
<1>4. NoneForgotten'
  BY DEF OwnTransfer, Over, UnderWay, NoneForgotten
<1>5. RefusedAfterStray'
  BY DEF HolderInside, RefusedAfterStray
<1>6. ResultHonest'
  BY DEF ResultHonest, Served, HolderInside
<1>7. HolderInside'
  BY DEF HolderInside
<1>8. RecordClosed'
  BY DEF RecordClosed
<1>9. OwnTransfer'
  BY DEF RecordSound, BusTypeOK, OwnTransfer, Over, UnderWay
<1>10. GoneIsStill'
  BY DEF RecordSound, BusTypeOK, GoneIsStill
<1> QED
  BY <1>1, <1>2, <1>3, <1>4, <1>5, <1>6, <1>7, <1>8, <1>9, <1>10 DEF RecordSound

LEMMA InvResume == ASSUME Inv, NEW t \in Clients, Resume(t) PROVE Inv'
<1> USE DEF Resume, Awake, Inv
<1>1. BusTypeOK'
  BY DEF RecordSound, BusTypeOK, Phases
<1>2. BufferAlive'
  BY DEF RecordSound, BusTypeOK, BufferAlive, BusLost, Inside, HolderInside, GoneIsStill,
         RecordClosed, OwnTransfer, Over
<1>3. WaiterIsServed'
  BY DEF WaiterIsServed, HolderInside
<1>4. NoneForgotten'
  BY DEF RecordSound, NoneForgotten
<1>5. RefusedAfterStray'
  BY DEF HolderInside, RefusedAfterStray
<1>6. ResultHonest'
  BY DEF RecordSound, BusTypeOK, ResultHonest, Served, RecordClosed, OwnTransfer, Over
<1>7. HolderInside'
  BY DEF HolderInside
<1>8. RecordClosed'
  BY DEF RecordClosed
<1>9. OwnTransfer'
  BY DEF OwnTransfer, Over, UnderWay
<1>10. GoneIsStill'
  BY DEF RecordSound, BusTypeOK, GoneIsStill
<1> QED
  BY <1>1, <1>2, <1>3, <1>4, <1>5, <1>6, <1>7, <1>8, <1>9, <1>10 DEF RecordSound

LEMMA InvRecover == ASSUME Inv, NEW t \in Clients, Recover(t) PROVE Inv'
<1> USE DEF Recover, Inv, NoTransfer
<1>1. BusTypeOK'
  BY DEF RecordSound, BusTypeOK, Phases
<1>2. BufferAlive'
  BY DEF RecordSound, BusTypeOK, BufferAlive, BusLost, Inside, HolderInside, GoneIsStill,
         RecordClosed, OwnTransfer, Over
<1>3. WaiterIsServed'
  BY DEF WaiterIsServed, HolderInside
<1>4. NoneForgotten'
  BY DEF NoneForgotten
<1>5. RefusedAfterStray'
  BY DEF RefusedAfterStray
<1>6. ResultHonest'
  BY DEF RecordSound, BusTypeOK, ResultHonest, Served, HolderInside
<1>7. HolderInside'
  BY DEF HolderInside
<1>8. RecordClosed'
  BY DEF RecordClosed
<1>9. OwnTransfer'
  BY DEF OwnTransfer, HolderInside
<1>10. GoneIsStill'
  BY DEF RecordSound, BusTypeOK, GoneIsStill
<1> QED
  BY <1>1, <1>2, <1>3, <1>4, <1>5, <1>6, <1>7, <1>8, <1>9, <1>10 DEF RecordSound

LEMMA InvSucceed == ASSUME Inv, NEW t \in Clients, Succeed(t) PROVE Inv'
<1> USE DEF Succeed, Inv
<1>1. BusTypeOK'
  BY DEF RecordSound, BusTypeOK, Phases
<1>2. BufferAlive'
  BY DEF RecordSound, BusTypeOK, BufferAlive, BusLost, Inside, HolderInside, GoneIsStill,
         RecordClosed, OwnTransfer, Over
<1>3. WaiterIsServed'
  BY DEF RecordSound, BusTypeOK, WaiterIsServed, HolderInside
<1>4. NoneForgotten'
  BY DEF RecordSound, NoneForgotten
<1>5. RefusedAfterStray'
  BY DEF RecordSound, BusTypeOK, BufferAlive, BusLost, Inside, HolderInside, GoneIsStill,
         RefusedAfterStray
<1>6. ResultHonest'
  BY DEF RecordSound, BusTypeOK, ResultHonest, Served
<1>7. HolderInside'
  BY DEF RecordSound, BusTypeOK, HolderInside
<1>8. RecordClosed'
  BY DEF RecordClosed
<1>9. OwnTransfer'
  BY DEF RecordSound, BusTypeOK, OwnTransfer, HolderInside
<1>10. GoneIsStill'
  BY DEF RecordSound, BusTypeOK, GoneIsStill
<1> QED
  BY <1>1, <1>2, <1>3, <1>4, <1>5, <1>6, <1>7, <1>8, <1>9, <1>10 DEF RecordSound

LEMMA InvBusUnlock == ASSUME Inv, NEW t \in Clients, BusUnlock(t) PROVE Inv'
<1> USE DEF BusUnlock, Awake, Inv
<1>1. BusTypeOK'
  BY DEF RecordSound, BusTypeOK, Phases
<1>2. BufferAlive'
  BY DEF RecordSound, BusTypeOK, BufferAlive, BusLost, Inside, HolderInside, GoneIsStill,
         RecordClosed, OwnTransfer, Over
<1>3. WaiterIsServed'
  BY DEF WaiterIsServed, HolderInside
<1>4. NoneForgotten'
  BY DEF RecordSound, NoneForgotten
<1>5. RefusedAfterStray'
  BY DEF HolderInside, RefusedAfterStray
<1>6. ResultHonest'
  BY DEF ResultHonest, Served, OwnTransfer, UnderWay
<1>7. HolderInside'
  BY NobodyIsNoClient DEF RecordSound, BusTypeOK, HolderInside
<1>8. RecordClosed'
  BY DEF RecordClosed
<1>9. OwnTransfer'
  BY DEF OwnTransfer, HolderInside
<1>10. GoneIsStill'
  BY DEF RecordSound, BusTypeOK, GoneIsStill
<1> QED
  BY <1>1, <1>2, <1>3, <1>4, <1>5, <1>6, <1>7, <1>8, <1>9, <1>10 DEF RecordSound

LEMMA InvNextJob == ASSUME Inv, NEW t \in Clients, NextJob(t) PROVE Inv'
<1> USE DEF NextJob, Awake, Inv
<1>1. BusTypeOK'
  BY DEF RecordSound, BusTypeOK, Phases
<1>2. BufferAlive'
  BY DEF RecordSound, BusTypeOK, BufferAlive, BusLost, Inside, HolderInside, GoneIsStill,
         RecordClosed, OwnTransfer, Over
<1>3. WaiterIsServed'
  BY DEF RecordSound, BusTypeOK, WaiterIsServed, HolderInside
<1>4. NoneForgotten'
  BY DEF RecordSound, NoneForgotten
<1>5. RefusedAfterStray'
  <2>1. bus = t /\ Inside(t) /\ phase[t] \notin {"started", "waiting"}
    BY DEF HolderInside, Inside
  <2>2. transfer.busy => transfer.waiting \in WokenEarly
    BY <2>1 DEF RecordSound, HolderInside, BufferAlive, BusLost
  <2> QED
    BY <2>2 DEF RefusedAfterStray
<1>6. ResultHonest'
  BY DEF RecordSound, BusTypeOK, ResultHonest, Served
<1>7. HolderInside'
  BY DEF RecordSound, BusTypeOK, HolderInside
<1>8. RecordClosed'
  BY DEF RecordClosed
<1>9. OwnTransfer'
  BY DEF RecordSound, BusTypeOK, OwnTransfer, Over, UnderWay, HolderInside, GoneIsStill
<1>10. GoneIsStill'
  BY DEF RecordSound, BusTypeOK, GoneIsStill
<1> QED
  BY <1>1, <1>2, <1>3, <1>4, <1>5, <1>6, <1>7, <1>8, <1>9, <1>10 DEF RecordSound

LEMMA InvStop == ASSUME Inv, NEW t \in Clients, Stop(t) PROVE Inv'
<1> USE DEF Stop, MayYield, Inv, clientVars
<1>1. BusTypeOK'
  BY DEF RecordSound, BusTypeOK, Phases
<1>2. BufferAlive'
  BY NobodyIsNoClient DEF RecordSound, BusTypeOK, BufferAlive, BusLost, Inside, HolderInside, GoneIsStill,
         RecordClosed, OwnTransfer, Over
<1>3. WaiterIsServed'
  BY DEF RecordSound, BusTypeOK, WaiterIsServed, HolderInside
<1>4. NoneForgotten'
  BY DEF RecordSound, NoneForgotten
<1>5. RefusedAfterStray'
  BY DEF RecordSound, BusTypeOK, RefusedAfterStray, HolderInside, BufferAlive, BusLost, Inside,
         GoneIsStill
<1>6. ResultHonest'
  BY DEF RecordSound, BusTypeOK, ResultHonest, Served
<1>7. HolderInside'
  BY DEF RecordSound, BusTypeOK, HolderInside
<1>8. RecordClosed'
  BY DEF RecordClosed
<1>9. OwnTransfer'
  BY DEF RecordSound, BusTypeOK, OwnTransfer, Over, UnderWay, HolderInside, GoneIsStill
<1>10. GoneIsStill'
  BY DEF RecordSound, BusTypeOK, GoneIsStill
<1> QED
  BY <1>1, <1>2, <1>3, <1>4, <1>5, <1>6, <1>7, <1>8, <1>9, <1>10 DEF RecordSound

LEMMA InvReuse == ASSUME Inv, NEW t \in Clients, Reuse(t) PROVE Inv'
<1> USE DEF Reuse, Inv
<1>1. BusTypeOK'
  BY DEF RecordSound, BusTypeOK, Phases
<1>2. BufferAlive'
  BY DEF RecordSound, BusTypeOK, BufferAlive, BusLost, Inside, HolderInside, GoneIsStill,
         RecordClosed, OwnTransfer, Over
<1>3. WaiterIsServed'
  BY DEF RecordSound, BusTypeOK, WaiterIsServed, HolderInside
<1>4. NoneForgotten'
  BY DEF RecordSound, NoneForgotten
<1>5. RefusedAfterStray'
  BY DEF RecordSound, BusTypeOK, RefusedAfterStray, HolderInside, BufferAlive, BusLost, Inside,
         GoneIsStill
<1>6. ResultHonest'
  BY DEF RecordSound, BusTypeOK, ResultHonest, Served
<1>7. HolderInside'
  BY DEF RecordSound, BusTypeOK, HolderInside
<1>8. RecordClosed'
  BY DEF RecordClosed
<1>9. OwnTransfer'
  BY DEF RecordSound, BusTypeOK, OwnTransfer, Over, UnderWay, HolderInside, GoneIsStill
<1>10. GoneIsStill'
  BY DEF RecordSound, BusTypeOK, GoneIsStill
<1> QED
  BY <1>1, <1>2, <1>3, <1>4, <1>5, <1>6, <1>7, <1>8, <1>9, <1>10 DEF RecordSound

LEMMA InvBlockElsewhere == ASSUME Inv, NEW t \in Clients, BlockElsewhere(t) PROVE Inv'
<1> USE DEF BlockElsewhere, Awake, Inv, clientVars
<1>1. BusTypeOK'
  BY DEF RecordSound, BusTypeOK
<1>2. BufferAlive'
  BY DEF RecordSound, BusTypeOK, BufferAlive, BusLost, Inside, HolderInside, GoneIsStill,
         RecordClosed, OwnTransfer, Over
<1>3. WaiterIsServed'
  BY DEF WaiterIsServed, OwnTransfer, UnderWay
<1>4. NoneForgotten'
  BY DEF RecordSound, NoneForgotten
<1>5. RefusedAfterStray'
  BY DEF RecordSound, RefusedAfterStray
<1>6. ResultHonest'
  BY DEF ResultHonest, Served
<1>7. HolderInside'
  BY DEF HolderInside
<1>8. RecordClosed'
  BY DEF RecordClosed
<1>9. OwnTransfer'
  BY DEF OwnTransfer, Over, UnderWay
<1>10. GoneIsStill'
  BY DEF RecordSound, BusTypeOK, GoneIsStill
<1> QED
  BY <1>1, <1>2, <1>3, <1>4, <1>5, <1>6, <1>7, <1>8, <1>9, <1>10 DEF RecordSound

LEMMA InvOtherWakeup == ASSUME Inv, NEW t \in Clients, OtherWakeup(t) PROVE Inv'
<1> USE DEF OtherWakeup, Inv, clientVars
<1>1. BusTypeOK'
  BY DEF RecordSound, BusTypeOK
<1>2. BufferAlive'
  BY DEF RecordSound, BusTypeOK, BufferAlive, BusLost, Inside, HolderInside, GoneIsStill,
         RecordClosed, OwnTransfer, Over
<1>3. WaiterIsServed'
  BY DEF WaiterIsServed, OwnTransfer, UnderWay
<1>4. NoneForgotten'
  BY DEF RecordSound, NoneForgotten
<1>5. RefusedAfterStray'
  BY DEF RecordSound, RefusedAfterStray
<1>6. ResultHonest'
  BY DEF ResultHonest, Served
<1>7. HolderInside'
  BY DEF HolderInside
<1>8. RecordClosed'
  BY DEF RecordClosed
<1>9. OwnTransfer'
  BY DEF OwnTransfer, Over, UnderWay
<1>10. GoneIsStill'
  BY DEF RecordSound, BusTypeOK, GoneIsStill
<1> QED
  BY <1>1, <1>2, <1>3, <1>4, <1>5, <1>6, <1>7, <1>8, <1>9, <1>10 DEF RecordSound

LEMMA InvIrqService == ASSUME Inv, IrqService PROVE Inv'
<1> USE DEF IrqService, Inv, IrqTaken, clientVars
<1>1. BusTypeOK'
  BY DEF RecordSound, BusTypeOK
<1>2. BufferAlive'
  BY DEF RecordSound, BusTypeOK, BufferAlive, BusLost, Inside, HolderInside, GoneIsStill,
         RecordClosed, OwnTransfer, Over
<1>3. WaiterIsServed'
  BY DEF WaiterIsServed, OwnTransfer
<1>4. NoneForgotten'
  BY DEF NoneForgotten
<1>5. RefusedAfterStray'
  BY DEF RecordSound, RefusedAfterStray
<1>6. ResultHonest'
  BY DEF ResultHonest, Served
<1>7. HolderInside'
  BY DEF HolderInside
<1>8. RecordClosed'
  BY DEF RecordClosed
<1>9. OwnTransfer'
  BY DEF OwnTransfer, Over, UnderWay
<1>10. GoneIsStill'
  BY DEF RecordSound, BusTypeOK, GoneIsStill
<1> QED
  BY <1>1, <1>2, <1>3, <1>4, <1>5, <1>6, <1>7, <1>8, <1>9, <1>10 DEF RecordSound

LEMMA InvIrqDone == ASSUME Inv, IrqDone PROVE Inv'
<1> USE DEF IrqDone, Inv, IrqTaken, clientVars, Finish
<1>1. BusTypeOK'
  BY DEF RecordSound, BusTypeOK
<1>2. BufferAlive'
  BY DEF RecordSound, BusTypeOK, BufferAlive, BusLost, Inside, HolderInside, GoneIsStill,
         RecordClosed, OwnTransfer, Over
<1>3. WaiterIsServed'
  BY DEF WaiterIsServed, OwnTransfer
<1>4. NoneForgotten'
  BY DEF NoneForgotten
<1>5. RefusedAfterStray'
  BY DEF RefusedAfterStray
<1>6. ResultHonest'
  BY DEF ResultHonest, Served
<1>7. HolderInside'
  BY DEF HolderInside
<1>8. RecordClosed'
  BY DEF RecordClosed
<1>9. OwnTransfer'
  BY DEF RecordSound, BusTypeOK, OwnTransfer, Over
<1>10. GoneIsStill'
  BY DEF RecordSound, BusTypeOK, GoneIsStill
<1> QED
  BY <1>1, <1>2, <1>3, <1>4, <1>5, <1>6, <1>7, <1>8, <1>9, <1>10 DEF RecordSound

LEMMA InvIrqError == ASSUME Inv, IrqError PROVE Inv'
<1> USE DEF IrqError, Inv, IrqTaken, clientVars, Finish
<1>1. BusTypeOK'
  BY DEF RecordSound, BusTypeOK
<1>2. BufferAlive'
  BY DEF RecordSound, BusTypeOK, BufferAlive, BusLost, Inside, HolderInside, GoneIsStill,
         RecordClosed, OwnTransfer, Over
<1>3. WaiterIsServed'
  BY DEF WaiterIsServed, OwnTransfer
<1>4. NoneForgotten'
  BY DEF NoneForgotten
<1>5. RefusedAfterStray'
  BY DEF RefusedAfterStray
<1>6. ResultHonest'
  BY DEF ResultHonest, Served
<1>7. HolderInside'
  BY DEF HolderInside
<1>8. RecordClosed'
  BY DEF RecordClosed
<1>9. OwnTransfer'
  BY DEF RecordSound, BusTypeOK, OwnTransfer, Over
<1>10. GoneIsStill'
  BY DEF RecordSound, BusTypeOK, GoneIsStill
<1> QED
  BY <1>1, <1>2, <1>3, <1>4, <1>5, <1>6, <1>7, <1>8, <1>9, <1>10 DEF RecordSound

LEMMA InvKept == Inv /\ [BusNext]_busVars => Inv'
<1> SUFFICES ASSUME Inv, [BusNext]_busVars PROVE Inv'
  OBVIOUS
<1>1. CASE UNCHANGED busVars
  BY <1>1 DEF Inv, RecordSound, BusTypeOK, NoneForgotten, RefusedAfterStray, BufferAlive, WaiterIsServed, ResultHonest, Served,
              HolderInside, GoneIsStill, RecordClosed, OwnTransfer, Over, UnderWay, BusLost,
              Inside, busVars, clientVars
<1>2. ASSUME NEW t \in Clients, ClientStep(t) PROVE Inv'
  BY <1>2, InvStart, InvStartRefused, InvWaitNot, InvWait, InvResume, InvRecover,
     InvSucceed DEF ClientStep
<1>4. ASSUME NEW t \in Clients,
             \/ Begin(t) \/ NextJob(t) \/ BusUnlock(t) \/ BlockElsewhere(t)
             \/ OtherWakeup(t) \/ Stop(t) \/ Reuse(t)
      PROVE  Inv'
  BY <1>4, InvBegin, InvNextJob, InvBusUnlock, InvBlockElsewhere, InvOtherWakeup,
     InvStop, InvReuse
<1>3. CASE IrqService \/ IrqDone \/ IrqError
  BY <1>3, InvIrqService, InvIrqDone, InvIrqError
<1> QED
  BY <1>1, <1>2, <1>3, <1>4 DEF BusNext

\* RecordSound: wherever the interrupt falls, whoever is woken early, and wherever a
\* client is stopped and its slot taken again (task.c:174, 187-204), the controller
\* runs no transfer the driver has forgotten, a buffer is written that its owner has
\* left only in the two cases BufferAlive names, and no wait is without the transfer
\* that ends it.
THEOREM RecordIsSound == BusSpec => []RecordSound
<1>1. BusSpec => []Inv
  BY InvInit, InvKept, PTL DEF BusSpec
<1> QED
  BY <1>1, PTL DEF Inv

\* ResultHonest: a client that only its transfer wakes gets 0 only if every byte
\* has moved, whatever the clients that are woken early or stopped leave behind.
THEOREM ResultsAreHonest == BusSpec => []ResultHonest
<1>1. BusSpec => []Inv
  BY InvInit, InvKept, PTL DEF BusSpec
<1> QED
  BY <1>1, PTL DEF Inv
=============================================================================
