------------------------------ MODULE MCKernel ------------------------------
(***************************************************************************)
(* Mutexes: the bus lock (1), used by joystick (task 1), LED task (2) and  *)
(* the environment application, which is in slot 3 or 4; another           *)
(* application has the other slot, or the same one later.  Joystick and    *)
(* LED task are woken early, and the joystick task, in its menu, starts    *)
(* and stops applications, at any point of theirs.  The UART lock (2) is   *)
(* used, also inside the other, while only the services exist.             *)
(*                                                                         *)
(* The I2C driver: a client that is woken early, like the joystick and LED *)
(* tasks, and one that is stopped and started again.                       *)
(*                                                                         *)
(* Logs: two slots on a heap with room for about three entries, so that    *)
(* allocations fail both for the message and for the entry, blocks are     *)
(* taken whole and split, and frees merge on either side, on both and on   *)
(* neither.  Header, alignment and entry have the sizes of the build.      *)
(***************************************************************************)
EXTENDS Kernel

MCSlots == {0, 1}
\* No message, a short one and one that needs a second unit.
MCTextLengths == {NULL, 3, 20}
=============================================================================
