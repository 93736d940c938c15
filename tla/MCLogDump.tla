----------------------------- MODULE MCLogDump -----------------------------
(***************************************************************************)
(* Two slots; the heap is large enough for their full logs, so that only   *)
(* drops and clears take entries away.                                     *)
(***************************************************************************)
EXTENDS LogDump

MCSlots == {0, 1}
MCTextLengths == {3}
=============================================================================
