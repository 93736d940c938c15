------------------------------ MODULE LogDump ------------------------------
(***************************************************************************)
(* log_dump_task_id beside the appends and clears of the other tasks.  Its *)
(* output waits when the transmit ring is full, and the shell yields with  *)
(* current in its frame; log_append may drop that entry and task_reap_dying *)
(* may clear the whole list before the shell goes on.                      *)
(***************************************************************************)
EXTENDS TaskLog

VARIABLE dumping   \* the shell's task_id and current

dumpVars == <<heap, entry, log, clearing, panicked, dumping>>

DumpInit == LogInit /\ dumping = Nowhere

\* One dump is followed; another one, from the joystick menu's log view, would
\* change nothing it depends on.
DumpStart(t) ==
  /\ Runs
  /\ dumping = Nowhere
  /\ log[t].head # NULL
  /\ dumping' = [task |-> t, at |-> log[t].head]
  /\ UNCHANGED logVars

\* The entry is printed; current->next is read after its last character.
DumpNext ==
  /\ Runs
  /\ dumping.at \in DOMAIN entry
  /\ dumping' = IF entry[dumping.at].next = NULL THEN Nowhere
                ELSE [dumping EXCEPT !.at = entry[dumping.at].next]
  /\ UNCHANGED logVars

\* The entry is gone.  What the dump reads there is undefined, and is not
\* followed any further.
DumpLost ==
  /\ Runs
  /\ dumping.at # NULL
  /\ dumping.at \notin DOMAIN entry
  /\ dumping' = Nowhere
  /\ UNCHANGED logVars

NextWithDump ==
  \/ LogNext /\ UNCHANGED dumping
  \/ \E t \in Slots : DumpStart(t)
  \/ DumpNext
  \/ DumpLost

DumpSpec == DumpInit /\ [][NextWithDump]_dumpVars

\* log.c:198 "Print the log of the given task ID": whenever the shell goes on
\* with log_dump_task_id, current is an entry of that log.
DumpStaysInLog ==
  dumping.task # NULL => dumping.at \in Entries(dumping.task)
=============================================================================
