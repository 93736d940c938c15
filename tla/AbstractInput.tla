--------------------------- MODULE AbstractInput ---------------------------
(***************************************************************************)
(* What the receive side of a serial line promises its reader: characters  *)
(* come out in the order they arrived, none twice.  When the reader is     *)
(* behind by Capacity characters, the newest are dropped, and only those.  *)
(***************************************************************************)
EXTENDS Sequences, SequencesExt, FiniteSetsExt

CONSTANTS Characters, Capacity, LineDepth

VARIABLES
  coming,   \* characters at the device, not fetched yet
  unread    \* characters kept for the reader

inputVars == <<coming, unread>>

InputInit == coming = <<>> /\ unread = <<>>

Arrive(c) ==
  /\ Len(coming) < LineDepth
  /\ coming' = Append(coming, c)
  /\ UNCHANGED unread

\* All that has come is fetched; what there is no room for is gone.
Fetch ==
  /\ coming # <<>>
  /\ unread' = LET all == unread \o coming
               IN  SubSeq(all, 1, Min({Len(all), Capacity}))
  /\ coming' = <<>>

Read ==
  /\ unread # <<>>
  /\ unread' = Tail(unread)
  /\ UNCHANGED coming

InputNext == (\E c \in Characters : Arrive(c)) \/ Fetch \/ Read

InputSpec == InputInit /\ [][InputNext]_inputVars
=============================================================================
