------------------------------ MODULE Displays ------------------------------
(***************************************************************************)
(* The displays: who may use them (AppTasks) and what the HDMI panes show  *)
(* (HdmiConsole).  The modules share no variable, so one of them is chosen *)
(* at the start and the other's variables keep their initial values.       *)
(***************************************************************************)
EXTENDS AppTasks

CONSTANTS
  Capacity, CharsPerSlice, CellsPerSlice, AppCells, MenuCells, MenuPassCells,
  Rows, Columns, MenuRows, MenuColumns, Chars, Texts     \* of HdmiConsole

ASSUME PaneAssumption ==
  /\ {Rows, Columns, MenuRows, MenuColumns} \subseteq Nat \ {0}
  /\ {Capacity, CharsPerSlice} \subseteq Nat \ {0}
  /\ {CellsPerSlice, AppCells, MenuCells, MenuPassCells} \subseteq Nat \ {0}
  /\ Texts \subseteq Chars

VARIABLES part,                                         \* what is looked at
          main, menu, queue, console, user, menuTask    \* of HdmiConsole

paneVars == <<main, menu, queue, console, user, menuTask>>
bothVars == <<vars, part, paneVars>>

Panes == INSTANCE HdmiConsole WITH app <- user

BothInit ==
  /\ part \in {"owners", "panes"}
  /\ Init /\ Panes!Init

OwnerStep == part = "owners" /\ Next /\ UNCHANGED <<part, paneVars>>
PaneStep  == part = "panes" /\ Panes!Next /\ UNCHANGED <<vars, part>>

BothNext == OwnerStep \/ PaneStep

BothSpec == BothInit /\ [][BothNext]_bothVars /\ (part = "panes" => Panes!Fairness)

-----------------------------------------------------------------------------
\* The cursor stays inside its pane, and its cell, once drawn, shows it: every
\* way a character moves the cursor must mark where it went
\* (hdmi.c:331-353, 954-981, 991-1084).
CursorIsShown == Panes!CursorIsShown

\* Console output never reaches a pane that an application owns, not even what
\* was queued before (hdmi_console.c:198-208, 294-312).
OwnedPaneIsPrivate == Panes!OwnedPaneIsPrivate

\* The renderer does not sleep on undrawn output, and once output pauses all of it
\* is shown, unless applications take the pane again and again
\* (hdmi_console.c:294-330).
OutputIsShown == part = "panes" => Panes!OutputIsShown
=============================================================================
