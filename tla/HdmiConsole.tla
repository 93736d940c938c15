----------------------------- MODULE HdmiConsole -----------------------------
(***************************************************************************)
(* The HDMI output: console characters go through the queue of             *)
(* hdmi_console.c to the task that puts them on the main pane, unless an   *)
(* application has taken the pane (diag_dash_task.c, env_dash_task.c,      *)
(* tictactoe_task.c); the joystick menu has a pane of its own.  Whoever    *)
(* calls hdmi_present draws cells of both panes.                           *)
(*                                                                         *)
(* The scheduler is cooperative: each action goes from one yield to the    *)
(* next.  No interrupt handler touches the queue or the panes.  There is   *)
(* one application at a time, as the owner of the pane makes it.           *)
(***************************************************************************)
EXTENDS TextPane

CONSTANTS Capacity,      \* HDMI_CONSOLE_BUFFER_SIZE
          CharsPerSlice, \* HDMI_INPUT_CHARS_PER_SLICE
          CellsPerSlice, \* HDMI_DIRTY_CELLS_PER_SLICE
          AppCells,      \* the 32 of the applications' hdmi_present
          MenuCells,     \* the 16 of the menu's hdmi_present
          MenuPassCells, \* JOY_MENU_PRESENT_BUDGET
          Rows, Columns, MenuRows, MenuColumns,
          Chars,         \* the characters of the console's output
          Texts          \* the characters that applications and the menu write

\* All numbers are positive; Texts are of Chars, and none of them moves the cursor
\* other than a letter does.

VARIABLES main, menu,  \* the two panes
          queue,       \* hdmi_buffer
          console,     \* state of hdmi_console_task: "ready" or "blocked"
          app,         \* what the owner of the main pane does
          menuTask     \* what joy_menu_render does; a number is a pass

vars == <<main, menu, queue, console, app, menuTask>>

Init ==
  /\ main = NewPane(Rows, Columns)
  /\ menu = NewPane(MenuRows, MenuColumns)
  /\ queue = <<>>
  /\ console = "ready"
  /\ app = "none"
  /\ menuTask = "idle"

\* hdmi_present: the main pane first, the menu with what is left of the budget.
PresentBoth(max) ==
  /\ main' = Present(main, max)
  /\ menu' = Present(menu, Left(main, max))

MoreInBoth(mn, mu, max) == More(mn, max) \/ More(mu, Left(mn, max))

\* hdmi_pane_is_console_writable
Writable == app = "none"

-----------------------------------------------------------------------------
EnqueueUnwoken(c) ==
  /\ Writable
  /\ queue' = Append(IF Len(queue) = Capacity THEN Tail(queue) ELSE queue, c)
  /\ UNCHANGED <<main, menu, console, app, menuTask>>

\* hdmi_console_enqueue: the oldest character makes room, the renderer wakes.
Enqueue(c) ==
  /\ Writable
  /\ queue' = Append(IF Len(queue) = Capacity THEN Tail(queue) ELSE queue, c)
  /\ console' = "ready"
  /\ UNCHANGED <<main, menu, app, menuTask>>

\* One round of the loop of hdmi_console_task.
ConsoleRound ==
  LET n    == Least(CharsPerSlice, Len(queue))
      text == FoldLeft(PutC, main, SubSeq(queue, 1, n))
      rest == SubSeq(queue, n + 1, Len(queue))
  IN  /\ console = "ready"
      /\ IF Writable
           THEN /\ queue' = rest
                /\ main' = Present(text, CellsPerSlice)
                /\ menu' = Present(menu, Left(text, CellsPerSlice))
                /\ console' = IF rest = <<>> /\ ~ MoreInBoth(text, menu, CellsPerSlice)
                                THEN "blocked" ELSE "ready"
           ELSE /\ queue' = <<>>
                /\ console' = "blocked"
                /\ UNCHANGED <<main, menu>>
      /\ UNCHANGED <<app, menuTask>>

-----------------------------------------------------------------------------
(* The application that owns the main pane.                                *)
AppAcquireQueueKept ==
  /\ app = "none"
  /\ app' = "running"
  /\ main' = ClearPane(main)
  /\ UNCHANGED <<menu, queue, console, menuTask>>

\* hdmi_acquire_pane, then the stale output is dropped and the pane cleared.
AppAcquire ==
  /\ app = "none"
  /\ app' = "running"
  /\ queue' = <<>>
  /\ main' = ClearPane(main)
  /\ UNCHANGED <<menu, console, menuTask>>

\* A new picture: the game does not always clear the pane first.
AppDraw ==
  /\ app = "running"
  /\ app' = "presenting"
  /\ \E y \in 0 .. Rows - 1, v \in Texts, clear \in BOOLEAN :
       main' = WriteLine(IF clear THEN ClearPane(main) ELSE main, y, v)
  /\ UNCHANGED <<menu, queue, console, menuTask>>

\* One hdmi_present of its loop, and a yield while there is more.
AppPresent ==
  /\ app = "presenting"
  /\ PresentBoth(AppCells)
  /\ app' = IF MoreInBoth(main, menu, AppCells) THEN "presenting" ELSE "running"
  /\ UNCHANGED <<queue, console, menuTask>>

\* ..._cleanup_resources, in the task itself or in the command that stopped it,
\* whatever the task was doing.
Cleanup ==
  /\ app \in {"running", "presenting"}
  /\ app' = "cleanup"
  /\ queue' = <<>>
  /\ main' = ClearPane(main)
  /\ UNCHANGED <<menu, console, menuTask>>

\* Its flush; then the pane is released and the queue cleared once more.
Release ==
  /\ app = "cleanup"
  /\ PresentBoth(AppCells)
  /\ IF MoreInBoth(main, menu, AppCells)
       THEN UNCHANGED <<app, queue>>
       ELSE app' = "none" /\ queue' = <<>>
  /\ UNCHANGED <<console, menuTask>>

-----------------------------------------------------------------------------
(* joy_menu_render and joy_menu_present.                                   *)
MenuDraw ==
  /\ menuTask = "idle"
  /\ menuTask' = "present"
  /\ \E y \in 0 .. MenuRows - 1, v \in Texts : menu' = WriteLine(ClearPane(menu), y, v)
  /\ UNCHANGED <<main, queue, console, app>>

MenuPresent ==
  /\ menuTask = "present"
  /\ PresentBoth(MenuCells)
  /\ menuTask' = IF MoreInBoth(main, menu, MenuCells) THEN "pass" ELSE "idle"
  /\ UNCHANGED <<queue, console, app>>

\* A pass over the menu's own pane, JOY_MENU_PRESENT_PASSES of them at most;
\* between two the task yields.
MenuPass ==
  /\ menuTask \in {"pass", "last"}
  /\ menu' = Present(menu, MenuPassCells)
  /\ menuTask' = IF menuTask = "pass" /\ More(menu, MenuPassCells) THEN "last" ELSE "present"
  /\ UNCHANGED <<main, queue, console, app>>

App == AppAcquire \/ AppDraw \/ AppPresent \/ Cleanup \/ Release

Next ==
  \/ \E c \in Chars : Enqueue(c)
  \/ ConsoleRound
  \/ App
  \/ MenuDraw \/ MenuPresent \/ MenuPass

\* The scheduler is round robin, so a task that is READY gets its turn:
\* WF_vars(ConsoleRound), with the condition under which a round is enabled (it
\* always changes something then) in place of ENABLED, which TLC is slow at.
Fairness == []<>(console # "ready") \/ []<><<ConsoleRound>>_vars

Spec == Init /\ [][Next]_vars /\ Fairness

-----------------------------------------------------------------------------
\* The cursor stays inside its pane, and its cell, once drawn, shows it: every
\* way a character moves the cursor must mark where it went
\* (hdmi.c:331-353, 954-981, 991-1084).
CursorIsShown ==
  \A p \in {main, menu} :
    /\ p.cursor_x < p.columns /\ p.cursor_y < p.rows
    /\ CursorCell(p) \in Stale(p) \cup p.lit

\* Console output never reaches a pane that an application owns, not even what
\* was queued before (hdmi_console.c:198-208, 294-312).
OwnedPaneIsPrivate ==
  [][app # "none" /\ app' # "none" =>
       queue' = <<>> /\ (main'.cells # main.cells => App)]_vars

\* Everything that was written is on the screen.
AllShown == queue = <<>> /\ Stale(main) = {}

\* When the renderer sleeps and no application has the pane, a slice that ran out
\* of budget, an application that was stopped in the middle of a picture or a flush
\* left nothing undrawn; and once output pauses all of it is shown, slice by slice,
\* unless applications take the pane again and again (hdmi_console.c:294-330).
OutputIsShown ==
  /\ [](console = "blocked" /\ app = "none" => AllShown)
  /\ \/ []<><<\E c \in Chars : Enqueue(c)>>_vars
     \/ []<>(app # "none")
     \/ []<>AllShown
=============================================================================
