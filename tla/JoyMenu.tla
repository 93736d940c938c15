------------------------------- MODULE JoyMenu -------------------------------
(***************************************************************************)
(* The joystick menu (src/kernel/io/joy_menu.c): its three levels, what it *)
(* draws and the commands it hands to the shell.  Its events come from     *)
(* joystick_task, which passes them on to the game instead while the game  *)
(* has its handler registered; so a press may reach one of the two and its *)
(* release the other.  What the commands do is in AppTasks.                *)
(***************************************************************************)
EXTENDS Integers, Sequences

CONSTANTS
  LogItems,   \* JOY_MENU_LOG_ITEMS, 11 in the code
  TaskItems,  \* JOY_MENU_TASK_ITEMS, 10 in the code
  MaxVisible  \* JOY_MENU_MAX_VISIBLE_ITEMS, 18 in the code

VARIABLES
  menu,        \* menu_state
  long,        \* 50 ticks have passed since center_press_tick
  game_reads,  \* the game has set joystick_event_handler
  center,      \* the center key is down, as the driver has reported it
  pane,        \* what the menu has drawn on its pane
  ran          \* {the command that the last event ran}

vars == <<menu, long, game_reads, center, pane, ran>>

\* main_entries: "shutdown" is a command that does not return.
MainActions == <<"command", "help", "log", "command", "shutdown", "tasks", "command">>

Views  == {"main", "log", "tasks"}
Events == {"up", "down", "left", "right", "center_press", "center_release"}

\* joy_menu_current_count
Count(view) == CASE view = "log" -> LogItems [] view = "tasks" -> TaskItems
                 [] view = "main" -> Len(MainActions)

\* joy_menu_current_selection
Selection(m) == m.selected[m.view]

Least(a, b) == IF a < b THEN a ELSE b

\* Faulty variant: the window starts below the selection.
FirstVisibleBelow(m) == IF Selection(m) >= MaxVisible THEN Selection(m) + 1 ELSE 0

\* The first entry the pane has room for: the list scrolls so far that the
\* selected entry is the last one visible.
FirstVisible(m) == IF Selection(m) >= MaxVisible THEN Selection(m) - MaxVisible + 1 ELSE 0

\* joy_menu_render: the entries on the rows of the pane, the marked ones among
\* those rows, and whether "... more below" follows.
Render(m) ==
  IF ~ m.active
    THEN [view |-> "closed", rows |-> <<>>, marked |-> {}, more |-> FALSE]
    ELSE LET first == FirstVisible(m)
             last  == Least(first + MaxVisible, Count(m.view))
         IN  [view   |-> m.view,
              rows   |-> [i \in 1 .. last - first |-> first + i - 1],
              marked |-> {i \in 1 .. last - first : first + i - 1 = Selection(m)},
              more   |-> last < Count(m.view)]

\* joy_menu_init
Init ==
  /\ menu = [active |-> TRUE, view |-> "main", selected |-> [v \in Views |-> 0],
             center_pressed |-> FALSE]
  /\ long = FALSE
  /\ game_reads = FALSE
  /\ center = FALSE
  /\ pane = Render(menu)
  /\ ran = {}

-----------------------------------------------------------------------------
Show(m) == menu' = m /\ pane' = Render(m)
Keep(m) == menu' = m /\ UNCHANGED pane

Select(m, index) == [m EXCEPT !.selected[m.view] = index]

\* joy_menu_move_selection, clamped; it draws when the selection has changed.
MoveSelection(delta) ==
  LET wanted == Selection(menu) + delta
      index  == IF wanted < 0 THEN 0 ELSE Least(wanted, Count(menu.view) - 1)
  IN  /\ menu.active
      /\ IF index = Selection(menu) THEN Keep(menu) ELSE Show(Select(menu, index))
      /\ ran' = {}

\* joy_menu_start_task_selected and joy_menu_stop_task_selected, then a drawing.
TaskCommand(command) ==
  /\ menu.active /\ menu.view = "tasks"
  /\ ran' = {[view |-> "tasks", entry |-> Selection(menu), command |-> command]}
  /\ Show(menu)

Ignored(e) ==
  /\ ~ menu.active \/ (e \in {"left", "right"} /\ menu.view # "tasks")
  /\ Keep(menu)
  /\ ran' = {}

\* joy_menu_close_current_level of the menu m.
CloseLevel(m) ==
  /\ Show(IF m.view = "main" THEN [m EXCEPT !.active = ~ @] ELSE [m EXCEPT !.view = "main"])
  /\ ran' = {}

\* A short press: joy_menu_execute_main_selected or joy_menu_execute_log_selected,
\* then a drawing, unless the command was "shutdown".
Execute(m) ==
  LET action == MainActions[Selection(m) + 1]
      run    == [view |-> m.view, entry |-> Selection(m), command |-> "run"]
  IN  CASE ~ m.active -> Keep(m) /\ ran' = {}
        [] m.active /\ m.view = "tasks" -> Keep(m) /\ ran' = {}
        [] m.active /\ m.view = "log" -> Show(m) /\ ran' = {run}
        [] m.active /\ m.view = "main" /\ action \in {"log", "tasks"} ->
             Show([m EXCEPT !.view = action, !.selected[action] = 0]) /\ ran' = {}
        [] m.active /\ m.view = "main" /\ action \in {"command", "help"} ->
             Show(m) /\ ran' = {run}
        [] m.active /\ m.view = "main" /\ action = "shutdown" -> Keep(m) /\ ran' = {run}

CenterPress ==
  /\ Keep([menu EXCEPT !.center_pressed = TRUE])
  /\ long' = FALSE
  /\ ran' = {}

CenterRelease ==
  LET m == [menu EXCEPT !.center_pressed = FALSE]
  IN  IF ~ menu.center_pressed THEN Keep(menu) /\ ran' = {}
      ELSE IF long THEN CloseLevel(m) ELSE Execute(m)

\* joy_menu_handle_event
HandleEvent(e) ==
  CASE e = "center_press" -> CenterPress
    [] e = "center_release" -> CenterRelease /\ UNCHANGED long
    [] e \notin {"center_press", "center_release"} ->
         /\ \/ e = "up" /\ MoveSelection(-1)
            \/ e = "down" /\ MoveSelection(1)
            \/ e = "left" /\ TaskCommand("start")
            \/ e = "right" /\ TaskCommand("stop")
            \/ Ignored(e)
         /\ UNCHANGED long

Halted == \E r \in ran : r.view = "main" /\ MainActions[r.entry + 1] = "shutdown"

-----------------------------------------------------------------------------
\* joystick_decode_event: a press follows a release, and the other way round.
Reported(e) ==
  /\ e = "center_press" => ~ center
  /\ e = "center_release" => center
  /\ center' = (IF e \in {"center_press", "center_release"} THEN ~ center ELSE center)

\* joystick_task hands an event to the menu.
Event(e) ==
  /\ ~ game_reads /\ ~ Halted
  /\ Reported(e)
  /\ HandleEvent(e)
  /\ UNCHANGED game_reads

\* The game's handler takes it, or a full queue drops it.
EventElsewhere(e) ==
  /\ ~ Halted
  /\ Reported(e)
  /\ ran' = {}
  /\ UNCHANGED <<menu, long, game_reads, pane>>

TicksPass ==
  /\ ~ Halted /\ ~ long
  /\ long' = TRUE
  /\ ran' = {}
  /\ UNCHANGED <<menu, game_reads, center, pane>>

\* joystick_set_event_handler and joystick_clear_event_handler, by the game or
\* by who stops it.
HandlerChanges ==
  /\ ~ Halted
  /\ game_reads' = ~ game_reads
  /\ ran' = {}
  /\ UNCHANGED <<menu, long, center, pane>>

\* kernel_shutdown parks the CPU.
Parked == Halted /\ UNCHANGED vars

Next ==
  \/ \E e \in Events : Event(e) \/ EventElsewhere(e)
  \/ TicksPass
  \/ HandlerChanges
  \/ Parked

Spec == Init /\ [][Next]_vars

-----------------------------------------------------------------------------
\* What a press runs is what the pane marked when it was pressed, on every level,
\* in lists longer than the pane, and after any sequence of moves, commands,
\* closed levels and events that went to the game: one row is marked, and it shows
\* the entry that is run (joy_menu.c:212-297, 385-480).
RunsMarked ==
  \A r \in ran' : /\ pane.view = r.view
                  /\ \E i \in DOMAIN pane.rows : pane.marked = {i} /\ pane.rows[i] = r.entry
=============================================================================
