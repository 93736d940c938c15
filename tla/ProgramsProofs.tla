--------------------------- MODULE ProgramsProofs ---------------------------
(***************************************************************************)
(* Safety of the programs for every value of the constants.                *)
(***************************************************************************)
EXTENDS Programs, TaskTableProofs, Sequences, FiniteSetTheorems, TLAPS

\* A step of the whole is a step of the program that is looked at.
LEMMA Turns ==
  ASSUME [Next]_vars
  PROVE  /\ front' = front
         /\ front = "joystick" => [Joy!Next]_joyVars
         /\ front = "menu" => [Menu!Next]_menuVars
         /\ front = "tictactoe" => [Ttt!Next]_tttVars
         /\ front = "gol" => [Life!Next]_lifeVars
         /\ front = "store" => [Store!Next]_storeVars
         /\ front = "sensors" => [Sensors!Next]_sensorVars
         /\ front = "diag" => [Diag!Next]_diagVars
<1>1. CASE UNCHANGED vars
  BY <1>1 DEF vars
<1>2. CASE Next
  BY <1>2 DEF Next
<1> QED
  BY <1>1, <1>2

-----------------------------------------------------------------------------
(* The joystick.  The induction needs to know what a read that has ended   *)
(* stands for: its answer is out of date only if a further change is       *)
(* signalled (AnswerFresh), and it has no answer only if the interrupt     *)
(* that cut it short left the flag set (CutShortFlagged).                  *)

Signalled == edge \/ pending

AnswerFresh == pc = "reading" /\ answer # {} => answer = {keys} \/ Signalled

CutShortFlagged == pc = "reading" /\ ~ blocked /\ answer = {} => pending

JoyOk == Joy!ChangeNotForgotten /\ AnswerFresh /\ CutShortFlagged

LEMMA JoyKept == JoyOk /\ [Joy!Next]_joyVars => JoyOk'
<1> SUFFICES ASSUME JoyOk, [Joy!Next]_joyVars PROVE JoyOk'
  OBVIOUS
<1> USE DEF JoyOk, Joy!ChangeNotForgotten, AnswerFresh, CutShortFlagged, Signalled,
            Joy!i2cVars
<1>1. ASSUME NEW k \in Joy!Keys, Joy!Press(k) PROVE JoyOk'
  BY <1>1 DEF Joy!Press
<1>2. CASE Joy!GpioIrq
  BY <1>2 DEF Joy!GpioIrq
<1>3. CASE Joy!ReadDone
  BY <1>3 DEF Joy!ReadDone
<1>4. CASE Joy!OtherRecovers
  BY <1>4 DEF Joy!OtherRecovers
<1>5. CASE Joy!Consume
  BY <1>5 DEF Joy!Consume
<1>6. CASE Joy!ReadStart
  BY <1>6 DEF Joy!ReadStart
<1>7. CASE Joy!ReadRefused
  BY <1>7 DEF Joy!ReadRefused
<1>8. CASE Joy!ReadFails
  BY <1>8 DEF Joy!ReadFails
<1>9. ASSUME NEW state \in SUBSET Joy!Keys, Joy!ReadReturns(state) PROVE JoyOk'
  BY <1>9 DEF Joy!ReadReturns
<1>10. CASE Joy!HandOut \/ Joy!EventsDone
  BY <1>10 DEF Joy!HandOut, Joy!EventsDone
<1>11. CASE Joy!Check
  BY <1>11 DEF Joy!Check
<1>12. CASE Joy!Block \/ Joy!Continue
  BY <1>12 DEF Joy!Block, Joy!Continue
<1>13. CASE UNCHANGED joyVars
  BY <1>13 DEF joyVars
<1> QED
  BY <1>1, <1>2, <1>3, <1>4, <1>5, <1>6, <1>7, <1>8, <1>9, <1>10, <1>11, <1>12, <1>13
     DEF Joy!Next, Joy!TaskStep

\* ChangeNotForgotten: wherever the interrupt of the keys cuts in, also when it
\* cuts the read of the keys short, a change the driver has not seen is signalled,
\* about to be read, or its read reported an error.
THEOREM NothingForgotten == Spec => []ChangeNotForgotten
<1> DEFINE Inv == front = "joystick" => JoyOk
<1>1. Init => Inv
  <2>1. Joy!Init => JoyOk
    BY DEF Joy!Init, JoyOk, Joy!ChangeNotForgotten, AnswerFresh, CutShortFlagged
  <2> QED
    BY <2>1 DEF Init
<1>2. Inv /\ [Next]_vars => Inv'
  BY Turns, JoyKept
<1>3. Inv => ChangeNotForgotten
  BY DEF JoyOk, ChangeNotForgotten
<1> QED
  BY <1>1, <1>2, <1>3, PTL DEF Spec

-----------------------------------------------------------------------------
(* The menu.  What its pane shows is always what drawing it now would show, *)
(* and the selection of every list is one of its entries.                  *)

MenuStates == [active : BOOLEAN, view : Menu!Views, selected : [Menu!Views -> Nat],
               center_pressed : BOOLEAN]

Selected(m) == m \in MenuStates /\ \A v \in Menu!Views : m.selected[v] < Menu!Count(v)

MenuOk == Selected(menu) /\ pane = Menu!Render(menu)

LEMMA CountIs ==
  /\ Menu!Count("main") = 7 /\ Menu!Count("log") = LogItems
  /\ Menu!Count("tasks") = TaskItems
<1>1. Len(Menu!MainActions) = 7
  BY DEF Menu!MainActions
<1> QED
  BY <1>1, Zenon DEF Menu!Count

LEMMA CountsAreLengths == \A v \in Menu!Views : Menu!Count(v) \in Nat \ {0}
BY CountIs, MenuAssumption DEF Menu!Views

\* One row is marked, and it shows the selected entry.
LEMMA RenderMarks ==
  ASSUME NEW m, Selected(m), m.active
  PROVE  LET p == Menu!Render(m)
         IN  /\ p.view = m.view
             /\ \E i \in DOMAIN p.rows : p.marked = {i} /\ p.rows[i] = Menu!Selection(m)
<1> DEFINE sel    == Menu!Selection(m)
           first  == Menu!FirstVisible(m)
           length == Menu!Count(m.view)
           end    == Menu!Least(first + MaxVisible, length)
           p      == Menu!Render(m)
<1>1. sel \in Nat /\ length \in Nat /\ sel < length
  BY CountsAreLengths DEF Selected, MenuStates, Menu!Selection
<1>2. MaxVisible \in Nat \ {0}
  BY MenuAssumption
<1>3. first \in Nat /\ first <= sel /\ sel < first + MaxVisible
  BY <1>1, <1>2 DEF Menu!FirstVisible
<1>4. end \in Nat /\ sel < end
  BY <1>1, <1>2, <1>3 DEF Menu!Least
<1>5. PICK i : i = sel - first + 1
  OBVIOUS
<1>6. i \in 1 .. end - first /\ first + i - 1 = sel
  BY <1>1, <1>3, <1>4, <1>5
<1>7. \A j \in 1 .. end - first : first + j - 1 = sel => j = i
  BY <1>1, <1>3, <1>4, <1>5
<1>8. /\ p.view = m.view
      /\ p.rows = [j \in 1 .. end - first |-> first + j - 1]
      /\ p.marked = {j \in 1 .. end - first : first + j - 1 = sel}
  BY DEF Menu!Render
<1> HIDE DEF sel, first, length, end, p
<1>9. p.marked = {i} /\ i \in DOMAIN p.rows /\ p.rows[i] = sel
  BY <1>6, <1>7, <1>8
<1> QED
  BY <1>8, <1>9 DEF p, sel

\* What an event may run.
RunShown(r) ==
  /\ pane.view = r.view
  /\ \E i \in DOMAIN pane.rows : pane.marked = {i} /\ pane.rows[i] = r.entry

LEMMA SelectedRuns ==
  ASSUME MenuOk, menu.active, NEW r, r.view = menu.view, r.entry = Menu!Selection(menu)
  PROVE  RunShown(r)
BY RenderMarks DEF MenuOk, RunShown

\* The pane does not show whether the key is down.
LEMMA PressedUnseen ==
  ASSUME MenuOk, NEW b \in BOOLEAN, NEW m, m = [menu EXCEPT !.center_pressed = b]
  PROVE  /\ Selected(m) /\ Menu!Render(m) = Menu!Render(menu)
         /\ m.active = menu.active /\ m.view = menu.view
         /\ Menu!Selection(m) = Menu!Selection(menu)
<1>1. /\ m \in MenuStates /\ m.active = menu.active /\ m.view = menu.view
      /\ m.selected = menu.selected
  BY DEF MenuOk, Selected, MenuStates
<1>2. Menu!Selection(m) = Menu!Selection(menu) /\ Menu!FirstVisible(m) = Menu!FirstVisible(menu)
  BY <1>1 DEF Menu!Selection, Menu!FirstVisible
<1>3. Menu!Render(m) = Menu!Render(menu)
  BY <1>1, <1>2 DEF Menu!Render
<1> QED
  BY <1>1, <1>2, <1>3 DEF MenuOk, Selected

LEMMA ShowKeeps == ASSUME NEW m, Selected(m), Menu!Show(m) PROVE MenuOk'
BY DEF Menu!Show, MenuOk, Selected, MenuStates

LEMMA KeepKeeps ==
  ASSUME MenuOk, NEW m, Selected(m), Menu!Render(m) = Menu!Render(menu), Menu!Keep(m)
  PROVE  MenuOk'
BY DEF Menu!Keep, MenuOk, Selected, MenuStates

LEMMA SelectKeeps ==
  ASSUME NEW m, Selected(m), NEW v \in Menu!Views, NEW i \in Nat, i < Menu!Count(v)
  PROVE  Selected([m EXCEPT !.selected[v] = i])
BY DEF Selected, MenuStates

LEMMA MoveKeeps ==
  ASSUME MenuOk, NEW delta \in {-1, 1}, Menu!MoveSelection(delta)
  PROVE  MenuOk' /\ ran' = {}
<1> DEFINE wanted == Menu!Selection(menu) + delta
           index  == IF wanted < 0 THEN 0 ELSE Menu!Least(wanted, Menu!Count(menu.view) - 1)
<1>1. /\ menu.view \in Menu!Views /\ Menu!Count(menu.view) \in Nat \ {0}
      /\ Menu!Selection(menu) \in Nat
  BY CountsAreLengths DEF MenuOk, Selected, MenuStates, Menu!Selection
<1>2. index \in Nat /\ index < Menu!Count(menu.view)
  BY <1>1 DEF Menu!Least
<1>3. IF index = Menu!Selection(menu) THEN Menu!Keep(menu)
      ELSE Menu!Show(Menu!Select(menu, index))
  BY DEF Menu!MoveSelection
<1> HIDE DEF index
<1>4. Selected(Menu!Select(menu, index))
  BY <1>1, <1>2, SelectKeeps DEF MenuOk, Menu!Select
<1> QED
  BY <1>3, <1>4, ShowKeeps, KeepKeeps DEF MenuOk, Menu!MoveSelection

LEMMA CommandKeeps ==
  ASSUME MenuOk, NEW command, Menu!TaskCommand(command)
  PROVE  MenuOk' /\ \A r \in ran' : RunShown(r)
<1>1. menu.active /\ Menu!Show(menu)
  BY DEF Menu!TaskCommand
<1>2. \A r \in ran' : r.view = menu.view /\ r.entry = Menu!Selection(menu)
  BY DEF Menu!TaskCommand
<1> QED
  BY <1>1, <1>2, SelectedRuns, ShowKeeps DEF MenuOk

\* A list is opened at its first entry.
Opened(m, view) == [m EXCEPT !.view = view, !.selected[view] = 0]

\* What a short press can do in the menu m, whose marked action is given.
PressOutcome(m, action) ==
  \/ Menu!Keep(m) /\ ran' = {}
  \/ /\ m.active /\ (Menu!Show(m) \/ Menu!Keep(m))
     /\ ran' = {[view |-> m.view, entry |-> Menu!Selection(m), command |-> "run"]}
  \/ action \in {"log", "tasks"} /\ ran' = {} /\ Menu!Show(Opened(m, action))

\* The action of the selected entry of the main list.
Marks(m, action) ==
  /\ m.active \in BOOLEAN /\ m.view \in Menu!Views
  /\ action = Menu!MainActions[Menu!Selection(m) + 1]
  /\ m.view = "main" => action \in {"command", "help", "log", "shutdown", "tasks"}

LEMMA ExecuteCases ==
  ASSUME NEW m, NEW action, Marks(m, action), Menu!Execute(m)
  PROVE  PressOutcome(m, action)
BY Zenon DEF Menu!Execute, Menu!Views, Opened, PressOutcome, Marks

LEMMA ExecuteKeeps ==
  ASSUME MenuOk, NEW m, m = [menu EXCEPT !.center_pressed = FALSE], Menu!Execute(m)
  PROVE  MenuOk' /\ \A r \in ran' : RunShown(r)
<1>1. /\ Selected(m) /\ Menu!Render(m) = Menu!Render(menu)
      /\ m.active = menu.active /\ m.view = menu.view
      /\ Menu!Selection(m) = Menu!Selection(menu)
  BY PressedUnseen
<1>2. m.active \in BOOLEAN /\ m.view \in Menu!Views
  BY <1>1 DEF Selected, MenuStates
<1>0. PICK action : action = Menu!MainActions[Menu!Selection(m) + 1]
  OBVIOUS
<1> DEFINE run == [view |-> m.view, entry |-> Menu!Selection(m), command |-> "run"]
<1>3. m.view = "main" => action \in {"command", "help", "log", "shutdown", "tasks"}
  <2>1. SUFFICES ASSUME m.view = "main"
                 PROVE  action \in {"command", "help", "log", "shutdown", "tasks"}
    OBVIOUS
  <2>2. Menu!Selection(m) \in 0 .. 6
    BY <1>1, <1>2, <2>1, CountIs DEF Selected, MenuStates, Menu!Selection
  <2> QED
    BY <1>0, <2>2 DEF Menu!MainActions
<1>4. PressOutcome(m, action)
  <2>1. Marks(m, action)
    BY <1>0, <1>2, <1>3 DEF Marks
  <2> QED
    BY <2>1, ExecuteCases
<1>5. CASE Menu!Keep(m) /\ ran' = {}
  BY <1>1, <1>5, KeepKeeps
<1>6. CASE m.active /\ (Menu!Show(m) \/ Menu!Keep(m)) /\ ran' = {run}
  <2>1. RunShown(run)
    BY <1>1, <1>6, SelectedRuns
  <2> QED
    BY <1>1, <1>6, <2>1, KeepKeeps, ShowKeeps
<1>7. CASE /\ action \in {"log", "tasks"} /\ ran' = {}
           /\ Menu!Show(Opened(m, action))
  <2>1. action \in Menu!Views
    BY <1>7 DEF Menu!Views
  <2>2. Selected([m EXCEPT !.selected[action] = 0])
    <3>1. 0 < Menu!Count(action)
      BY <2>1, CountsAreLengths
    <3> QED
      BY <1>1, <2>1, <3>1, SelectKeeps
  <2>3. Selected(Opened(m, action))
    BY <1>1, <2>1, <2>2 DEF Selected, MenuStates, Opened
  <2> QED
    BY <1>7, <2>3, ShowKeeps
<1> QED
  BY <1>4, <1>5, <1>6, <1>7 DEF PressOutcome

LEMMA CloseKeeps ==
  ASSUME MenuOk, NEW m, m = [menu EXCEPT !.center_pressed = FALSE], Menu!CloseLevel(m)
  PROVE  MenuOk' /\ ran' = {}
<1>1. Selected(m)
  BY PressedUnseen
<1>2. Selected([m EXCEPT !.active = ~ @]) /\ Selected([m EXCEPT !.view = "main"])
  BY <1>1 DEF Selected, MenuStates, Menu!Views
<1> QED
  BY <1>2, ShowKeeps DEF Menu!CloseLevel

\* The cases of an event, without CASE.
LEMMA EventCases ==
  ASSUME NEW e \in Menu!Events, Menu!HandleEvent(e)
  PROVE  \/ Menu!CenterPress
         \/ Menu!CenterRelease
         \/ \E delta \in {-1, 1} : Menu!MoveSelection(delta)
         \/ \E command \in {"start", "stop"} : Menu!TaskCommand(command)
         \/ Menu!Ignored(e)
<1>1. CASE e = "center_press"
  BY <1>1, Zenon DEF Menu!HandleEvent
<1>2. CASE e = "center_release"
  BY <1>2, Zenon DEF Menu!HandleEvent
<1>3. CASE e \notin {"center_press", "center_release"}
  BY <1>3, Zenon DEF Menu!HandleEvent
<1> QED
  BY <1>1, <1>2, <1>3

LEMMA EventKeeps ==
  ASSUME MenuOk, NEW e \in Menu!Events, Menu!HandleEvent(e)
  PROVE  MenuOk' /\ \A r \in ran' : RunShown(r)
<1>1. CASE Menu!CenterPress
  <2>1. Menu!Keep([menu EXCEPT !.center_pressed = TRUE]) /\ ran' = {}
    BY <1>1 DEF Menu!CenterPress
  <2> QED
    BY <2>1, PressedUnseen, KeepKeeps
<1>2. CASE Menu!CenterRelease
  <2>1. PICK m : m = [menu EXCEPT !.center_pressed = FALSE]
    OBVIOUS
  <2>2. \/ Menu!Keep(menu) /\ ran' = {}
        \/ Menu!CloseLevel(m)
        \/ Menu!Execute(m)
    BY <1>2, <2>1 DEF Menu!CenterRelease
  <2> QED
    BY <2>1, <2>2, KeepKeeps, CloseKeeps, ExecuteKeeps DEF MenuOk
<1>3. ASSUME NEW delta \in {-1, 1}, Menu!MoveSelection(delta)
      PROVE  MenuOk' /\ \A r \in ran' : RunShown(r)
  BY <1>3, MoveKeeps
<1>4. ASSUME NEW command, Menu!TaskCommand(command)
      PROVE  MenuOk' /\ \A r \in ran' : RunShown(r)
  BY <1>4, CommandKeeps
<1>5. CASE Menu!Ignored(e)
  BY <1>5, KeepKeeps DEF Menu!Ignored, MenuOk
<1> QED
  BY <1>1, <1>2, <1>3, <1>4, <1>5, EventCases

LEMMA MenuKept ==
  ASSUME MenuOk, [Menu!Next]_menuVars
  PROVE  MenuOk' /\ (~ UNCHANGED menuVars => \A r \in ran' : RunShown(r))
<1>1. ASSUME NEW e \in Menu!Events, Menu!Event(e)
      PROVE  MenuOk' /\ \A r \in ran' : RunShown(r)
  BY <1>1, EventKeeps DEF Menu!Event
<1>2. ASSUME UNCHANGED <<menu, pane>> PROVE MenuOk'
  BY <1>2 DEF MenuOk, Selected, MenuStates
<1>3. ASSUME NEW e \in Menu!Events, Menu!EventElsewhere(e)
      PROVE  MenuOk' /\ ran' = {}
  BY <1>2, <1>3 DEF Menu!EventElsewhere
<1>4. CASE Menu!TicksPass \/ Menu!HandlerChanges
  BY <1>2, <1>4 DEF Menu!TicksPass, Menu!HandlerChanges
<1>5. CASE Menu!Parked \/ UNCHANGED menuVars
  BY <1>2, <1>5 DEF Menu!Parked, Menu!vars, menuVars
<1> QED
  BY <1>1, <1>3, <1>4, <1>5 DEF Menu!Next

\* RunsWhatIsMarked: one row of the pane was marked when the key was pressed, and
\* it shows the entry that the press runs, in lists and panes of any length, after
\* any moves, commands, closed levels and events that went to the game.
THEOREM PressRunsMarked == Spec => RunsWhatIsMarked
<1> DEFINE Inv == front = "menu" => MenuOk
<1>1. Init => Inv
  <2>1. ASSUME Menu!Init PROVE MenuOk
    <3>1. Selected(menu)
      BY <2>1, CountsAreLengths DEF Menu!Init, Selected, MenuStates, Menu!Views
    <3> QED
      BY <2>1, <3>1 DEF Menu!Init, MenuOk
  <2> QED
    BY <2>1 DEF Init
<1>2. Inv /\ [Next]_vars => Inv'
  BY Turns, MenuKept
<1>3. Inv /\ [Next]_vars => [front = "menu" => Menu!RunsMarked]_vars
  <2>1. SUFFICES ASSUME Inv, [Next]_vars, front = "menu", ~ UNCHANGED vars
                 PROVE  Menu!RunsMarked
    OBVIOUS
  <2>2. ~ UNCHANGED menuVars
    BY <2>1 DEF Next, vars
  <2> QED
    BY <2>1, <2>2, Turns, MenuKept DEF Menu!RunsMarked, RunShown
<1> QED
  BY <1>1, <1>2, <1>3, PTL DEF Spec, RunsWhatIsMarked

-----------------------------------------------------------------------------
(* The snapshots.  While a slot keeps its task, its counter is the copy    *)
(* made at the last snapshot and what was charged since.                   *)

DiagTypes ==
  /\ used \subseteq Tasks /\ Idle \in used /\ same \subseteq used
  /\ runtime \in [Tasks -> 0 .. MaxTicks]
  /\ last_runtime \in [Tasks -> Nat]
  /\ charged \in [Tasks -> Nat]

Counted ==
  /\ known \in BOOLEAN
  /\ ~ known => same = {}
  /\ \A s \in same : runtime[s] = last_runtime[s] + charged[s]

DiagOk == DiagTypes /\ Counted /\ Diag!DeltasCoverPeriod

LEMMA IdleIsLeast == Diag!IdleTask = Idle
<1>1. Idle \in Tasks /\ \A y \in Tasks : Idle <= y
  BY IdleIsTask DEF Tasks, Idle
<1>2. \A x \in Tasks : (\A y \in Tasks : x <= y) => x = Idle
  BY <1>1 DEF Tasks, Idle
<1> QED
  BY <1>1, <1>2 DEF Diag!IdleTask, Diag!Min

LEMMA TasksFinite == IsFiniteSet(Tasks) /\ Cardinality(Tasks) = MaxTasks
<1>1. 0 \in Int /\ MaxTasks - 1 \in Int /\ MaxTasks \in Nat /\ MaxTasks >= 2
  BY MaxTasksAssumption
<1> QED
  BY <1>1, FS_Interval DEF Tasks

LEMMA SumOverIs == ASSUME NEW f, NEW S PROVE Diag!SumOver(f, S) = Sum(f, S)
BY Zenon DEF Sum, IsSums, Pick, Diag!SumOver, Diag!MapThenSumSet, Diag!MapThenFoldSet

LEMMA ModOfLess ==
  ASSUME NEW x \in Nat, NEW n \in Nat, x < n PROVE x % n = x
OBVIOUS

LEMMA ShortCounters == MaxTicks < Wrap
<1>1. PICK c : c = MaxTasks * MaxTicks
  OBVIOUS
<1>2. c \in Nat /\ MaxTicks <= c
  BY <1>1, MaxTasksAssumption, DiagAssumption
<1> QED
  BY <1>1, <1>2, DiagAssumption

\* The sum of what the tasks were charged is short of any wrap-around.
LEMMA ChargedIsShort ==
  ASSUME DiagTypes, \A s \in used : charged[s] <= MaxTicks
  PROVE  /\ Sum(charged, used) \in Nat /\ Sum(charged, used) * 100 < Wrap
         /\ charged[Idle] <= Sum(charged, used)
<1>1. used \subseteq Tasks /\ Idle \in used /\ \A s \in used : charged[s] \in Nat
  BY DEF DiagTypes
<1>2. IsFiniteSet(used) /\ Cardinality(used) \in Nat /\ Cardinality(used) <= MaxTasks
  BY <1>1, TasksFinite, FS_Subset, FS_CardinalityType
<1>3. Sum(charged, used) \in Nat
  BY <1>1, <1>2, SumIsNat
<1>4. charged[Idle] <= Sum(charged, used)
  BY <1>1, <1>2, SumHas
<1>5. Sum(charged, used) <= Cardinality(used) * MaxTicks
  BY <1>1, <1>2, SumAtMost, DiagAssumption
<1>6. Cardinality(used) * MaxTicks <= MaxTasks * MaxTicks
  BY <1>2, MaxTasksAssumption, DiagAssumption
<1>7. PICK c : c = MaxTasks * MaxTicks
  OBVIOUS
<1>8. c \in Nat /\ c * 100 < Wrap
  BY <1>7, MaxTasksAssumption, DiagAssumption
<1>9. PICK d : d = Cardinality(used) * MaxTicks
  OBVIOUS
<1>10. d \in Nat /\ Sum(charged, used) <= d /\ d <= c
  BY <1>2, <1>5, <1>6, <1>7, <1>9, DiagAssumption
<1> QED
  BY <1>3, <1>4, <1>8, <1>10, DiagAssumption

LEMMA SnapshotCovers ==
  ASSUME DiagOk, Diag!Snapshot
  PROVE  DiagOk'
<1>1. DiagTypes /\ Counted
  BY DEF DiagOk
<1>2. DiagTypes' /\ Counted'
  BY <1>1 DEF DiagTypes, Counted, Diag!Snapshot, Diag!CopyAfter, Diag!Copied
<1> DEFINE delta == [s \in used |-> (runtime[s] - Diag!Copied[s] + Wrap) % Wrap]
           total == Diag!SumOver(delta, used) % Wrap
<1>3. ASSUME NEW s \in same
      PROVE  delta[s] = charged[s] /\ charged[s] \in Nat /\ charged[s] <= MaxTicks
  <2>1. s \in used /\ known /\ Diag!Copied = last_runtime
    BY <1>1 DEF DiagTypes, Counted, Diag!Copied
  <2>2. /\ runtime[s] \in 0 .. MaxTicks /\ last_runtime[s] \in Nat /\ charged[s] \in Nat
        /\ runtime[s] = last_runtime[s] + charged[s]
    BY <1>1 DEF DiagTypes, Counted
  <2>3. charged[s] <= MaxTicks /\ charged[s] < Wrap
    BY <2>2, ShortCounters, DiagAssumption
  <2>4. (charged[s] + Wrap) % Wrap = charged[s]
    BY <2>2, <2>3, DiagAssumption
  <2> QED
    BY <2>1, <2>2, <2>3, <2>4
<1>4. ASSUME known /\ used = same
      PROVE  Diag!BusyPercent(total, delta[Diag!IdleTask]) = Diag!BusyShare
  <2> DEFINE T == Sum(charged, used)
  <2>1. T \in Nat /\ T * 100 < Wrap /\ charged[Idle] <= T /\ charged[Idle] \in Nat
    BY <1>1, <1>3, <1>4, ChargedIsShort DEF DiagTypes
  <2>2. Diag!SumOver(delta, used) = T
    <3>1. IsFiniteSet(used)
      BY <1>1, TasksFinite, FS_Subset DEF DiagTypes
    <3>2. \A s \in used : charged[s] \in Nat /\ delta[s] = charged[s]
      BY <1>3, <1>4
    <3> HIDE DEF delta
    <3>3. Sum(delta, used) = Sum(charged, used)
      BY <3>1, <3>2, SumSame
    <3> QED
      BY <3>3, SumOverIs
  <2>3. T < Wrap /\ (T - charged[Idle]) * 100 < Wrap
    BY <2>1, DiagAssumption
  <2>4. total = T
    BY <2>1, <2>2, <2>3, ModOfLess, DiagAssumption
  <2>5. delta[Diag!IdleTask] = charged[Idle]
    BY <1>1, <1>3, <1>4, IdleIsLeast DEF DiagTypes
  <2>6. Diag!BusyShare = IF T = 0 THEN 0 ELSE ((T - charged[Idle]) * 100) \div T
    BY SumOverIs, IdleIsLeast DEF Diag!BusyShare
  <2> HIDE DEF T, delta, total
  <2>7. Diag!BusyPercent(T, charged[Idle])
          = IF T = 0 THEN 0 ELSE ((T - charged[Idle]) * 100) \div T
    <3>1. PICK b : b = (T - charged[Idle]) * 100
      OBVIOUS
    <3>2. b \in Nat /\ b % Wrap = b
      BY <2>1, <2>3, <3>1, ModOfLess, DiagAssumption
    <3>3. T # 0 /\ charged[Idle] >= T => b = 0 /\ 0 \div T = 0
      BY <2>1, <3>1
    <3> QED
      BY <2>1, <3>1, <3>2, <3>3 DEF Diag!BusyPercent
  <2> QED
    BY <2>4, <2>5, <2>6, <2>7
<1>5. PICK percent, share, whole, first :
        /\ percent = Diag!BusyPercent(total, delta[Diag!IdleTask])
        /\ share = Diag!BusyShare /\ whole = (known /\ used = same) /\ first = ~ known
  OBVIOUS
<1>6. snapshot' = {[delta |-> delta, percent |-> percent, charged |-> charged,
                    same |-> same, share |-> share, whole |-> whole, first |-> first]}
  BY <1>5, Zenon DEF Diag!Snapshot
<1> HIDE DEF delta, total
<1>7. whole => percent = share
  BY <1>4, <1>5
<1>8. Diag!DeltasCoverPeriod'
  BY <1>3, <1>6, <1>7 DEF Diag!DeltasCoverPeriod
<1> QED
  BY <1>2, <1>8 DEF DiagOk

LEMMA DiagKept == DiagOk /\ [Diag!Next]_diagVars => DiagOk'
<1> SUFFICES ASSUME DiagOk, [Diag!Next]_diagVars PROVE DiagOk'
  OBVIOUS
<1>1. ASSUME snapshot' = {} PROVE Diag!DeltasCoverPeriod'
  BY <1>1 DEF Diag!DeltasCoverPeriod
<1>2. ASSUME NEW s \in Tasks, NEW ticks \in 1 .. MaxTicks, Diag!Charge(s, ticks)
      PROVE  DiagOk'
  <2>1. ticks \in Nat
    BY DiagAssumption
  <2> QED
    BY <1>1, <1>2, <2>1, DiagAssumption DEF Diag!Charge, DiagOk, DiagTypes, Counted
<1>3. ASSUME NEW s \in Tasks, Diag!Create(s) PROVE DiagOk'
  BY <1>1, <1>3 DEF Diag!Create, DiagOk, DiagTypes, Counted
<1>4. ASSUME NEW s \in Tasks, Diag!Reap(s) PROVE DiagOk'
  BY <1>1, <1>4, IdleIsLeast, DiagAssumption DEF Diag!Reap, DiagOk, DiagTypes, Counted
<1>5. CASE Diag!Snapshot
  BY <1>5, SnapshotCovers
<1>6. CASE UNCHANGED diagVars
  BY <1>6 DEF diagVars, DiagOk, DiagTypes, Counted, Diag!DeltasCoverPeriod
<1> QED
  BY <1>2, <1>3, <1>4, <1>5, <1>6 DEF Diag!Next

\* DeltasCoverPeriod, for a table of any size: the difference of a task that was
\* there at the last snapshot is what it was charged since, and while no slot
\* changes hands the percentage is the share that was not idle.
THEOREM SnapshotsCoverPeriod == Spec => []DeltasCoverPeriod
<1> DEFINE Inv == front = "diag" => DiagOk
<1>1. Init => Inv
  <2>1. ASSUME Diag!Init PROVE DiagOk
    <3>1. 0 \in 0 .. MaxTicks /\ 0 \in Nat /\ Idle \in Tasks
      BY IdleIsTask, DiagAssumption
    <3>2. used = {Idle}
      BY <2>1, IdleIsLeast DEF Diag!Init
    <3>3. DiagTypes
      BY <2>1, <3>1, <3>2 DEF Diag!Init, DiagTypes
    <3>4. Counted /\ Diag!DeltasCoverPeriod
      BY <2>1 DEF Diag!Init, Counted, Diag!DeltasCoverPeriod
    <3> QED
      BY <3>3, <3>4 DEF DiagOk
  <2> QED
    BY <2>1 DEF Init
<1>2. Inv /\ [Next]_vars => Inv'
  BY Turns, DiagKept
<1>3. Inv => DeltasCoverPeriod
  BY DEF DiagOk, DeltasCoverPeriod
<1> QED
  BY <1>1, <1>2, <1>3, PTL DEF Spec

-----------------------------------------------------------------------------
(* The sensors.  The transfers come in one order, so that each of them     *)
(* finds what those before it kept; a value that went through the          *)
(* registers is the device's; and the quotient of C leaves a remainder     *)
(* with the sign of the numerator, which is what OnLine says of it.        *)

LEMMA DivIs ==
  ASSUME NEW n \in Nat, NEW d \in Nat \ {0}
  PROVE  n \div d \in Nat /\ (n \div d) * d <= n /\ n < (n \div d) * d + d
OBVIOUS

LEMMA ByteThenBytes ==
  ASSUME NEW v \in Int
  PROVE  \E a, c \in Int : /\ a = v % 256 /\ c = v \div 256 /\ v = (c * 256) + a
                           /\ 0 <= a /\ a <= 255
<1>1. PICK a, c : a = v % 256 /\ c = v \div 256
  OBVIOUS
<1> QED
  BY <1>1, SMT

LEMMA HighByte ==
  ASSUME NEW c \in Int, -128 <= c, c <= 127
  PROVE  c % 256 = IF c < 0 THEN c + 256 ELSE c
BY SMT

LEMMA Int16OfBytes == ASSUME NEW v \in Signed16 PROVE Sensors!Int16(Sensors!Bytes2(v)) = v
<1>1. v \in Int /\ -32768 <= v /\ v < 32768
  BY SMT DEF Signed16
<1>2. PICK a, c \in Int : /\ a = v % 256 /\ c = v \div 256 /\ v = (c * 256) + a
                          /\ 0 <= a /\ a <= 255
  BY <1>1, ByteThenBytes
<1>3. -128 <= c /\ c <= 127
  BY <1>1, <1>2, SMT
<1>4. PICK b : b = c % 256
  OBVIOUS
<1>5. b * 256 + a = IF v < 0 THEN v + 65536 ELSE v
  BY <1>1, <1>2, <1>3, <1>4, HighByte, SMT
<1>6. Sensors!Bytes2(v) = <<a, b>>
  BY <1>2, <1>4, Zenon DEF Sensors!Bytes2
<1>7. Sensors!Bytes2(v)[1] = a /\ Sensors!Bytes2(v)[2] = b
  BY <1>6, SMT
<1> QED
  BY <1>1, <1>5, <1>7, SMT DEF Sensors!Int16

LEMMA Int24OfBytes == ASSUME NEW v \in Signed24 PROVE Sensors!Int24(Sensors!Bytes3(v)) = v
<1>1. v \in Int /\ -8388608 <= v /\ v < 8388608
  BY SMT DEF Signed24
<1>2. PICK a, d \in Int : /\ a = v % 256 /\ d = v \div 256 /\ v = (d * 256) + a
                          /\ 0 <= a /\ a <= 255
  BY <1>1, ByteThenBytes
<1>3. PICK b, e \in Int : /\ b = d % 256 /\ e = d \div 256 /\ d = (e * 256) + b
                          /\ 0 <= b /\ b <= 255
  BY <1>2, ByteThenBytes
<1>4. v \div 65536 = e
  BY <1>2, <1>3, SMT
<1>5. -128 <= e /\ e <= 127
  BY <1>1, <1>2, <1>3, SMT
<1>6. PICK c : c = e % 256
  OBVIOUS
<1>7. c * 65536 + b * 256 + a = IF v < 0 THEN v + 16777216 ELSE v
  BY <1>1, <1>2, <1>3, <1>5, <1>6, HighByte, SMT
<1>8. Sensors!Bytes3(v) = <<a, b, c>>
  BY <1>2, <1>3, <1>4, <1>6, SMT DEF Sensors!Bytes3
<1>9. Sensors!Bytes3(v)[1] = a /\ Sensors!Bytes3(v)[2] = b /\ Sensors!Bytes3(v)[3] = c
  BY <1>8, SMT
<1> QED
  BY <1>1, <1>7, <1>9, SMT DEF Sensors!Int24

\* What OnLine says, in its three products.
Near(rise, part, run) ==
  /\ rise >= 0 => rise - part >= 0 /\ rise - part < run
  /\ rise <= 0 => rise - part <= 0 /\ -(rise - part) < run

QuotientNear(n, d) ==
  \E rise, run, q \in Int :
    /\ Sensors!Quotient(n, d) = q /\ run > 0
    /\ IF d < 0 THEN rise = -n /\ run = -d ELSE rise = n /\ run = d
    /\ Near(rise, q * run, run)
    /\ (rise >= 0 => q >= 0) /\ (rise <= 0 => q <= 0)

LEMMA QuotientIsNear == ASSUME NEW n \in Int, NEW d \in Int, d # 0 PROVE QuotientNear(n, d)
<1>1. PICK a : a = IF n < 0 THEN -n ELSE n
  OBVIOUS
<1>2. PICK run : run = IF d < 0 THEN -d ELSE d
  OBVIOUS
<1>3. a \in Nat /\ run \in Nat \ {0}
  BY <1>1, <1>2
<1>4. PICK p : p = a \div run
  OBVIOUS
<1>5. p \in Nat /\ p * run <= a /\ a < p * run + run
  BY <1>3, <1>4, DivIs
<1>6. PICK q : q = IF (n < 0) = (d < 0) THEN p ELSE -p
  OBVIOUS
<1>7. Sensors!Quotient(n, d) = q
  BY <1>1, <1>2, <1>4, <1>6, Zenon DEF Sensors!Quotient
<1>8. PICK rise : rise = IF d < 0 THEN -n ELSE n
  OBVIOUS
<1>9. a = (IF rise < 0 THEN -rise ELSE rise) /\ rise \in Int
  BY <1>1, <1>8
<1>10. p = 0 \/ p * run > 0
  BY <1>3, <1>5
<1>11. p # 0 => a > 0
  BY <1>3, <1>5, <1>10
<1>12. q = (IF rise < 0 THEN -p ELSE p) /\ q \in Int
  BY <1>1, <1>5, <1>6, <1>8, <1>11
<1>13. q * run = IF rise < 0 THEN -(p * run) ELSE p * run
  BY <1>3, <1>5, <1>12
<1>14. PICK part : part = p * run
  OBVIOUS
<1>15. part \in Nat
  BY <1>3, <1>5, <1>14
<1>16. Near(rise, q * run, run)
  BY <1>3, <1>5, <1>9, <1>13, <1>14, <1>15 DEF Near
<1>17. (rise >= 0 => q >= 0) /\ (rise <= 0 => q <= 0)
  BY <1>1, <1>5, <1>9, <1>11, <1>12
<1> QED
  BY <1>2, <1>3, <1>7, <1>8, <1>9, <1>12, <1>16, <1>17 DEF QuotientNear


LEMMA NearIsOnLine ==
  ASSUME NEW x0 \in Int, NEW y0 \in Int, NEW x1 \in Int, NEW y1 \in Int, NEW x \in Int,
         NEW v \in Int, NEW rise \in Int, NEW run \in Int,
         IF x1 - x0 < 0 THEN rise = -((x - x0) * (y1 - y0)) /\ run = -(x1 - x0)
                        ELSE rise = (x - x0) * (y1 - y0) /\ run = x1 - x0,
         Near(rise, (v - y0) * run, run)
  PROVE  Sensors!OnLine(x0, y0, x1, y1, x, v)
<1>1. PICK sign : sign = IF x1 < x0 THEN -1 ELSE 1
  OBVIOUS
<1>2. sign * (x1 - x0) = run
  BY <1>1
<1>3. sign * (x - x0) * (y1 - y0) = rise
  BY <1>1
<1>4. sign * (v - y0) * (x1 - x0) = (v - y0) * run
  BY <1>1
<1> QED
  BY <1>1, <1>2, <1>3, <1>4, Zenon DEF Sensors!OnLine, Near

LEMMA InterpolateOnLine ==
  ASSUME NEW x0 \in Int, NEW y0 \in Int, NEW x1 \in Int, NEW y1 \in Int, NEW x \in Int,
         x1 # x0
  PROVE  Sensors!OnLine(x0, y0, x1, y1, x, Sensors!Interpolate(y0, y1, x0, x1, x))
<1>1. PICK n, d \in Int : n = (x - x0) * (y1 - y0) /\ d = x1 - x0
  OBVIOUS
<1>2. n \in Int /\ d \in Int /\ d # 0
  BY <1>1
<1>3. QuotientNear(n, d)
  BY <1>2, QuotientIsNear
<1>4. PICK rise, run, q \in Int :
        /\ Sensors!Quotient(n, d) = q /\ run > 0
        /\ IF d < 0 THEN rise = -n /\ run = -d ELSE rise = n /\ run = d
        /\ Near(rise, q * run, run)
        /\ (rise >= 0 => q >= 0) /\ (rise <= 0 => q <= 0)
  BY <1>3 DEF QuotientNear
<1>5. Sensors!Interpolate(y0, y1, x0, x1, x) = y0 + q
  BY <1>1, <1>4, Zenon DEF Sensors!Interpolate
<1>6. (y0 + q) - y0 = q
  OBVIOUS
<1> QED
  BY <1>1, <1>4, <1>5, <1>6, NearIsOnLine

LEMMA ClipOnLine ==
  ASSUME NEW x0 \in Int, NEW y0 \in Nat, NEW x1 \in Int, NEW y1 \in Int, NEW x \in Int,
         x1 # x0
  PROVE  Sensors!OnLineInPercent(x0, y0, x1, y1, x,
                                 Sensors!Clip(Sensors!Interpolate(y0, y1, x0, x1, x)))
<1>1. PICK n, d \in Int : n = (x - x0) * (y1 - y0) /\ d = x1 - x0
  OBVIOUS
<1>2. n \in Int /\ d \in Int /\ d # 0
  BY <1>1
<1>3. QuotientNear(n, d)
  BY <1>2, QuotientIsNear
<1>4. PICK rise, run, q \in Int :
        /\ Sensors!Quotient(n, d) = q /\ run > 0
        /\ IF d < 0 THEN rise = -n /\ run = -d ELSE rise = n /\ run = d
        /\ Near(rise, q * run, run)
        /\ (rise >= 0 => q >= 0) /\ (rise <= 0 => q <= 0)
  BY <1>3 DEF QuotientNear
<1>5. Sensors!Interpolate(y0, y1, x0, x1, x) = y0 + q
  BY <1>1, <1>4, Zenon DEF Sensors!Interpolate
<1>6. PICK i \in Int : i = y0 + q
  OBVIOUS
<1>7. PICK v : v = Sensors!Clip(i)
  OBVIOUS
<1>8. v = IF i < 0 THEN 0 ELSE IF i > 10000 THEN 10000 ELSE i
  BY <1>7, SMT DEF Sensors!Clip
<1> SUFFICES Sensors!OnLineInPercent(x0, y0, x1, y1, x, v)
  BY <1>5, <1>6, <1>7, Zenon
<1>9. PICK sign : sign = IF x1 < x0 THEN -1 ELSE 1
  OBVIOUS
<1>10. sign * (x1 - x0) = run /\ sign * (x - x0) * (y1 - y0) = rise
  BY <1>1, <1>4, <1>9
<1>11. PICK y \in Int : y = y0 * run + rise
  OBVIOUS
<1>12. PICK part, base, all \in Int : part = q * run /\ base = y0 * run /\ all = i * run
  OBVIOUS
<1>13. all = base + part
  BY <1>6, <1>12
<1>14. Near(rise, part, run)
  BY <1>4, <1>12
<1>15. i <= 0 => all <= -run \/ (i = 0 /\ all = 0)
  BY <1>4, <1>12
<1>16. i >= 10000 => all >= 10000 * run
  BY <1>4, <1>12
<1>17. CASE i <= 0
  <2>1. v = 0
    BY <1>8, <1>17
  <2>2. rise > 0 => i = 0 /\ y0 = 0 /\ base = 0
    BY <1>4, <1>6, <1>12, <1>17
  <2>3. y < run
    BY <1>4, <1>11, <1>12, <1>13, <1>14, <1>15, <1>17, <2>2 DEF Near
  <2> QED
    BY <1>9, <1>10, <1>11, <2>1, <2>3, SMT DEF Sensors!OnLineInPercent
<1>18. CASE i >= 10000
  <2>1. v = 10000
    BY <1>8, <1>18, SMT
  <2>2. y > 9999 * run
    BY <1>4, <1>11, <1>12, <1>13, <1>14, <1>16, <1>18, SMT DEF Near
  <2>3. 10000 # 0
    BY SMT
  <2> QED
    BY <1>9, <1>10, <1>11, <2>1, <2>2, <2>3, SMT DEF Sensors!OnLineInPercent
<1>19. CASE 0 < i /\ i < 10000
  <2>1. v = i /\ v - y0 = q
    BY <1>6, <1>8, <1>19, SMT
  <2>2. Sensors!OnLine(x0, y0, x1, y1, x, v)
    BY <1>1, <1>4, <2>1, NearIsOnLine, <1>6, SMT
  <2>3. v # 0 /\ v # 10000 /\ v \in 1 .. 9999 /\ v \in 0 .. 10000
    BY <1>19, <2>1, SMT
  <2> QED
    BY <2>1, <2>2, <2>3, SMT DEF Sensors!OnLineInPercent
<1> QED
  BY <1>6, <1>17, <1>18, <1>19, SMT

\* The i-th transfer of the initialization, counted from 1.
Transfer(i) == Sensors!Transfers[i]

LEMMA TransferIs ==
  /\ Transfer(1) = "lps_who" /\ Transfer(2) = "lps_ctrl" /\ Transfer(3) = "who"
  /\ Transfer(4) = "av_conf" /\ Transfer(5) = "ctrl" /\ Transfer(6) = "h0_x2"
  /\ Transfer(7) = "h1_x2" /\ Transfer(8) = "h0_out" /\ Transfer(9) = "h1_out"
  /\ Transfer(10) = "t0_x8_lsb" /\ Transfer(11) = "t1_x8_lsb" /\ Transfer(12) = "t1_t0_msb"
  /\ Transfer(13) = "t0_out" /\ Transfer(14) = "t1_out" /\ Transfer(15) = "ready"
BY DEF Transfer, Sensors!Transfers

LEMMA OneOrder ==
  \A i, j \in 1 .. 15 : Transfer(i) = Transfer(j) => i = j
<1>1. \A i \in 1 .. 15 : 
         \/ i = 1 \/ i = 2 \/ i = 3 \/ i = 4 \/ i = 5 \/ i = 6 \/ i = 7 \/ i = 8
         \/ i = 9 \/ i = 10 \/ i = 11 \/ i = 12 \/ i = 13 \/ i = 14 \/ i = 15
  OBVIOUS
<1> QED
  BY <1>1, TransferIs

LEMMA TransferThen ==
  ASSUME NEW i \in 1 .. 14
  PROVE  /\ Sensors!After(Transfer(i)) = Transfer(i + 1)
         /\ Transfer(i) # "off" /\ Transfer(i) # "ready"
<1>1. Len(Sensors!Transfers) - 1 = 14
  BY DEF Sensors!Transfers
<1>4. PICK t : t = Transfer(i)
  OBVIOUS
<1>5. \A j \in 1 .. 14 : Transfer(j) = t <=> j = i
  BY <1>4, OneOrder
<1>6. (CHOOSE j \in 1 .. 14 : Transfer(j) = t) = i
  BY <1>5
<1>7. Sensors!After(t) = Transfer(1 + i)
  BY <1>1, <1>6, Zenon DEF Sensors!After, Transfer
<1>8. Transfer(i) # "ready"
  BY TransferIs, OneOrder
<1>9. Transfer(i) # "off"
  BY TransferIs
<1>10. 1 + i = i + 1
  OBVIOUS
<1> QED
  BY <1>4, <1>7, <1>8, <1>9, <1>10

CalibType ==
  calib \in [h0_centi_percent : Int, h1_centi_percent : Int, h0_out : Int, h1_out : Int,
             t0_centi_c : Int, t1_centi_c : Int, t0_out : Int, t1_out : Int, valid : BOOLEAN]

\* What the transfers before the i-th have kept.
Kept(i) ==
  /\ i > 7  => /\ calib.h0_centi_percent = device.h0 * 50
               /\ calib.h1_centi_percent = device.h1 * 50
  /\ i > 8  => calib.h0_out = device.h0_out
  /\ i > 9  => calib.h1_out = device.h1_out /\ device.h1_out # device.h0_out
  /\ i > 12 => /\ calib.t0_centi_c = (device.t0 * 25) \div 2
               /\ calib.t1_centi_c = (device.t1 * 25) \div 2
  /\ i > 13 => calib.t0_out = device.t0_out
  /\ i > 14 => calib.t1_out = device.t1_out /\ device.t1_out # device.t0_out

SensorsOk ==
  /\ device \in Devices /\ CalibType
  /\ sensor_at # "off" => \E i \in 1 .. 15 : sensor_at = Transfer(i) /\ Kept(i)
  /\ Sensors!ReadingOnLine

LEMMA DeviceIs ==
  ASSUME device \in Devices
  PROVE  /\ device.h0 \in Nat /\ device.h1 \in Nat
         /\ device.t0 \in Nat /\ device.t0 < 1024 /\ device.t1 \in Nat /\ device.t1 < 1024
         /\ device.h0_out \in Signed16 /\ device.h1_out \in Signed16
         /\ device.t0_out \in Signed16 /\ device.t1_out \in Signed16
<1>1. device \in [h0 : Unsigned8, h1 : Unsigned8, t0 : Unsigned10, t1 : Unsigned10,
                  h0_out : Signed16, h1_out : Signed16, t0_out : Signed16, t1_out : Signed16]
  BY SensorsAssumption
<1>4. /\ device.h0 \in Unsigned8 /\ device.h1 \in Unsigned8
      /\ device.t0 \in Unsigned10 /\ device.t1 \in Unsigned10
      /\ device.h0_out \in Signed16 /\ device.h1_out \in Signed16
      /\ device.t0_out \in Signed16 /\ device.t1_out \in Signed16
  BY <1>1
<1> QED
  BY <1>4, SMT DEF Unsigned8, Unsigned10

LEMMA PercentsRead ==
  ASSUME device.h0 \in Nat, device.h1 \in Nat
  PROVE  Sensors!Calibrated("h1_x2")
           = [calib EXCEPT !.h0_centi_percent = device.h0 * 50,
                           !.h1_centi_percent = device.h1 * 50]
<1>1. Sensors!Calibrated("h1_x2") =
        [calib EXCEPT !.h0_centi_percent = (Sensors!Register("h0_x2") * 100) \div 2,
                      !.h1_centi_percent = (Sensors!Register("h1_x2") * 100) \div 2]
  BY Zenon DEF Sensors!Calibrated
<1>4. Sensors!Register("h0_x2") = device.h0 /\ Sensors!Register("h1_x2") = device.h1
  BY Zenon DEF Sensors!Register
<1>5. (device.h0 * 100) \div 2 = device.h0 * 50 /\ (device.h1 * 100) \div 2 = device.h1 * 50
  BY SMT
<1> QED
  BY <1>1, <1>4, <1>5, Zenon

LEMMA DegreesRead ==
  ASSUME device.t0 \in Nat, device.t0 < 1024, device.t1 \in Nat, device.t1 < 1024
  PROVE  Sensors!Calibrated("t1_t0_msb")
           = [calib EXCEPT !.t0_centi_c = (device.t0 * 25) \div 2,
                           !.t1_centi_c = (device.t1 * 25) \div 2]
<1>1. PICK msb, t0, t1 : /\ msb = Sensors!Register("t1_t0_msb")
                         /\ t0 = Sensors!Register("t0_x8_lsb")
                         /\ t1 = Sensors!Register("t1_x8_lsb")
  OBVIOUS
<1>4. Sensors!Calibrated("t1_t0_msb") =
        [calib EXCEPT
           !.t0_centi_c = ((Sensors!HighBitsT0(msb) * 256 + t0) * 100) \div 8,
           !.t1_centi_c = ((Sensors!HighBitsT1(msb) * 256 + t1) * 100) \div 8]
  BY <1>1, Zenon DEF Sensors!Calibrated
<1>5. PICK a0, b0 : a0 = device.t0 % 256 /\ b0 = device.t0 \div 256
  OBVIOUS
<1>6. PICK a1, b1 : a1 = device.t1 % 256 /\ b1 = device.t1 \div 256
  OBVIOUS
<1>7. t0 = a0 /\ t1 = a1 /\ msb = b1 * 4 + b0
  BY <1>1, <1>5, <1>6, Zenon DEF Sensors!Register
<1>8. b0 \in Nat /\ b0 < 4 /\ a0 \in Nat /\ device.t0 = b0 * 256 + a0
  BY <1>5, SMT
<1>9. b1 \in Nat /\ b1 < 4 /\ a1 \in Nat /\ device.t1 = b1 * 256 + a1
  BY <1>6, SMT
<1>10. Sensors!HighBitsT0(msb) = b0 /\ Sensors!HighBitsT1(msb) = b1
  BY <1>7, <1>8, <1>9, SMT DEF Sensors!HighBitsT0, Sensors!HighBitsT1
<1>11. /\ (device.t0 * 100) \div 8 = (device.t0 * 25) \div 2
      /\ (device.t1 * 100) \div 8 = (device.t1 * 25) \div 2
  BY SMT
<1>12. /\ Sensors!HighBitsT0(msb) * 256 + t0 = device.t0
       /\ Sensors!HighBitsT1(msb) * 256 + t1 = device.t1
  BY <1>7, <1>8, <1>9, <1>10
<1>13. PICK e0, e1 : e0 = (device.t0 * 25) \div 2 /\ e1 = (device.t1 * 25) \div 2
  OBVIOUS
<1>14. /\ ((Sensors!HighBitsT0(msb) * 256 + t0) * 100) \div 8 = e0
       /\ ((Sensors!HighBitsT1(msb) * 256 + t1) * 100) \div 8 = e1
  BY <1>11, <1>12, <1>13, Zenon
<1>15. Sensors!Calibrated("t1_t0_msb") = [calib EXCEPT !.t0_centi_c = e0, !.t1_centi_c = e1]
  BY <1>4, <1>14, Zenon
<1> QED
  BY <1>13, <1>15, Zenon

LEMMA OutRead ==
  ASSUME device.h0_out \in Signed16, device.h1_out \in Signed16,
         device.t0_out \in Signed16, device.t1_out \in Signed16
  PROVE  /\ Sensors!Calibrated("h0_out") = [calib EXCEPT !.h0_out = device.h0_out]
         /\ Sensors!Calibrated("h1_out") = [calib EXCEPT !.h1_out = device.h1_out]
         /\ Sensors!Calibrated("t0_out") = [calib EXCEPT !.t0_out = device.t0_out]
         /\ Sensors!Calibrated("t1_out")
              = [calib EXCEPT !.t1_out = device.t1_out, !.valid = (device.t1_out # calib.t0_out)]
<1>1. /\ Sensors!Register("h0_out") = Sensors!Bytes2(device.h0_out)
      /\ Sensors!Register("h1_out") = Sensors!Bytes2(device.h1_out)
      /\ Sensors!Register("t0_out") = Sensors!Bytes2(device.t0_out)
      /\ Sensors!Register("t1_out") = Sensors!Bytes2(device.t1_out)
  BY Zenon DEF Sensors!Register
<1>4. /\ Sensors!Int16(Sensors!Register("h0_out")) = device.h0_out
      /\ Sensors!Int16(Sensors!Register("h1_out")) = device.h1_out
      /\ Sensors!Int16(Sensors!Register("t0_out")) = device.t0_out
      /\ Sensors!Int16(Sensors!Register("t1_out")) = device.t1_out
  BY <1>1, Int16OfBytes
<1>5. Sensors!Calibrated("h0_out") = [calib EXCEPT !.h0_out = device.h0_out]
  BY <1>4, Zenon DEF Sensors!Calibrated
<1>6. Sensors!Calibrated("h1_out") = [calib EXCEPT !.h1_out = device.h1_out]
  BY <1>4, Zenon DEF Sensors!Calibrated
<1>7. Sensors!Calibrated("t0_out") = [calib EXCEPT !.t0_out = device.t0_out]
  BY <1>4, Zenon DEF Sensors!Calibrated
<1>8. Sensors!Calibrated("t1_out")
        = [calib EXCEPT !.t1_out = device.t1_out, !.valid = (device.t1_out # calib.t0_out)]
  BY <1>4, Zenon DEF Sensors!Calibrated
<1> QED
  BY <1>5, <1>6, <1>7, <1>8

LEMMA NothingRead ==
  /\ Sensors!Calibrated("who") = [calib EXCEPT !.valid = FALSE]
  /\ \A t \in {"lps_who", "lps_ctrl", "av_conf", "ctrl", "h0_x2", "t0_x8_lsb", "t1_x8_lsb"} :
       Sensors!Calibrated(t) = calib
BY Zenon DEF Sensors!Calibrated

LEMMA RefusedIf ==
  ASSUME NEW t, NEW c
  PROVE  /\ t = "h1_out" /\ ~ Sensors!Refused(t, c) => c.h1_out # c.h0_out
         /\ t = "t1_out" /\ ~ Sensors!Refused(t, c) => c.t1_out # c.t0_out
BY DEF Sensors!Refused

LEMMA TransferKeeps ==
  ASSUME SensorsOk, Sensors!Transfer
  PROVE  SensorsOk'
<1>1. PICK i \in 1 .. 15 : sensor_at = Transfer(i) /\ Kept(i)
  BY DEF SensorsOk, Sensors!Transfer
<1>4. i # 15
  BY <1>1, TransferIs DEF Sensors!Transfer
<1>5. i \in 1 .. 14
  BY <1>4
<1>6. /\ calib' = Sensors!Calibrated(Transfer(i)) /\ device' = device /\ reading' = reading
      /\ sensor_at' # "off" => /\ sensor_at' = Transfer(i + 1)
                               /\ ~ Sensors!Refused(Transfer(i), calib')
  BY <1>1, <1>5, TransferThen DEF Sensors!Transfer
<1>7. device \in Devices /\ CalibType /\ Sensors!ReadingOnLine
  BY DEF SensorsOk
<1>8. CalibType' /\ (sensor_at' # "off" => Kept(i + 1)')
  <2> USE <1>1, <1>6, <1>7 DEF CalibType, Kept
  <2>1. /\ device.h0 \in Nat /\ device.h1 \in Nat
        /\ device.t0 \in Nat /\ device.t0 < 1024 /\ device.t1 \in Nat /\ device.t1 < 1024
        /\ device.h0_out \in Signed16 /\ device.h1_out \in Signed16
        /\ device.t0_out \in Signed16 /\ device.t1_out \in Signed16
    BY DeviceIs
  <2>2. CASE i \in {1, 2, 4, 5, 6, 10, 11}
    <3>1. calib' = calib
      BY <2>2, TransferIs, NothingRead
    <3> QED
      BY <2>2, <3>1
  <2>3. CASE i = 3
    <3>1. calib' = [calib EXCEPT !.valid = FALSE]
      BY <2>3, TransferIs, NothingRead
    <3>2. CalibType'
      BY <3>1
    <3> QED
      BY <2>3, <3>2
  <2>4. CASE i = 7
    <3>1. calib' = [calib EXCEPT !.h0_centi_percent = device.h0 * 50,
                                 !.h1_centi_percent = device.h1 * 50]
      BY <2>1, <2>4, TransferIs, PercentsRead
    <3>2. device.h0 * 50 \in Int /\ device.h1 * 50 \in Int
      BY <2>1
    <3>3. CalibType'
      BY <3>1, <3>2
    <3>4. /\ calib'.h0_centi_percent = device.h0 * 50
          /\ calib'.h1_centi_percent = device.h1 * 50
      BY <3>1
    <3> QED
      BY <2>4, <3>3, <3>4
  <2>5. \A x \in Signed16 : x \in Int
    BY DEF Signed16
  <2>6. CASE i = 8
    <3>1. calib' = [calib EXCEPT !.h0_out = device.h0_out]
      BY <2>1, <2>6, TransferIs, OutRead
    <3> QED
      BY <2>1, <2>5, <2>6, <3>1
  <2>7. CASE i = 9
    <3>1. calib' = [calib EXCEPT !.h1_out = device.h1_out]
      BY <2>1, <2>7, TransferIs, OutRead
    <3>2. sensor_at' # "off" => calib'.h1_out # calib'.h0_out
      BY <2>7, TransferIs, RefusedIf
    <3> QED
      BY <2>1, <2>5, <2>7, <3>1, <3>2
  <2>8. CASE i = 12
    <3>1. calib' = [calib EXCEPT !.t0_centi_c = (device.t0 * 25) \div 2,
                                 !.t1_centi_c = (device.t1 * 25) \div 2]
      BY <2>1, <2>8, TransferIs, DegreesRead
    <3>2. (device.t0 * 25) \div 2 \in Int /\ (device.t1 * 25) \div 2 \in Int
      BY <2>1
    <3>3. CalibType'
      BY <3>1, <3>2
    <3>4. /\ calib'.t0_centi_c = (device.t0 * 25) \div 2
          /\ calib'.t1_centi_c = (device.t1 * 25) \div 2
          /\ calib'.h0_centi_percent = calib.h0_centi_percent
          /\ calib'.h1_centi_percent = calib.h1_centi_percent
          /\ calib'.h0_out = calib.h0_out /\ calib'.h1_out = calib.h1_out
      BY <3>1
    <3> QED
      BY <2>8, <3>3, <3>4
  <2>9. CASE i = 13
    <3>1. calib' = [calib EXCEPT !.t0_out = device.t0_out]
      BY <2>1, <2>9, TransferIs, OutRead
    <3> QED
      BY <2>1, <2>5, <2>9, <3>1
  <2>10. CASE i = 14
    <3>1. calib' = [calib EXCEPT !.t1_out = device.t1_out,
                                 !.valid = (device.t1_out # calib.t0_out)]
      BY <2>1, <2>10, TransferIs, OutRead
    <3>2. sensor_at' # "off" => calib'.t1_out # calib'.t0_out
      BY <2>10, TransferIs, RefusedIf
    <3>3. (device.t1_out # calib.t0_out) \in BOOLEAN
      OBVIOUS
    <3>4. CalibType'
      BY <2>1, <2>5, <3>1, <3>3
    <3>5. /\ calib'.t0_out = calib.t0_out /\ calib'.t1_out = device.t1_out
          /\ calib'.t0_centi_c = calib.t0_centi_c /\ calib'.t1_centi_c = calib.t1_centi_c
          /\ calib'.h0_centi_percent = calib.h0_centi_percent
          /\ calib'.h1_centi_percent = calib.h1_centi_percent
          /\ calib'.h0_out = calib.h0_out /\ calib'.h1_out = calib.h1_out
      BY <3>1
    <3> QED
      BY <2>10, <3>2, <3>4, <3>5
  <2> QED
    BY <1>5, <2>2, <2>3, <2>4, <2>6, <2>7, <2>8, <2>9, <2>10
<1>9. Sensors!ReadingOnLine'
  BY <1>6, <1>7, SMT DEF Sensors!ReadingOnLine
<1> QED
  BY <1>5, <1>6, <1>7, <1>8, <1>9 DEF SensorsOk

LEMMA PressureOnLine ==
  ASSUME NEW p \in Int
  PROVE  Sensors!OnLine(0, 0, 4096, 100, p, Sensors!Quotient(p * 100, 4096))
<1>1. QuotientNear(p * 100, 4096)
  BY QuotientIsNear, SMT
<1>4. PICK rise, run, q \in Int :
        /\ Sensors!Quotient(p * 100, 4096) = q /\ run > 0
        /\ IF 4096 < 0 THEN rise = -(p * 100) /\ run = -4096 ELSE rise = p * 100 /\ run = 4096
        /\ Near(rise, q * run, run)
        /\ (rise >= 0 => q >= 0) /\ (rise <= 0 => q <= 0)
  BY <1>1, SMT DEF QuotientNear
<1>5. rise = p * 100 /\ run = 4096
  BY <1>4, SMT
<1>6. IF 4096 - 0 < 0 THEN rise = -((p - 0) * (100 - 0)) /\ run = -(4096 - 0)
                      ELSE rise = (p - 0) * (100 - 0) /\ run = 4096 - 0
  BY <1>5, SMT
<1>7. Near(rise, (q - 0) * run, run)
  <2>1. q - 0 = q
    BY SMT
  <2> QED
    BY <1>4, <2>1, SMT
<1> QED
  BY <1>4, <1>6, <1>7, NearIsOnLine, SMT

LEMMA ReportKeeps ==
  ASSUME SensorsOk, [Sensors!Next]_sensorVars
  PROVE  SensorsOk'
<1>1. device \in Devices /\ CalibType /\ Sensors!ReadingOnLine
  BY DEF SensorsOk
<1>4. ASSUME sensor_at = "ready"
      PROVE  Kept(15)
  BY <1>4, TransferIs, OneOrder DEF SensorsOk
<1>5. /\ device.h0 \in Nat /\ device.h1 \in Nat /\ device.t0 \in Nat /\ device.t1 \in Nat
      /\ device.h0_out \in Int /\ device.h1_out \in Int
      /\ device.t0_out \in Int /\ device.t1_out \in Int
  BY <1>1, DeviceIs DEF Signed16
<1>6. ASSUME NEW kind, NEW raw, NEW result, Sensors!Report(kind, raw, result),
             kind = "temperature" =>
               Sensors!OnLine(device.t0_out, (device.t0 * 25) \div 2,
                              device.t1_out, (device.t1 * 25) \div 2, raw, result),
             kind = "humidity" =>
               Sensors!OnLineInPercent(device.h0_out, device.h0 * 50,
                                       device.h1_out, device.h1 * 50, raw, result),
             kind = "pressure" => Sensors!OnLine(0, 0, 4096, 100, raw, result)
      PROVE  SensorsOk'
  <2>1. Sensors!ReadingOnLine'
    BY <1>6, SMT DEF Sensors!Report, Sensors!ReadingOnLine
  <2>2. CalibType' /\ device' \in Devices
    BY <1>1, <1>6 DEF Sensors!Report, CalibType
  <2>3. (sensor_at # "off" => \E i \in 1 .. 15 : sensor_at = Transfer(i) /\ Kept(i))'
    BY <1>6 DEF Sensors!Report, SensorsOk, Kept, Transfer, Sensors!Transfers
  <2> QED
    BY <2>1, <2>2, <2>3 DEF SensorsOk
<1>7. ASSUME NEW raw \in Raws, Sensors!ReadHumidity(raw) PROVE SensorsOk'
  <2>1. raw \in Int /\ Sensors!Int16(Sensors!Bytes2(raw)) = raw
    BY SensorsAssumption, Int16OfBytes DEF Signed16
  <2>2. Kept(15)
    BY <1>4, <1>7 DEF Sensors!ReadHumidity
  <2>3. PICK y0, y1 : y0 = device.h0 * 50 /\ y1 = device.h1 * 50
    OBVIOUS
  <2>4. /\ calib.h0_out = device.h0_out /\ calib.h1_out = device.h1_out
        /\ device.h1_out # device.h0_out
        /\ calib.h0_centi_percent = y0 /\ calib.h1_centi_percent = y1
    BY <2>2, <2>3 DEF Kept
  <2>5. y0 \in Nat /\ y1 \in Int
    BY <1>5, <2>3
  <2>6. PICK v : v = Sensors!Clip(Sensors!Interpolate(y0, y1, device.h0_out, device.h1_out, raw))
    OBVIOUS
  <2>7. Sensors!OnLineInPercent(device.h0_out, y0, device.h1_out, y1, raw, v)
    BY <1>5, <2>1, <2>4, <2>5, <2>6, ClipOnLine
  <2>8. Sensors!Report("humidity", raw, v)
    BY <1>7, <2>1, <2>4, <2>6, Zenon DEF Sensors!ReadHumidity
  <2> QED
    BY <1>6, <2>3, <2>7, <2>8
<1>8. ASSUME NEW raw \in Raws, Sensors!ReadTemperature(raw) PROVE SensorsOk'
  <2>1. raw \in Int /\ Sensors!Int16(Sensors!Bytes2(raw)) = raw
    BY SensorsAssumption, Int16OfBytes DEF Signed16
  <2>2. Kept(15)
    BY <1>4, <1>8 DEF Sensors!ReadTemperature
  <2>3. PICK y0, y1 : y0 = (device.t0 * 25) \div 2 /\ y1 = (device.t1 * 25) \div 2
    OBVIOUS
  <2>4. /\ calib.t0_out = device.t0_out /\ calib.t1_out = device.t1_out
        /\ device.t1_out # device.t0_out
        /\ calib.t0_centi_c = y0 /\ calib.t1_centi_c = y1
    BY <2>2, <2>3 DEF Kept
  <2>5. y0 \in Int /\ y1 \in Int
    BY <1>5, <2>3
  <2>6. PICK v : v = Sensors!Interpolate(y0, y1, device.t0_out, device.t1_out, raw)
    OBVIOUS
  <2>7. Sensors!OnLine(device.t0_out, y0, device.t1_out, y1, raw, v)
    BY <1>5, <2>1, <2>4, <2>5, <2>6, InterpolateOnLine
  <2>8. Sensors!Report("temperature", raw, v)
    BY <1>8, <2>1, <2>4, <2>6, Zenon DEF Sensors!ReadTemperature
  <2> QED
    BY <1>6, <2>3, <2>7, <2>8
<1>9. ASSUME NEW raw \in Pressures, Sensors!ReadPressure(raw) PROVE SensorsOk'
  <2>1. raw \in Int /\ Sensors!Int24(Sensors!Bytes3(raw)) = raw
    BY SensorsAssumption, Int24OfBytes, SMT DEF Signed24
  <2>2. Sensors!Report("pressure", raw, Sensors!Quotient(raw * 100, 4096))
    BY <1>9, <2>1, SMT DEF Sensors!ReadPressure
  <2>3. Sensors!OnLine(0, 0, 4096, 100, raw, Sensors!Quotient(raw * 100, 4096))
    BY <2>1, PressureOnLine, SMT
  <2> QED
    BY <1>6, <2>2, <2>3, SMT
<1>10. CASE Sensors!Abandon
  <2>1. sensor_at' = "off" /\ reading' = {} /\ device' = device
    BY <1>10 DEF Sensors!Abandon
  <2>2. calib' = calib \/ calib' = [calib EXCEPT !.valid = FALSE]
    BY <1>10 DEF Sensors!Abandon
  <2>3. CalibType'
    BY <1>1, <2>2 DEF CalibType
  <2> QED
    BY <1>1, <2>1, <2>3 DEF SensorsOk, Sensors!ReadingOnLine
<1>11. CASE Sensors!InitStarts
  <2>1. sensor_at' = Transfer(1) /\ reading' = {} /\ device' = device /\ calib' = calib
    BY <1>11 DEF Sensors!InitStarts, Transfer
  <2>2. Kept(1)'
    BY DEF Kept
  <2>3. CalibType'
    BY <1>1, <2>1 DEF CalibType
  <2>4. 1 \in 1 .. 15 /\ Transfer(1)' = Transfer(1)
    BY DEF Transfer, Sensors!Transfers
  <2> QED
    BY <1>1, <2>1, <2>2, <2>3, <2>4 DEF SensorsOk, Sensors!ReadingOnLine
<1>12. CASE UNCHANGED sensorVars
  BY <1>1, <1>12 DEF sensorVars, SensorsOk, CalibType, Kept, Transfer, Sensors!Transfers,
                     Sensors!ReadingOnLine
<1> QED
  BY <1>7, <1>8, <1>9, <1>10, <1>11, <1>12, TransferKeeps DEF Sensors!Next

\* ReadingOnLine, for any calibration that fits the registers and any raw value: a
\* reading is the value of the device's own line, to a hundredth, after any number
\* of initializations that were broken off.
THEOREM ReadingsOnLine == Spec => []ReadingOnLine
<1> DEFINE Inv == front = "sensors" => SensorsOk
<1>1. Init => Inv
  <2>1. ASSUME Sensors!Init PROVE SensorsOk
    <3>1. CalibType
      BY <2>1 DEF Sensors!Init, Sensors!NoCalib, CalibType
    <3> QED
      BY <2>1, <3>1 DEF Sensors!Init, SensorsOk, Sensors!ReadingOnLine
  <2> QED
    BY <2>1 DEF Init
<1>4. Inv /\ [Next]_vars => Inv'
  BY Turns, ReportKeeps
<1>5. Inv => ReadingOnLine
  BY DEF SensorsOk, ReadingOnLine
<1> QED
  BY <1>1, <1>4, <1>5, PTL DEF Spec

-----------------------------------------------------------------------------
(* Tic-tac-toe.  A line that a mark completes goes through the marked cell, *)
(* so a round that goes on until the first complete line has one winner.   *)

LEMMA SameCardinality == ASSUME NEW S PROVE Ttt!Cardinality(S) = Cardinality(S)
BY Zenon DEF Cardinality, Ttt!Cardinality

At(b, m) == {i \in Ttt!Cells : b[i] = m}

LEMMA NineCells == IsFiniteSet(Ttt!Cells) /\ Cardinality(Ttt!Cells) = 9
<1>1. PICK a, z \in Int : a = 0 /\ z = 8
  OBVIOUS
<1>2. IsFiniteSet(a .. z) /\ Cardinality(a .. z) = (IF a > z THEN 0 ELSE z - a + 1)
  BY FS_Interval
<1>3. Cardinality(a .. z) = 9
  BY <1>1, <1>2
<1>4. a .. z = Ttt!Cells
  BY <1>1 DEF Ttt!Cells
<1> QED
  BY <1>2, <1>3, <1>4

LEMMA AtFinite ==
  ASSUME NEW b, NEW m
  PROVE  IsFiniteSet(At(b, m)) /\ Cardinality(At(b, m)) \in Nat
BY NineCells, FS_Subset, FS_CardinalityType DEF At

LEMMA CountIsAt == ASSUME NEW b, NEW p PROVE Ttt!Count(b, p) = Cardinality(At(b, p))
BY SameCardinality DEF Ttt!Count, At

LEMMA CountMarked ==
  ASSUME NEW b \in Ttt!Boards, NEW i \in Ttt!Free(b), NEW p \in Ttt!Players, NEW q \in Ttt!Players
  PROVE  Ttt!Count([b EXCEPT ![i] = p], q) = Ttt!Count(b, q) + (IF p = q THEN 1 ELSE 0)
<1>1. PICK c : c = [b EXCEPT ![i] = p]
  OBVIOUS
<1>2. i \in Ttt!Cells /\ b[i] = "empty" /\ b \in [Ttt!Cells -> Ttt!Marks]
  BY DEF Ttt!Free, Ttt!Boards
<1>3. q # "empty"
  BY DEF Ttt!Players
<1>4. p = q => At(c, q) = At(b, q) \cup {i} /\ i \notin At(b, q)
  BY <1>1, <1>2, <1>3 DEF At
<1>5. p # q => At(c, q) = At(b, q)
  BY <1>1, <1>2, <1>3 DEF At
<1>6. p = q => Cardinality(At(c, q)) = Cardinality(At(b, q)) + 1
  BY <1>4, AtFinite, FS_AddElement
<1>7. p # q => Cardinality(At(c, q)) = Cardinality(At(b, q)) + 0
  BY <1>5, AtFinite
<1> QED
  BY <1>1, <1>6, <1>7, CountIsAt

LEMMA CountNone == ASSUME NEW p \in Ttt!Players PROVE Ttt!Count(Ttt!Blank, p) = 0
<1>1. At(Ttt!Blank, p) = {}
  BY DEF At, Ttt!Blank, Ttt!Players
<1> QED
  BY <1>1, CountIsAt, FS_EmptySet

\* Nine marks are a full board.
LEMMA CountFull ==
  ASSUME NEW b \in Ttt!Boards
  PROVE  /\ Ttt!Count(b, "X") \in Nat /\ Ttt!Count(b, "O") \in Nat
         /\ Ttt!Count(b, "X") + Ttt!Count(b, "O") >= 9 <=> Ttt!Free(b) = {}
<1>1. PICK X, O, F : X = At(b, "X") /\ O = At(b, "O") /\ F = At(b, "empty")
  OBVIOUS
<1>2. /\ IsFiniteSet(X) /\ IsFiniteSet(O) /\ IsFiniteSet(F)
      /\ Cardinality(X) \in Nat /\ Cardinality(O) \in Nat /\ Cardinality(F) \in Nat
  BY <1>1, AtFinite
<1>3. X \cap O = {} /\ (X \cup O) \cap F = {} /\ (X \cup O) \cup F = Ttt!Cells
  BY <1>1 DEF At, Ttt!Boards, Ttt!Marks, Ttt!Players
<1>4. IsFiniteSet(X \cup O) /\ Cardinality(X \cup O) = Cardinality(X) + Cardinality(O) - Cardinality({})
  BY <1>2, <1>3, FS_Union
<1>5. Cardinality(Ttt!Cells) = Cardinality(X \cup O) + Cardinality(F) - Cardinality({})
  BY <1>2, <1>3, <1>4, FS_Union
<1>6. Cardinality(Ttt!Cells) = 9
  BY NineCells
<1>7. Cardinality({}) = 0 /\ (Cardinality(F) = 0 <=> F = {})
  BY <1>2, FS_EmptySet
<1>8. F = Ttt!Free(b)
  BY <1>1 DEF At, Ttt!Free
<1>9. Cardinality(X) + Cardinality(O) >= 9 <=> F = {}
  BY <1>2, <1>4, <1>5, <1>6, <1>7
<1> QED
  BY <1>1, <1>2, <1>8, <1>9, CountIsAt

Cell(n, k) == Ttt!Lines[n][k]

LEMMA LinesInside == \A n \in 1 .. 8, k \in 1 .. 3 : Cell(n, k) \in Ttt!Cells
BY DEF Cell, Ttt!Lines, Ttt!Cells

CompleteBy(b, n, p) == \A k \in 1 .. 3 : b[Cell(n, k)] = p

LEMMA CompleteIs ==
  ASSUME NEW b, NEW n
  PROVE  n \in Ttt!Complete(b) <=> n \in 1 .. 8 /\ \E p \in Ttt!Players : CompleteBy(b, n, p)
BY DEF Ttt!Complete, CompleteBy, Cell

OneWinner(b) == \A m, n \in Ttt!Complete(b) : b[Cell(m, 1)] = b[Cell(n, 1)]

LEMMA WinnerIs ==
  ASSUME NEW b
  PROVE  IF Ttt!Complete(b) = {} THEN Ttt!Winner(b) = "empty" /\ Ttt!WinnerLine(b) = -1
                                 ELSE Ttt!Winner(b) \in Ttt!Players
<1>1. CASE Ttt!Complete(b) = {}
  BY <1>1 DEF Ttt!Winner, Ttt!WinnerLine
<1>2. CASE Ttt!Complete(b) # {}
  <2>1. PICK n : n = Ttt!Min(Ttt!Complete(b))
    OBVIOUS
  <2>2. Ttt!Complete(b) \subseteq Nat
    BY DEF Ttt!Complete
  <2>3. \E x \in Ttt!Complete(b) : \A y \in Ttt!Complete(b) : x <= y
    BY <1>2, <2>2, LeastExists
  <2>4. n \in Ttt!Complete(b)
    BY <2>1, <2>3 DEF Ttt!Min
  <2>5. Ttt!Winner(b) = b[Cell(n, 1)]
    BY <1>2, <2>1 DEF Ttt!Winner, Cell
  <2> QED
    BY <1>2, <2>4, <2>5, CompleteIs DEF CompleteBy
<1> QED
  BY <1>1, <1>2

LEMMA MarkCompletes ==
  ASSUME NEW b \in Ttt!Boards, Ttt!Complete(b) = {}, NEW i \in Ttt!Cells, NEW p \in Ttt!Players
  PROVE  OneWinner([b EXCEPT ![i] = p])
<1>1. PICK c : c = [b EXCEPT ![i] = p]
  OBVIOUS
<1>2. ASSUME NEW n \in Ttt!Complete(c) PROVE c[Cell(n, 1)] = p
  <2>1. n \in 1 .. 8
    BY CompleteIs
  <2>2. PICK q \in Ttt!Players : CompleteBy(c, n, q)
    BY CompleteIs
  <2>3. ~ CompleteBy(b, n, q)
    BY <2>1, CompleteIs
  <2>4. PICK k \in 1 .. 3 : b[Cell(n, k)] # q
    BY <2>3 DEF CompleteBy
  <2>5. c[Cell(n, k)] = q /\ c[Cell(n, 1)] = q
    BY <2>2 DEF CompleteBy
  <2>6. Cell(n, k) = i
    BY <1>1, <2>1, <2>4, <2>5, LinesInside DEF Ttt!Boards
  <2>7. c[i] = p
    BY <1>1 DEF Ttt!Boards
  <2> QED
    BY <2>5, <2>6, <2>7
<1> QED
  BY <1>1, <1>2 DEF OneWinner

Fields == {"board", "cursor", "mode", "state", "current_player", "winner", "moves",
           "menu_index", "result_index", "win_line"}

IsGame(g) == /\ g = [f \in Fields |-> g[f]]
             /\ g.board \in Ttt!Boards /\ g.current_player \in Ttt!Players

\* StateMatchesBoard, of a game g.
Matches(g) ==
  /\ g.moves = Ttt!Count(g.board, "X") + Ttt!Count(g.board, "O")
  /\ \/ Ttt!Count(g.board, "X") = Ttt!Count(g.board, "O")
     \/ Ttt!Count(g.board, "X") = Ttt!Count(g.board, "O") + 1
  /\ g.state = "playing" =>
       g.current_player = IF Ttt!Count(g.board, "X") = Ttt!Count(g.board, "O") THEN "X" ELSE "O"
  /\ g.winner = Ttt!Winner(g.board) /\ g.win_line = Ttt!WinnerLine(g.board)
  /\ g.state = "playing" => ~ Ttt!Over(g.board)
  /\ g.state = "result" => Ttt!Over(g.board)
  /\ OneWinner(g.board)

GameOk(g) == IsGame(g) /\ Matches(g)

\* Nothing that GameOk speaks of is changed.
SameRound(h, g) ==
  /\ h = [f \in Fields |-> h[f]]
  /\ h.board = g.board /\ h.current_player = g.current_player /\ h.moves = g.moves
  /\ h.winner = g.winner /\ h.win_line = g.win_line
  /\ h.state = g.state \/ h.state = "menu"

LEMMA SameRoundOk ==
  ASSUME NEW g, NEW h, GameOk(g), SameRound(h, g) PROVE GameOk(h)
BY DEF GameOk, IsGame, Matches, SameRound

LEMMA NoLine == Ttt!Complete(Ttt!Blank) = {}
BY CompleteIs, LinesInside DEF CompleteBy, Ttt!Blank, Ttt!Players

LEMMA FreshOk ==
  ASSUME NEW g, g = [f \in Fields |-> g[f]], g.board = Ttt!Blank, g.current_player = "X",
         g.moves = 0, g.winner = "empty", g.win_line = -1, g.state # "result"
  PROVE  GameOk(g)
<1>1. Ttt!Blank \in Ttt!Boards /\ "X" \in Ttt!Players /\ "O" \in Ttt!Players
  BY DEF Ttt!Blank, Ttt!Boards, Ttt!Marks, Ttt!Players
<1>2. Ttt!Count(Ttt!Blank, "X") = 0 /\ Ttt!Count(Ttt!Blank, "O") = 0
  BY <1>1, CountNone
<1>3. Ttt!Winner(Ttt!Blank) = "empty" /\ Ttt!WinnerLine(Ttt!Blank) = -1
  BY NoLine, WinnerIs
<1>4. Ttt!Free(Ttt!Blank) # {}
  BY <1>1, <1>2, CountFull
<1>5. ~ Ttt!Over(Ttt!Blank)
  BY <1>3, <1>4 DEF Ttt!Over
<1>6. OneWinner(Ttt!Blank)
  BY NoLine DEF OneWinner
<1> QED
  BY <1>1, <1>2, <1>3, <1>5, <1>6 DEF GameOk, IsGame, Matches

\* How ttt_apply_move ends: h is what it makes of k, with the mark set.
Ended(h, k) ==
  /\ h = [f \in Fields |-> h[f]]
  /\ h.board = k.board /\ h.moves = k.moves /\ h.current_player = k.current_player
  /\ Ttt!Winner(k.board) # "empty" =>
       /\ h.winner = Ttt!Winner(k.board) /\ h.win_line = Ttt!WinnerLine(k.board)
       /\ h.state = "result"
  /\ Ttt!Winner(k.board) = "empty" /\ k.moves >= 9 =>
       h.winner = "empty" /\ h.win_line = -1 /\ h.state = "result"
  /\ Ttt!Winner(k.board) = "empty" /\ ~ (k.moves >= 9) => h = k

LEMMA FinishedIs ==
  ASSUME NEW k, k = [f \in Fields |-> k[f]] PROVE Ended(Ttt!Finished(k), k)
<1>1. PICK h : h = Ttt!Finished(k)
  OBVIOUS
<1>2. CASE Ttt!Winner(k.board) # "empty"
  <2>1. h = [k EXCEPT !.winner = Ttt!Winner(k.board), !.win_line = Ttt!WinnerLine(k.board),
                      !.state = "result"]
    BY <1>1, <1>2, Zenon DEF Ttt!Finished
  <2>2. h = [f \in Fields |-> h[f]]
    BY <2>1
  <2>3. /\ h.board = k.board /\ h.moves = k.moves /\ h.current_player = k.current_player
        /\ h.winner = Ttt!Winner(k.board) /\ h.win_line = Ttt!WinnerLine(k.board)
        /\ h.state = "result"
    BY <2>1 DEF Fields
  <2> QED
    BY <1>1, <1>2, <2>2, <2>3 DEF Ended
<1>3. CASE Ttt!Winner(k.board) = "empty" /\ k.moves >= 9
  <2>1. h = [k EXCEPT !.winner = "empty", !.win_line = -1, !.state = "result"]
    BY <1>1, <1>3, Zenon DEF Ttt!Finished
  <2>2. h = [f \in Fields |-> h[f]]
    BY <2>1
  <2>3. /\ h.board = k.board /\ h.moves = k.moves /\ h.current_player = k.current_player
        /\ h.winner = "empty" /\ h.win_line = -1 /\ h.state = "result"
    BY <2>1 DEF Fields
  <2> QED
    BY <1>1, <1>3, <2>2, <2>3 DEF Ended
<1>4. CASE Ttt!Winner(k.board) = "empty" /\ ~ (k.moves >= 9)
  <2>1. h = k
    BY <1>1, <1>4, Zenon DEF Ttt!Finished
  <2> QED
    BY <1>1, <1>4, <2>1 DEF Ended
<1> QED
  BY <1>2, <1>3, <1>4

LEMMA MoveOk ==
  ASSUME NEW g, GameOk(g), NEW i PROVE GameOk(Ttt!ApplyMove(g, i))
<1> SUFFICES ASSUME i \in Ttt!Free(g.board), g.state = "playing" PROVE GameOk(Ttt!ApplyMove(g, i))
  BY DEF Ttt!ApplyMove
<1>1. PICK p : p = g.current_player
  OBVIOUS
<1>2. PICK b : b = g.board
  OBVIOUS
<1>3. /\ p \in Ttt!Players /\ b \in Ttt!Boards /\ g = [f \in Fields |-> g[f]]
      /\ i \in Ttt!Free(b) /\ i \in Ttt!Cells
  BY <1>1, <1>2 DEF GameOk, IsGame, Ttt!Free
<1>4. PICK c : c = [b EXCEPT ![i] = p]
  OBVIOUS
<1>5. c \in Ttt!Boards
  BY <1>3, <1>4 DEF Ttt!Boards, Ttt!Marks
<1>6. PICK k : k = [g EXCEPT !.board[i] = p, !.cursor = i, !.moves = @ + 1]
  OBVIOUS
<1>7. /\ k = [f \in Fields |-> k[f]]
      /\ k.board = c /\ k.moves = g.moves + 1 /\ k.current_player = p
      /\ k.winner = g.winner /\ k.win_line = g.win_line /\ k.state = "playing"
  <2>1. k = [f \in Fields |-> k[f]]
    BY <1>3, <1>6
  <2>2. /\ k.board = c /\ k.moves = g.moves + 1 /\ k.current_player = p
        /\ k.winner = g.winner /\ k.win_line = g.win_line /\ k.state = g.state
    BY <1>1, <1>2, <1>3, <1>4, <1>6 DEF Fields
  <2> QED
    BY <2>1, <2>2
<1>8. PICK h : h = Ttt!Marked(g, i)
  OBVIOUS
<1>9. Ended(h, k)
  BY <1>1, <1>6, <1>7, <1>8, FinishedIs DEF Ttt!Marked
<1>10. PICK m : m = Ttt!ApplyMove(g, i)
  OBVIOUS
<1>11. m = IF h.state = "playing"
             THEN [h EXCEPT !.current_player = IF @ = "X" THEN "O" ELSE "X"] ELSE h
  BY <1>8, <1>10 DEF Ttt!ApplyMove
<1>12. PICK x, o, x2, o2 : /\ x = Ttt!Count(b, "X") /\ o = Ttt!Count(b, "O")
                           /\ x2 = Ttt!Count(c, "X") /\ o2 = Ttt!Count(c, "O")
  OBVIOUS
<1>13. "X" \in Ttt!Players /\ "O" \in Ttt!Players /\ (p = "X" \/ p = "O")
  BY <1>3 DEF Ttt!Players
<1>14. /\ x \in Nat /\ o \in Nat
       /\ x2 = x + (IF p = "X" THEN 1 ELSE 0) /\ o2 = o + (IF p = "O" THEN 1 ELSE 0)
  BY <1>3, <1>4, <1>12, <1>13, CountMarked, CountFull
<1>15. x2 + o2 >= 9 <=> Ttt!Free(c) = {}
  BY <1>5, <1>12, CountFull
<1>16. /\ g.moves = x + o /\ (x = o \/ x = o + 1) /\ p = (IF x = o THEN "X" ELSE "O")
       /\ g.winner = Ttt!Winner(b) /\ g.win_line = Ttt!WinnerLine(b) /\ ~ Ttt!Over(b)
  BY <1>1, <1>2, <1>12 DEF GameOk, Matches
<1>17. Ttt!Complete(b) = {} /\ g.winner = "empty" /\ g.win_line = -1
  BY <1>16, WinnerIs DEF Ttt!Over, Ttt!Players
<1>18. OneWinner(c)
  BY <1>3, <1>4, <1>17, MarkCompletes
<1>19. Ttt!Winner(c) = "empty" => Ttt!WinnerLine(c) = -1
  BY WinnerIs DEF Ttt!Players
<1>20. k.moves = x2 + o2 /\ (x2 = o2 \/ x2 = o2 + 1)
  BY <1>7, <1>13, <1>14, <1>16
<1>21. CASE Ttt!Winner(c) # "empty" \/ k.moves >= 9
  <2>1. h.state = "result" /\ h.winner = Ttt!Winner(c) /\ h.win_line = Ttt!WinnerLine(c)
    BY <1>7, <1>9, <1>19, <1>21 DEF Ended
  <2>2. m = h /\ h.board = c /\ h.moves = x2 + o2 /\ h.current_player = p
    BY <1>7, <1>9, <1>11, <1>20, <2>1 DEF Ended
  <2>3. Ttt!Over(c)
    BY <1>15, <1>20, <1>21 DEF Ttt!Over
  <2>4. h = [f \in Fields |-> h[f]]
    BY <1>9 DEF Ended
  <2>5. IsGame(h)
    BY <1>3, <1>5, <2>2, <2>4 DEF IsGame
  <2>6. Matches(h)
    BY <1>12, <1>18, <1>20, <2>1, <2>2, <2>3 DEF Matches
  <2> QED
    BY <1>10, <2>2, <2>5, <2>6 DEF GameOk
<1>22. CASE ~ (Ttt!Winner(c) # "empty" \/ k.moves >= 9)
  <2>1. h = k
    BY <1>7, <1>9, <1>22 DEF Ended
  <2>2. PICK n : n = IF p = "X" THEN "O" ELSE "X"
    OBVIOUS
  <2>3. m = [k EXCEPT !.current_player = n]
    BY <1>7, <1>11, <2>1, <2>2
  <2>4. m = [f \in Fields |-> m[f]]
    BY <1>7, <2>3
  <2>5. /\ m.board = c /\ m.moves = x2 + o2 /\ m.current_player = n
        /\ m.winner = "empty" /\ m.win_line = -1 /\ m.state = "playing"
    BY <1>7, <1>17, <1>20, <2>3 DEF Fields
  <2>6. ~ Ttt!Over(c)
    BY <1>15, <1>20, <1>22 DEF Ttt!Over
  <2>7. n = IF x2 = o2 THEN "X" ELSE "O"
    BY <1>13, <1>14, <1>16, <2>2
  <2>8. IsGame(m)
    BY <1>5, <1>13, <2>2, <2>4, <2>5 DEF IsGame
  <2>9. Matches(m)
    BY <1>12, <1>18, <1>19, <1>20, <1>22, <2>5, <2>6, <2>7 DEF Matches
  <2> QED
    BY <1>10, <2>8, <2>9 DEF GameOk
<1> QED
  BY <1>21, <1>22

LEMMA ResetOk ==
  ASSUME NEW g, g = [f \in Fields |-> g[f]] PROVE GameOk(Ttt!Reset(g))
<1>1. PICK h : h = Ttt!Reset(g)
  OBVIOUS
<1>2. h = [f \in Fields |-> h[f]]
  BY <1>1 DEF Ttt!Reset
<1>3. /\ h.board = Ttt!Blank /\ h.current_player = "X" /\ h.winner = "empty" /\ h.moves = 0
      /\ h.win_line = -1 /\ h.state = "playing"
  BY <1>1 DEF Ttt!Reset, Fields
<1> QED
  BY <1>1, <1>2, <1>3, FreshOk

LEMMA FirstOk == GameOk(Ttt!FirstGame)
<1>1. PICK h : h = Ttt!FirstGame
  OBVIOUS
<1>2. h = [f \in Fields |-> h[f]]
  BY <1>1 DEF Ttt!FirstGame, Fields
<1>3. /\ h.board = Ttt!Blank /\ h.current_player = "X" /\ h.winner = "empty" /\ h.moves = 0
      /\ h.win_line = -1 /\ h.state = "menu"
  BY <1>1 DEF Ttt!FirstGame
<1> QED
  BY <1>1, <1>2, <1>3, FreshOk

\* What the task makes of the game in a step.
LEMMA TttStep ==
  ASSUME GameOk(game), [Ttt!Next]_tttVars
  PROVE  \/ SameRound(game', game) /\ game'.mode = game.mode
         \/ \E g : g = [f \in Fields |-> g[f]] /\ game' = Ttt!Reset(g)
         \/ game' = Ttt!FirstGame
         \/ /\ game.state = "playing" /\ ~ Ttt!IsCpuTurn(game)
            /\ game' = Ttt!ApplyMove(game, game.cursor)
         \/ Ttt!CpuTurn
<1> DEFINE Goal == \/ SameRound(game', game) /\ game'.mode = game.mode
                   \/ \E g : g = [f \in Fields |-> g[f]] /\ game' = Ttt!Reset(g)
                   \/ game' = Ttt!FirstGame
                   \/ /\ game.state = "playing" /\ ~ Ttt!IsCpuTurn(game)
                      /\ game' = Ttt!ApplyMove(game, game.cursor)
                   \/ Ttt!CpuTurn
<1> SUFFICES Goal
  OBVIOUS
<1>1. game = [f \in Fields |-> game[f]]
  BY DEF GameOk, IsGame
<1>2. ASSUME \/ \E v : game' = [game EXCEPT !.cursor = v]
             \/ \E v : game' = [game EXCEPT !.menu_index = v]
             \/ \E v : game' = [game EXCEPT !.result_index = v]
             \/ \E v : game' = [game EXCEPT !.state = "menu", !.menu_index = v]
             \/ game' = game
      PROVE  Goal
  <2>1. PICK h : h = game'
    OBVIOUS
  <2>2. h = [f \in Fields |-> h[f]]
    BY <1>1, <1>2, <2>1
  <2>3. /\ h.board = game.board /\ h.current_player = game.current_player
        /\ h.moves = game.moves /\ h.winner = game.winner /\ h.win_line = game.win_line
        /\ h.mode = game.mode /\ (h.state = game.state \/ h.state = "menu")
    BY <1>1, <1>2, <2>1 DEF Fields
  <2> QED
    BY <2>1, <2>2, <2>3 DEF SameRound
<1> HIDE DEF Goal
<1>3. CASE Ttt!CpuTurn
  BY <1>3 DEF Goal
<1>4. ASSUME NEW e \in Ttt!Events, Ttt!MenuEvent(e) PROVE Goal
  <2>1. CASE e \in {"up", "down"}
    <3>1. game' = [game EXCEPT !.menu_index = Ttt!Turned(@, e)]
      BY <1>4, <2>1, Zenon DEF Ttt!MenuEvent
    <3> QED
      BY <1>2, <3>1
  <2>2. CASE e = "center_release"
    <3>1. game' = Ttt!Reset([game EXCEPT !.mode = <<"easy", "hard", "pvp">>[game.menu_index + 1]])
      BY <1>4, <2>2, Zenon DEF Ttt!MenuEvent
    <3>2. PICK v : v = <<"easy", "hard", "pvp">>[game.menu_index + 1]
      OBVIOUS
    <3>3. PICK g : g = [game EXCEPT !.mode = v]
      OBVIOUS
    <3>4. g = [f \in Fields |-> g[f]]
      BY <1>1, <3>3
    <3> QED
      BY <3>1, <3>2, <3>3, <3>4 DEF Goal
  <2>3. CASE ~ (e \in {"up", "down"}) /\ e # "center_release"
    <3>1. game' = game
      BY <1>4, <2>3, Zenon DEF Ttt!MenuEvent
    <3> QED
      BY <1>2, <3>1
  <2> QED
    BY <2>1, <2>2, <2>3
<1>5. ASSUME NEW e \in Ttt!Events, Ttt!PlayEvent(e) PROVE Goal
  <2>1. CASE e \in {"up", "down", "left", "right"}
    <3>1. game' = Ttt!MoveCursor(game, e)
      BY <1>5, <2>1, Zenon DEF Ttt!PlayEvent
    <3>2. \E v : Ttt!MoveCursor(game, e) = [game EXCEPT !.cursor = v]
      BY Zenon DEF Ttt!MoveCursor
    <3> QED
      BY <1>2, <3>1, <3>2
  <2>2. CASE e = "center_release"
    <3>1. game' = Ttt!ApplyMove(game, game.cursor)
      BY <1>5, <2>2, Zenon DEF Ttt!PlayEvent
    <3>2. game.state = "playing" /\ ~ Ttt!IsCpuTurn(game)
      BY <1>5 DEF Ttt!PlayEvent
    <3> QED
      BY <3>1, <3>2 DEF Goal
  <2>3. CASE ~ (e \in {"up", "down", "left", "right"}) /\ e # "center_release"
    <3>1. game' = game
      BY <1>5, <2>3, Zenon DEF Ttt!PlayEvent
    <3> QED
      BY <1>2, <3>1
  <2> QED
    BY <2>1, <2>2, <2>3
<1>6. ASSUME NEW e \in Ttt!Events, Ttt!ResultEvent(e) PROVE Goal
  <2>1. CASE e \in {"up", "down"}
    <3>1. game' = [game EXCEPT !.result_index = Ttt!Turned(@, e)]
      BY <1>6, <2>1, Zenon DEF Ttt!ResultEvent
    <3> QED
      BY <1>2, <3>1
  <2>2. CASE e = "center_release" /\ game.result_index = 0
    <3>1. ~ (e \in {"up", "down"}) /\ ~ (e = "center_release" /\ game.result_index = 1)
      BY <2>2
    <3>2. game' = Ttt!Reset(game)
      BY <1>6, <2>2, <3>1, Zenon DEF Ttt!ResultEvent
    <3> QED
      BY <1>1, <3>2 DEF Goal
  <2>3. CASE e = "center_release" /\ game.result_index = 1
    <3>1. 1 # 0
      OBVIOUS
    <3>2. game' = [game EXCEPT !.state = "menu", !.menu_index = 0]
      BY <1>6, <2>3, <3>1, Zenon DEF Ttt!ResultEvent
    <3> QED
      BY <1>2, <3>2
  <2>4. CASE /\ ~ (e \in {"up", "down"})
             /\ ~ (e = "center_release" /\ game.result_index = 0)
             /\ ~ (e = "center_release" /\ game.result_index = 1)
    <3>1. game' = game
      BY <1>6, <2>4, Zenon DEF Ttt!ResultEvent
    <3> QED
      BY <1>2, <3>1
  <2> QED
    BY <2>1, <2>2, <2>3, <2>4
<1>7. CASE Ttt!Restart
  <2>1. game' = Ttt!FirstGame
    BY <1>7 DEF Ttt!Restart
  <2> QED
    BY <2>1 DEF Goal
<1>8. CASE UNCHANGED tttVars
  BY <1>2, <1>8 DEF tttVars
<1> QED
  BY <1>3, <1>4, <1>5, <1>6, <1>7, <1>8 DEF Ttt!Next

LEMMA TttKept == GameOk(game) /\ [Ttt!Next]_tttVars => GameOk(game)'
<1> SUFFICES ASSUME GameOk(game), [Ttt!Next]_tttVars PROVE GameOk(game')
  OBVIOUS
<1>1. CASE SameRound(game', game)
  BY <1>1, SameRoundOk
<1>2. CASE \E g : g = [f \in Fields |-> g[f]] /\ game' = Ttt!Reset(g)
  BY <1>2, ResetOk
<1>3. CASE game' = Ttt!FirstGame
  BY <1>3, FirstOk
<1>4. CASE game' = Ttt!ApplyMove(game, game.cursor)
  BY <1>4, MoveOk
<1>5. CASE Ttt!CpuTurn
  BY <1>5, MoveOk DEF Ttt!CpuTurn
<1> QED
  BY <1>1, <1>2, <1>3, <1>4, <1>5, TttStep

\* StateMatchesBoard, for every sequence of events and whatever the CPU players
\* choose.
THEOREM BoardIsKept == Spec => []StateMatchesBoard
<1> DEFINE Inv == front = "tictactoe" => GameOk(game)
<1>1. Init => Inv
  <2>1. ASSUME Ttt!Init PROVE GameOk(game)
    BY <2>1, FirstOk DEF Ttt!Init
  <2> QED
    BY <2>1 DEF Init
<1>2. Inv /\ [Next]_vars => Inv'
  BY Turns, TttKept
<1>3. Inv => StateMatchesBoard
  <2>1. ASSUME GameOk(game) PROVE Ttt!StateMatchesBoard
    <3>1. Matches(game)
      BY <2>1 DEF GameOk
    <3>2. ~ \E m, n \in Ttt!Complete(game.board) :
              game.board[Ttt!Lines[m][1]] # game.board[Ttt!Lines[n][1]]
      BY <3>1 DEF Matches, OneWinner, Cell
    <3> QED
      BY <3>1, <3>2 DEF Matches, Ttt!StateMatchesBoard
  <2> QED
    BY <2>1 DEF StateMatchesBoard
<1> QED
  BY <1>1, <1>2, <1>3, PTL DEF Spec

-----------------------------------------------------------------------------
(* The scores of the hard CPU.  ttt_minimax is defined by recursion; that  *)
(* a function meets its equation is shown on approximations of it, each    *)
(* right for the boards with at most k free cells.                         *)

\* The calls of ttt_minimax, and the board with a mark more.
Calls == Ttt!Boards \X Nat \X BOOLEAN

Put(b, i, p) == [b EXCEPT ![i] = p]

Turn(maximizing) == IF maximizing THEN "O" ELSE "X"

\* The call of ttt_minimax after the mark at i.
After(call, i) == <<Put(call[1], i, Turn(call[3])), call[2] + 1, ~ call[3]>>

Scores(f, call) == {f[After(call, i)] : i \in Ttt!Free(call[1])}

\* What ttt_minimax returns if f is what it returns for the boards after.
Score(f, call) ==
  CASE Ttt!Winner(call[1]) = "O" -> 10 - call[2]
    [] Ttt!Winner(call[1]) = "X" -> call[2] - 10
    [] Ttt!Winner(call[1]) = "empty" /\ Ttt!Free(call[1]) = {} -> 0
    [] OTHER -> IF call[3] THEN Ttt!Max(Scores(f, call)) ELSE Ttt!Min(Scores(f, call))

IsMinimax(f) == f = [call \in Calls |-> Score(f, call)]

LEMMA MinimaxChosen == Ttt!Minimax = CHOOSE f : IsMinimax(f)
BY Zenon DEF Ttt!Minimax, IsMinimax, Score, Scores, After, Put, Turn, Calls

Rank(b) == Cardinality(Ttt!Free(b))

LEMMA FreeFinite ==
  ASSUME NEW b
  PROVE  IsFiniteSet(Ttt!Free(b)) /\ Rank(b) \in Nat /\ Rank(b) <= 9
<1>1. Ttt!Free(b) \subseteq Ttt!Cells
  BY DEF Ttt!Free
<1> QED
  BY <1>1, NineCells, FS_Subset, FS_CardinalityType DEF Rank

LEMMA PutFrees ==
  ASSUME NEW b \in Ttt!Boards, NEW i \in Ttt!Free(b), NEW p \in Ttt!Players
  PROVE  /\ Put(b, i, p) \in Ttt!Boards
         /\ Ttt!Free(Put(b, i, p)) = Ttt!Free(b) \ {i}
         /\ Rank(Put(b, i, p)) = Rank(b) - 1
<1>1. i \in Ttt!Cells /\ b \in [Ttt!Cells -> Ttt!Marks] /\ p # "empty" /\ p \in Ttt!Marks
  BY DEF Ttt!Free, Ttt!Boards, Ttt!Players, Ttt!Marks
<1>2. Put(b, i, p) \in Ttt!Boards
  BY <1>1 DEF Put, Ttt!Boards
<1>3. Ttt!Free(Put(b, i, p)) = Ttt!Free(b) \ {i}
  BY <1>1 DEF Ttt!Free, Put
<1>4. Cardinality(Ttt!Free(b) \ {i}) = Cardinality(Ttt!Free(b)) - 1
  BY FreeFinite, FS_RemoveElement
<1> QED
  BY <1>2, <1>3, <1>4 DEF Rank

LEMMA AfterIsCall ==
  ASSUME NEW call \in Calls, NEW i \in Ttt!Free(call[1])
  PROVE  /\ After(call, i) \in Calls
         /\ Rank(After(call, i)[1]) = Rank(call[1]) - 1
         /\ After(call, i)[2] = call[2] + 1
         /\ After(call, i)[3] = ~ call[3]
<1>1. call[1] \in Ttt!Boards /\ call[2] \in Nat /\ call[3] \in BOOLEAN
  BY DEF Calls
<1>2. Turn(call[3]) \in Ttt!Players
  BY DEF Turn, Ttt!Players
<1>3. PICK c, d, m : c = Put(call[1], i, Turn(call[3])) /\ d = call[2] + 1 /\ m = ~ call[3]
  OBVIOUS
<1>4. c \in Ttt!Boards /\ Rank(c) = Rank(call[1]) - 1 /\ d \in Nat /\ m \in BOOLEAN
  BY <1>1, <1>2, <1>3, PutFrees
<1>5. After(call, i) = <<c, d, m>>
  BY <1>3 DEF After
<1>6. <<c, d, m>> \in Calls
  BY <1>4 DEF Calls
<1>7. After(call, i)[1] = c /\ After(call, i)[2] = d /\ After(call, i)[3] = m
  BY <1>5
<1> QED
  BY <1>3, <1>4, <1>5, <1>6, <1>7

LEMMA ScoreDepends ==
  ASSUME NEW call, NEW f, NEW g,
         \A i \in Ttt!Free(call[1]) : f[After(call, i)] = g[After(call, i)]
  PROVE  Score(f, call) = Score(g, call)
<1>1. Scores(f, call) = Scores(g, call)
  BY DEF Scores
<1> QED
  BY <1>1, Zenon DEF Score

\* f is right for the boards with at most k free cells.
MinimaxUpTo(k, f) == \A call \in Calls : Rank(call[1]) <= k => f[call] = Score(f, call)

\* The next approximation, from the one before.
LEMMA MinimaxUpToNext ==
  ASSUME NEW k \in Nat, NEW g, k # 0 => MinimaxUpTo(k - 1, g)
  PROVE  \E f : MinimaxUpTo(k, f)
<1>1. PICK f : f = [call \in Calls |-> Score(g, call)]
  OBVIOUS
<1>2. ASSUME NEW call \in Calls, Rank(call[1]) <= k
      PROVE  f[call] = Score(f, call)
  <2>1. ASSUME NEW i \in Ttt!Free(call[1])
        PROVE  f[After(call, i)] = g[After(call, i)]
    <3>1. After(call, i) \in Calls /\ Rank(After(call, i)[1]) = Rank(call[1]) - 1
      BY AfterIsCall
    <3>2. Rank(call[1]) \in Nat /\ Rank(After(call, i)[1]) \in Nat
      BY FreeFinite
    <3>3. k # 0 /\ Rank(After(call, i)[1]) <= k - 1
      BY <1>2, <3>1, <3>2
    <3>4. g[After(call, i)] = Score(g, After(call, i))
      BY <3>1, <3>3 DEF MinimaxUpTo
    <3> QED
      BY <1>1, <3>1, <3>4
  <2>2. Score(f, call) = Score(g, call)
    BY <2>1, ScoreDepends
  <2> QED
    BY <1>1, <2>2
<1> QED
  BY <1>2 DEF MinimaxUpTo

LEMMA MinimaxUpToAll == ASSUME NEW k \in Nat PROVE \E f : MinimaxUpTo(k, f)
<1> DEFINE Fails == {n \in Nat : ~ \E f : MinimaxUpTo(n, f)}
<1> SUFFICES ASSUME Fails # {} PROVE FALSE
  OBVIOUS
<1>1. PICK n \in Fails : \A j \in Fails : n <= j
  BY LeastExists
<1>2. n \in Nat /\ ~ \E f : MinimaxUpTo(n, f)
  OBVIOUS
<1>3. CASE n = 0
  BY <1>2, <1>3, MinimaxUpToNext
<1>4. CASE n # 0
  <2>1. n - 1 \in Nat /\ ~ (n <= n - 1)
    BY <1>2, <1>4
  <2>2. PICK g : MinimaxUpTo(n - 1, g)
    BY <1>1, <2>1
  <2> QED
    BY <1>2, <2>2, MinimaxUpToNext
<1> QED
  BY <1>3, <1>4

\* ttt_minimax meets the equation that defines it, for every board and depth.
LEMMA MinimaxIs ==
  ASSUME NEW call \in Calls
  PROVE  Ttt!Minimax[call] = Score(Ttt!Minimax, call)
<1>1. PICK g : MinimaxUpTo(9, g)
  BY MinimaxUpToAll
<1>2. PICK f : f = [c \in Calls |-> g[c]]
  OBVIOUS
<1>3. ASSUME NEW c \in Calls PROVE f[c] = Score(f, c)
  <2>1. g[c] = Score(g, c)
    BY <1>1, FreeFinite DEF MinimaxUpTo
  <2>2. \A i \in Ttt!Free(c[1]) : f[After(c, i)] = g[After(c, i)]
    BY <1>2, AfterIsCall
  <2> QED
    BY <1>2, <2>1, <2>2, ScoreDepends
<1>4. IsMinimax(f)
  BY <1>2, <1>3 DEF IsMinimax
<1>5. IsMinimax(Ttt!Minimax)
  BY <1>4, MinimaxChosen
<1> QED
  BY <1>5 DEF IsMinimax

\* No score is beyond a win or a loss at once.
Range10 == -10 .. 10

LEMMA LeastIn ==
  ASSUME NEW S, S # {}, S \subseteq Range10
  PROVE  \E x \in S : \A y \in S : x <= y
<1>1. \A s \in S : s \in Int /\ -10 <= s /\ s <= 10
  BY DEF Range10
<1>2. PICK N : N = {s + 10 : s \in S}
  OBVIOUS
<1>3. N \subseteq Nat /\ N # {}
  BY <1>1, <1>2
<1>4. PICK n \in N : \A k \in N : n <= k
  BY <1>3, LeastExists
<1>5. PICK x \in S : n = x + 10
  BY <1>2
<1>6. ASSUME NEW y \in S PROVE x <= y
  <2>1. n <= y + 10
    BY <1>2, <1>4
  <2> QED
    BY <1>1, <1>5, <2>1
<1> QED
  BY <1>6

LEMMA GreatestIn ==
  ASSUME NEW S, S # {}, S \subseteq Range10
  PROVE  \E x \in S : \A y \in S : x >= y
<1>1. \A s \in S : s \in Int /\ -10 <= s /\ s <= 10
  BY DEF Range10
<1>2. PICK N : N = {10 - s : s \in S}
  OBVIOUS
<1>3. N \subseteq Nat /\ N # {}
  BY <1>1, <1>2
<1>4. PICK n \in N : \A k \in N : n <= k
  BY <1>3, LeastExists
<1>5. PICK x \in S : n = 10 - x
  BY <1>2
<1>6. ASSUME NEW y \in S PROVE x >= y
  <2>1. n <= 10 - y
    BY <1>2, <1>4
  <2> QED
    BY <1>1, <1>5, <2>1
<1> QED
  BY <1>6

Value(call) == Ttt!Minimax[call]

\* A call as deep as there can be marks on its board.
Fits(call) == call \in Calls /\ call[2] + Rank(call[1]) <= 9

Bounded(call) == Value(call) \in Int /\ call[2] - 10 <= Value(call) /\ Value(call) <= 10 - call[2]

\* The value of a board on which the round is not over is the best of those after.
BestOf(call) ==
  /\ \E i \in Ttt!Free(call[1]) : Value(call) = Value(After(call, i))
  /\ \A i \in Ttt!Free(call[1]) : IF call[3] THEN Value(call) >= Value(After(call, i))
                                             ELSE Value(call) <= Value(After(call, i))

LEMMA AfterFits ==
  ASSUME NEW call, Fits(call), NEW i \in Ttt!Free(call[1])
  PROVE  /\ Fits(After(call, i))
         /\ After(call, i)[1] = Put(call[1], i, Turn(call[3]))
         /\ After(call, i)[2] = call[2] + 1
         /\ After(call, i)[3] = ~ call[3]
         /\ Rank(After(call, i)[1]) = Rank(call[1]) - 1
         /\ call[2] \in 0 .. 8
<1>1. call \in Calls /\ call[2] \in Nat /\ call[2] + Rank(call[1]) <= 9
  BY DEF Fits, Calls
<1>2. /\ After(call, i) \in Calls
      /\ Rank(After(call, i)[1]) = Rank(call[1]) - 1
      /\ After(call, i)[2] = call[2] + 1
      /\ After(call, i)[3] = ~ call[3]
  BY <1>1, AfterIsCall
<1>3. Rank(call[1]) \in Nat /\ Rank(After(call, i)[1]) \in Nat
  BY FreeFinite
<1>4. After(call, i)[1] = Put(call[1], i, Turn(call[3]))
  BY DEF After
<1>5. After(call, i)[2] + Rank(After(call, i)[1]) <= 9 /\ call[2] \in 0 .. 8
  BY <1>1, <1>2, <1>3
<1>6. Fits(After(call, i))
  BY <1>2, <1>5 DEF Fits
<1> QED
  BY <1>2, <1>4, <1>5, <1>6

LEMMA ValueIs ==
  ASSUME NEW call, Fits(call), \A i \in Ttt!Free(call[1]) : Bounded(After(call, i))
  PROVE  /\ Ttt!Winner(call[1]) = "O" => Value(call) = 10 - call[2]
         /\ Ttt!Winner(call[1]) = "X" => Value(call) = call[2] - 10
         /\ Ttt!Winner(call[1]) = "empty" /\ Ttt!Free(call[1]) = {} => Value(call) = 0
         /\ Ttt!Winner(call[1]) = "empty" /\ Ttt!Free(call[1]) # {} => BestOf(call)
<1>1. PICK v, w, F : v = Value(call) /\ w = Ttt!Winner(call[1]) /\ F = Ttt!Free(call[1])
  OBVIOUS
<1>2. v = Score(Ttt!Minimax, call)
  BY <1>1, MinimaxIs DEF Fits, Value
<1>3. w = "O" => v = 10 - call[2]
  BY <1>1, <1>2, Zenon DEF Score
<1>4. "X" # "O" /\ "X" # "empty" /\ "O" # "empty"
  OBVIOUS
<1>5. w = "X" => v = call[2] - 10
  BY <1>1, <1>2, <1>4, Zenon DEF Score
<1>6. w = "empty" /\ F = {} => v = 0
  BY <1>1, <1>2, <1>4, Zenon DEF Score
<1>7. ASSUME w = "empty", F # {} PROVE BestOf(call)
  <2>1. PICK S : S = Scores(Ttt!Minimax, call)
    OBVIOUS
  <2>2. S = {Value(After(call, i)) : i \in F}
    BY <1>1, <2>1 DEF Scores, Value
  <2>3. v = IF call[3] THEN Ttt!Max(S) ELSE Ttt!Min(S)
    BY <1>1, <1>2, <1>4, <1>7, <2>1, Zenon DEF Score
  <2>4. ASSUME NEW i \in F PROVE Value(After(call, i)) \in Range10
    <3>1. Bounded(After(call, i)) /\ After(call, i)[2] = call[2] + 1 /\ call[2] \in 0 .. 8
      BY <1>1, AfterFits
    <3> QED
      BY <3>1 DEF Bounded, Range10
  <2>5. S # {} /\ S \subseteq Range10
    BY <1>7, <2>2, <2>4
  <2>6. Ttt!Max(S) \in S /\ \A y \in S : Ttt!Max(S) >= y
    BY <2>5, GreatestIn DEF Ttt!Max
  <2>7. Ttt!Min(S) \in S /\ \A y \in S : Ttt!Min(S) <= y
    BY <2>5, LeastIn DEF Ttt!Min
  <2>8. v \in S
    BY <2>3, <2>6, <2>7
  <2>9. \A y \in S : IF call[3] THEN v >= y ELSE v <= y
    BY <2>3, <2>6, <2>7
  <2> QED
    BY <1>1, <2>2, <2>8, <2>9 DEF BestOf
<1> QED
  BY <1>1, <1>3, <1>5, <1>6, <1>7

LEMMA WinnerAmong == ASSUME NEW b PROVE Ttt!Winner(b) \in {"X", "O", "empty"}
BY WinnerIs DEF Ttt!Players

LEMMA ValueBounded == ASSUME NEW call, Fits(call) PROVE Bounded(call)
<1> DEFINE Fails == {n \in Nat : \E c \in Calls : Fits(c) /\ Rank(c[1]) = n /\ ~ Bounded(c)}
<1> SUFFICES ASSUME Fails # {} PROVE FALSE
  BY FreeFinite DEF Fits
<1>1. PICK n \in Fails : \A j \in Fails : n <= j
  BY LeastExists
<1>2. PICK c \in Calls : Fits(c) /\ Rank(c[1]) = n /\ ~ Bounded(c)
  OBVIOUS
<1>3. n \in Nat
  OBVIOUS
<1>4. ASSUME NEW i \in Ttt!Free(c[1]) PROVE Bounded(After(c, i))
  <2>1. PICK a : a = After(c, i)
    OBVIOUS
  <2>2. Fits(a) /\ a \in Calls /\ Rank(a[1]) = n - 1 /\ Rank(a[1]) \in Nat
    BY <1>2, <2>1, AfterFits, FreeFinite DEF Fits
  <2>3. n - 1 \in Nat /\ ~ (n <= n - 1)
    BY <1>3, <2>2
  <2>4. n - 1 \notin Fails
    BY <1>1, <2>3
  <2> QED
    BY <2>1, <2>2, <2>3, <2>4
<1> HIDE DEF Fails
<1>5. c[2] \in Nat /\ c[2] <= 9
  <2>1. c[2] \in Nat /\ Rank(c[1]) \in Nat /\ c[2] + Rank(c[1]) <= 9
    BY <1>2, FreeFinite DEF Fits, Calls
  <2> QED
    BY <2>1
<1>6. CASE Ttt!Winner(c[1]) = "O"
  <2>1. Value(c) = 10 - c[2]
    BY <1>2, <1>4, <1>6, ValueIs
  <2> QED
    BY <1>2, <1>5, <2>1 DEF Bounded
<1>7. CASE Ttt!Winner(c[1]) = "X"
  <2>1. Value(c) = c[2] - 10
    BY <1>2, <1>4, <1>7, ValueIs
  <2> QED
    BY <1>2, <1>5, <2>1 DEF Bounded
<1>8. CASE Ttt!Winner(c[1]) = "empty" /\ Ttt!Free(c[1]) = {}
  <2>1. Value(c) = 0
    BY <1>2, <1>4, <1>8, ValueIs
  <2> QED
    BY <1>2, <1>5, <2>1 DEF Bounded
<1>9. CASE Ttt!Winner(c[1]) = "empty" /\ Ttt!Free(c[1]) # {}
  <2>1. BestOf(c)
    BY <1>2, <1>4, <1>9, ValueIs
  <2>2. PICK i \in Ttt!Free(c[1]) : Value(c) = Value(After(c, i))
    BY <2>1 DEF BestOf
  <2>3. Bounded(After(c, i)) /\ After(c, i)[2] = c[2] + 1
    BY <1>2, <1>4, AfterFits
  <2> QED
    BY <1>2, <1>5, <2>2, <2>3 DEF Bounded
<1> QED
  BY <1>6, <1>7, <1>8, <1>9, WinnerAmong

ValueAt(b, d, m) == Value(<<b, d, m>>)

\* The depths at which a board can be met: every mark is one call deeper.
Deep(b, d) == d \in Nat /\ d + Rank(b) <= 9

\* The round is not over.
Open(b) == Ttt!Winner(b) = "empty" /\ Ttt!Free(b) # {}

ChildValue(b, d, m, i) == ValueAt(Put(b, i, Turn(m)), d + 1, ~ m)

LEMMA DeepFits ==
  ASSUME NEW b \in Ttt!Boards, NEW d, Deep(b, d), NEW m \in BOOLEAN
  PROVE  Fits(<<b, d, m>>)
BY DEF Fits, Deep, Calls

LEMMA DeepNext ==
  ASSUME NEW b \in Ttt!Boards, NEW d, Deep(b, d), NEW i \in Ttt!Free(b), NEW p \in Ttt!Players
  PROVE  Put(b, i, p) \in Ttt!Boards /\ Deep(Put(b, i, p), d + 1) /\ d \in 0 .. 8
<1>1. Put(b, i, p) \in Ttt!Boards /\ Rank(Put(b, i, p)) = Rank(b) - 1
  BY PutFrees
<1>2. Rank(b) \in Nat /\ Rank(Put(b, i, p)) \in Nat
  BY FreeFinite
<1> QED
  BY <1>1, <1>2 DEF Deep

LEMMA TurnIs == ASSUME NEW m \in BOOLEAN PROVE Turn(m) \in Ttt!Players
BY DEF Turn, Ttt!Players

\* What ttt_minimax returns, case by case.
LEMMA ValueAtIs ==
  ASSUME NEW b \in Ttt!Boards, NEW d, Deep(b, d), NEW m \in BOOLEAN
  PROVE  /\ ValueAt(b, d, m) \in Int /\ d - 10 <= ValueAt(b, d, m) /\ ValueAt(b, d, m) <= 10 - d /\ d <= 9
         /\ Ttt!Winner(b) = "O" => ValueAt(b, d, m) = 10 - d
         /\ Ttt!Winner(b) = "X" => ValueAt(b, d, m) = d - 10
         /\ Ttt!Winner(b) = "empty" /\ Ttt!Free(b) = {} => ValueAt(b, d, m) = 0
         /\ Open(b) => \E i \in Ttt!Free(b) : ValueAt(b, d, m) = ChildValue(b, d, m, i)
         /\ Open(b) /\ m => \A i \in Ttt!Free(b) : ValueAt(b, d, m) >= ChildValue(b, d, m, i)
         /\ Open(b) /\ ~ m => \A i \in Ttt!Free(b) : ValueAt(b, d, m) <= ChildValue(b, d, m, i)
<1>1. PICK call : call = <<b, d, m>>
  OBVIOUS
<1>2. call[1] = b /\ call[2] = d /\ call[3] = m /\ ValueAt(b, d, m) = Value(call)
  BY <1>1 DEF ValueAt
<1>3. Fits(call)
  BY <1>1, DeepFits
<1>4. \A i \in Ttt!Free(call[1]) : Bounded(After(call, i))
  BY <1>3, AfterFits, ValueBounded
<1>5. \A i : Value(After(call, i)) = ChildValue(b, d, m, i)
  BY <1>2 DEF After, ChildValue, ValueAt
<1>6. Bounded(call)
  BY <1>3, ValueBounded
<1>7. d <= 9
  BY FreeFinite DEF Deep
<1>8. /\ Ttt!Winner(call[1]) = "O" => Value(call) = 10 - call[2]
      /\ Ttt!Winner(call[1]) = "X" => Value(call) = call[2] - 10
      /\ Ttt!Winner(call[1]) = "empty" /\ Ttt!Free(call[1]) = {} => Value(call) = 0
      /\ Ttt!Winner(call[1]) = "empty" /\ Ttt!Free(call[1]) # {} => BestOf(call)
  BY <1>3, <1>4, ValueIs
<1>9. /\ ValueAt(b, d, m) \in Int /\ d - 10 <= ValueAt(b, d, m) /\ ValueAt(b, d, m) <= 10 - d
  BY <1>2, <1>6 DEF Bounded
<1>10. /\ Ttt!Winner(b) = "O" => ValueAt(b, d, m) = 10 - d
       /\ Ttt!Winner(b) = "X" => ValueAt(b, d, m) = d - 10
       /\ Ttt!Winner(b) = "empty" /\ Ttt!Free(b) = {} => ValueAt(b, d, m) = 0
  BY <1>2, <1>8
<1>11. ASSUME Open(b) PROVE BestOf(call)
  BY <1>2, <1>8, <1>11 DEF Open
<1>12. Open(b) => \E i \in Ttt!Free(b) : ValueAt(b, d, m) = ChildValue(b, d, m, i)
  BY <1>2, <1>5, <1>11 DEF BestOf
<1>13. Open(b) /\ m => \A i \in Ttt!Free(b) : ValueAt(b, d, m) >= ChildValue(b, d, m, i)
  BY <1>2, <1>5, <1>11 DEF BestOf
<1>14. Open(b) /\ ~ m => \A i \in Ttt!Free(b) : ValueAt(b, d, m) <= ChildValue(b, d, m, i)
  BY <1>2, <1>5, <1>11 DEF BestOf
<1> QED
  BY <1>7, <1>9, <1>10, <1>12, <1>13, <1>14

\* O, who plays as ttt_minimax expects, does not lose; or it loses.
Held(b, m) == \A d : Deep(b, d) => ValueAt(b, d, m) >= 0
Lost(b, m) == \A d : Deep(b, d) => ValueAt(b, d, m) < 0

LEMMA HeldOrLost ==
  ASSUME NEW b \in Ttt!Boards, NEW m \in BOOLEAN,
         \A i \in Ttt!Free(b) : Held(Put(b, i, Turn(m)), ~ m) \/ Lost(Put(b, i, Turn(m)), ~ m)
  PROVE  Held(b, m) \/ Lost(b, m)
<1> DEFINE c(i) == Put(b, i, Turn(m))
<1>1. ASSUME NEW d, Deep(b, d), NEW i \in Ttt!Free(b)
      PROVE  ChildValue(b, d, m, i) = ValueAt(c(i), d + 1, ~ m) /\ Deep(c(i), d + 1)
             /\ ChildValue(b, d, m, i) \in Int
  <2>1. Deep(c(i), d + 1) /\ c(i) \in Ttt!Boards
    BY <1>1, DeepNext, TurnIs
  <2>2. (~ m) \in BOOLEAN
    OBVIOUS
  <2>3. ValueAt(c(i), d + 1, ~ m) \in Int
    BY <2>1, <2>2, ValueAtIs
  <2> QED
    BY <2>1, <2>3 DEF ChildValue
<1>2. ASSUME NEW d, Deep(b, d) PROVE ValueAt(b, d, m) \in Int /\ d \in Nat /\ d <= 9
  BY <1>2, ValueAtIs DEF Deep
<1>3. CASE Ttt!Winner(b) = "O"
  <2>1. ASSUME NEW d, Deep(b, d) PROVE ValueAt(b, d, m) >= 0
    BY <1>2, <1>3, <2>1, ValueAtIs
  <2> QED
    BY <2>1 DEF Held
<1>4. CASE Ttt!Winner(b) = "X"
  <2>1. ASSUME NEW d, Deep(b, d) PROVE ValueAt(b, d, m) < 0
    BY <1>2, <1>4, <2>1, ValueAtIs
  <2> QED
    BY <2>1 DEF Lost
<1>5. CASE Ttt!Winner(b) = "empty" /\ Ttt!Free(b) = {}
  <2>1. ASSUME NEW d, Deep(b, d) PROVE ValueAt(b, d, m) >= 0
    BY <1>2, <1>5, <2>1, ValueAtIs
  <2> QED
    BY <2>1 DEF Held
<1>6. CASE Open(b) /\ m /\ \E i \in Ttt!Free(b) : Held(c(i), ~ m)
  <2>1. PICK i \in Ttt!Free(b) : Held(c(i), ~ m)
    BY <1>6
  <2>2. ASSUME NEW d, Deep(b, d) PROVE ValueAt(b, d, m) >= 0
    <3>1. ChildValue(b, d, m, i) >= 0 /\ ChildValue(b, d, m, i) \in Int
      BY <1>1, <2>1, <2>2 DEF Held
    <3>2. ValueAt(b, d, m) >= ChildValue(b, d, m, i)
      BY <1>6, <2>2, ValueAtIs
    <3> QED
      BY <1>2, <2>2, <3>1, <3>2
  <2> QED
    BY <2>2 DEF Held
<1>7. CASE Open(b) /\ ~ m /\ \E i \in Ttt!Free(b) : Lost(c(i), ~ m)
  <2>1. PICK i \in Ttt!Free(b) : Lost(c(i), ~ m)
    BY <1>7
  <2>2. ASSUME NEW d, Deep(b, d) PROVE ValueAt(b, d, m) < 0
    <3>1. ChildValue(b, d, m, i) < 0 /\ ChildValue(b, d, m, i) \in Int
      BY <1>1, <2>1, <2>2 DEF Lost
    <3>2. ValueAt(b, d, m) <= ChildValue(b, d, m, i)
      BY <1>7, <2>2, ValueAtIs
    <3> QED
      BY <1>2, <2>2, <3>1, <3>2
  <2> QED
    BY <2>2 DEF Lost
<1>8. CASE Open(b) /\ \A i \in Ttt!Free(b) : Held(c(i), ~ m)
  <2>1. ASSUME NEW d, Deep(b, d) PROVE ValueAt(b, d, m) >= 0
    <3>1. PICK i \in Ttt!Free(b) : ValueAt(b, d, m) = ChildValue(b, d, m, i)
      BY <1>8, <2>1, ValueAtIs
    <3> QED
      BY <1>1, <1>8, <2>1, <3>1 DEF Held
  <2> QED
    BY <2>1 DEF Held
<1>9. CASE Open(b) /\ \A i \in Ttt!Free(b) : Lost(c(i), ~ m)
  <2>1. ASSUME NEW d, Deep(b, d) PROVE ValueAt(b, d, m) < 0
    <3>1. PICK i \in Ttt!Free(b) : ValueAt(b, d, m) = ChildValue(b, d, m, i)
      BY <1>9, <2>1, ValueAtIs
    <3> QED
      BY <1>1, <1>9, <2>1, <3>1 DEF Lost
  <2> QED
    BY <2>1 DEF Lost
<1>10. \A i \in Ttt!Free(b) : Held(c(i), ~ m) \/ Lost(c(i), ~ m)
  OBVIOUS
<1>11. Ttt!Winner(b) \in {"X", "O", "empty"}
  BY WinnerAmong
<1> HIDE DEF c
<1>12. CASE Open(b)
  BY <1>6, <1>7, <1>8, <1>9, <1>10, <1>12, Zenon
<1>13. CASE ~ Open(b)
  BY <1>3, <1>4, <1>5, <1>11, <1>13 DEF Open
<1> QED
  BY <1>12, <1>13

\* Whether O can avoid to lose does not depend on the depth of the call.
LEMMA Decided ==
  ASSUME NEW b \in Ttt!Boards, NEW m \in BOOLEAN
  PROVE  Held(b, m) \/ Lost(b, m)
<1> DEFINE Clear(c, s) == Held(c, s) \/ Lost(c, s)
           Fails == {n \in Nat : \E c \in Ttt!Boards, s \in BOOLEAN : Rank(c) = n /\ ~ Clear(c, s)}
<1> SUFFICES ASSUME Fails # {} PROVE FALSE
  BY FreeFinite
<1>1. PICK n \in Fails : \A j \in Fails : n <= j
  BY LeastExists
<1>2. PICK c \in Ttt!Boards, s \in BOOLEAN : Rank(c) = n /\ ~ Clear(c, s)
  OBVIOUS
<1>3. ASSUME NEW i \in Ttt!Free(c) PROVE Clear(Put(c, i, Turn(s)), ~ s)
  <2>1. PICK a : a = Put(c, i, Turn(s))
    OBVIOUS
  <2>2. a \in Ttt!Boards /\ Rank(a) = n - 1 /\ Rank(a) \in Nat
    BY <1>2, <2>1, PutFrees, TurnIs, FreeFinite
  <2>3. n - 1 \in Nat /\ ~ (n <= n - 1)
    BY <2>2
  <2>4. n - 1 \notin Fails
    BY <1>1, <2>3
  <2>5. (~ s) \in BOOLEAN
    OBVIOUS
  <2> HIDE DEF Clear
  <2> QED
    BY <2>1, <2>2, <2>3, <2>4, <2>5
<1> HIDE DEF Fails
<1> QED
  BY <1>2, <1>3, HeldOrLost

LEMMA DeepZero == ASSUME NEW b PROVE Deep(b, 0)
BY FreeFinite DEF Deep

LEMMA HeldBySign ==
  ASSUME NEW b \in Ttt!Boards, NEW m \in BOOLEAN, NEW d, Deep(b, d), ValueAt(b, d, m) >= 0
  PROVE  Held(b, m)
<1>1. ValueAt(b, d, m) \in Int
  BY ValueAtIs
<1>2. ~ (ValueAt(b, d, m) < 0)
  BY <1>1
<1> QED
  BY <1>2, Decided DEF Lost

\* What Held means, move by move.
LEMMA HeldNotLost ==
  ASSUME NEW b \in Ttt!Boards, NEW m \in BOOLEAN, Held(b, m)
  PROVE  Ttt!Winner(b) # "X"
<1>1. ValueAt(b, 0, m) >= 0
  BY DeepZero DEF Held
<1>2. ASSUME Ttt!Winner(b) = "X" PROVE ValueAt(b, 0, m) = 0 - 10
  BY <1>2, DeepZero, ValueAtIs
<1> QED
  BY <1>1, <1>2

LEMMA HeldAfterX ==
  ASSUME NEW b \in Ttt!Boards, Held(b, FALSE), Open(b), NEW i \in Ttt!Free(b)
  PROVE  Held(Put(b, i, "X"), TRUE)
<1>1. PICK c : c = Put(b, i, "X")
  OBVIOUS
<1>2. c \in Ttt!Boards /\ Deep(c, 0 + 1)
  BY <1>1, DeepZero, DeepNext DEF Ttt!Players
<1>3. ValueAt(b, 0, FALSE) \in Int /\ ValueAt(b, 0, FALSE) <= ChildValue(b, 0, FALSE, i)
  BY DeepZero, ValueAtIs
<1>4. ChildValue(b, 0, FALSE, i) = ValueAt(c, 0 + 1, TRUE)
  BY <1>1 DEF ChildValue, Turn
<1>5. ValueAt(b, 0, FALSE) >= 0
  BY DeepZero DEF Held
<1>6. ValueAt(c, 0 + 1, TRUE) \in Int
  BY <1>2, ValueAtIs
<1>7. PICK v, w : v = ValueAt(b, 0, FALSE) /\ w = ValueAt(c, 0 + 1, TRUE)
  OBVIOUS
<1>8. v \in Int /\ w \in Int /\ v <= w /\ v >= 0
  BY <1>3, <1>4, <1>5, <1>6, <1>7, Zenon
<1>9. w >= 0
  BY <1>8
<1> QED
  BY <1>1, <1>2, <1>7, <1>9, HeldBySign

LEMMA HeldReply ==
  ASSUME NEW b \in Ttt!Boards, Held(b, TRUE), Open(b)
  PROVE  \E i \in Ttt!Free(b) : Held(Put(b, i, "O"), FALSE)
<1>1. ValueAt(b, 0, TRUE) >= 0
  BY DeepZero DEF Held
<1>2. PICK i \in Ttt!Free(b) : ValueAt(b, 0, TRUE) = ChildValue(b, 0, TRUE, i)
  BY DeepZero, ValueAtIs
<1>3. PICK c : c = Put(b, i, "O")
  OBVIOUS
<1>4. c \in Ttt!Boards /\ Deep(c, 0 + 1)
  BY <1>3, DeepZero, DeepNext DEF Ttt!Players
<1>5. ValueAt(c, 0 + 1, FALSE) >= 0
  BY <1>1, <1>2, <1>3 DEF ChildValue, Turn
<1> QED
  BY <1>3, <1>4, <1>5, HeldBySign

-----------------------------------------------------------------------------
(* Perfect play does not lose.  Sound describes boards on which O is safe, *)
(* by the sums of their lines: an X counts 1, an O counts 4.  They are     *)
(* closed under a move of X and a reply of O, so O holds them by           *)
(* induction on the free cells, and with them the blank board.             *)

\* Some line of the nine cells has this sum.
LineSums(s, v0, v1, v2, v3, v4, v5, v6, v7, v8) ==
  \/ v0 + v1 + v2 = s \/ v3 + v4 + v5 = s \/ v6 + v7 + v8 = s
  \/ v0 + v3 + v6 = s \/ v1 + v4 + v7 = s \/ v2 + v5 + v8 = s
  \/ v0 + v4 + v8 = s \/ v2 + v4 + v6 = s

Two(p, q, r) == (p /\ q) \/ (p /\ r) \/ (q /\ r)

\* A free cell at which an X makes two threats is of no use if O wins elsewhere.
NoFork(v0, v1, v2, v3, v4, v5, v6, v7, v8) ==
  /\ v0 = 0 /\ Two(v1 + v2 = 1, v3 + v6 = 1, v4 + v8 = 1) =>
       \/ v3 + v4 + v5 = 8 \/ v6 + v7 + v8 = 8 \/ v1 + v4 + v7 = 8 \/ v2 + v5 + v8 = 8
       \/ v2 + v4 + v6 = 8
  /\ v2 = 0 /\ Two(v0 + v1 = 1, v5 + v8 = 1, v4 + v6 = 1) =>
       \/ v3 + v4 + v5 = 8 \/ v6 + v7 + v8 = 8 \/ v1 + v4 + v7 = 8 \/ v0 + v3 + v6 = 8
       \/ v0 + v4 + v8 = 8
  /\ v6 = 0 /\ Two(v0 + v3 = 1, v7 + v8 = 1, v2 + v4 = 1) =>
       \/ v3 + v4 + v5 = 8 \/ v0 + v1 + v2 = 8 \/ v1 + v4 + v7 = 8 \/ v2 + v5 + v8 = 8
       \/ v0 + v4 + v8 = 8
  /\ v8 = 0 /\ Two(v6 + v7 = 1, v2 + v5 = 1, v0 + v4 = 1) =>
       \/ v3 + v4 + v5 = 8 \/ v0 + v1 + v2 = 8 \/ v1 + v4 + v7 = 8 \/ v0 + v3 + v6 = 8
       \/ v2 + v4 + v6 = 8
  /\ v1 = 0 /\ v0 + v2 = 1 /\ v4 + v7 = 1 =>
       \/ v3 + v4 + v5 = 8 \/ v6 + v7 + v8 = 8 \/ v0 + v3 + v6 = 8 \/ v2 + v5 + v8 = 8
       \/ v0 + v4 + v8 = 8 \/ v2 + v4 + v6 = 8
  /\ v7 = 0 /\ v6 + v8 = 1 /\ v1 + v4 = 1 =>
       \/ v3 + v4 + v5 = 8 \/ v0 + v1 + v2 = 8 \/ v0 + v3 + v6 = 8 \/ v2 + v5 + v8 = 8
       \/ v0 + v4 + v8 = 8 \/ v2 + v4 + v6 = 8
  /\ v3 = 0 /\ v0 + v6 = 1 /\ v4 + v5 = 1 =>
       \/ v0 + v1 + v2 = 8 \/ v6 + v7 + v8 = 8 \/ v1 + v4 + v7 = 8 \/ v2 + v5 + v8 = 8
       \/ v0 + v4 + v8 = 8 \/ v2 + v4 + v6 = 8
  /\ v5 = 0 /\ v2 + v8 = 1 /\ v3 + v4 = 1 =>
       \/ v0 + v1 + v2 = 8 \/ v6 + v7 + v8 = 8 \/ v1 + v4 + v7 = 8 \/ v0 + v3 + v6 = 8
       \/ v0 + v4 + v8 = 8 \/ v2 + v4 + v6 = 8

\* An X more than an O.
Net(v) == IF v = 1 THEN 1 ELSE IF v = 4 THEN -1 ELSE 0

\* A board on which X is to move, and does not win: no line is one X short, no fork
\* is of use, O has the centre or a corner next to X in it, and both have set as
\* many marks.
Sound(v0, v1, v2, v3, v4, v5, v6, v7, v8) ==
  /\ ~ LineSums(2, v0, v1, v2, v3, v4, v5, v6, v7, v8)
  /\ ~ LineSums(3, v0, v1, v2, v3, v4, v5, v6, v7, v8)
  /\ NoFork(v0, v1, v2, v3, v4, v5, v6, v7, v8)
  /\ v4 = 4 \/ (v4 = 1 /\ (v0 = 4 \/ v2 = 4 \/ v6 = 4 \/ v8 = 4))
  /\ Net(v0) + Net(v1) + Net(v2) + Net(v3) + Net(v4) + Net(v5) + Net(v6) + Net(v7) + Net(v8) = 0

\* A reply of O that wins or leaves such a board.
Good(v0, v1, v2, v3, v4, v5, v6, v7, v8) ==
  \/ Sound(v0, v1, v2, v3, v4, v5, v6, v7, v8)
  \/ /\ LineSums(12, v0, v1, v2, v3, v4, v5, v6, v7, v8)
     /\ ~ LineSums(3, v0, v1, v2, v3, v4, v5, v6, v7, v8)

\* A board on which X has not won and O has a good reply, or it is full.
Answered(v0, v1, v2, v3, v4, v5, v6, v7, v8) ==
  /\ ~ LineSums(3, v0, v1, v2, v3, v4, v5, v6, v7, v8)
  /\ \/ v0 # 0 /\ v1 # 0 /\ v2 # 0 /\ v3 # 0 /\ v4 # 0 /\ v5 # 0 /\ v6 # 0 /\ v7 # 0 /\ v8 # 0
     \/ v0 = 0 /\ Good(4, v1, v2, v3, v4, v5, v6, v7, v8)
     \/ v1 = 0 /\ Good(v0, 4, v2, v3, v4, v5, v6, v7, v8)
     \/ v2 = 0 /\ Good(v0, v1, 4, v3, v4, v5, v6, v7, v8)
     \/ v3 = 0 /\ Good(v0, v1, v2, 4, v4, v5, v6, v7, v8)
     \/ v4 = 0 /\ Good(v0, v1, v2, v3, 4, v5, v6, v7, v8)
     \/ v5 = 0 /\ Good(v0, v1, v2, v3, v4, 4, v6, v7, v8)
     \/ v6 = 0 /\ Good(v0, v1, v2, v3, v4, v5, 4, v7, v8)
     \/ v7 = 0 /\ Good(v0, v1, v2, v3, v4, v5, v6, 4, v8)
     \/ v8 = 0 /\ Good(v0, v1, v2, v3, v4, v5, v6, v7, 4)

Codes == {0, 1, 4}

\* Whatever X plays on a sound board, O has an answer.
LEMMA SoundAnswered ==
  ASSUME NEW v0 \in Codes, NEW v1 \in Codes, NEW v2 \in Codes, NEW v3 \in Codes, NEW v4 \in Codes,
         NEW v5 \in Codes, NEW v6 \in Codes, NEW v7 \in Codes, NEW v8 \in Codes,
         Sound(v0, v1, v2, v3, v4, v5, v6, v7, v8)
  PROVE  /\ v0 = 0 => Answered(1, v1, v2, v3, v4, v5, v6, v7, v8)
         /\ v1 = 0 => Answered(v0, 1, v2, v3, v4, v5, v6, v7, v8)
         /\ v2 = 0 => Answered(v0, v1, 1, v3, v4, v5, v6, v7, v8)
         /\ v3 = 0 => Answered(v0, v1, v2, 1, v4, v5, v6, v7, v8)
         /\ v4 = 0 => Answered(v0, v1, v2, v3, 1, v5, v6, v7, v8)
         /\ v5 = 0 => Answered(v0, v1, v2, v3, v4, 1, v6, v7, v8)
         /\ v6 = 0 => Answered(v0, v1, v2, v3, v4, v5, 1, v7, v8)
         /\ v7 = 0 => Answered(v0, v1, v2, v3, v4, v5, v6, 1, v8)
         /\ v8 = 0 => Answered(v0, v1, v2, v3, v4, v5, v6, v7, 1)
<1>0. v0 = 0 => Answered(1, v1, v2, v3, v4, v5, v6, v7, v8)
  BY SMTT(60) DEF Answered, Good, Sound, NoFork, LineSums, Two, Net, Codes
<1>1. v1 = 0 => Answered(v0, 1, v2, v3, v4, v5, v6, v7, v8)
  BY SMTT(60) DEF Answered, Good, Sound, NoFork, LineSums, Two, Net, Codes
<1>2. v2 = 0 => Answered(v0, v1, 1, v3, v4, v5, v6, v7, v8)
  BY SMTT(60) DEF Answered, Good, Sound, NoFork, LineSums, Two, Net, Codes
<1>3. v3 = 0 => Answered(v0, v1, v2, 1, v4, v5, v6, v7, v8)
  BY SMTT(60) DEF Answered, Good, Sound, NoFork, LineSums, Two, Net, Codes
<1>4. v4 = 0 => Answered(v0, v1, v2, v3, 1, v5, v6, v7, v8)
  BY SMTT(60) DEF Answered, Good, Sound, NoFork, LineSums, Two, Net, Codes
<1>5. v5 = 0 => Answered(v0, v1, v2, v3, v4, 1, v6, v7, v8)
  BY SMTT(60) DEF Answered, Good, Sound, NoFork, LineSums, Two, Net, Codes
<1>6. v6 = 0 => Answered(v0, v1, v2, v3, v4, v5, 1, v7, v8)
  BY SMTT(60) DEF Answered, Good, Sound, NoFork, LineSums, Two, Net, Codes
<1>7. v7 = 0 => Answered(v0, v1, v2, v3, v4, v5, v6, 1, v8)
  BY SMTT(60) DEF Answered, Good, Sound, NoFork, LineSums, Two, Net, Codes
<1>8. v8 = 0 => Answered(v0, v1, v2, v3, v4, v5, v6, v7, 1)
  BY SMTT(60) DEF Answered, Good, Sound, NoFork, LineSums, Two, Net, Codes
<1> QED
  BY <1>0, <1>1, <1>2, <1>3, <1>4, <1>5, <1>6, <1>7, <1>8

\* The same of a board of the model.
Code(b, k) == IF b[k] = "X" THEN 1 ELSE IF b[k] = "O" THEN 4 ELSE 0

SumsTo(s, b) ==
  LineSums(s, Code(b, 0), Code(b, 1), Code(b, 2), Code(b, 3), Code(b, 4), Code(b, 5), Code(b, 6), Code(b, 7), Code(b, 8))

SoundBoard(b) ==
  Sound(Code(b, 0), Code(b, 1), Code(b, 2), Code(b, 3), Code(b, 4), Code(b, 5), Code(b, 6), Code(b, 7), Code(b, 8))

AnsweredBoard(b) ==
  Answered(Code(b, 0), Code(b, 1), Code(b, 2), Code(b, 3), Code(b, 4), Code(b, 5), Code(b, 6), Code(b, 7), Code(b, 8))

GoodBoard(b) == SoundBoard(b) \/ (SumsTo(12, b) /\ ~ SumsTo(3, b))

LEMMA CodeIs ==
  ASSUME NEW b \in Ttt!Boards, NEW k \in Ttt!Cells
  PROVE  /\ Code(b, k) \in Codes
         /\ Code(b, k) = 0 <=> k \in Ttt!Free(b)
         /\ Code(b, k) = 1 <=> b[k] = "X"
         /\ Code(b, k) = 4 <=> b[k] = "O"
<1>1. b[k] \in {"X", "O", "empty"}
  BY DEF Ttt!Boards, Ttt!Marks, Ttt!Players
<1> QED
  BY <1>1 DEF Code, Codes, Ttt!Free

LEMMA CodePut ==
  ASSUME NEW b \in Ttt!Boards, NEW i \in Ttt!Cells, NEW k \in Ttt!Cells
  PROVE  /\ Code(Put(b, i, "X"), k) = IF k = i THEN 1 ELSE Code(b, k)
         /\ Code(Put(b, i, "O"), k) = IF k = i THEN 4 ELSE Code(b, k)
<1>1. Put(b, i, "X")[k] = IF k = i THEN "X" ELSE b[k]
  BY DEF Put, Ttt!Boards
<1>2. Put(b, i, "O")[k] = IF k = i THEN "O" ELSE b[k]
  BY DEF Put, Ttt!Boards
<1> QED
  BY <1>1, <1>2 DEF Code

LEMMA WinnerHasLine ==
  ASSUME NEW b, NEW p \in Ttt!Players, Ttt!Winner(b) = p
  PROVE  \E n \in 1 .. 8 : CompleteBy(b, n, p)
<1>1. Ttt!Complete(b) # {}
  BY WinnerIs DEF Ttt!Players
<1>2. PICK n : n = Ttt!Min(Ttt!Complete(b))
  OBVIOUS
<1>3. Ttt!Complete(b) \subseteq Nat
  BY DEF Ttt!Complete
<1>4. \E x \in Ttt!Complete(b) : \A y \in Ttt!Complete(b) : x <= y
  BY <1>1, <1>3, LeastExists
<1>5. n \in Ttt!Complete(b)
  BY <1>2, <1>4 DEF Ttt!Min
<1>6. p = b[Cell(n, 1)]
  BY <1>1, <1>2 DEF Ttt!Winner, Cell
<1>7. PICK q \in Ttt!Players : CompleteBy(b, n, q)
  BY <1>5, CompleteIs
<1>8. q = p /\ n \in 1 .. 8
  BY <1>5, <1>6, <1>7, CompleteIs DEF CompleteBy
<1> QED
  BY <1>7, <1>8

LEMMA LineSum ==
  ASSUME NEW b, NEW n \in 1 .. 8, NEW p, CompleteBy(b, n, p)
  PROVE  /\ p = "X" => SumsTo(3, b)
         /\ p = "O" => SumsTo(12, b)
<1>1. b[Cell(n, 1)] = p /\ b[Cell(n, 2)] = p /\ b[Cell(n, 3)] = p
  BY DEF CompleteBy
<1>2. /\ n = 1 => b[0] = p /\ b[1] = p /\ b[2] = p
      /\ n = 2 => b[3] = p /\ b[4] = p /\ b[5] = p
      /\ n = 3 => b[6] = p /\ b[7] = p /\ b[8] = p
      /\ n = 4 => b[0] = p /\ b[3] = p /\ b[6] = p
      /\ n = 5 => b[1] = p /\ b[4] = p /\ b[7] = p
      /\ n = 6 => b[2] = p /\ b[5] = p /\ b[8] = p
      /\ n = 7 => b[0] = p /\ b[4] = p /\ b[8] = p
      /\ n = 8 => b[2] = p /\ b[4] = p /\ b[6] = p
  BY <1>1 DEF Cell, Ttt!Lines
<1>3. \A k : (b[k] = "X" => Code(b, k) = 1) /\ (b[k] = "O" => Code(b, k) = 4)
  BY DEF Code
<1>4. CASE p = "X"
  BY <1>2, <1>3, <1>4 DEF SumsTo, LineSums
<1>5. CASE p = "O"
  BY <1>2, <1>3, <1>5 DEF SumsTo, LineSums
<1> QED
  BY <1>4, <1>5

LEMMA SumIsLine ==
  ASSUME NEW b \in Ttt!Boards, SumsTo(12, b)
  PROVE  \E n \in 1 .. 8 : CompleteBy(b, n, "O")
<1>1. \A k \in Ttt!Cells : Code(b, k) \in Codes /\ (Code(b, k) = 4 <=> b[k] = "O")
  BY CodeIs
<1>2. \A u, v, w \in Codes : u + v + w = 12 => u = 4 /\ v = 4 /\ w = 4
  BY DEF Codes
<1>3. \A i, j, k \in Ttt!Cells :
        Code(b, i) + Code(b, j) + Code(b, k) = 12 => b[i] = "O" /\ b[j] = "O" /\ b[k] = "O"
  BY <1>1, <1>2
<1>4. /\ 0 \in Ttt!Cells /\ 1 \in Ttt!Cells /\ 2 \in Ttt!Cells /\ 3 \in Ttt!Cells /\ 4 \in Ttt!Cells
      /\ 5 \in Ttt!Cells /\ 6 \in Ttt!Cells /\ 7 \in Ttt!Cells /\ 8 \in Ttt!Cells
  BY DEF Ttt!Cells
<1>5. \/ b[0] = "O" /\ b[1] = "O" /\ b[2] = "O"
      \/ b[3] = "O" /\ b[4] = "O" /\ b[5] = "O"
      \/ b[6] = "O" /\ b[7] = "O" /\ b[8] = "O"
      \/ b[0] = "O" /\ b[3] = "O" /\ b[6] = "O"
      \/ b[1] = "O" /\ b[4] = "O" /\ b[7] = "O"
      \/ b[2] = "O" /\ b[5] = "O" /\ b[8] = "O"
      \/ b[0] = "O" /\ b[4] = "O" /\ b[8] = "O"
      \/ b[2] = "O" /\ b[4] = "O" /\ b[6] = "O"
  <2>1. /\ Code(b, 0) + Code(b, 1) + Code(b, 2) = 12 => b[0] = "O" /\ b[1] = "O" /\ b[2] = "O"
        /\ Code(b, 3) + Code(b, 4) + Code(b, 5) = 12 => b[3] = "O" /\ b[4] = "O" /\ b[5] = "O"
        /\ Code(b, 6) + Code(b, 7) + Code(b, 8) = 12 => b[6] = "O" /\ b[7] = "O" /\ b[8] = "O"
        /\ Code(b, 0) + Code(b, 3) + Code(b, 6) = 12 => b[0] = "O" /\ b[3] = "O" /\ b[6] = "O"
        /\ Code(b, 1) + Code(b, 4) + Code(b, 7) = 12 => b[1] = "O" /\ b[4] = "O" /\ b[7] = "O"
        /\ Code(b, 2) + Code(b, 5) + Code(b, 8) = 12 => b[2] = "O" /\ b[5] = "O" /\ b[8] = "O"
        /\ Code(b, 0) + Code(b, 4) + Code(b, 8) = 12 => b[0] = "O" /\ b[4] = "O" /\ b[8] = "O"
        /\ Code(b, 2) + Code(b, 4) + Code(b, 6) = 12 => b[2] = "O" /\ b[4] = "O" /\ b[6] = "O"
    BY <1>3, <1>4
  <2> QED
    BY <2>1, Zenon DEF SumsTo, LineSums
<1>6. ASSUME NEW n \in 1 .. 8, b[Cell(n, 1)] = "O", b[Cell(n, 2)] = "O", b[Cell(n, 3)] = "O"
      PROVE  CompleteBy(b, n, "O")
  BY <1>6 DEF CompleteBy
<1>7. /\ Cell(1, 1) = 0 /\ Cell(1, 2) = 1 /\ Cell(1, 3) = 2
      /\ Cell(2, 1) = 3 /\ Cell(2, 2) = 4 /\ Cell(2, 3) = 5
      /\ Cell(3, 1) = 6 /\ Cell(3, 2) = 7 /\ Cell(3, 3) = 8
      /\ Cell(4, 1) = 0 /\ Cell(4, 2) = 3 /\ Cell(4, 3) = 6
      /\ Cell(5, 1) = 1 /\ Cell(5, 2) = 4 /\ Cell(5, 3) = 7
      /\ Cell(6, 1) = 2 /\ Cell(6, 2) = 5 /\ Cell(6, 3) = 8
      /\ Cell(7, 1) = 0 /\ Cell(7, 2) = 4 /\ Cell(7, 3) = 8
      /\ Cell(8, 1) = 2 /\ Cell(8, 2) = 4 /\ Cell(8, 3) = 6
  BY DEF Cell, Ttt!Lines
<1> QED
  BY <1>5, <1>6, <1>7

LEMMA NotXWon ==
  ASSUME NEW b, ~ SumsTo(3, b) PROVE Ttt!Winner(b) # "X"
BY WinnerHasLine, LineSum DEF Ttt!Players

LEMMA OWon ==
  ASSUME NEW b \in Ttt!Boards, SumsTo(12, b), ~ SumsTo(3, b) PROVE Ttt!Winner(b) = "O"
<1>1. PICK n \in 1 .. 8 : CompleteBy(b, n, "O")
  BY SumIsLine
<1>2. n \in Ttt!Complete(b)
  BY <1>1, CompleteIs DEF Ttt!Players
<1>3. Ttt!Winner(b) \in Ttt!Players
  BY <1>2, WinnerIs
<1> QED
  BY <1>3, NotXWon DEF Ttt!Players

LEMMA CellIs ==
  /\ \A k \in Ttt!Cells : \/ k = 0 \/ k = 1 \/ k = 2 \/ k = 3 \/ k = 4 \/ k = 5 \/ k = 6 \/ k = 7 \/ k = 8
  /\ 0 \in Ttt!Cells /\ 1 \in Ttt!Cells /\ 2 \in Ttt!Cells /\ 3 \in Ttt!Cells /\ 4 \in Ttt!Cells
  /\ 5 \in Ttt!Cells /\ 6 \in Ttt!Cells /\ 7 \in Ttt!Cells /\ 8 \in Ttt!Cells
BY DEF Ttt!Cells

LEMMA CodesPut ==
  ASSUME NEW b \in Ttt!Boards, NEW i \in Ttt!Cells, NEW p \in Ttt!Players, NEW a, a = Put(b, i, p),
         NEW c, c = IF p = "X" THEN 1 ELSE 4
  PROVE  /\ Code(a, 0) = IF i = 0 THEN c ELSE Code(b, 0)
         /\ Code(a, 1) = IF i = 1 THEN c ELSE Code(b, 1)
         /\ Code(a, 2) = IF i = 2 THEN c ELSE Code(b, 2)
         /\ Code(a, 3) = IF i = 3 THEN c ELSE Code(b, 3)
         /\ Code(a, 4) = IF i = 4 THEN c ELSE Code(b, 4)
         /\ Code(a, 5) = IF i = 5 THEN c ELSE Code(b, 5)
         /\ Code(a, 6) = IF i = 6 THEN c ELSE Code(b, 6)
         /\ Code(a, 7) = IF i = 7 THEN c ELSE Code(b, 7)
         /\ Code(a, 8) = IF i = 8 THEN c ELSE Code(b, 8)
<1>1. \A k \in Ttt!Cells : Code(a, k) = IF k = i THEN c ELSE Code(b, k)
  BY CodePut DEF Ttt!Players
<1> QED
  BY <1>1, CellIs

LEMMA SoundThenAnswered ==
  ASSUME NEW b \in Ttt!Boards, SoundBoard(b), NEW i \in Ttt!Free(b)
  PROVE  AnsweredBoard(Put(b, i, "X"))
<1>1. PICK a : a = Put(b, i, "X")
  OBVIOUS
<1>2. i \in Ttt!Cells /\ "X" \in Ttt!Players
  BY DEF Ttt!Free, Ttt!Players
<1>3. PICK v0, v1, v2, v3, v4, v5, v6, v7, v8 :
        /\ v0 = Code(b, 0)
        /\ v1 = Code(b, 1)
        /\ v2 = Code(b, 2)
        /\ v3 = Code(b, 3)
        /\ v4 = Code(b, 4)
        /\ v5 = Code(b, 5)
        /\ v6 = Code(b, 6)
        /\ v7 = Code(b, 7)
        /\ v8 = Code(b, 8)
  OBVIOUS
<1>4. v0 \in Codes /\ v1 \in Codes /\ v2 \in Codes /\ v3 \in Codes /\ v4 \in Codes
      /\ v5 \in Codes /\ v6 \in Codes /\ v7 \in Codes /\ v8 \in Codes
  BY <1>3, CodeIs, CellIs
<1>5. Sound(v0, v1, v2, v3, v4, v5, v6, v7, v8)
  BY <1>3 DEF SoundBoard
<1>6. /\ i = 0 => v0 = 0
      /\ i = 1 => v1 = 0
      /\ i = 2 => v2 = 0
      /\ i = 3 => v3 = 0
      /\ i = 4 => v4 = 0
      /\ i = 5 => v5 = 0
      /\ i = 6 => v6 = 0
      /\ i = 7 => v7 = 0
      /\ i = 8 => v8 = 0
  BY <1>3, CodeIs, CellIs
<1>7. /\ Code(a, 0) = IF i = 0 THEN 1 ELSE v0
      /\ Code(a, 1) = IF i = 1 THEN 1 ELSE v1
      /\ Code(a, 2) = IF i = 2 THEN 1 ELSE v2
      /\ Code(a, 3) = IF i = 3 THEN 1 ELSE v3
      /\ Code(a, 4) = IF i = 4 THEN 1 ELSE v4
      /\ Code(a, 5) = IF i = 5 THEN 1 ELSE v5
      /\ Code(a, 6) = IF i = 6 THEN 1 ELSE v6
      /\ Code(a, 7) = IF i = 7 THEN 1 ELSE v7
      /\ Code(a, 8) = IF i = 8 THEN 1 ELSE v8
  BY <1>1, <1>2, <1>3, CodesPut
<1>8. /\ v0 = 0 => Answered(1, v1, v2, v3, v4, v5, v6, v7, v8)
      /\ v1 = 0 => Answered(v0, 1, v2, v3, v4, v5, v6, v7, v8)
      /\ v2 = 0 => Answered(v0, v1, 1, v3, v4, v5, v6, v7, v8)
      /\ v3 = 0 => Answered(v0, v1, v2, 1, v4, v5, v6, v7, v8)
      /\ v4 = 0 => Answered(v0, v1, v2, v3, 1, v5, v6, v7, v8)
      /\ v5 = 0 => Answered(v0, v1, v2, v3, v4, 1, v6, v7, v8)
      /\ v6 = 0 => Answered(v0, v1, v2, v3, v4, v5, 1, v7, v8)
      /\ v7 = 0 => Answered(v0, v1, v2, v3, v4, v5, v6, 1, v8)
      /\ v8 = 0 => Answered(v0, v1, v2, v3, v4, v5, v6, v7, 1)
  BY <1>4, <1>5, SoundAnswered, Zenon
<1>9. AnsweredBoard(a)
  <2>0. CASE i = 0
    <3>1. /\ Code(a, 0) = 1
          /\ Code(a, 1) = v1
          /\ Code(a, 2) = v2
          /\ Code(a, 3) = v3
          /\ Code(a, 4) = v4
          /\ Code(a, 5) = v5
          /\ Code(a, 6) = v6
          /\ Code(a, 7) = v7
          /\ Code(a, 8) = v8
      BY <1>7, <2>0
    <3>2. Answered(1, v1, v2, v3, v4, v5, v6, v7, v8)
      BY <1>6, <1>8, <2>0
    <3> QED
      BY <3>1, <3>2, Zenon DEF AnsweredBoard
  <2>1. CASE i = 1
    <3>1. /\ Code(a, 0) = v0
          /\ Code(a, 1) = 1
          /\ Code(a, 2) = v2
          /\ Code(a, 3) = v3
          /\ Code(a, 4) = v4
          /\ Code(a, 5) = v5
          /\ Code(a, 6) = v6
          /\ Code(a, 7) = v7
          /\ Code(a, 8) = v8
      BY <1>7, <2>1
    <3>2. Answered(v0, 1, v2, v3, v4, v5, v6, v7, v8)
      BY <1>6, <1>8, <2>1
    <3> QED
      BY <3>1, <3>2, Zenon DEF AnsweredBoard
  <2>2. CASE i = 2
    <3>1. /\ Code(a, 0) = v0
          /\ Code(a, 1) = v1
          /\ Code(a, 2) = 1
          /\ Code(a, 3) = v3
          /\ Code(a, 4) = v4
          /\ Code(a, 5) = v5
          /\ Code(a, 6) = v6
          /\ Code(a, 7) = v7
          /\ Code(a, 8) = v8
      BY <1>7, <2>2
    <3>2. Answered(v0, v1, 1, v3, v4, v5, v6, v7, v8)
      BY <1>6, <1>8, <2>2
    <3> QED
      BY <3>1, <3>2, Zenon DEF AnsweredBoard
  <2>3. CASE i = 3
    <3>1. /\ Code(a, 0) = v0
          /\ Code(a, 1) = v1
          /\ Code(a, 2) = v2
          /\ Code(a, 3) = 1
          /\ Code(a, 4) = v4
          /\ Code(a, 5) = v5
          /\ Code(a, 6) = v6
          /\ Code(a, 7) = v7
          /\ Code(a, 8) = v8
      BY <1>7, <2>3
    <3>2. Answered(v0, v1, v2, 1, v4, v5, v6, v7, v8)
      BY <1>6, <1>8, <2>3
    <3> QED
      BY <3>1, <3>2, Zenon DEF AnsweredBoard
  <2>4. CASE i = 4
    <3>1. /\ Code(a, 0) = v0
          /\ Code(a, 1) = v1
          /\ Code(a, 2) = v2
          /\ Code(a, 3) = v3
          /\ Code(a, 4) = 1
          /\ Code(a, 5) = v5
          /\ Code(a, 6) = v6
          /\ Code(a, 7) = v7
          /\ Code(a, 8) = v8
      BY <1>7, <2>4
    <3>2. Answered(v0, v1, v2, v3, 1, v5, v6, v7, v8)
      BY <1>6, <1>8, <2>4
    <3> QED
      BY <3>1, <3>2, Zenon DEF AnsweredBoard
  <2>5. CASE i = 5
    <3>1. /\ Code(a, 0) = v0
          /\ Code(a, 1) = v1
          /\ Code(a, 2) = v2
          /\ Code(a, 3) = v3
          /\ Code(a, 4) = v4
          /\ Code(a, 5) = 1
          /\ Code(a, 6) = v6
          /\ Code(a, 7) = v7
          /\ Code(a, 8) = v8
      BY <1>7, <2>5
    <3>2. Answered(v0, v1, v2, v3, v4, 1, v6, v7, v8)
      BY <1>6, <1>8, <2>5
    <3> QED
      BY <3>1, <3>2, Zenon DEF AnsweredBoard
  <2>6. CASE i = 6
    <3>1. /\ Code(a, 0) = v0
          /\ Code(a, 1) = v1
          /\ Code(a, 2) = v2
          /\ Code(a, 3) = v3
          /\ Code(a, 4) = v4
          /\ Code(a, 5) = v5
          /\ Code(a, 6) = 1
          /\ Code(a, 7) = v7
          /\ Code(a, 8) = v8
      BY <1>7, <2>6
    <3>2. Answered(v0, v1, v2, v3, v4, v5, 1, v7, v8)
      BY <1>6, <1>8, <2>6
    <3> QED
      BY <3>1, <3>2, Zenon DEF AnsweredBoard
  <2>7. CASE i = 7
    <3>1. /\ Code(a, 0) = v0
          /\ Code(a, 1) = v1
          /\ Code(a, 2) = v2
          /\ Code(a, 3) = v3
          /\ Code(a, 4) = v4
          /\ Code(a, 5) = v5
          /\ Code(a, 6) = v6
          /\ Code(a, 7) = 1
          /\ Code(a, 8) = v8
      BY <1>7, <2>7
    <3>2. Answered(v0, v1, v2, v3, v4, v5, v6, 1, v8)
      BY <1>6, <1>8, <2>7
    <3> QED
      BY <3>1, <3>2, Zenon DEF AnsweredBoard
  <2>8. CASE i = 8
    <3>1. /\ Code(a, 0) = v0
          /\ Code(a, 1) = v1
          /\ Code(a, 2) = v2
          /\ Code(a, 3) = v3
          /\ Code(a, 4) = v4
          /\ Code(a, 5) = v5
          /\ Code(a, 6) = v6
          /\ Code(a, 7) = v7
          /\ Code(a, 8) = 1
      BY <1>7, <2>8
    <3>2. Answered(v0, v1, v2, v3, v4, v5, v6, v7, 1)
      BY <1>6, <1>8, <2>8
    <3> QED
      BY <3>1, <3>2, Zenon DEF AnsweredBoard
  <2> QED
    BY <1>2, <2>0, <2>1, <2>2, <2>3, <2>4, <2>5, <2>6, <2>7, <2>8, CellIs
<1> QED
  BY <1>1, <1>9

LEMMA AnswerIs ==
  ASSUME NEW a \in Ttt!Boards, AnsweredBoard(a)
  PROVE  /\ Ttt!Winner(a) # "X"
         /\ Ttt!Free(a) = {} \/ \E j \in Ttt!Free(a) : GoodBoard(Put(a, j, "O"))
<1>1. PICK v0, v1, v2, v3, v4, v5, v6, v7, v8 :
        /\ v0 = Code(a, 0)
        /\ v1 = Code(a, 1)
        /\ v2 = Code(a, 2)
        /\ v3 = Code(a, 3)
        /\ v4 = Code(a, 4)
        /\ v5 = Code(a, 5)
        /\ v6 = Code(a, 6)
        /\ v7 = Code(a, 7)
        /\ v8 = Code(a, 8)
  OBVIOUS
<1>2. Answered(v0, v1, v2, v3, v4, v5, v6, v7, v8)
  BY <1>1 DEF AnsweredBoard
<1>3. ~ SumsTo(3, a)
  BY <1>1, <1>2 DEF Answered, SumsTo
<1>4. \A k \in Ttt!Cells : Code(a, k) = 0 <=> k \in Ttt!Free(a)
  BY CodeIs
<1>5. CASE v0 # 0 /\ v1 # 0 /\ v2 # 0 /\ v3 # 0 /\ v4 # 0 /\ v5 # 0 /\ v6 # 0 /\ v7 # 0 /\ v8 # 0
  <2>1. \A k \in Ttt!Cells : k \notin Ttt!Free(a)
    BY <1>1, <1>4, <1>5, CellIs
  <2>2. Ttt!Free(a) = {}
    BY <2>1 DEF Ttt!Free
  <2> QED
    BY <1>3, <2>2, NotXWon
<1>6. ASSUME NEW j \in Ttt!Cells, Code(a, j) = 0, GoodBoard(Put(a, j, "O"))
      PROVE  /\ Ttt!Winner(a) # "X"
             /\ \E k \in Ttt!Free(a) : GoodBoard(Put(a, k, "O"))
  BY <1>3, <1>4, <1>6, NotXWon
<1>10. CASE v0 = 0 /\ Good(4, v1, v2, v3, v4, v5, v6, v7, v8)
  <2>1. PICK c : c = Put(a, 0, "O")
    OBVIOUS
  <2>2. /\ Code(c, 0) = 4
        /\ Code(c, 1) = v1
        /\ Code(c, 2) = v2
        /\ Code(c, 3) = v3
        /\ Code(c, 4) = v4
        /\ Code(c, 5) = v5
        /\ Code(c, 6) = v6
        /\ Code(c, 7) = v7
        /\ Code(c, 8) = v8
    BY <1>1, <2>1, CodePut, CellIs
  <2>3. GoodBoard(c)
    BY <1>10, <2>2, Zenon DEF Good, GoodBoard, SoundBoard, SumsTo
  <2> QED
    BY <1>1, <1>6, <1>10, <2>1, <2>3, CellIs
<1>11. CASE v1 = 0 /\ Good(v0, 4, v2, v3, v4, v5, v6, v7, v8)
  <2>1. PICK c : c = Put(a, 1, "O")
    OBVIOUS
  <2>2. /\ Code(c, 0) = v0
        /\ Code(c, 1) = 4
        /\ Code(c, 2) = v2
        /\ Code(c, 3) = v3
        /\ Code(c, 4) = v4
        /\ Code(c, 5) = v5
        /\ Code(c, 6) = v6
        /\ Code(c, 7) = v7
        /\ Code(c, 8) = v8
    BY <1>1, <2>1, CodePut, CellIs
  <2>3. GoodBoard(c)
    BY <1>11, <2>2, Zenon DEF Good, GoodBoard, SoundBoard, SumsTo
  <2> QED
    BY <1>1, <1>6, <1>11, <2>1, <2>3, CellIs
<1>12. CASE v2 = 0 /\ Good(v0, v1, 4, v3, v4, v5, v6, v7, v8)
  <2>1. PICK c : c = Put(a, 2, "O")
    OBVIOUS
  <2>2. /\ Code(c, 0) = v0
        /\ Code(c, 1) = v1
        /\ Code(c, 2) = 4
        /\ Code(c, 3) = v3
        /\ Code(c, 4) = v4
        /\ Code(c, 5) = v5
        /\ Code(c, 6) = v6
        /\ Code(c, 7) = v7
        /\ Code(c, 8) = v8
    BY <1>1, <2>1, CodePut, CellIs
  <2>3. GoodBoard(c)
    BY <1>12, <2>2, Zenon DEF Good, GoodBoard, SoundBoard, SumsTo
  <2> QED
    BY <1>1, <1>6, <1>12, <2>1, <2>3, CellIs
<1>13. CASE v3 = 0 /\ Good(v0, v1, v2, 4, v4, v5, v6, v7, v8)
  <2>1. PICK c : c = Put(a, 3, "O")
    OBVIOUS
  <2>2. /\ Code(c, 0) = v0
        /\ Code(c, 1) = v1
        /\ Code(c, 2) = v2
        /\ Code(c, 3) = 4
        /\ Code(c, 4) = v4
        /\ Code(c, 5) = v5
        /\ Code(c, 6) = v6
        /\ Code(c, 7) = v7
        /\ Code(c, 8) = v8
    BY <1>1, <2>1, CodePut, CellIs
  <2>3. GoodBoard(c)
    BY <1>13, <2>2, Zenon DEF Good, GoodBoard, SoundBoard, SumsTo
  <2> QED
    BY <1>1, <1>6, <1>13, <2>1, <2>3, CellIs
<1>14. CASE v4 = 0 /\ Good(v0, v1, v2, v3, 4, v5, v6, v7, v8)
  <2>1. PICK c : c = Put(a, 4, "O")
    OBVIOUS
  <2>2. /\ Code(c, 0) = v0
        /\ Code(c, 1) = v1
        /\ Code(c, 2) = v2
        /\ Code(c, 3) = v3
        /\ Code(c, 4) = 4
        /\ Code(c, 5) = v5
        /\ Code(c, 6) = v6
        /\ Code(c, 7) = v7
        /\ Code(c, 8) = v8
    BY <1>1, <2>1, CodePut, CellIs
  <2>3. GoodBoard(c)
    BY <1>14, <2>2, Zenon DEF Good, GoodBoard, SoundBoard, SumsTo
  <2> QED
    BY <1>1, <1>6, <1>14, <2>1, <2>3, CellIs
<1>15. CASE v5 = 0 /\ Good(v0, v1, v2, v3, v4, 4, v6, v7, v8)
  <2>1. PICK c : c = Put(a, 5, "O")
    OBVIOUS
  <2>2. /\ Code(c, 0) = v0
        /\ Code(c, 1) = v1
        /\ Code(c, 2) = v2
        /\ Code(c, 3) = v3
        /\ Code(c, 4) = v4
        /\ Code(c, 5) = 4
        /\ Code(c, 6) = v6
        /\ Code(c, 7) = v7
        /\ Code(c, 8) = v8
    BY <1>1, <2>1, CodePut, CellIs
  <2>3. GoodBoard(c)
    BY <1>15, <2>2, Zenon DEF Good, GoodBoard, SoundBoard, SumsTo
  <2> QED
    BY <1>1, <1>6, <1>15, <2>1, <2>3, CellIs
<1>16. CASE v6 = 0 /\ Good(v0, v1, v2, v3, v4, v5, 4, v7, v8)
  <2>1. PICK c : c = Put(a, 6, "O")
    OBVIOUS
  <2>2. /\ Code(c, 0) = v0
        /\ Code(c, 1) = v1
        /\ Code(c, 2) = v2
        /\ Code(c, 3) = v3
        /\ Code(c, 4) = v4
        /\ Code(c, 5) = v5
        /\ Code(c, 6) = 4
        /\ Code(c, 7) = v7
        /\ Code(c, 8) = v8
    BY <1>1, <2>1, CodePut, CellIs
  <2>3. GoodBoard(c)
    BY <1>16, <2>2, Zenon DEF Good, GoodBoard, SoundBoard, SumsTo
  <2> QED
    BY <1>1, <1>6, <1>16, <2>1, <2>3, CellIs
<1>17. CASE v7 = 0 /\ Good(v0, v1, v2, v3, v4, v5, v6, 4, v8)
  <2>1. PICK c : c = Put(a, 7, "O")
    OBVIOUS
  <2>2. /\ Code(c, 0) = v0
        /\ Code(c, 1) = v1
        /\ Code(c, 2) = v2
        /\ Code(c, 3) = v3
        /\ Code(c, 4) = v4
        /\ Code(c, 5) = v5
        /\ Code(c, 6) = v6
        /\ Code(c, 7) = 4
        /\ Code(c, 8) = v8
    BY <1>1, <2>1, CodePut, CellIs
  <2>3. GoodBoard(c)
    BY <1>17, <2>2, Zenon DEF Good, GoodBoard, SoundBoard, SumsTo
  <2> QED
    BY <1>1, <1>6, <1>17, <2>1, <2>3, CellIs
<1>18. CASE v8 = 0 /\ Good(v0, v1, v2, v3, v4, v5, v6, v7, 4)
  <2>1. PICK c : c = Put(a, 8, "O")
    OBVIOUS
  <2>2. /\ Code(c, 0) = v0
        /\ Code(c, 1) = v1
        /\ Code(c, 2) = v2
        /\ Code(c, 3) = v3
        /\ Code(c, 4) = v4
        /\ Code(c, 5) = v5
        /\ Code(c, 6) = v6
        /\ Code(c, 7) = v7
        /\ Code(c, 8) = 4
    BY <1>1, <2>1, CodePut, CellIs
  <2>3. GoodBoard(c)
    BY <1>18, <2>2, Zenon DEF Good, GoodBoard, SoundBoard, SumsTo
  <2> QED
    BY <1>1, <1>6, <1>18, <2>1, <2>3, CellIs
<1> QED
  BY <1>2, <1>5, <1>10, <1>11, <1>12, <1>13, <1>14, <1>15, <1>16, <1>17, <1>18, Zenon DEF Answered

LEMMA HeldIfO ==
  ASSUME NEW b \in Ttt!Boards, NEW m \in BOOLEAN, Ttt!Winner(b) = "O"
  PROVE  Held(b, m)
<1>1. ASSUME NEW d, Deep(b, d) PROVE ValueAt(b, d, m) >= 0
  <2>1. ValueAt(b, d, m) = 10 - d /\ d <= 9 /\ d \in Nat
    BY <1>1, ValueAtIs DEF Deep
  <2> QED
    BY <2>1
<1> QED
  BY <1>1 DEF Held

LEMMA HeldIfFull ==
  ASSUME NEW b \in Ttt!Boards, NEW m \in BOOLEAN, Ttt!Winner(b) # "X", Ttt!Free(b) = {}
  PROVE  Held(b, m)
<1>1. CASE Ttt!Winner(b) = "O"
  BY <1>1, HeldIfO
<1>2. CASE Ttt!Winner(b) = "empty"
  <2>1. ASSUME NEW d, Deep(b, d) PROVE ValueAt(b, d, m) >= 0
    <3>1. ValueAt(b, d, m) = 0
      BY <1>2, <2>1, ValueAtIs
    <3> QED
      BY <3>1
  <2> QED
    BY <2>1 DEF Held
<1> QED
  BY <1>1, <1>2, WinnerAmong

LEMMA HeldIfReply ==
  ASSUME NEW b \in Ttt!Boards, Ttt!Winner(b) # "X",
         NEW j \in Ttt!Free(b), Held(Put(b, j, "O"), FALSE)
  PROVE  Held(b, TRUE)
<1>1. CASE Ttt!Winner(b) = "O"
  BY <1>1, HeldIfO
<1>2. CASE Ttt!Winner(b) = "empty"
  <2>1. PICK c : c = Put(b, j, "O")
    OBVIOUS
  <2>2. c \in Ttt!Boards /\ Deep(c, 0 + 1)
    BY <2>1, DeepZero, DeepNext DEF Ttt!Players
  <2>3. ValueAt(c, 0 + 1, FALSE) \in Int /\ ValueAt(c, 0 + 1, FALSE) >= 0
    BY <2>1, <2>2, ValueAtIs DEF Held
  <2>4. Open(b)
    BY <1>2 DEF Open
  <2>5. ValueAt(b, 0, TRUE) \in Int /\ ValueAt(b, 0, TRUE) >= ChildValue(b, 0, TRUE, j)
    BY <2>4, DeepZero, ValueAtIs
  <2>6. ChildValue(b, 0, TRUE, j) = ValueAt(c, 0 + 1, FALSE)
    BY <2>1 DEF ChildValue, Turn
  <2>7. PICK v, w : v = ValueAt(b, 0, TRUE) /\ w = ValueAt(c, 0 + 1, FALSE)
    OBVIOUS
  <2>8. v \in Int /\ w \in Int /\ v >= w /\ w >= 0
    BY <2>3, <2>5, <2>6, <2>7, Zenon
  <2>9. v >= 0
    BY <2>8
  <2> QED
    BY <2>7, <2>9, DeepZero, HeldBySign
<1> QED
  BY <1>1, <1>2, WinnerAmong

LEMMA HeldIfAll ==
  ASSUME NEW b \in Ttt!Boards, Ttt!Winner(b) # "X",
         \A i \in Ttt!Free(b) : Held(Put(b, i, "X"), TRUE)
  PROVE  Held(b, FALSE)
<1>1. CASE Ttt!Winner(b) = "O"
  BY <1>1, HeldIfO
<1>2. CASE Ttt!Free(b) = {}
  BY <1>2, HeldIfFull
<1>3. CASE Open(b)
  <2>1. PICK i \in Ttt!Free(b) : ValueAt(b, 0, FALSE) = ChildValue(b, 0, FALSE, i)
    BY <1>3, DeepZero, ValueAtIs
  <2>2. PICK c : c = Put(b, i, "X")
    OBVIOUS
  <2>3. c \in Ttt!Boards /\ Deep(c, 0 + 1)
    BY <2>2, DeepZero, DeepNext DEF Ttt!Players
  <2>4. ValueAt(c, 0 + 1, TRUE) >= 0
    BY <2>2, <2>3 DEF Held
  <2>5. ChildValue(b, 0, FALSE, i) = ValueAt(c, 0 + 1, TRUE)
    BY <2>2 DEF ChildValue, Turn
  <2>6. ValueAt(b, 0, FALSE) >= 0
    BY <2>1, <2>4, <2>5, Zenon
  <2> QED
    BY <2>6, DeepZero, HeldBySign
<1> QED
  BY <1>1, <1>2, <1>3, WinnerAmong DEF Open

LEMMA SoundHeld ==
  ASSUME NEW b \in Ttt!Boards, SoundBoard(b)
  PROVE  Held(b, FALSE)
<1> DEFINE Bad(c) == SoundBoard(c) /\ ~ Held(c, FALSE)
           Fails == {n \in Nat : \E c \in Ttt!Boards : Rank(c) = n /\ Bad(c)}
<1> SUFFICES ASSUME Fails # {} PROVE FALSE
  BY FreeFinite
<1>1. PICK n \in Fails : \A k \in Fails : n <= k
  BY LeastExists
<1>2. PICK c \in Ttt!Boards : Rank(c) = n /\ Bad(c)
  OBVIOUS
<1>3. ASSUME NEW e \in Ttt!Boards, Rank(e) < n, SoundBoard(e) PROVE Held(e, FALSE)
  <2>1. Rank(e) \in Nat /\ n \in Nat /\ ~ (n <= Rank(e))
    BY <1>3, FreeFinite
  <2>2. Rank(e) \notin Fails
    BY <1>1, <2>1
  <2> QED
    BY <1>3, <2>1, <2>2
<1> HIDE DEF Fails
<1>4. ASSUME NEW i \in Ttt!Free(c) PROVE Held(Put(c, i, "X"), TRUE)
  <2>1. PICK a : a = Put(c, i, "X")
    OBVIOUS
  <2>2. a \in Ttt!Boards /\ Rank(a) = n - 1 /\ AnsweredBoard(a)
    BY <1>2, <2>1, PutFrees, SoundThenAnswered DEF Ttt!Players
  <2>3. Ttt!Winner(a) # "X"
    BY <2>2, AnswerIs
  <2>4. CASE Ttt!Free(a) = {}
    BY <2>1, <2>2, <2>3, <2>4, HeldIfFull
  <2>5. CASE Ttt!Free(a) # {}
    <3>1. PICK j \in Ttt!Free(a) : GoodBoard(Put(a, j, "O"))
      BY <2>2, <2>5, AnswerIs
    <3>2. PICK e : e = Put(a, j, "O")
      OBVIOUS
    <3>3. e \in Ttt!Boards /\ Rank(e) = Rank(a) - 1
      BY <2>2, <3>2, PutFrees DEF Ttt!Players
    <3>4. Rank(e) \in Nat /\ Rank(a) \in Nat /\ n \in Nat
      BY <1>2, FreeFinite
    <3>5. Held(e, FALSE)
      <4>1. CASE SoundBoard(e)
        <5>1. Rank(e) < n
          BY <2>2, <3>3, <3>4
        <5> QED
          BY <1>3, <3>3, <4>1, <5>1
      <4>2. CASE SumsTo(12, e) /\ ~ SumsTo(3, e)
        BY <3>3, <4>2, OWon, HeldIfO
      <4> QED
        BY <3>1, <3>2, <4>1, <4>2 DEF GoodBoard
    <3> QED
      BY <2>1, <2>2, <2>3, <3>2, <3>5, HeldIfReply
  <2> QED
    BY <2>4, <2>5
<1>5. ~ SumsTo(3, c)
  BY <1>2 DEF SoundBoard, Sound, SumsTo
<1> QED
  BY <1>2, <1>4, <1>5, NotXWon, HeldIfAll

\* The nine openings with the reply to each.
LEMMA FirstReplySound ==
  /\ Sound(1, 0, 0, 0, 4, 0, 0, 0, 0) /\ Sound(0, 1, 0, 0, 4, 0, 0, 0, 0)
  /\ Sound(0, 0, 1, 0, 4, 0, 0, 0, 0) /\ Sound(0, 0, 0, 1, 4, 0, 0, 0, 0)
  /\ Sound(4, 0, 0, 0, 1, 0, 0, 0, 0) /\ Sound(0, 0, 0, 0, 4, 1, 0, 0, 0)
  /\ Sound(0, 0, 0, 0, 4, 0, 1, 0, 0) /\ Sound(0, 0, 0, 0, 4, 0, 0, 1, 0)
  /\ Sound(0, 0, 0, 0, 4, 0, 0, 0, 1)
BY DEF Sound, NoFork, LineSums, Two, Net

LEMMA BlankIs ==
  /\ Ttt!Blank \in Ttt!Boards /\ Ttt!Free(Ttt!Blank) = Ttt!Cells
  /\ \A k \in Ttt!Cells : Code(Ttt!Blank, k) = 0
  /\ Ttt!Winner(Ttt!Blank) = "empty"
<1>1. Ttt!Blank \in Ttt!Boards /\ Ttt!Free(Ttt!Blank) = Ttt!Cells
  BY DEF Ttt!Blank, Ttt!Boards, Ttt!Marks, Ttt!Free
<1>2. \A k \in Ttt!Cells : Code(Ttt!Blank, k) = 0
  BY DEF Ttt!Blank, Code
<1> QED
  BY <1>1, <1>2, NoLine, WinnerIs

\* O takes the centre, or a corner if X has the centre.
Reply(i) == IF i = 4 THEN 0 ELSE 4

LEMMA OpeningSound ==
  ASSUME NEW i \in Ttt!Cells
  PROVE  SoundBoard(Put(Put(Ttt!Blank, i, "X"), Reply(i), "O"))
<1>1. PICK a : a = Put(Ttt!Blank, i, "X")
  OBVIOUS
<1>2. PICK c : c = Put(a, Reply(i), "O")
  OBVIOUS
<1>3. a \in Ttt!Boards /\ Reply(i) \in Ttt!Cells /\ "X" \in Ttt!Players /\ "O" \in Ttt!Players
  BY <1>1, BlankIs, PutFrees DEF Ttt!Players, Reply, Ttt!Cells
<1>4. \A k \in Ttt!Cells : Code(a, k) = IF k = i THEN 1 ELSE 0
  BY <1>1, BlankIs, CodePut
<1>5. \A k \in Ttt!Cells : Code(c, k) = IF k = Reply(i) THEN 4 ELSE IF k = i THEN 1 ELSE 0
  BY <1>2, <1>3, <1>4, CodePut
<1>6. /\ Code(c, 0) = IF i = 4 THEN 4 ELSE IF i = 0 THEN 1 ELSE 0
      /\ Code(c, 1) = IF i = 1 THEN 1 ELSE 0
      /\ Code(c, 2) = IF i = 2 THEN 1 ELSE 0
      /\ Code(c, 3) = IF i = 3 THEN 1 ELSE 0
      /\ Code(c, 4) = IF i = 4 THEN 1 ELSE 4
      /\ Code(c, 5) = IF i = 5 THEN 1 ELSE 0
      /\ Code(c, 6) = IF i = 6 THEN 1 ELSE 0
      /\ Code(c, 7) = IF i = 7 THEN 1 ELSE 0
      /\ Code(c, 8) = IF i = 8 THEN 1 ELSE 0
  BY <1>5, CellIs DEF Reply
<1>7. SoundBoard(c)
  BY <1>6, CellIs, FirstReplySound DEF SoundBoard
<1> QED
  BY <1>1, <1>2, <1>7

LEMMA BlankHeld == Held(Ttt!Blank, FALSE)
<1>1. ASSUME NEW i \in Ttt!Free(Ttt!Blank) PROVE Held(Put(Ttt!Blank, i, "X"), TRUE)
  <2>1. PICK a : a = Put(Ttt!Blank, i, "X")
    OBVIOUS
  <2>2. a \in Ttt!Boards /\ Ttt!Free(a) = Ttt!Cells \ {i} /\ i \in Ttt!Cells
    BY <2>1, BlankIs, PutFrees DEF Ttt!Players
  <2>3. Reply(i) \in Ttt!Free(a)
    BY <2>2 DEF Reply, Ttt!Cells
  <2>4. PICK c : c = Put(a, Reply(i), "O")
    OBVIOUS
  <2>5. c \in Ttt!Boards /\ SoundBoard(c)
    BY <2>1, <2>2, <2>3, <2>4, OpeningSound, PutFrees DEF Ttt!Players
  <2>6. Held(c, FALSE)
    BY <2>5, SoundHeld
  <2>7. Ttt!Winner(a) # "X"
    <3>1. \A k \in Ttt!Cells : Code(a, k) = IF k = i THEN 1 ELSE 0
      BY <2>1, <2>2, BlankIs, CodePut
    <3>2. ~ SumsTo(3, a)
      BY <3>1, CellIs DEF SumsTo, LineSums
    <3> QED
      BY <3>2, NotXWon
  <2> QED
    BY <2>1, <2>2, <2>3, <2>4, <2>6, <2>7, HeldIfReply
<1>2. Ttt!Winner(Ttt!Blank) # "X"
  BY BlankIs
<1> QED
  BY <1>1, <1>2, BlankIs, HeldIfAll

-----------------------------------------------------------------------------
(* The hard CPU takes a cell with the best score, so it keeps what can be  *)
(* held; and the invariant of the round is that the board is held.         *)

\* The score of cell i in ttt_pick_cpu_move_hard.
HardScore(b, i) == ValueAt(Put(b, i, "O"), 0, FALSE)

LEMMA HardScoreIs ==
  ASSUME NEW b \in Ttt!Boards, NEW i \in Ttt!Free(b)
  PROVE  Put(b, i, "O") \in Ttt!Boards /\ HardScore(b, i) \in Range10
<1>1. PICK c : c = Put(b, i, "O")
  OBVIOUS
<1>2. c \in Ttt!Boards
  BY <1>1, PutFrees DEF Ttt!Players
<1>3. ValueAt(c, 0, FALSE) \in Int /\ 0 - 10 <= ValueAt(c, 0, FALSE) /\ ValueAt(c, 0, FALSE) <= 10 - 0
  BY <1>2, DeepZero, ValueAtIs
<1>4. PICK v : v = ValueAt(c, 0, FALSE)
  OBVIOUS
<1>5. v \in Int /\ 0 - 10 <= v /\ v <= 10 - 0
  BY <1>3, <1>4
<1>6. v \in Range10
  BY <1>5 DEF Range10
<1> QED
  BY <1>1, <1>2, <1>4, <1>6 DEF HardScore

\* The move of the hard CPU is a free cell with the best score.
LEMMA HardMoveIsBest ==
  ASSUME NEW b \in Ttt!Boards, Ttt!Free(b) # {}
  PROVE  /\ Ttt!HardMove(b) \in Ttt!Free(b)
         /\ \A j \in Ttt!Free(b) : HardScore(b, Ttt!HardMove(b)) >= HardScore(b, j)
<1> DEFINE Pair(i) == [cell |-> i, score |-> HardScore(b, i)]
<1>1. PICK F : F = Ttt!Free(b)
  OBVIOUS
<1>2. PICK scored : scored = {Pair(i) : i \in F}
  OBVIOUS
<1>3. Ttt!HardMove(b) = Ttt!Best(scored)
  BY <1>1, <1>2 DEF Ttt!HardMove, HardScore, ValueAt, Value, Put
<1>4. \A i \in F : HardScore(b, i) \in Range10 /\ i \in Nat
  BY <1>1, HardScoreIs DEF Ttt!Free, Ttt!Cells
<1>5. PICK top \in {HardScore(b, i) : i \in F} : \A y \in {HardScore(b, i) : i \in F} : top >= y
  <2>1. {HardScore(b, i) : i \in F} # {} /\ {HardScore(b, i) : i \in F} \subseteq Range10
    BY <1>1, <1>4
  <2> QED
    BY <2>1, GreatestIn
<1>6. PICK low \in {i \in F : HardScore(b, i) = top} : \A j \in {i \in F : HardScore(b, i) = top} : low <= j
  <2>1. {i \in F : HardScore(b, i) = top} # {} /\ {i \in F : HardScore(b, i) = top} \subseteq Nat
    BY <1>4, <1>5
  <2> QED
    BY <2>1, LeastExists
<1> DEFINE Beats(s, t) == s.score > t.score \/ (s.score = t.score /\ s.cell <= t.cell)
<1>7. Pair(low) \in scored
  BY <1>2, <1>6
<1>8. ASSUME NEW j \in F PROVE Beats(Pair(low), Pair(j))
  <2>1. HardScore(b, low) = top /\ top >= HardScore(b, j) /\ top \in Int /\ HardScore(b, j) \in Int
    BY <1>4, <1>5, <1>6 DEF Range10
  <2>2. CASE HardScore(b, j) = top
    <3>1. low <= j
      BY <1>6, <2>2
    <3> QED
      BY <2>1, <2>2, <3>1
  <2>3. CASE HardScore(b, j) # top
    BY <2>1, <2>3
  <2> QED
    BY <2>2, <2>3
<1>9. \A t \in scored : Beats(Pair(low), t)
  BY <1>2, <1>8
<1>10. PICK s : s = CHOOSE r \in scored : \A t \in scored : Beats(r, t)
  OBVIOUS
<1>11. s \in scored /\ \A t \in scored : Beats(s, t)
  BY <1>7, <1>9, <1>10
<1>12. Ttt!Best(scored) = s.cell
  BY <1>10 DEF Ttt!Best
<1>13. PICK i \in F : s = Pair(i)
  BY <1>2, <1>11
<1>14. Ttt!HardMove(b) = i
  BY <1>3, <1>12, <1>13
<1>15. ASSUME NEW j \in F PROVE HardScore(b, i) >= HardScore(b, j)
  <2>1. Pair(j) \in scored
    BY <1>2
  <2>2. Beats(Pair(i), Pair(j))
    BY <1>11, <1>13, <2>1
  <2>3. HardScore(b, i) > HardScore(b, j) \/ HardScore(b, i) = HardScore(b, j)
    BY <2>2
  <2>4. HardScore(b, i) \in Int /\ HardScore(b, j) \in Int
    BY <1>4 DEF Range10
  <2> QED
    BY <2>3, <2>4
<1> QED
  BY <1>1, <1>14, <1>15

LEMMA HardMoveHolds ==
  ASSUME NEW b \in Ttt!Boards, Held(b, TRUE), Open(b)
  PROVE  Held(Put(b, Ttt!HardMove(b), "O"), FALSE)
<1>1. PICK i \in Ttt!Free(b) : Held(Put(b, i, "O"), FALSE)
  BY HeldReply
<1>2. PICK h : h = Ttt!HardMove(b)
  OBVIOUS
<1>3. h \in Ttt!Free(b) /\ HardScore(b, h) >= HardScore(b, i)
  BY <1>2, HardMoveIsBest DEF Open
<1>4. HardScore(b, h) \in Int /\ HardScore(b, i) \in Int /\ Put(b, h, "O") \in Ttt!Boards
  BY <1>3, HardScoreIs DEF Range10
<1>5. HardScore(b, i) >= 0
  BY <1>1, DeepZero DEF Held, HardScore
<1>6. HardScore(b, h) >= 0
  BY <1>3, <1>4, <1>5
<1> QED
  BY <1>2, <1>4, <1>6, DeepZero, HeldBySign DEF HardScore

LEMMA FinishedMode ==
  ASSUME NEW k, k = [f \in Fields |-> k[f]] PROVE Ttt!Finished(k).mode = k.mode
<1>1. CASE Ttt!Winner(k.board) # "empty"
  <2>1. Ttt!Finished(k) = [k EXCEPT !.winner = Ttt!Winner(k.board), !.win_line = Ttt!WinnerLine(k.board),
                      !.state = "result"]
    BY <1>1, Zenon DEF Ttt!Finished
  <2> QED
    BY <2>1 DEF Fields
<1>2. CASE Ttt!Winner(k.board) = "empty" /\ k.moves >= 9
  <2>1. Ttt!Finished(k) = [k EXCEPT !.winner = "empty", !.win_line = -1, !.state = "result"]
    BY <1>2, Zenon DEF Ttt!Finished
  <2> QED
    BY <2>1 DEF Fields
<1>3. CASE Ttt!Winner(k.board) = "empty" /\ ~ (k.moves >= 9)
  BY <1>3, Zenon DEF Ttt!Finished
<1> QED
  BY <1>1, <1>2, <1>3

\* What a move to a free cell leaves, if the round is not over before it.
LEMMA MoveMakes ==
  ASSUME NEW g, GameOk(g), g.state = "playing", NEW i \in Ttt!Free(g.board),
         NEW m, m = Ttt!ApplyMove(g, i)
  PROVE  /\ m.board = Put(g.board, i, g.current_player)
         /\ m.mode = g.mode
         /\ m.state = "playing" => m.current_player = IF g.current_player = "X" THEN "O" ELSE "X"
<1>1. PICK p, c : p = g.current_player /\ c = Put(g.board, i, p)
  OBVIOUS
<1>2. g = [f \in Fields |-> g[f]]
  BY DEF GameOk, IsGame
<1>3. PICK k : k = [g EXCEPT !.board[i] = p, !.cursor = i, !.moves = @ + 1]
  OBVIOUS
<1>4. /\ k = [f \in Fields |-> k[f]]
      /\ k.board = c /\ k.mode = g.mode /\ k.current_player = p
  <2>1. k = [f \in Fields |-> k[f]]
    BY <1>2, <1>3
  <2>2. k.board = c /\ k.mode = g.mode /\ k.current_player = p
    BY <1>1, <1>2, <1>3 DEF Fields, Put
  <2> QED
    BY <2>1, <2>2
<1>5. PICK h : h = Ttt!Marked(g, i)
  OBVIOUS
<1>6. h = Ttt!Finished(k)
  BY <1>1, <1>3, <1>5 DEF Ttt!Marked
<1>7. /\ h = [f \in Fields |-> h[f]]
      /\ h.board = c /\ h.mode = g.mode /\ h.current_player = p
  BY <1>4, <1>6, FinishedIs, FinishedMode DEF Ended
<1>8. m = IF h.state = "playing"
            THEN [h EXCEPT !.current_player = IF @ = "X" THEN "O" ELSE "X"] ELSE h
  BY <1>5 DEF Ttt!ApplyMove
<1>9. CASE h.state = "playing"
  <2>1. PICK n : n = IF p = "X" THEN "O" ELSE "X"
    OBVIOUS
  <2>2. m = [h EXCEPT !.current_player = n]
    BY <1>7, <1>8, <1>9, <2>1
  <2>3. m.board = c /\ m.mode = g.mode /\ m.current_player = n
    BY <1>7, <2>2 DEF Fields
  <2> QED
    BY <1>1, <2>1, <2>3
<1>10. CASE h.state # "playing"
  BY <1>1, <1>7, <1>8, <1>10
<1> QED
  BY <1>9, <1>10

\* In hard mode the CPU has not lost, and can still avoid it.
HardOk(g) ==
  g.mode = "hard" =>
    /\ Ttt!Winner(g.board) # "X"
    /\ g.state = "playing" /\ g.current_player = "X" => Held(g.board, FALSE)
    /\ g.state = "playing" /\ g.current_player = "O" => Held(g.board, TRUE)

LEMMA OpenIfPlaying ==
  ASSUME NEW g, GameOk(g), g.state = "playing"
  PROVE  Open(g.board) /\ g.board \in Ttt!Boards
BY DEF GameOk, IsGame, Matches, Ttt!Over, Open

LEMMA FreshHard ==
  ASSUME NEW g, g.board = Ttt!Blank, g.current_player = "X" PROVE HardOk(g)
BY BlankIs, BlankHeld DEF HardOk

LEMMA CpuHolds ==
  ASSUME NEW g, GameOk(g), HardOk(g), Ttt!IsCpuTurn(g), g.mode = "hard"
  PROVE  HardOk(Ttt!ApplyMove(g, Ttt!HardMove(g.board)))
<1>1. PICK b, i, m, c : /\ b = g.board /\ i = Ttt!HardMove(b) /\ m = Ttt!ApplyMove(g, i)
                        /\ c = Put(b, i, "O")
  OBVIOUS
<1>2. g.state = "playing" /\ g.current_player = "O"
  BY DEF Ttt!IsCpuTurn
<1>3. Open(b) /\ b \in Ttt!Boards /\ Held(b, TRUE)
  BY <1>1, <1>2, OpenIfPlaying DEF HardOk
<1>4. i \in Ttt!Free(b)
  BY <1>1, <1>3, HardMoveIsBest DEF Open
<1>5. Held(c, FALSE) /\ c \in Ttt!Boards
  BY <1>1, <1>3, <1>4, HardMoveHolds, PutFrees DEF Ttt!Players
<1>6. Ttt!Winner(c) # "X"
  BY <1>5, HeldNotLost
<1>7. m.board = c /\ (m.state = "playing" => m.current_player = "X")
  BY <1>1, <1>2, <1>4, MoveMakes
<1> QED
  BY <1>1, <1>5, <1>6, <1>7 DEF HardOk

LEMMA PlayerHolds ==
  ASSUME NEW g, GameOk(g), HardOk(g), g.state = "playing", ~ Ttt!IsCpuTurn(g), NEW i
  PROVE  HardOk(Ttt!ApplyMove(g, i))
<1>1. PICK b, m, c : b = g.board /\ m = Ttt!ApplyMove(g, i) /\ c = Put(b, i, "X")
  OBVIOUS
<1>2. CASE i \notin Ttt!Free(b)
  <2>1. m = g
    BY <1>1, <1>2 DEF Ttt!ApplyMove
  <2> QED
    BY <1>1, <2>1
<1>3. CASE i \in Ttt!Free(b) /\ g.mode # "hard"
  <2>1. m.mode # "hard"
    BY <1>1, <1>3, MoveMakes
  <2> QED
    BY <1>1, <2>1 DEF HardOk
<1>4. CASE i \in Ttt!Free(b) /\ g.mode = "hard"
  <2>1. g.current_player = "X"
    BY <1>4 DEF Ttt!IsCpuTurn, GameOk, IsGame, Ttt!Players
  <2>2. Open(b) /\ b \in Ttt!Boards /\ Held(b, FALSE)
    BY <1>1, <1>4, <2>1, OpenIfPlaying DEF HardOk
  <2>3. Held(c, TRUE) /\ c \in Ttt!Boards
    BY <1>1, <1>4, <2>2, HeldAfterX, PutFrees DEF Ttt!Players
  <2>4. Ttt!Winner(c) # "X"
    BY <2>3, HeldNotLost
  <2>5. m.board = c /\ (m.state = "playing" => m.current_player = "O")
    BY <1>1, <1>4, <2>1, MoveMakes
  <2> QED
    BY <1>1, <2>3, <2>4, <2>5 DEF HardOk
<1> QED
  BY <1>2, <1>3, <1>4

LEMMA EasyHolds ==
  ASSUME NEW g, GameOk(g), Ttt!IsCpuTurn(g), g.mode # "hard", NEW i
  PROVE  HardOk(Ttt!ApplyMove(g, i))
<1>1. PICK m : m = Ttt!ApplyMove(g, i)
  OBVIOUS
<1>2. g.state = "playing"
  BY DEF Ttt!IsCpuTurn
<1>3. CASE i \notin Ttt!Free(g.board)
  <2>1. m = g
    BY <1>1, <1>3 DEF Ttt!ApplyMove
  <2> QED
    BY <1>1, <2>1 DEF HardOk
<1>4. CASE i \in Ttt!Free(g.board)
  <2>1. m.mode = g.mode
    BY <1>1, <1>2, <1>4, MoveMakes
  <2> QED
    BY <1>1, <2>1 DEF HardOk
<1> QED
  BY <1>3, <1>4

LEMMA ResetHard ==
  ASSUME NEW g, g = [f \in Fields |-> g[f]] PROVE HardOk(Ttt!Reset(g))
<1>1. PICK h : h = Ttt!Reset(g)
  OBVIOUS
<1>2. h.board = Ttt!Blank /\ h.current_player = "X"
  BY <1>1 DEF Ttt!Reset, Fields
<1> QED
  BY <1>1, <1>2, FreshHard

LEMMA HardKept == GameOk(game) /\ HardOk(game) /\ [Ttt!Next]_tttVars => HardOk(game')
<1> SUFFICES ASSUME GameOk(game), HardOk(game), [Ttt!Next]_tttVars PROVE HardOk(game')
  OBVIOUS
<1>1. CASE SameRound(game', game) /\ game'.mode = game.mode
  BY <1>1 DEF SameRound, HardOk
<1>2. CASE \E g : g = [f \in Fields |-> g[f]] /\ game' = Ttt!Reset(g)
  BY <1>2, ResetHard
<1>3. CASE game' = Ttt!FirstGame
  <2>1. game'.board = Ttt!Blank /\ game'.current_player = "X"
    BY <1>3 DEF Ttt!FirstGame
  <2> QED
    BY <2>1, FreshHard
<1>4. CASE /\ game.state = "playing" /\ ~ Ttt!IsCpuTurn(game)
           /\ game' = Ttt!ApplyMove(game, game.cursor)
  BY <1>4, PlayerHolds
<1>5. CASE Ttt!CpuTurn
  <2>1. CASE game.mode = "hard"
    BY <1>5, <2>1, CpuHolds DEF Ttt!CpuTurn
  <2>2. CASE game.mode # "hard"
    BY <1>5, <2>2, EasyHolds DEF Ttt!CpuTurn
  <2> QED
    BY <2>1, <2>2
<1> QED
  BY <1>1, <1>2, <1>3, <1>4, <1>5, TttStep

\* HardNeverLoses, from every opening and through every round and change of mode
\* (tictactoe_task.c:425-467, 514-544).
THEOREM HardIsUnbeaten == Spec => []HardNeverLoses
<1> DEFINE Inv == front = "tictactoe" => GameOk(game) /\ HardOk(game)
<1>1. Init => Inv
  <2>1. ASSUME Ttt!Init PROVE GameOk(game) /\ HardOk(game)
    <3>1. game = Ttt!FirstGame
      BY <2>1 DEF Ttt!Init
    <3>2. game.board = Ttt!Blank /\ game.current_player = "X"
      BY <3>1 DEF Ttt!FirstGame
    <3> QED
      BY <3>1, <3>2, FirstOk, FreshHard
  <2> QED
    BY <2>1 DEF Init
<1>2. Inv /\ [Next]_vars => Inv'
  <2>1. ASSUME GameOk(game), HardOk(game), [Ttt!Next]_tttVars PROVE GameOk(game)' /\ HardOk(game)'
    <3>1. HardOk(game)' <=> HardOk(game')
      BY DEF HardOk
    <3> QED
      BY <2>1, <3>1, TttKept, HardKept
  <2> QED
    BY <2>1, Turns
<1>3. Inv => HardNeverLoses
  <2>1. ASSUME GameOk(game), HardOk(game) PROVE Ttt!HardNeverLoses
    BY <2>1 DEF GameOk, Matches, HardOk, Ttt!HardNeverLoses
  <2> QED
    BY <2>1 DEF HardNeverLoses
<1> QED
  BY <1>1, <1>2, <1>3, PTL DEF Spec

-----------------------------------------------------------------------------
(* One move ahead.                                                         *)

LEMMA LineStays ==
  ASSUME NEW b \in Ttt!Boards, NEW j \in Ttt!Cells, NEW q, NEW p, NEW n \in 1 .. 8
  PROVE  /\ q # p /\ CompleteBy(Put(b, j, q), n, p) => CompleteBy(b, n, p)
         /\ b[j] # p /\ CompleteBy(b, n, p) => CompleteBy(Put(b, j, q), n, p)
<1>1. \A k \in 1 .. 3 : Cell(n, k) \in Ttt!Cells
  BY LinesInside
<1>2. \A k \in Ttt!Cells : Put(b, j, q)[k] = IF k = j THEN q ELSE b[k]
  BY DEF Put, Ttt!Boards
<1> QED
  BY <1>1, <1>2 DEF CompleteBy

LEMMA LineWins ==
  ASSUME NEW b \in Ttt!Boards, Ttt!Complete(b) = {}, NEW i \in Ttt!Cells, NEW p \in Ttt!Players,
         NEW n \in 1 .. 8, CompleteBy(Put(b, i, p), n, p)
  PROVE  Ttt!Winner(Put(b, i, p)) = p
<1>1. PICK c, q : c = Put(b, i, p) /\ q = Ttt!Winner(c)
  OBVIOUS
<1>2. n \in Ttt!Complete(c)
  BY <1>1, CompleteIs
<1>3. q \in Ttt!Players
  BY <1>1, <1>2, WinnerIs
<1>4. PICK l \in 1 .. 8 : CompleteBy(c, l, q)
  BY <1>1, <1>3, WinnerHasLine
<1>5. ASSUME q # p PROVE FALSE
  <2>1. CompleteBy(b, l, q)
    BY <1>1, <1>4, <1>5, LineStays
  <2> QED
    BY <1>3, <2>1, CompleteIs
<1> QED
  BY <1>1, <1>5

LEMMA NoneComplete ==
  ASSUME NEW b, Ttt!Winner(b) = "empty" PROVE Ttt!Complete(b) = {}
BY WinnerIs DEF Ttt!Players

\* A mark of the other player does not win, and one that wins may be set later.
LEMMA NoWinForOther ==
  ASSUME NEW b \in Ttt!Boards, Open(b), NEW i \in Ttt!Cells
  PROVE  Ttt!Winner(Put(b, i, "O")) # "X"
<1>1. ASSUME Ttt!Winner(Put(b, i, "O")) = "X" PROVE FALSE
  <2>1. PICK n \in 1 .. 8 : CompleteBy(Put(b, i, "O"), n, "X")
    BY <1>1, WinnerHasLine DEF Ttt!Players
  <2>2. CompleteBy(b, n, "X")
    BY <2>1, LineStays
  <2> QED
    BY <2>2, NoneComplete, CompleteIs DEF Open, Ttt!Players
<1> QED
  BY <1>1

LEMMA BelowWin ==
  ASSUME NEW c \in Ttt!Boards, NEW m \in BOOLEAN, NEW d, Deep(c, d)
  PROVE  /\ Ttt!Winner(c) # "O" => ValueAt(c, d, m) <= 9 - d
         /\ Ttt!Winner(c) # "X" => ValueAt(c, d, m) >= d - 9
<1>1. PICK v : v = ValueAt(c, d, m)
  OBVIOUS
<1>2. d \in Nat /\ d <= 9
  BY ValueAtIs DEF Deep
<1>3. CASE Ttt!Winner(c) = "O"
  <2>1. v = 10 - d
    BY <1>1, <1>3, ValueAtIs
  <2>2. v >= d - 9
    BY <1>2, <2>1
  <2> QED
    BY <1>1, <1>3, <2>2
<1>4. CASE Ttt!Winner(c) = "X"
  <2>1. v = d - 10
    BY <1>1, <1>4, ValueAtIs
  <2>2. v <= 9 - d
    BY <1>2, <2>1
  <2> QED
    BY <1>1, <1>4, <2>2
<1>5. CASE Ttt!Winner(c) = "empty" /\ Ttt!Free(c) = {}
  <2>1. v = 0
    BY <1>1, <1>5, ValueAtIs
  <2>2. v <= 9 - d /\ v >= d - 9
    BY <1>2, <2>1
  <2> QED
    BY <1>1, <2>2
<1>6. CASE Open(c)
  <2>1. PICK i \in Ttt!Free(c) : v = ChildValue(c, d, m, i)
    BY <1>1, <1>6, ValueAtIs
  <2>2. PICK e : e = Put(c, i, Turn(m))
    OBVIOUS
  <2>3. e \in Ttt!Boards /\ Deep(e, d + 1) /\ (~ m) \in BOOLEAN
    BY <2>2, TurnIs, DeepNext
  <2>4. PICK w : w = ValueAt(e, d + 1, ~ m)
    OBVIOUS
  <2>5. w \in Int /\ (d + 1) - 10 <= w /\ w <= 10 - (d + 1)
    BY <2>3, <2>4, ValueAtIs
  <2>6. v = w
    BY <2>1, <2>2, <2>4 DEF ChildValue
  <2>7. v <= 9 - d /\ v >= d - 9
    BY <1>2, <2>5, <2>6
  <2> QED
    BY <1>1, <2>7
<1> QED
  BY <1>3, <1>4, <1>5, <1>6, WinnerAmong DEF Open

LEMMA WinningIs ==
  ASSUME NEW b, NEW p
  PROVE  /\ Ttt!Winning(b, p) \subseteq Ttt!Free(b)
         /\ \A i \in Ttt!Free(b) : i \in Ttt!Winning(b, p) <=> Ttt!Winner(Put(b, i, p)) = p
BY DEF Ttt!Winning, Put

\* A win is the only move that scores 10; a move that leaves a threat scores -9,
\* and the one that meets the only threat scores more.
LEMMA HardWins ==
  ASSUME NEW b \in Ttt!Boards, Open(b), Ttt!Winning(b, "O") # {}
  PROVE  Ttt!HardMove(b) \in Ttt!Winning(b, "O")
<1>1. PICK h : h = Ttt!HardMove(b)
  OBVIOUS
<1>2. h \in Ttt!Free(b) /\ \A j \in Ttt!Free(b) : HardScore(b, h) >= HardScore(b, j)
  BY <1>1, HardMoveIsBest DEF Open
<1>3. PICK i \in Ttt!Winning(b, "O") : TRUE
  OBVIOUS
<1>4. i \in Ttt!Free(b) /\ Ttt!Winner(Put(b, i, "O")) = "O"
  BY <1>3, WinningIs
<1>5. Put(b, i, "O") \in Ttt!Boards /\ Put(b, h, "O") \in Ttt!Boards
  BY <1>2, <1>4, HardScoreIs
<1>6. HardScore(b, i) = 10 - 0
  BY <1>4, <1>5, DeepZero, ValueAtIs DEF HardScore
<1>7. ASSUME Ttt!Winner(Put(b, h, "O")) # "O" PROVE FALSE
  <2>1. HardScore(b, h) <= 9 - 0
    BY <1>5, <1>7, DeepZero, BelowWin DEF HardScore
  <2>2. HardScore(b, h) \in Int
    BY <1>2, HardScoreIs DEF Range10
  <2> QED
    BY <1>2, <1>4, <1>6, <2>1, <2>2
<1> QED
  BY <1>1, <1>2, <1>7, WinningIs

LEMMA ThreatIsLow ==
  ASSUME NEW b \in Ttt!Boards, Open(b), Ttt!Winning(b, "O") = {}, NEW t \in Ttt!Winning(b, "X"),
         NEW h \in Ttt!Free(b), h # t
  PROVE  HardScore(b, h) <= -9
<1>1. t \in Ttt!Free(b) /\ Ttt!Winner(Put(b, t, "X")) = "X"
  BY WinningIs
<1>2. t \in Ttt!Cells /\ h \in Ttt!Cells /\ "X" \in Ttt!Players /\ "O" \in Ttt!Players
  BY <1>1 DEF Ttt!Free, Ttt!Players
<1>3. PICK c : c = Put(b, h, "O")
  OBVIOUS
<1>4. c \in Ttt!Boards /\ t \in Ttt!Free(c)
  BY <1>1, <1>2, <1>3, PutFrees
<1>5. Ttt!Winner(c) = "empty"
  <2>1. Ttt!Winner(c) # "O"
    BY <1>3, WinningIs
  <2> QED
    BY <1>2, <1>3, <2>1, NoWinForOther, WinnerAmong
<1>6. PICK e : e = Put(c, t, "X")
  OBVIOUS
<1>7. e \in Ttt!Boards /\ Deep(e, 0 + 1)
  BY <1>2, <1>4, <1>6, DeepZero, DeepNext
<1>8. Ttt!Winner(e) = "X"
  <2>1. PICK n \in 1 .. 8 : CompleteBy(Put(b, t, "X"), n, "X")
    BY <1>1, <1>2, WinnerHasLine
  <2>2. PICK f : f = Put(b, t, "X")
    OBVIOUS
  <2>3. f \in Ttt!Boards /\ f[h] # "X"
    BY <1>1, <1>2, <2>2, PutFrees DEF Put, Ttt!Boards, Ttt!Free
  <2>4. CompleteBy(Put(f, h, "O"), n, "X")
    BY <1>2, <2>1, <2>2, <2>3, LineStays
  <2>5. Put(f, h, "O") = e
    BY <1>2, <1>3, <1>6, <2>2 DEF Put, Ttt!Boards
  <2> QED
    BY <1>2, <1>4, <1>5, <1>6, <2>4, <2>5, NoneComplete, LineWins
<1>9. ValueAt(e, 0 + 1, TRUE) = (0 + 1) - 10
  BY <1>7, <1>8, ValueAtIs
<1>10. ValueAt(c, 0, FALSE) <= ChildValue(c, 0, FALSE, t) /\ ValueAt(c, 0, FALSE) \in Int
  BY <1>4, <1>5, DeepZero, ValueAtIs DEF Open
<1>11. ChildValue(c, 0, FALSE, t) = ValueAt(e, 0 + 1, TRUE)
  BY <1>6 DEF ChildValue, Turn
<1>12. PICK v : v = ValueAt(c, 0, FALSE)
  OBVIOUS
<1>13. v \in Int /\ v <= (0 + 1) - 10
  BY <1>9, <1>10, <1>11, <1>12, Zenon
<1>14. v <= -9
  BY <1>13
<1> QED
  BY <1>3, <1>12, <1>14 DEF HardScore

LEMMA BlockIsHigher ==
  ASSUME NEW b \in Ttt!Boards, Open(b), NEW t, Ttt!Winning(b, "X") = {t}
  PROVE  HardScore(b, t) >= -8
<1>1. t \in Ttt!Free(b)
  BY WinningIs
<1>2. t \in Ttt!Cells /\ "X" \in Ttt!Players /\ "O" \in Ttt!Players
  BY <1>1 DEF Ttt!Free, Ttt!Players
<1>3. PICK c : c = Put(b, t, "O")
  OBVIOUS
<1>4. c \in Ttt!Boards /\ Ttt!Free(c) = Ttt!Free(b) \ {t}
  BY <1>1, <1>2, <1>3, PutFrees
<1>5. Ttt!Winner(c) # "X"
  BY <1>2, <1>3, NoWinForOther
<1>6. PICK v : v = ValueAt(c, 0, FALSE)
  OBVIOUS
<1>7. CASE Ttt!Winner(c) = "O"
  <2>1. v = 10 - 0
    BY <1>4, <1>6, <1>7, DeepZero, ValueAtIs
  <2>2. v >= -8
    BY <2>1
  <2> QED
    BY <1>3, <1>6, <2>2 DEF HardScore
<1>8. CASE Ttt!Winner(c) = "empty" /\ Ttt!Free(c) = {}
  <2>1. v = 0
    BY <1>4, <1>6, <1>8, DeepZero, ValueAtIs
  <2>2. v >= -8
    BY <2>1
  <2> QED
    BY <1>3, <1>6, <2>2 DEF HardScore
<1>9. CASE Open(c)
  <2>1. PICK i \in Ttt!Free(c) : v = ChildValue(c, 0, FALSE, i)
    BY <1>4, <1>6, <1>9, DeepZero, ValueAtIs
  <2>2. PICK e : e = Put(c, i, "X")
    OBVIOUS
  <2>3. e \in Ttt!Boards /\ Deep(e, 0 + 1)
    BY <1>2, <1>4, <2>2, DeepZero, DeepNext
  <2>4. i \in Ttt!Free(b) /\ i # t /\ i \in Ttt!Cells
    BY <1>4 DEF Ttt!Free
  <2>5. Ttt!Winner(e) # "X"
    <3>1. ASSUME Ttt!Winner(e) = "X" PROVE FALSE
      <4>1. PICK n \in 1 .. 8 : CompleteBy(e, n, "X")
        BY <1>2, <3>1, WinnerHasLine
      <4>2. PICK f : f = Put(b, i, "X")
        OBVIOUS
      <4>3. f \in Ttt!Boards /\ e = Put(f, t, "O")
        BY <1>2, <1>3, <2>2, <2>4, <4>2, PutFrees DEF Put, Ttt!Boards
      <4>4. CompleteBy(f, n, "X")
        BY <1>2, <4>1, <4>3, LineStays
      <4>5. Ttt!Winner(f) = "X"
        BY <1>2, <2>4, <4>2, <4>4, NoneComplete, LineWins DEF Open
      <4> QED
        BY <2>4, <4>2, <4>5, WinningIs
    <3> QED
      BY <3>1
  <2>6. PICK w : w = ValueAt(e, 0 + 1, TRUE)
    OBVIOUS
  <2>7. w >= (0 + 1) - 9
    BY <2>3, <2>5, <2>6, BelowWin
  <2>8. v = w
    BY <2>1, <2>2, <2>6 DEF ChildValue, Turn
  <2>9. w \in Int
    BY <2>3, <2>6, ValueAtIs
  <2>10. v >= -8
    BY <2>7, <2>8, <2>9
  <2> QED
    BY <1>3, <1>6, <2>10 DEF HardScore
<1> QED
  BY <1>5, <1>7, <1>8, <1>9, WinnerAmong DEF Open

LEMMA HardBlocks ==
  ASSUME NEW b \in Ttt!Boards, Open(b), Ttt!Winning(b, "O") = {}, NEW t, Ttt!Winning(b, "X") = {t}
  PROVE  Ttt!HardMove(b) = t
<1>1. PICK h : h = Ttt!HardMove(b)
  OBVIOUS
<1>2. t \in Ttt!Free(b)
  BY WinningIs
<1>3. h \in Ttt!Free(b) /\ HardScore(b, h) >= HardScore(b, t)
  BY <1>1, <1>2, HardMoveIsBest DEF Open
<1>4. ASSUME h # t PROVE FALSE
  <2>1. HardScore(b, h) <= -9
    BY <1>3, <1>4, ThreatIsLow
  <2>2. HardScore(b, t) >= -8
    BY BlockIsHigher
  <2>3. PICK v, w : v = HardScore(b, h) /\ w = HardScore(b, t)
    OBVIOUS
  <2>4. v \in Range10 /\ w \in Range10
    BY <1>2, <1>3, <2>3, HardScoreIs
  <2>5. v <= -9 /\ w >= -8 /\ v >= w /\ v \in Int /\ w \in Int
    BY <1>3, <2>1, <2>2, <2>3, <2>4 DEF Range10
  <2> QED
    BY <2>5
<1> QED
  BY <1>1, <1>4

LEMMA LeastCell ==
  ASSUME NEW S, S # {}, S \subseteq Ttt!Cells PROVE Ttt!Min(S) \in S
<1>1. S \subseteq Nat
  BY DEF Ttt!Cells
<1>2. \E x \in S : \A y \in S : x <= y
  BY <1>1, LeastExists
<1> QED
  BY <1>2 DEF Ttt!Min

LEMMA EasyLooks ==
  ASSUME NEW b
  PROVE  /\ Ttt!Winning(b, "O") # {} => Ttt!EasyMove(b) \in Ttt!Winning(b, "O")
         /\ Ttt!Winning(b, "O") = {} /\ Ttt!Winning(b, "X") # {} =>
              Ttt!EasyMove(b) \in Ttt!Winning(b, "X")
<1>1. Ttt!Winning(b, "O") \subseteq Ttt!Cells /\ Ttt!Winning(b, "X") \subseteq Ttt!Cells
  BY WinningIs DEF Ttt!Free
<1> QED
  BY <1>1, LeastCell DEF Ttt!EasyMove

LEMMA OnlyThreat ==
  ASSUME NEW b, Ttt!Cardinality(Ttt!Winning(b, "X")) = 1, NEW t \in Ttt!Winning(b, "X")
  PROVE  Ttt!Winning(b, "X") = {t}
<1>1. IsFiniteSet(Ttt!Winning(b, "X"))
  BY WinningIs, FreeFinite, FS_Subset
<1>2. Cardinality(Ttt!Winning(b, "X")) = 1
  BY SameCardinality
<1>3. \E x : Ttt!Winning(b, "X") = {x}
  BY <1>1, <1>2, FS_Singleton
<1> QED
  BY <1>3

LEMMA CpuMoves ==
  ASSUME GameOk(game), Ttt!CpuTurn, NEW b, b = game.board,
         NEW i, i = IF game.mode = "hard" THEN Ttt!HardMove(b) ELSE Ttt!EasyMove(b)
  PROVE  /\ Open(b) /\ b \in Ttt!Boards
         /\ i \in Ttt!Free(b) => game'.board = Put(b, i, "O") /\ game'.winner = Ttt!Winner(game'.board)
<1>1. game.state = "playing" /\ game.current_player = "O" /\ game' = Ttt!ApplyMove(game, i)
  BY DEF Ttt!CpuTurn, Ttt!IsCpuTurn
<1>2. Open(b) /\ b \in Ttt!Boards
  BY <1>1, OpenIfPlaying
<1>3. i \in Ttt!Free(b) => game'.board = Put(b, i, "O")
  BY <1>1, MoveMakes
<1>4. game'.winner = Ttt!Winner(game'.board)
  BY <1>1, MoveOk DEF GameOk, Matches
<1> QED
  BY <1>2, <1>3, <1>4

LEMMA CpuLooks == GameOk(game) => Ttt!CpuLooksAhead
<1> SUFFICES ASSUME GameOk(game), Ttt!CpuTurn, NEW b, b = game.board
             PROVE  IF Ttt!Winning(b, "O") # {} THEN game'.winner = "O"
                    ELSE Ttt!Cardinality(Ttt!Winning(b, "X")) = 1 =>
                           \A i \in Ttt!Winning(b, "X") : game'.board[i] = "O"
  BY DEF Ttt!CpuLooksAhead
<1>1. PICK i : i = IF game.mode = "hard" THEN Ttt!HardMove(b) ELSE Ttt!EasyMove(b)
  OBVIOUS
<1>2. /\ Open(b) /\ b \in Ttt!Boards
      /\ i \in Ttt!Free(b) => game'.board = Put(b, i, "O") /\ game'.winner = Ttt!Winner(game'.board)
  BY <1>1, CpuMoves
<1>3. CASE Ttt!Winning(b, "O") # {}
  <2>1. i \in Ttt!Winning(b, "O")
    BY <1>1, <1>2, <1>3, HardWins, EasyLooks
  <2>2. i \in Ttt!Free(b) /\ Ttt!Winner(Put(b, i, "O")) = "O"
    BY <2>1, WinningIs
  <2> QED
    BY <1>2, <1>3, <2>2
<1>4. ASSUME Ttt!Winning(b, "O") = {}, Ttt!Cardinality(Ttt!Winning(b, "X")) = 1,
             NEW t \in Ttt!Winning(b, "X")
      PROVE  game'.board[t] = "O"
  <2>1. Ttt!Winning(b, "X") = {t}
    BY <1>4, OnlyThreat
  <2>2. i = t
    BY <1>1, <1>2, <1>4, <2>1, HardBlocks, EasyLooks
  <2>3. t \in Ttt!Free(b) /\ t \in Ttt!Cells
    BY <2>1, WinningIs DEF Ttt!Free
  <2>4. Put(b, t, "O")[t] = "O"
    BY <1>2, <2>3 DEF Put, Ttt!Boards
  <2> QED
    BY <1>2, <2>2, <2>3, <2>4
<1> QED
  BY <1>3, <1>4

\* CpuSeesOneMoveAhead, for both players of the CPU (tictactoe_task.c:486-504).
THEOREM CpuIsNotSurprised == Spec => CpuSeesOneMoveAhead
<1> DEFINE Inv == front = "tictactoe" => GameOk(game)
<1>1. Init => Inv
  <2>1. ASSUME Ttt!Init PROVE GameOk(game)
    BY <2>1, FirstOk DEF Ttt!Init
  <2> QED
    BY <2>1 DEF Init
<1>2. Inv /\ [Next]_vars => Inv'
  BY Turns, TttKept
<1>3. Inv => [front = "tictactoe" => Ttt!CpuLooksAhead]_vars
  BY CpuLooks
<1> QED
  BY <1>1, <1>2, <1>3, PTL DEF Spec, CpuSeesOneMoveAhead

-----------------------------------------------------------------------------
(* The samples.  The history that env_task would keep without end is a     *)
(* fold of the ticks; the ring holds its newest entries, the d-th newest d  *)
(* cells before the next one to be written.                                *)

Spacing(s, t) == IF s = <<>> \/ t - Store!Last(s) >= Interval THEN Append(s, t) ELSE s

IsSpaces(q, g) ==
  g = [T \in SUBSET DOMAIN q |->
         IF T = {} THEN <<>> ELSE Spacing(g[T \ {Top(T)}], q[Top(T)])]

SpacedOf(q) == (CHOOSE g : IsSpaces(q, g))[DOMAIN q]

LEMMA SpacedIs == Store!Spaced = SpacedOf(taken) /\ (Store!Spaced)' = SpacedOf(taken')
<1>1. Store!Spaced = SpacedOf(taken)
  BY Zenon DEF Store!Spaced, Store!FoldLeft, Store!MapThenFoldSet, Store!Max, SpacedOf,
               IsSpaces, Spacing, Top
<1>2. (Store!Spaced)' = SpacedOf(taken')
  BY Zenon DEF Store!Spaced, Store!FoldLeft, Store!MapThenFoldSet, Store!Max, SpacedOf,
               IsSpaces, Spacing, Top
<1> QED
  BY <1>1, <1>2

SpacingStep == [p \in Seq(Nat) \X Nat |-> Spacing(p[1], p[2])]

LEMMA StepIs ==
  ASSUME NEW s \in Seq(Nat), NEW t \in Nat
  PROVE  SpacingStep[<<s, t>>] = Spacing(s, t) /\ Spacing(s, t) \in Seq(Nat)
<1>1. Append(s, t) \in Seq(Nat)
  OBVIOUS
<1> QED
  BY <1>1 DEF SpacingStep, Spacing

\* The recursion of FoldLeft is the one of the step function, as every set of
\* indices gives a sequence of ticks.
LEMMA SpacesAreFolds ==
  ASSUME NEW q \in Seq(Nat)
  PROVE  \E g : /\ IsFolds(SpacingStep, <<>>, q, g) /\ SpacedOf(q) = g[DOMAIN q]
                /\ \A T \in SUBSET DOMAIN q : g[T] \in Seq(Nat)
<1>1. PICK n \in Nat : n = Len(q) /\ DOMAIN q = 1 .. n
  OBVIOUS
<1>2. \A j \in 1 .. n : q[j] \in Nat
  BY <1>1
<1>3. <<>> \in Seq(Nat)
  OBVIOUS
<1>4. PICK f : IsFolds(SpacingStep, <<>>, q, f)
  BY <1>1, FoldsExist
<1>5. \A s \in Seq(Nat) : \A j \in 1 .. n : SpacingStep[<<s, q[j]>>] \in Seq(Nat)
  BY <1>2, StepIs
<1>6. \A T \in SUBSET DOMAIN q : f[T] \in Seq(Nat)
  BY <1>1, <1>3, <1>4, <1>5, FoldsTyped
<1>7. \A T \in SUBSET DOMAIN q :
        T # {} => Top(T) \in 1 .. n /\ T \ {Top(T)} \in SUBSET DOMAIN q
  BY <1>1, TopIn
<1>8. IsSpaces(q, f)
  <2>1. ASSUME NEW T \in SUBSET DOMAIN q, T # {}
        PROVE  f[T] = Spacing(f[T \ {Top(T)}], q[Top(T)])
    <3>1. f[T] = SpacingStep[<<f[T \ {Top(T)}], q[Top(T)]>>]
      BY <1>4, <2>1 DEF IsFolds
    <3>2. f[T \ {Top(T)}] \in Seq(Nat) /\ q[Top(T)] \in Nat
      BY <1>2, <1>6, <1>7, <2>1
    <3> QED
      BY <3>1, <3>2, StepIs
  <2>2. f[{}] = <<>> /\ f = [T \in SUBSET DOMAIN q |-> f[T]]
    BY <1>4 DEF IsFolds
  <2> QED
    BY <2>1, <2>2 DEF IsSpaces
<1>9. PICK g : g = CHOOSE x : IsSpaces(q, x)
  OBVIOUS
<1>10. IsSpaces(q, g)
  BY <1>8, <1>9
<1>11. PICK Fails : Fails = {T \in SUBSET (1 .. n) : g[T] \notin Seq(Nat)}
  OBVIOUS
<1>12. ASSUME NEW T \in Fails PROVE T # {} /\ T \ {Top(T)} \in Fails
  <2>1. T \in SUBSET DOMAIN q /\ g[T] \notin Seq(Nat)
    BY <1>1, <1>11
  <2>2. g[T] = IF T = {} THEN <<>> ELSE Spacing(g[T \ {Top(T)}], q[Top(T)])
    BY <1>10, <2>1 DEF IsSpaces
  <2>3. T # {}
    BY <1>3, <2>1, <2>2
  <2>4. g[T \ {Top(T)}] \notin Seq(Nat)
    BY <1>2, <1>7, <2>1, <2>2, <2>3, StepIs
  <2> QED
    BY <1>1, <1>7, <1>11, <2>1, <2>3, <2>4
<1>13. \A T \in SUBSET DOMAIN q : g[T] \in Seq(Nat)
  <2>1. Fails = {}
    BY <1>11, <1>12, NoTopFails
  <2> QED
    BY <1>1, <1>11, <2>1
<1>14. IsFolds(SpacingStep, <<>>, q, g)
  <2>1. ASSUME NEW T \in SUBSET DOMAIN q, T # {}
        PROVE  g[T] = SpacingStep[<<g[T \ {Top(T)}], q[Top(T)]>>]
    <3>1. g[T] = Spacing(g[T \ {Top(T)}], q[Top(T)])
      BY <1>10, <2>1 DEF IsSpaces
    <3>2. g[T \ {Top(T)}] \in Seq(Nat) /\ q[Top(T)] \in Nat
      BY <1>2, <1>7, <1>13, <2>1
    <3> QED
      BY <3>1, <3>2, StepIs
  <2>2. g[{}] = <<>> /\ g = [T \in SUBSET DOMAIN q |-> g[T]]
    BY <1>10 DEF IsSpaces
  <2> QED
    BY <2>1, <2>2 DEF IsFolds
<1> QED
  BY <1>9, <1>13, <1>14 DEF SpacedOf

LEMMA SpacedGrows ==
  /\ SpacedOf(<<>>) = <<>>
  /\ \A q \in Seq(Nat) : SpacedOf(q) \in Seq(Nat)
  /\ \A q \in Seq(Nat), t \in Nat : SpacedOf(Append(q, t)) = Spacing(SpacedOf(q), t)
<1>1. SpacedOf(<<>>) = <<>>
  <2>1. PICK g : IsFolds(SpacingStep, <<>>, <<>>, g) /\ SpacedOf(<<>>) = g[DOMAIN <<>>]
    <3>1. <<>> \in Seq(Nat)
      OBVIOUS
    <3> QED
      BY <3>1, SpacesAreFolds
  <2>2. DOMAIN <<>> = {}
    OBVIOUS
  <2> QED
    BY <2>1, <2>2 DEF IsFolds
<1>2. ASSUME NEW q \in Seq(Nat) PROVE SpacedOf(q) \in Seq(Nat)
  BY SpacesAreFolds
<1>3. ASSUME NEW q \in Seq(Nat), NEW t \in Nat
      PROVE  SpacedOf(Append(q, t)) = Spacing(SpacedOf(q), t)
  <2>1. PICK n \in Nat : n = Len(q) /\ DOMAIN q = 1 .. n
    OBVIOUS
  <2>2. PICK r : r = Append(q, t)
    OBVIOUS
  <2>3. /\ r \in Seq(Nat) /\ DOMAIN r = 1 .. n + 1 /\ r[n + 1] = t
        /\ \A j \in 1 .. n : q[j] = r[j]
    BY <2>1, <2>2
  <2>4. PICK g : /\ IsFolds(SpacingStep, <<>>, q, g) /\ SpacedOf(q) = g[DOMAIN q]
                 /\ \A T \in SUBSET DOMAIN q : g[T] \in Seq(Nat)
    BY SpacesAreFolds
  <2>5. PICK h : IsFolds(SpacingStep, <<>>, r, h) /\ SpacedOf(r) = h[DOMAIN r]
    BY <2>3, SpacesAreFolds
  <2>6. n + 1 \in Nat /\ n <= n + 1 /\ n <= n /\ n + 1 \in 1 .. n + 1 /\ (n + 1) - 1 = n
    BY <2>1
  <2>7. Upto(g, n) = Upto(h, n)
    <3>1. PICK m \in Nat : m = n + 1
      BY <2>6
    <3>2. SameUpto(q, r, n) /\ DOMAIN r = 1 .. m /\ n <= m
      BY <2>3, <2>6, <3>1 DEF SameUpto
    <3> QED
      BY <2>1, <2>4, <2>5, <2>6, <3>2, FoldsAgree
  <2>8. Stepwise(SpacingStep, <<>>, r, n + 1, h)
    BY <2>3, <2>5, <2>6, FoldsStepwise
  <2>9. Upto(h, n + 1) = SpacingStep[<<Upto(h, n), t>>]
    BY <2>3, <2>6, <2>8 DEF Stepwise
  <2>10. Upto(g, n) = SpacedOf(q) /\ Upto(h, n + 1) = SpacedOf(r)
    BY <2>1, <2>3, <2>4, <2>5 DEF Upto
  <2>11. SpacedOf(q) \in Seq(Nat)
    BY <1>2
  <2> QED
    BY <2>2, <2>7, <2>9, <2>10, <2>11, StepIs
<1> QED
  BY <1>1, <1>2, <1>3

-----------------------------------------------------------------------------
\* The cell that was written d cells before w.
Back(w, d) == IF w >= d THEN w - d ELSE w - d + HistorySize

SampleFields == {"tick", "valid", "own"}

\* The ring holds the newest entries of the history s.
RingOk(s) ==
  /\ write \in Nat /\ write < HistorySize
  /\ count = Store!Fewer(HistorySize, Len(s))
  /\ s # <<>> => last = s[Len(s)]
  /\ \A d \in 1 .. count : history[Back(write, d)] = Store!Whole(s[Len(s) + 1 - d])

LatestOk ==
  /\ taken = <<>> => ~ latest.valid
  /\ taken # <<>> => latest = Store!Whole(taken[Len(taken)])

SessionOk == taken \in Seq(Nat) /\ LatestOk /\ RingOk(SpacedOf(taken))

StoreType ==
  /\ now \in Nat
  /\ sample = [f \in SampleFields |-> sample[f]] /\ sample.tick \in Nat
  /\ latest = [f \in SampleFields |-> latest[f]]
  /\ history = [i \in Store!Slots |-> history[i]]

StoreOk ==
  /\ StoreType
  /\ stored => env_at \notin {"none", "init"}
  /\ env_at # "none" => SessionOk

LEMMA ModOnce ==
  ASSUME NEW n \in Nat \ {0}, NEW x \in Nat, x < 2 * n
  PROVE  x % n = IF x < n THEN x ELSE x - n
<1>1. CASE x < n
  BY <1>1, SMT
<1>2. CASE x >= n
  BY <1>2, SMT
<1> QED
  BY <1>1, <1>2

LEMMA FollowingIs ==
  ASSUME NEW w \in Nat, w < HistorySize
  PROVE  /\ Store!Following(w) = IF w + 1 < HistorySize THEN w + 1 ELSE 0
         /\ Store!Following(w) \in Nat /\ Store!Following(w) < HistorySize
         /\ Back(Store!Following(w), 1) = w
         /\ \A d \in Nat : 1 < d /\ d <= HistorySize =>
              /\ Back(Store!Following(w), d) = Back(w, d - 1)
              /\ Back(w, d - 1) # w
<1>1. HistorySize \in Nat /\ HistorySize > 0
  BY StoreAssumption
<1>2. (w + 1) % HistorySize = IF w + 1 < HistorySize THEN w + 1 ELSE 0
  BY <1>1, ModOnce
<1> QED
  BY <1>1, <1>2 DEF Store!Following, Back

LEMMA RingGrows ==
  ASSUME NEW s \in Seq(Nat), RingOk(s), NEW t \in Nat, StoreType,
         history' = [history EXCEPT ![write] = Store!Whole(t)],
         write' = Store!Following(write),
         count' = IF count < HistorySize THEN count + 1 ELSE count,
         last' = t
  PROVE  RingOk(Append(s, t))'
<1>1. HistorySize \in Nat /\ HistorySize > 0
  BY StoreAssumption
<1>2. PICK n \in Nat : n = Len(s)
  OBVIOUS
<1>3. PICK r : r = Append(s, t)
  OBVIOUS
<1>4. r \in Seq(Nat) /\ Len(r) = n + 1 /\ r[n + 1] = t /\ \A j \in 1 .. n : r[j] = s[j]
  BY <1>2, <1>3
<1>5. write \in Nat /\ write < HistorySize /\ count = Store!Fewer(HistorySize, n)
  BY <1>2 DEF RingOk
<1>6. count' = Store!Fewer(HistorySize, n + 1)
  BY <1>1, <1>2, <1>5 DEF Store!Fewer
<1>7. write' \in Nat /\ write' < HistorySize
  BY <1>5, FollowingIs
<1>8. ASSUME NEW d \in 1 .. count'
      PROVE  history'[Back(write', d)] = Store!Whole(r[(n + 1) + 1 - d])
  <2>1. d \in Nat /\ 1 <= d /\ d <= HistorySize /\ d <= n + 1
    BY <1>1, <1>2, <1>6, <1>8 DEF Store!Fewer
  <2>2. write \in Store!Slots
    BY <1>1, <1>5 DEF Store!Slots
  <2>3. CASE d = 1
    <3>1. Back(write', d) = write
      BY <1>5, <2>3, FollowingIs
    <3>2. history'[write] = Store!Whole(t)
      BY <2>2 DEF StoreType
    <3>3. (n + 1) + 1 - d = n + 1
      BY <1>2, <2>3
    <3> QED
      BY <1>4, <3>1, <3>2, <3>3
  <2>4. CASE d # 1
    <3>1. PICK e : e = d - 1
      OBVIOUS
    <3>2. e \in 1 .. count
      BY <1>1, <1>2, <1>5, <1>6, <1>8, <2>1, <2>4, <3>1 DEF Store!Fewer
    <3>3. Back(write', d) = Back(write, e) /\ Back(write, e) # write
      BY <1>5, <2>1, <2>4, <3>1, FollowingIs
    <3>4. history[Back(write, e)] = Store!Whole(s[n + 1 - e])
      BY <1>2, <3>2 DEF RingOk
    <3>5. Back(write, e) \in Store!Slots
      <4>1. e \in Nat /\ 1 <= e /\ e <= HistorySize
        BY <1>1, <1>2, <1>5, <3>2 DEF Store!Fewer
      <4> QED
        BY <1>1, <1>5, <4>1 DEF Store!Slots, Back
    <3>6. history'[Back(write, e)] = history[Back(write, e)]
      BY <3>3, <3>5 DEF StoreType
    <3>7. (n + 1) + 1 - d = n + 1 - e /\ n + 1 - e \in 1 .. n
      BY <1>2, <2>1, <2>4, <3>1
    <3> QED
      BY <1>4, <3>3, <3>4, <3>6, <3>7
  <2> QED
    BY <2>3, <2>4
<1> QED
  BY <1>3, <1>4, <1>6, <1>7, <1>8 DEF RingOk

LEMMA PushKeeps ==
  ASSUME SessionOk, StoreType, NEW t \in Nat, NEW g, g.tick = t,
         [g EXCEPT !.valid = TRUE] = Store!Whole(t),
         Store!Push(g), taken' = Append(taken, t)
  PROVE  SessionOk' /\ latest' = [f \in SampleFields |-> latest'[f]]
                    /\ history' = [i \in Store!Slots |-> history'[i]]
<1>1. HistorySize \in Nat /\ HistorySize > 0
  BY StoreAssumption
<1>2. PICK s : s = SpacedOf(taken)
  OBVIOUS
<1>3. taken \in Seq(Nat) /\ s \in Seq(Nat) /\ RingOk(s)
  BY <1>2, SpacedGrows DEF SessionOk
<1>4. SpacedOf(taken') = Spacing(s, t)
  BY <1>2, <1>3, SpacedGrows
<1>5. taken' \in Seq(Nat) /\ taken' # <<>> /\ taken'[Len(taken')] = t
  <2>1. \A q \in Seq(Nat) : /\ Append(q, t) \in Seq(Nat) /\ Append(q, t) # <<>>
                           /\ Append(q, t)[Len(Append(q, t))] = t
    OBVIOUS
  <2> QED
    BY <1>3, <2>1, Zenon
<1>6. latest' = Store!Whole(t)
  BY DEF Store!Push
<1>7. LatestOk'
  BY <1>5, <1>6 DEF LatestOk
<1>8. latest' = [f \in SampleFields |-> latest'[f]]
  BY <1>6 DEF Store!Whole, SampleFields
<1>9. (count = 0 \/ t - last >= Interval) <=> (s = <<>> \/ t - Store!Last(s) >= Interval)
  <2>1. count = 0 <=> s = <<>>
    BY <1>1, <1>3 DEF RingOk, Store!Fewer
  <2>2. s # <<>> => last = Store!Last(s)
    BY <1>3 DEF RingOk, Store!Last
  <2> QED
    BY <2>1, <2>2
<1>10. CASE count = 0 \/ t - last >= Interval
  <2>1. /\ history' = [history EXCEPT ![write] = Store!Whole(t)]
        /\ write' = Store!Following(write)
        /\ count' = IF count < HistorySize THEN count + 1 ELSE count
        /\ last' = t
    BY <1>10, Zenon DEF Store!Push
  <2>2. SpacedOf(taken') = Append(s, t)
    BY <1>4, <1>9, <1>10 DEF Spacing
  <2>3. RingOk(Append(s, t))'
    BY <1>3, <2>1, RingGrows
  <2>4. history' = [i \in Store!Slots |-> history'[i]]
    BY <2>1 DEF StoreType
  <2> QED
    BY <1>5, <1>7, <1>8, <2>2, <2>3, <2>4 DEF SessionOk
<1>11. CASE ~ (count = 0 \/ t - last >= Interval)
  <2>1. UNCHANGED <<history, write, count, last>>
    BY <1>11, Zenon DEF Store!Push
  <2>2. SpacedOf(taken') = s
    BY <1>4, <1>9, <1>11 DEF Spacing
  <2>3. RingOk(s)'
    BY <1>3, <2>1 DEF RingOk
  <2>4. history' = [i \in Store!Slots |-> history'[i]]
    BY <2>1 DEF StoreType
  <2> QED
    BY <1>5, <1>7, <1>8, <2>2, <2>3, <2>4 DEF SessionOk
<1> QED
  BY <1>10, <1>11

LEMMA SessionSame ==
  ASSUME SessionOk, UNCHANGED <<taken, latest, history, write, count, last>>
  PROVE  SessionOk'
BY DEF SessionOk, LatestOk, RingOk

LEMMA ReadKeeps ==
  ASSUME StoreOk, NEW ok \in SUBSET Store!Quantities, Store!Read(ok)
  PROVE  StoreOk'
<1>1. StoreType /\ SessionOk
  BY DEF StoreOk, Store!Read
<1>2. env_at' = "sleep" /\ now' = now /\ stored' = stored
  BY DEF Store!Read
<1>3. PICK g : g = [sample EXCEPT !.own = ok]
  OBVIOUS
<1>4. g = [f \in SampleFields |-> g[f]] /\ g.tick = sample.tick /\ g.own = ok
  BY <1>1, <1>3 DEF StoreType, SampleFields
<1>5. g.tick \in Nat
  BY <1>1, <1>4 DEF StoreType
<1>6. CASE ok = Store!Quantities
  <2>1. /\ sample' = [g EXCEPT !.valid = TRUE] /\ Store!Push(g)
        /\ taken' = Append(taken, g.tick)
    BY <1>3, <1>6, Zenon DEF Store!Read
  <2>2. [g EXCEPT !.valid = TRUE] = Store!Whole(g.tick)
    <3>1. PICK h : h = [g EXCEPT !.valid = TRUE]
      OBVIOUS
    <3>2. h = [f \in SampleFields |-> h[f]]
      BY <1>4, <3>1
    <3>3. h.tick = g.tick /\ h.valid = TRUE /\ h.own = Store!Quantities
      BY <1>4, <1>6, <3>1 DEF SampleFields
    <3>4. h = [tick |-> h.tick, valid |-> h.valid, own |-> h.own]
      BY <3>2 DEF SampleFields
    <3> QED
      BY <3>1, <3>3, <3>4 DEF Store!Whole
  <2>3. /\ SessionOk' /\ latest' = [f \in SampleFields |-> latest'[f]]
        /\ history' = [i \in Store!Slots |-> history'[i]]
    BY <1>1, <1>5, <2>1, <2>2, PushKeeps
  <2>4. sample' = [f \in SampleFields |-> sample'[f]] /\ sample'.tick \in Nat
    BY <1>5, <2>1, <2>2 DEF Store!Whole, SampleFields
  <2> QED
    BY <1>1, <1>2, <2>3, <2>4 DEF StoreOk, StoreType
<1>7. CASE ok # Store!Quantities
  <2>1. sample' = g /\ UNCHANGED <<taken, latest, history, write, count, last>>
    BY <1>3, <1>7, Zenon DEF Store!Read, Store!store
  <2>2. SessionOk'
    BY <1>1, <2>1, SessionSame
  <2> QED
    BY <1>1, <1>2, <1>4, <1>5, <2>1, <2>2 DEF StoreOk, StoreType
<1> QED
  BY <1>6, <1>7

LEMMA StartKeeps == ASSUME StoreOk, Store!Start PROVE StoreOk'
<1>1. /\ taken' = <<>> /\ count' = 0 /\ write' = 0 /\ now' = 0 /\ stored' = FALSE
      /\ sample' = sample /\ history' = history /\ latest' = [latest EXCEPT !.valid = FALSE]
  BY DEF Store!Start, Store!Cleared
<1>2. latest' = [f \in SampleFields |-> latest'[f]] /\ ~ latest'.valid
  BY <1>1 DEF StoreOk, StoreType, SampleFields
<1>3. StoreType'
  BY <1>1, <1>2 DEF StoreOk, StoreType
<1>4. RingOk(<<>>)'
  <2>1. Len(<<>>) = 0
    OBVIOUS
  <2> QED
    BY <1>1, <2>1, StoreAssumption DEF RingOk, Store!Fewer
<1>5. SpacedOf(taken') = <<>>
  BY <1>1, SpacedGrows
<1>6. taken' \in Seq(Nat)
  <2>1. <<>> \in Seq(Nat)
    OBVIOUS
  <2> QED
    BY <1>1, <2>1
<1>7. SessionOk'
  BY <1>1, <1>2, <1>4, <1>5, <1>6 DEF SessionOk, LatestOk
<1> QED
  BY <1>1, <1>3, <1>7 DEF StoreOk

LEMMA StoreKept == StoreOk /\ [Store!Next]_storeVars => StoreOk'
<1> SUFFICES ASSUME StoreOk, [Store!Next]_storeVars PROVE StoreOk'
  OBVIOUS
<1>1. ASSUME UNCHANGED <<taken, latest, history, write, count, last>>,
             SessionOk \/ env_at' = "none", StoreType',
             stored' => env_at' \notin {"none", "init"}
      PROVE  StoreOk'
  BY <1>1, SessionSame DEF StoreOk
<1>2. ASSUME NEW ok \in SUBSET Store!Quantities, Store!Read(ok) PROVE StoreOk'
  BY <1>2, ReadKeeps
<1>3. CASE Store!Start
  BY <1>3, StartKeeps
<1>4. CASE Store!InitDone
  BY <1>1, <1>4 DEF Store!InitDone, StoreOk, StoreType, Store!store
<1>5. CASE Store!InitFails
  BY <1>1, <1>5 DEF Store!InitFails, StoreOk, StoreType, Store!store
<1>6. CASE Store!Stop
  BY <1>1, <1>6 DEF Store!Stop, StoreOk, StoreType, Store!store
<1>7. CASE Store!Turn
  <2>1. /\ sample' = [sample EXCEPT !.valid = FALSE, !.tick = now, !.own = {}]
        /\ UNCHANGED <<now, taken, latest, history, write, count, last>>
        /\ env_at = "turn" /\ env_at' = "read"
    BY <1>7 DEF Store!Turn, Store!store
  <2>2. sample' = [f \in SampleFields |-> sample'[f]] /\ sample'.tick \in Nat
    BY <2>1 DEF StoreOk, StoreType, SampleFields
  <2> QED
    BY <1>1, <2>1, <2>2 DEF StoreOk, StoreType
<1>8. ASSUME NEW late \in 0 .. Late, Store!Wake(late) PROVE StoreOk'
  <2>1. now' \in Nat
    BY <1>8, StoreAssumption DEF Store!Wake, StoreOk, StoreType
  <2> QED
    BY <1>1, <1>8, <2>1 DEF Store!Wake, StoreOk, StoreType, Store!store
<1>9. CASE UNCHANGED storeVars
  <2>1. StoreType' /\ env_at' = env_at /\ stored' = stored
    BY <1>9 DEF storeVars, StoreOk, StoreType
  <2> QED
    BY <1>1, <1>9, <2>1 DEF storeVars, StoreOk
<1> QED
  BY <1>2, <1>3, <1>4, <1>5, <1>6, <1>7, <1>8, <1>9 DEF Store!Next

\* What a reader gets follows from where the newest entries are.
LEMMA ReaderGets == StoreOk => Store!StoreIsRecentPast
<1> SUFFICES ASSUME StoreOk, stored PROVE Store!StoreIsRecentPast
  BY DEF Store!StoreIsRecentPast
<1>1. StoreType /\ SessionOk
  BY DEF StoreOk
<1>2. Store!GetLatest = IF taken = <<>> THEN {} ELSE {Store!Whole(Store!Last(taken))}
  <2>1. CASE taken = <<>>
    BY <1>1, <2>1 DEF SessionOk, LatestOk, Store!GetLatest
  <2>2. CASE taken # <<>>
    <3>1. latest = Store!Whole(Store!Last(taken))
      BY <1>1, <2>2 DEF SessionOk, LatestOk, Store!Last
    <3>2. latest.valid
      BY <3>1 DEF Store!Whole
    <3> QED
      BY <2>2, <3>1, <3>2 DEF Store!GetLatest
  <2> QED
    BY <2>1, <2>2
<1>3. PICK s : s = SpacedOf(taken)
  OBVIOUS
<1>4. s \in Seq(Nat) /\ RingOk(s) /\ Store!Spaced = s
  BY <1>1, <1>3, SpacedGrows, SpacedIs DEF SessionOk
<1>5. PICK size \in Nat : size = Len(s)
  BY <1>4
<1>6. HistorySize \in Nat /\ HistorySize > 0
  BY StoreAssumption
<1>7. /\ write \in Nat /\ write < HistorySize /\ count = Store!Fewer(HistorySize, size)
      /\ \A d \in 1 .. count : history[Back(write, d)] = Store!Whole(s[size + 1 - d])
  BY <1>4, <1>5 DEF RingOk
<1>8. ASSUME NEW max \in 1 .. HistorySize + 1,
             NEW n, n = Store!Fewer(max, Store!Fewer(HistorySize, size))
      PROVE  Store!GetHistory(max) = [i \in 1 .. n |-> Store!Whole(s[size - n + i])]
  <2>1. n \in Nat /\ n <= HistorySize /\ n <= size /\ n <= count
    BY <1>5, <1>6, <1>7, <1>8 DEF Store!Fewer
  <2>2. n = Store!Fewer(max, count)
    BY <1>7, <1>8
  <2>3. PICK start : start = (write + HistorySize - n) % HistorySize
    OBVIOUS
  <2>4. Store!GetHistory(max) = [i \in 1 .. n |-> history[(start + i - 1) % HistorySize]]
    BY <2>2, <2>3, Zenon DEF Store!GetHistory
  <2>5. start = IF write >= n THEN write - n ELSE write + HistorySize - n
    <3>1. /\ write + HistorySize - n \in Nat /\ write + HistorySize - n < 2 * HistorySize
      BY <1>6, <1>7, <2>1
    <3>2. PICK x \in Nat : x = write + HistorySize - n
      BY <3>1
    <3>3. x % HistorySize = IF x < HistorySize THEN x ELSE x - HistorySize
      BY <1>6, <3>1, <3>2, ModOnce
    <3> QED
      BY <1>6, <1>7, <2>1, <2>3, <3>2, <3>3
  <2>6. ASSUME NEW i \in 1 .. n
        PROVE  history[(start + i - 1) % HistorySize] = Store!Whole(s[size - n + i])
    <3>1. PICK d : d = n - i + 1
      OBVIOUS
    <3>2. d \in 1 .. count /\ d \in Nat /\ size + 1 - d = size - n + i
      BY <1>5, <1>6, <1>7, <2>1, <3>1 DEF Store!Fewer
    <3>3. start + i - 1 \in Nat /\ start + i - 1 < 2 * HistorySize
      BY <1>6, <1>7, <2>1, <2>5
    <3>4. PICK x \in Nat : x = start + i - 1
      BY <3>3
    <3>5. x % HistorySize = IF x < HistorySize THEN x ELSE x - HistorySize
      BY <1>6, <3>3, <3>4, ModOnce
    <3>6. x % HistorySize = Back(write, d)
      BY <1>6, <1>7, <2>1, <2>5, <3>1, <3>4, <3>5 DEF Back
    <3>7. history[x % HistorySize] = Store!Whole(s[size - n + i])
      BY <1>7, <3>2, <3>6
    <3> QED
      BY <3>4, <3>7, Zenon
  <2> QED
    BY <2>4, <2>6, Zenon
<1>9. \A max \in 1 .. HistorySize + 1 :
        LET n == Store!Fewer(max, Store!Fewer(HistorySize, Len(Store!Spaced)))
        IN  Store!GetHistory(max) =
              [i \in 1 .. n |-> Store!Whole(Store!Spaced[Len(Store!Spaced) - n + i])]
  <2>1. Store!Spaced = s /\ Len(s) = size
    BY <1>4, <1>5
  <2>2. \A max \in 1 .. HistorySize + 1 :
          LET n == Store!Fewer(max, Store!Fewer(HistorySize, Len(s)))
          IN  Store!GetHistory(max) = [i \in 1 .. n |-> Store!Whole(s[Len(s) - n + i])]
    <3>1. TAKE max \in 1 .. HistorySize + 1
    <3>2. PICK n : n = Store!Fewer(max, Store!Fewer(HistorySize, size))
      OBVIOUS
    <3>3. Store!GetHistory(max) = [i \in 1 .. n |-> Store!Whole(s[size - n + i])]
      BY <1>8, <3>2
    <3> QED
      BY <2>1, <3>2, <3>3, Zenon
  <2> QED
    BY <2>1, <2>2, Zenon
<1> QED
  BY <1>2, <1>9, Zenon DEF Store!StoreIsRecentPast

\* While env_task runs, a reader gets data of its session only: the last complete
\* sample, and the newest of the spaced ones, the oldest first, for every size of
\* the ring and every spacing (env_task.c:73-220).
THEOREM HistoryIsRecentPast == Spec => []StoreIsRecentPast
<1> DEFINE Inv == front = "store" => StoreOk
<1>1. Init => Inv
  <2>1. ASSUME Store!Init PROVE StoreOk
    BY <2>1 DEF Store!Init, StoreOk, StoreType, Store!NoSample, SampleFields
  <2> QED
    BY <2>1 DEF Init
<1>2. Inv /\ [Next]_vars => Inv'
  BY Turns, StoreKept
<1>3. Inv => StoreIsRecentPast
  BY ReaderGets DEF StoreIsRecentPast
<1> QED
  BY <1>1, <1>2, <1>3, PTL DEF Spec

-----------------------------------------------------------------------------
(* The game of life.  A glider goes through four pictures; the fifth is    *)
(* the first one, a cell further down and to the right.  The count of a    *)
(* cell's neighbours is taken apart into its eight looks, so that a step   *)
(* of each picture is a finite check (PhaseSteps), and the rule does not   *)
(* see where on the board, which has no edges, the glider is               *)
(* (NeighborsAre): that carries the check to every place.                  *)

\* Cell <<y, x>> lives in the i-th picture of a glider that starts at the upper
\* left corner.
Phase(i, y, x) ==
  \/ i = 0 /\ ((y = 1 /\ x = 2) \/ (y = 2 /\ x = 3) \/ (y = 3 /\ 1 <= x /\ x <= 3))
  \/ i = 1 /\ ((y = 2 /\ (x = 1 \/ x = 3)) \/ (y = 3 /\ (x = 2 \/ x = 3)) \/ (y = 4 /\ x = 2))
  \/ i = 2 /\ ((y = 2 /\ x = 3) \/ (y = 3 /\ (x = 1 \/ x = 3)) \/ (y = 4 /\ (x = 2 \/ x = 3)))
  \/ i = 3 /\ ((y = 2 /\ x = 2) \/ (y = 3 /\ (x = 3 \/ x = 4)) \/ (y = 4 /\ (x = 2 \/ x = 3)))
  \/ i = 4 /\ ((y = 2 /\ x = 3) \/ (y = 3 /\ x = 4) \/ (y = 4 /\ 2 <= x /\ x <= 4))

Mod8(n) == n % 8

Bit(P) == IF P THEN 1 ELSE 0

Around(i, y, x) ==
  Bit(Phase(i, Mod8(y + 7), Mod8(x + 7))) + Bit(Phase(i, Mod8(y + 7), x)) + Bit(Phase(i, Mod8(y + 7), Mod8(x + 1)))
  + Bit(Phase(i, y, Mod8(x + 7))) + Bit(Phase(i, y, Mod8(x + 1)))
  + Bit(Phase(i, Mod8(y + 1), Mod8(x + 7))) + Bit(Phase(i, Mod8(y + 1), x)) + Bit(Phase(i, Mod8(y + 1), Mod8(x + 1)))

LEMMA PhaseSteps ==
  ASSUME NEW i \in 0 .. 3, NEW y \in 0 .. 7, NEW x \in 0 .. 7
  PROVE  Phase(i + 1, y, x) <=> \/ Around(i, y, x) = 3
                                \/ Around(i, y, x) = 2 /\ Phase(i, y, x)
<1>1. CASE i = 0
  BY <1>1, SMTT(60) DEF Around, Phase, Bit, Mod8
<1>2. CASE i = 1
  BY <1>2, SMTT(60) DEF Around, Phase, Bit, Mod8
<1>3. CASE i = 2
  BY <1>3, SMTT(60) DEF Around, Phase, Bit, Mod8
<1>4. CASE i = 3
  BY <1>4, SMTT(60) DEF Around, Phase, Bit, Mod8
<1> QED
  BY <1>1, <1>2, <1>3, <1>4

LEMMA LifeCardinality == ASSUME NEW S PROVE Life!Cardinality(S) = Cardinality(S)
BY Zenon DEF Cardinality, Life!Cardinality

\* The cells that gol_count_neighbors looks at, and the middle.
Looks == (-1 .. 1) \X (-1 .. 1)

LEMMA Without ==
  ASSUME NEW S, IsFiniteSet(S), NEW d
  PROVE  /\ IsFiniteSet(S \ {d})
         /\ Cardinality(S) = Cardinality(S \ {d}) + Bit(d \in S)
<1>1. IsFiniteSet(S \ {d})
  BY FS_Subset
<1>2. CASE d \in S
  BY <1>1, <1>2, FS_RemoveElement, FS_CardinalityType DEF Bit
<1>3. CASE d \notin S
  <2>1. S \ {d} = S
    BY <1>3
  <2>2. Cardinality(S) \in Nat
    BY FS_CardinalityType
  <2>3. Bit(d \in S) = 0
    BY <1>3 DEF Bit
  <2>4. Cardinality(S) = Cardinality(S) + 0
    BY <2>2
  <2> QED
    BY <1>1, <2>1, <2>3, <2>4, Zenon
<1> QED
  BY <1>1, <1>2, <1>3

LEMMA CountEight ==
  ASSUME NEW S, S \subseteq Looks, <<0, 0>> \notin S
  PROVE  Cardinality(S) =
           Bit(<<-1, -1>> \in S) + Bit(<<-1, 0>> \in S) + Bit(<<-1, 1>> \in S)
           + Bit(<<0, -1>> \in S) + Bit(<<0, 1>> \in S)
           + Bit(<<1, -1>> \in S) + Bit(<<1, 0>> \in S) + Bit(<<1, 1>> \in S)
<1>1. \A d \in Looks : \/ d = <<-1, -1>> \/ d = <<-1, 0>> \/ d = <<-1, 1>>
                         \/ d = <<0, -1>> \/ d = <<0, 0>> \/ d = <<0, 1>>
                         \/ d = <<1, -1>> \/ d = <<1, 0>> \/ d = <<1, 1>>
  BY DEF Looks
<1>2. PICK a1, a2, a3, a4, a5, a6, a7, a8 :
        /\ a1 = <<-1, -1>> /\ a2 = <<-1, 0>> /\ a3 = <<-1, 1>> /\ a4 = <<0, -1>>
        /\ a5 = <<0, 1>> /\ a6 = <<1, -1>> /\ a7 = <<1, 0>> /\ a8 = <<1, 1>>
  OBVIOUS
<1>3. S \subseteq {a1, a2, a3, a4, a5, a6, a7, a8}
  BY <1>1, <1>2
<1>4. /\ a2 # a1
      /\ a3 # a1 /\ a3 # a2
      /\ a4 # a1 /\ a4 # a2 /\ a4 # a3
      /\ a5 # a1 /\ a5 # a2 /\ a5 # a3 /\ a5 # a4
      /\ a6 # a1 /\ a6 # a2 /\ a6 # a3 /\ a6 # a4 /\ a6 # a5
      /\ a7 # a1 /\ a7 # a2 /\ a7 # a3 /\ a7 # a4 /\ a7 # a5 /\ a7 # a6
      /\ a8 # a1 /\ a8 # a2 /\ a8 # a3 /\ a8 # a4 /\ a8 # a5 /\ a8 # a6 /\ a8 # a7
  BY <1>2
<1>5. PICK S1, S2, S3, S4, S5, S6, S7, S8 :
        /\ S1 = S \ {a1} /\ S2 = S1 \ {a2} /\ S3 = S2 \ {a3} /\ S4 = S3 \ {a4}
        /\ S5 = S4 \ {a5} /\ S6 = S5 \ {a6} /\ S7 = S6 \ {a7} /\ S8 = S7 \ {a8}
  OBVIOUS
<1>6. /\ (a2 \in S1) = (a2 \in S) /\ (a3 \in S2) = (a3 \in S) /\ (a4 \in S3) = (a4 \in S)
      /\ (a5 \in S4) = (a5 \in S) /\ (a6 \in S5) = (a6 \in S) /\ (a7 \in S6) = (a7 \in S)
      /\ (a8 \in S7) = (a8 \in S)
  BY <1>4, <1>5
<1>7. S8 = {}
  BY <1>3, <1>5
<1>8. IsFiniteSet({a1, a2, a3, a4, a5, a6, a7, a8})
  <2>1. IsFiniteSet({a1}) /\ IsFiniteSet({a2}) /\ IsFiniteSet({a3}) /\ IsFiniteSet({a4})
        /\ IsFiniteSet({a5}) /\ IsFiniteSet({a6}) /\ IsFiniteSet({a7}) /\ IsFiniteSet({a8})
    BY FS_Singleton
  <2>2. IsFiniteSet({a1} \cup {a2}) /\ IsFiniteSet({a3} \cup {a4})
        /\ IsFiniteSet({a5} \cup {a6}) /\ IsFiniteSet({a7} \cup {a8})
    BY <2>1, FS_Union
  <2>3. IsFiniteSet(({a1} \cup {a2}) \cup ({a3} \cup {a4}))
        /\ IsFiniteSet(({a5} \cup {a6}) \cup ({a7} \cup {a8}))
    BY <2>2, FS_Union
  <2>4. IsFiniteSet((({a1} \cup {a2}) \cup ({a3} \cup {a4})) \cup (({a5} \cup {a6}) \cup ({a7} \cup {a8})))
    BY <2>3, FS_Union
  <2>5. {a1, a2, a3, a4, a5, a6, a7, a8} = (({a1} \cup {a2}) \cup ({a3} \cup {a4})) \cup (({a5} \cup {a6}) \cup ({a7} \cup {a8}))
    OBVIOUS
  <2> QED
    BY <2>4, <2>5
<1>9. IsFiniteSet(S)
  BY <1>3, <1>8, FS_Subset
<1>10. /\ IsFiniteSet(S1) /\ Cardinality(S) = Cardinality(S1) + Bit(a1 \in S)
  BY <1>5, <1>9, Without
<1>11. /\ IsFiniteSet(S2) /\ Cardinality(S1) = Cardinality(S2) + Bit(a2 \in S1)
  BY <1>5, <1>10, Without
<1>12. /\ IsFiniteSet(S3) /\ Cardinality(S2) = Cardinality(S3) + Bit(a3 \in S2)
  BY <1>5, <1>11, Without
<1>13. /\ IsFiniteSet(S4) /\ Cardinality(S3) = Cardinality(S4) + Bit(a4 \in S3)
  BY <1>5, <1>12, Without
<1>14. /\ IsFiniteSet(S5) /\ Cardinality(S4) = Cardinality(S5) + Bit(a5 \in S4)
  BY <1>5, <1>13, Without
<1>15. /\ IsFiniteSet(S6) /\ Cardinality(S5) = Cardinality(S6) + Bit(a6 \in S5)
  BY <1>5, <1>14, Without
<1>16. /\ IsFiniteSet(S7) /\ Cardinality(S6) = Cardinality(S7) + Bit(a7 \in S6)
  BY <1>5, <1>15, Without
<1>17. /\ IsFiniteSet(S8) /\ Cardinality(S7) = Cardinality(S8) + Bit(a8 \in S7)
  BY <1>5, <1>16, Without
<1>18. Cardinality(S8) = 0
  BY <1>7, FS_EmptySet
<1>19. \A P : Bit(P) \in Nat
  BY DEF Bit
<1>20. PICK o1, o2, o3, o4, o5, o6, o7, o8 \in Nat :
         /\ o1 = Bit(a1 \in S) /\ o2 = Bit(a2 \in S) /\ o3 = Bit(a3 \in S) /\ o4 = Bit(a4 \in S)
         /\ o5 = Bit(a5 \in S) /\ o6 = Bit(a6 \in S) /\ o7 = Bit(a7 \in S) /\ o8 = Bit(a8 \in S)
  BY <1>19
<1>21. Cardinality(S) = o1 + o2 + o3 + o4 + o5 + o6 + o7 + o8
  BY <1>6, <1>10, <1>11, <1>12, <1>13, <1>14, <1>15, <1>16, <1>17, <1>18, <1>20
<1> QED
  BY <1>2, <1>20, <1>21

\* Where a row or a column is after k moves.
Placed(n, k) == (n + k) % 8

LEMMA WrappedPlaced ==
  ASSUME NEW k \in Nat, NEW y \in 0 .. 7
  PROVE  /\ Life!Wrapped(Placed(y, k) + (-1), 8) = Placed(Mod8(y + 7), k)
         /\ Life!Wrapped(Placed(y, k) + 0, 8) = Placed(y, k)
         /\ Life!Wrapped(Placed(y, k) + 1, 8) = Placed(Mod8(y + 1), k)
         /\ Mod8(y + 7) \in 0 .. 7 /\ Mod8(y + 1) \in 0 .. 7 /\ Placed(y, k) \in 0 .. 7
BY DEF Life!Wrapped, Placed, Mod8

\* The living cells of b are the i-th picture, moved k times.
Glides(b, k, i) ==
  \A y, x \in 0 .. 7 : b[<<Placed(y, k), Placed(x, k)>>] > 0 <=> Phase(i, y, x)

LEMMA NeighborsAre ==
  ASSUME NEW b, NEW k \in Nat, NEW i, NEW y \in 0 .. 7, NEW x \in 0 .. 7, Glides(b, k, i)
  PROVE  Life!Neighbors(b, Placed(y, k), Placed(x, k)) = Around(i, y, x)
<1> DEFINE lit(d) == b[<<Life!Wrapped(Placed(y, k) + d[1], 8), Life!Wrapped(Placed(x, k) + d[2], 8)>>] > 0
           S == {d \in Looks : d # <<0, 0>> /\ lit(d)}
<1>1. \A v, u \in 0 .. 7 : b[<<Placed(v, k), Placed(u, k)>>] > 0 <=> Phase(i, v, u)
  BY DEF Glides
<1>2. /\ lit(<<-1, -1>>) <=> Phase(i, Mod8(y + 7), Mod8(x + 7))
      /\ lit(<<-1, 0>>) <=> Phase(i, Mod8(y + 7), x)
      /\ lit(<<-1, 1>>) <=> Phase(i, Mod8(y + 7), Mod8(x + 1))
  BY <1>1, WrappedPlaced
<1>3. /\ lit(<<0, -1>>) <=> Phase(i, y, Mod8(x + 7))
      /\ lit(<<0, 1>>) <=> Phase(i, y, Mod8(x + 1))
  BY <1>1, WrappedPlaced
<1>4. /\ lit(<<1, -1>>) <=> Phase(i, Mod8(y + 1), Mod8(x + 7))
      /\ lit(<<1, 0>>) <=> Phase(i, Mod8(y + 1), x)
      /\ lit(<<1, 1>>) <=> Phase(i, Mod8(y + 1), Mod8(x + 1))
  BY <1>1, WrappedPlaced
<1>5. Life!Neighbors(b, Placed(y, k), Placed(x, k)) = Cardinality(S)
  BY LifeCardinality DEF Life!Neighbors, Looks
<1>6. /\ <<-1, -1>> \in S <=> lit(<<-1, -1>>)
      /\ <<-1, 0>> \in S <=> lit(<<-1, 0>>)
      /\ <<-1, 1>> \in S <=> lit(<<-1, 1>>)
      /\ <<0, -1>> \in S <=> lit(<<0, -1>>)
      /\ <<0, 1>> \in S <=> lit(<<0, 1>>)
      /\ <<1, -1>> \in S <=> lit(<<1, -1>>)
      /\ <<1, 0>> \in S <=> lit(<<1, 0>>)
      /\ <<1, 1>> \in S <=> lit(<<1, 1>>)
  <2> HIDE DEF lit
  <2>1. \A d : d \in S <=> d \in Looks /\ d # <<0, 0>> /\ lit(d)
    OBVIOUS
  <2>2. /\ <<-1, -1>> \in Looks /\ <<-1, 0>> \in Looks /\ <<-1, 1>> \in Looks
        /\ <<0, -1>> \in Looks /\ <<0, 1>> \in Looks
        /\ <<1, -1>> \in Looks /\ <<1, 0>> \in Looks /\ <<1, 1>> \in Looks
    BY DEF Looks
  <2>3. /\ <<-1, -1>> # <<0, 0>> /\ <<-1, 0>> # <<0, 0>> /\ <<-1, 1>> # <<0, 0>>
        /\ <<0, -1>> # <<0, 0>> /\ <<0, 1>> # <<0, 0>>
        /\ <<1, -1>> # <<0, 0>> /\ <<1, 0>> # <<0, 0>> /\ <<1, 1>> # <<0, 0>>
    OBVIOUS
  <2> HIDE DEF S
  <2> QED
    BY <2>1, <2>2, <2>3, Zenon
<1>7. S \subseteq Looks /\ <<0, 0>> \notin S
  OBVIOUS
<1> HIDE DEF lit, S
<1>8. Cardinality(S) =
           Bit(<<-1, -1>> \in S) + Bit(<<-1, 0>> \in S) + Bit(<<-1, 1>> \in S)
           + Bit(<<0, -1>> \in S) + Bit(<<0, 1>> \in S)
           + Bit(<<1, -1>> \in S) + Bit(<<1, 0>> \in S) + Bit(<<1, 1>> \in S)
  BY <1>7, CountEight, Zenon
<1>9. \A P, Q : (P <=> Q) => Bit(P) = Bit(Q)
  BY DEF Bit
<1>10. /\ Bit(<<-1, -1>> \in S) = Bit(Phase(i, Mod8(y + 7), Mod8(x + 7)))
       /\ Bit(<<-1, 0>> \in S) = Bit(Phase(i, Mod8(y + 7), x))
       /\ Bit(<<-1, 1>> \in S) = Bit(Phase(i, Mod8(y + 7), Mod8(x + 1)))
       /\ Bit(<<0, -1>> \in S) = Bit(Phase(i, y, Mod8(x + 7)))
       /\ Bit(<<0, 1>> \in S) = Bit(Phase(i, y, Mod8(x + 1)))
       /\ Bit(<<1, -1>> \in S) = Bit(Phase(i, Mod8(y + 1), Mod8(x + 7)))
       /\ Bit(<<1, 0>> \in S) = Bit(Phase(i, Mod8(y + 1), x))
       /\ Bit(<<1, 1>> \in S) = Bit(Phase(i, Mod8(y + 1), Mod8(x + 1)))
  BY <1>2, <1>3, <1>4, <1>6 DEF Bit
<1> QED
  BY <1>5, <1>8, <1>10, Zenon DEF Around

LEMMA StepIsBoard ==
  ASSUME NEW b \in Life!Boards
  PROVE  Life!Step(b) \in Life!Boards
<1>1. ASSUME NEW c \in Life!Cells PROVE Life!NextAge(b, c) \in 0 .. 7
  <2>1. b[c] \in 0 .. 7
    BY DEF Life!Boards, Life!Ages
  <2> QED
    BY <2>1 DEF Life!NextAge
<1> QED
  BY <1>1 DEF Life!Step, Life!Boards, Life!Ages

LEMMA PlacedCell ==
  ASSUME NEW k \in Nat, NEW y \in 0 .. 7, NEW x \in 0 .. 7
  PROVE  <<Placed(y, k), Placed(x, k)>> \in Life!Cells
<1>1. Placed(y, k) \in 0 .. 7 /\ Placed(x, k) \in 0 .. 7
  BY WrappedPlaced
<1>2. Life!Cells = (0 .. 7) \X (0 .. 7)
  BY DEF Life!Cells
<1> QED
  BY <1>1, <1>2, Zenon

LEMMA GlideStep ==
  ASSUME NEW b \in Life!Boards, NEW k \in Nat, NEW i \in 0 .. 3, Glides(b, k, i)
  PROVE  Glides(Life!Step(b), k, i + 1)
<1>1. ASSUME NEW y \in 0 .. 7, NEW x \in 0 .. 7
      PROVE  Life!Step(b)[<<Placed(y, k), Placed(x, k)>>] > 0 <=> Phase(i + 1, y, x)
  <2>1. PICK c : c = <<Placed(y, k), Placed(x, k)>>
    OBVIOUS
  <2>2. c \in Life!Cells /\ c[1] = Placed(y, k) /\ c[2] = Placed(x, k)
    BY <2>1, PlacedCell
  <2>3. b[c] \in 0 .. 7
    BY <2>2 DEF Life!Boards, Life!Ages
  <2>4. PICK n : n = Life!Neighbors(b, c[1], c[2])
    OBVIOUS
  <2>5. n = Around(i, y, x)
    BY <2>2, <2>4, NeighborsAre
  <2>6. Life!Step(b)[c] = Life!NextAge(b, c)
    BY <2>2 DEF Life!Step
  <2>7. b[c] > 0 <=> Phase(i, y, x)
    BY <2>1 DEF Glides
  <2>8. Life!NextAge(b, c) > 0 <=> n = 3 \/ (n = 2 /\ b[c] > 0)
    BY <2>3, <2>4 DEF Life!NextAge
  <2> QED
    BY <2>1, <2>5, <2>6, <2>7, <2>8, PhaseSteps
<1> QED
  BY <1>1 DEF Glides

LEMMA GlideOn ==
  ASSUME NEW b, NEW k \in Nat, Glides(b, k, 4)
  PROVE  Glides(b, k + 1, 0)
<1>1. ASSUME NEW y \in 0 .. 7, NEW x \in 0 .. 7
      PROVE  b[<<Placed(y, k + 1), Placed(x, k + 1)>>] > 0 <=> Phase(0, y, x)
  <2>1. Placed(y, k + 1) = Placed(Mod8(y + 1), k) /\ Placed(x, k + 1) = Placed(Mod8(x + 1), k)
    BY DEF Placed, Mod8
  <2>2. Mod8(y + 1) \in 0 .. 7 /\ Mod8(x + 1) \in 0 .. 7
    BY DEF Mod8
  <2>3. Phase(4, Mod8(y + 1), Mod8(x + 1)) <=> Phase(0, y, x)
    BY DEF Phase, Mod8
  <2> QED
    BY <2>1, <2>2, <2>3 DEF Glides
<1> QED
  BY <1>1 DEF Glides

\* The age and the number of the generation are kept for every pattern, the
\* picture for the glider.
LifeOk ==
  /\ current \in Life!Boards
  /\ generation_count \in Nat
  /\ pattern = "glider" =>
       Glides(current, generation_count \div 4, generation_count % 4)

LEMMA SeedIsGlider ==
  ASSUME NEW s \in Life!Seeds
  PROVE  /\ Life!Seeded(s.alive) \in Life!Boards
         /\ s.name = "glider" => Glides(Life!Seeded(s.alive), 0, 0)
<1>1. Life!Seeded(s.alive) \in Life!Boards
  BY DEF Life!Seeded, Life!Boards, Life!Ages
<1>2. ASSUME s.name = "glider" PROVE s.alive = Life!Glider
  BY <1>2 DEF Life!Seeds
<1>3. ASSUME NEW y \in 0 .. 7, NEW x \in 0 .. 7
      PROVE  Life!Seeded(Life!Glider)[<<Placed(y, 0), Placed(x, 0)>>] > 0 <=> Phase(0, y, x)
  <2>1. Placed(y, 0) = y /\ Placed(x, 0) = x
    BY DEF Placed
  <2>2. <<y, x>> \in Life!Cells
    BY <2>1, PlacedCell, Zenon
  <2>3. <<y, x>> \in Life!Glider <=> Phase(0, y, x)
    BY DEF Life!Glider, Phase
  <2>4. Life!Seeded(Life!Glider)[<<y, x>>] = IF <<y, x>> \in Life!Glider THEN 1 ELSE 0
    BY <2>2 DEF Life!Seeded
  <2> QED
    BY <2>1, <2>3, <2>4
<1> QED
  BY <1>1, <1>2, <1>3 DEF Glides

LEMMA SeededOk ==
  ASSUME NEW s \in Life!Seeds, current = Life!Seeded(s.alive), generation_count = 0,
         pattern = s.name
  PROVE  LifeOk
<1>1. generation_count \div 4 = 0 /\ generation_count % 4 = 0 /\ generation_count \in Nat
  OBVIOUS
<1> QED
  BY <1>1, SeedIsGlider, Zenon DEF LifeOk

LEMMA NextPhase ==
  ASSUME NEW n \in Nat
  PROVE  /\ n \div 4 \in Nat /\ n % 4 \in 0 .. 3
         /\ n % 4 # 3 => (n + 1) \div 4 = n \div 4 /\ (n + 1) % 4 = (n % 4) + 1
         /\ n % 4 = 3 => (n + 1) \div 4 = n \div 4 + 1 /\ (n + 1) % 4 = 0
OBVIOUS

LEMMA GlidesFurther ==
  ASSUME NEW b \in Life!Boards, NEW n \in Nat, Glides(b, n \div 4, n % 4)
  PROVE  Glides(Life!Step(b), (n + 1) \div 4, (n + 1) % 4)
<1>1. Glides(Life!Step(b), n \div 4, (n % 4) + 1)
  BY NextPhase, GlideStep
<1>2. CASE n % 4 # 3
  BY <1>1, <1>2, NextPhase
<1>3. CASE n % 4 = 3
  <2>1. (n % 4) + 1 = 4
    BY <1>3
  <2> QED
    BY <1>1, <1>3, <2>1, NextPhase, GlideOn
<1> QED
  BY <1>2, <1>3

LEMMA LifeKept == LifeOk /\ [Life!Next]_lifeVars => LifeOk'
<1> SUFFICES ASSUME LifeOk, [Life!Next]_lifeVars PROVE LifeOk'
  OBVIOUS
<1>1. CASE UNCHANGED lifeVars
  BY <1>1 DEF lifeVars, LifeOk
<1>2. CASE Life!NewPattern
  <2>1. PICK s \in Life!Seeds : Life!Seed(s)
    BY <1>2 DEF Life!NewPattern
  <2>2. current' = Life!Seeded(s.alive) /\ generation_count' = 0 /\ pattern' = s.name
    BY <2>1 DEF Life!Seed
  <2>3. generation_count' \div 4 = 0 /\ generation_count' % 4 = 0 /\ generation_count' \in Nat
    BY <2>2
  <2> QED
    BY <2>2, <2>3, SeedIsGlider, Zenon DEF LifeOk
<1>3. CASE Life!NextGeneration
  <2>1. /\ current' = Life!Step(current) /\ generation_count' = generation_count + 1
        /\ pattern' = pattern
    BY <1>3 DEF Life!NextGeneration
  <2>2. current \in Life!Boards /\ generation_count \in Nat
    BY DEF LifeOk
  <2>3. generation_count' \in Nat
    BY <2>1, <2>2
  <2>4. current' \in Life!Boards
    BY <2>1, <2>2, StepIsBoard
  <2>5. ASSUME pattern = "glider"
        PROVE  Glides(current', generation_count' \div 4, generation_count' % 4)
    BY <2>1, <2>2, <2>5, GlidesFurther DEF LifeOk
  <2> QED
    BY <2>1, <2>3, <2>4, <2>5 DEF LifeOk
<1> QED
  BY <1>1, <1>2, <1>3 DEF Life!Next

LEMMA FrameShows ==
  ASSUME NEW b \in Life!Boards, NEW c \in Life!Cells
  PROVE  Life!Frame(b)[c] # Life!Dark <=> b[c] > 0
<1>1. b[c] \in 0 .. 7
  BY DEF Life!Boards, Life!Ages
<1>2. Life!Frame(b)[c] = Life!Color(b[c])
  BY DEF Life!Frame
<1>3. \A a \in 0 .. 7 : Life!Color(a) # Life!Color(0) <=> a > 0
  BY DEF Life!Color
<1> QED
  BY <1>1, <1>2, <1>3 DEF Life!Dark

LEMMA CellIsPlaced ==
  ASSUME NEW k \in Nat, NEW c \in Life!Cells
  PROVE  \E y, x \in 0 .. 7 : c = <<Placed(y, k), Placed(x, k)>>
<1>1. Life!Cells = (0 .. 7) \X (0 .. 7)
  BY DEF Life!Cells
<1>2. \A v \in 0 .. 7 : \E y \in 0 .. 7 : Placed(y, k) = v
  <2> SUFFICES ASSUME NEW v \in 0 .. 7 PROVE \E y \in 0 .. 7 : Placed(y, k) = v
    OBVIOUS
  <2>1. Mod8(v + 8 - Mod8(k)) \in 0 .. 7 /\ Placed(Mod8(v + 8 - Mod8(k)), k) = v
    BY DEF Placed, Mod8
  <2> QED
    BY <2>1
<1>3. c[1] \in 0 .. 7 /\ c[2] \in 0 .. 7 /\ c = <<c[1], c[2]>>
  BY <1>1
<1>4. PICK y \in 0 .. 7 : Placed(y, k) = c[1]
  BY <1>2, <1>3
<1>5. PICK x \in 0 .. 7 : Placed(x, k) = c[2]
  BY <1>2, <1>3
<1> QED
  BY <1>3, <1>4, <1>5

LEMMA GliderSeen ==
  ASSUME LifeOk
  PROVE  Life!GliderGlides
<1> SUFFICES ASSUME pattern = "glider", generation_count % 4 = 0,
                    NEW k \in Nat, k = generation_count \div 4
             PROVE  {c \in Life!Cells : Life!Frame(current)[c] # Life!Dark} =
                      {<<(g[1] + k) % 8, (g[2] + k) % 8>> : g \in Life!Glider}
  BY NextPhase DEF LifeOk, Life!GliderGlides
<1>1. current \in Life!Boards /\ Glides(current, k, 0)
  BY DEF LifeOk
<1>2. ASSUME NEW y \in 0 .. 7, NEW x \in 0 .. 7
      PROVE  Phase(0, y, x) <=> <<y, x>> \in Life!Glider
  BY DEF Life!Glider, Phase
<1>3. \A g \in Life!Glider : g[1] \in 0 .. 7 /\ g[2] \in 0 .. 7 /\ g = <<g[1], g[2]>>
  BY DEF Life!Glider
<1>4. ASSUME NEW c \in Life!Cells, Life!Frame(current)[c] # Life!Dark
      PROVE  \E g \in Life!Glider : c = <<(g[1] + k) % 8, (g[2] + k) % 8>>
  <2>1. PICK y \in 0 .. 7, x \in 0 .. 7 : c = <<Placed(y, k), Placed(x, k)>>
    BY CellIsPlaced
  <2>2. current[c] > 0
    BY <1>1, <1>4, FrameShows
  <2>3. <<y, x>> \in Life!Glider
    BY <1>1, <1>2, <2>1, <2>2 DEF Glides
  <2> QED
    BY <2>1, <2>3 DEF Placed
<1>5. ASSUME NEW g \in Life!Glider
      PROVE  LET c == <<(g[1] + k) % 8, (g[2] + k) % 8>>
             IN  c \in Life!Cells /\ Life!Frame(current)[c] # Life!Dark
  <2>1. PICK y \in 0 .. 7, x \in 0 .. 7 : g = <<y, x>>
    BY <1>3
  <2>2. PICK c : c = <<Placed(y, k), Placed(x, k)>>
    OBVIOUS
  <2>3. Phase(0, y, x)
    BY <1>2, <2>1
  <2>4. c \in Life!Cells /\ current[c] > 0
    BY <1>1, <2>2, <2>3, PlacedCell DEF Glides
  <2>5. c = <<(g[1] + k) % 8, (g[2] + k) % 8>>
    BY <2>1, <2>2 DEF Placed
  <2> QED
    BY <1>1, <2>4, <2>5, FrameShows
<1> QED
  BY <1>4, <1>5

\* GliderGlides, from every seed and whatever gol_seed_random brings to life: no
\* generation harms a glider, at an edge or a corner or elsewhere
\* (gol_task.c:43-111, 272-358).
THEOREM GliderIsUnharmed == Spec => []GliderGlides
<1> DEFINE Inv == front = "gol" => LifeOk
<1>1. Init => Inv
  <2>1. ASSUME Life!Init PROVE LifeOk
    BY <2>1, SeededOk DEF Life!Init
  <2> QED
    BY <2>1 DEF Init
<1>2. Inv /\ [Next]_vars => Inv'
  BY Turns, LifeKept
<1>3. Inv => GliderGlides
  BY GliderSeen DEF GliderGlides
<1> QED
  BY <1>1, <1>2, <1>3, PTL DEF Spec
=============================================================================
