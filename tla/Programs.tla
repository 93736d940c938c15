------------------------------ MODULE Programs ------------------------------
(***************************************************************************)
(* The programs on top of the kernel and what they read: the joystick's    *)
(* driver with its task, the menu, tic-tac-toe, the game of life, the      *)
(* environment samples with the sensors behind them, and the diagnostic    *)
(* snapshots, each along every sequence of its events.  They share no      *)
(* variable, so one of them is chosen at the start, and the states of this *)
(* module are the sum of theirs.                                           *)
(***************************************************************************)
EXTENDS TaskTable, FiniteSets

CONSTANTS
  Directions, QueueSlots,              \* of Joystick
  LogItems, TaskItems, MaxVisible,     \* of JoyMenu
  RandomBoards,                        \* of GameOfLife
  HistorySize, Interval, Late, MaxTick, \* of EnvStore
  Devices, Raws, Pressures,            \* of Sensors
  Wrap, MaxTicks                       \* of Diag

\* The lists of the menu and its pane have an entry and a row.
ASSUME MenuAssumption ==
  LogItems \in Nat \ {0} /\ TaskItems \in Nat \ {0} /\ MaxVisible \in Nat \ {0}

\* env_task keeps at least one sample.
ASSUME StoreAssumption ==
  HistorySize \in Nat \ {0} /\ Interval \in Nat /\ Late \in Nat /\ MaxTick \in Nat

\* What a calibration and a raw value can be in the registers that hold them.
Unsigned8  == {v \in Nat : v < 256}
Unsigned10 == {v \in Nat : v < 1024}
Signed16   == {v \in Int : -32768 <= v /\ v < 32768}
Signed24   == {v \in Int : -8388608 <= v /\ v < 8388608}
ASSUME SensorsAssumption ==
  /\ Devices \subseteq [h0 : Unsigned8, h1 : Unsigned8, t0 : Unsigned10, t1 : Unsigned10,
                       h0_out : Signed16, h1_out : Signed16,
                       t0_out : Signed16, t1_out : Signed16]
  /\ Raws \subseteq Signed16 /\ Pressures \subseteq Signed24

\* No percentage of the ticks of all tasks comes near the 64 bits of a counter.
ASSUME DiagAssumption ==
  MaxTicks \in Nat /\ Wrap \in Nat /\ MaxTasks * MaxTicks * 100 < Wrap

VARIABLES
  front,                                        \* the program that is looked at
  keys, edge, pending, prev, queue, blocked, busy, answer, failed, pc, \* of Joystick
  menu, long, game_reads, center, pane, ran,    \* of JoyMenu
  game, running,                                \* of TicTacToe
  current, generation_count, pattern,           \* of GameOfLife
  now, env_at, sample, latest, history, write, count, last, stored, taken, \* of EnvStore
  device, calib, sensor_at, reading,            \* of Sensors
  used, runtime, last_runtime, known, snapshot, charged, same          \* of Diag

joyVars    == <<keys, edge, pending, prev, queue, blocked, busy, answer, failed, pc>>
menuVars   == <<menu, long, game_reads, center, pane, ran>>
tttVars    == <<game, running>>
lifeVars   == <<current, generation_count, pattern>>
storeVars  == <<now, env_at, sample, latest, history, write, count, last, stored, taken>>
sensorVars == <<device, calib, sensor_at, reading>>
diagVars   == <<used, runtime, last_runtime, known, snapshot, charged, same>>
vars       == <<front, joyVars, menuVars, tttVars, lifeVars, storeVars, sensorVars, diagVars>>

Joy     == INSTANCE Joystick WITH BusErrors <- TRUE
Menu    == INSTANCE JoyMenu
Ttt     == INSTANCE TicTacToe
Life    == INSTANCE GameOfLife WITH Width <- 8, Height <- 8, MaxAge <- 7,
                                    ReseedAfterFrames <- 120
Store   == INSTANCE EnvStore WITH at <- env_at, running <- stored
Sensors == INSTANCE Sensors WITH at <- sensor_at
Diag    == INSTANCE Diag WITH Slots <- Tasks, last <- last_runtime

NoJoy     == /\ keys = 0 /\ edge = 0 /\ pending = 0 /\ prev = 0 /\ queue = 0 /\ blocked = 0
             /\ busy = 0 /\ answer = 0 /\ failed = 0 /\ pc = 0
NoMenu    == menu = 0 /\ long = 0 /\ game_reads = 0 /\ center = 0 /\ pane = 0 /\ ran = 0
NoTtt     == game = 0 /\ running = 0
NoLife    == current = 0 /\ generation_count = 0 /\ pattern = 0
NoStore   == /\ now = 0 /\ env_at = 0 /\ sample = 0 /\ latest = 0 /\ history = 0 /\ write = 0
             /\ count = 0 /\ last = 0 /\ stored = 0 /\ taken = 0
NoSensors == device = 0 /\ calib = 0 /\ sensor_at = 0 /\ reading = 0
NoDiag    == /\ used = 0 /\ runtime = 0 /\ last_runtime = 0 /\ known = 0
             /\ snapshot = 0 /\ charged = 0 /\ same = 0

Init ==
  \/ /\ front = "joystick" /\ Joy!Init
     /\ NoMenu /\ NoTtt /\ NoLife /\ NoStore /\ NoSensors /\ NoDiag
  \/ /\ front = "menu" /\ Menu!Init
     /\ NoJoy /\ NoTtt /\ NoLife /\ NoStore /\ NoSensors /\ NoDiag
  \/ /\ front = "tictactoe" /\ Ttt!Init
     /\ NoJoy /\ NoMenu /\ NoLife /\ NoStore /\ NoSensors /\ NoDiag
  \/ /\ front = "gol" /\ Life!Init
     /\ NoJoy /\ NoMenu /\ NoTtt /\ NoStore /\ NoSensors /\ NoDiag
  \/ /\ front = "store" /\ Store!Init
     /\ NoJoy /\ NoMenu /\ NoTtt /\ NoLife /\ NoSensors /\ NoDiag
  \/ /\ front = "sensors" /\ Sensors!Init
     /\ NoJoy /\ NoMenu /\ NoTtt /\ NoLife /\ NoStore /\ NoDiag
  \/ /\ front = "diag" /\ Diag!Init
     /\ NoJoy /\ NoMenu /\ NoTtt /\ NoLife /\ NoStore /\ NoSensors

Next ==
  \/ /\ front = "joystick" /\ Joy!Next
     /\ UNCHANGED <<front, menuVars, tttVars, lifeVars, storeVars, sensorVars, diagVars>>
  \/ /\ front = "menu" /\ Menu!Next
     /\ UNCHANGED <<front, joyVars, tttVars, lifeVars, storeVars, sensorVars, diagVars>>
  \/ /\ front = "tictactoe" /\ Ttt!Next
     /\ UNCHANGED <<front, joyVars, menuVars, lifeVars, storeVars, sensorVars, diagVars>>
  \/ /\ front = "gol" /\ Life!Next
     /\ UNCHANGED <<front, joyVars, menuVars, tttVars, storeVars, sensorVars, diagVars>>
  \/ /\ front = "store" /\ Store!Next
     /\ UNCHANGED <<front, joyVars, menuVars, tttVars, lifeVars, sensorVars, diagVars>>
  \/ /\ front = "sensors" /\ Sensors!Next
     /\ UNCHANGED <<front, joyVars, menuVars, tttVars, lifeVars, storeVars, diagVars>>
  \/ /\ front = "diag" /\ Diag!Next
     /\ UNCHANGED <<front, joyVars, menuVars, tttVars, lifeVars, storeVars, sensorVars>>

Spec == Init /\ [][Next]_vars

-----------------------------------------------------------------------------
\* A key change the driver has not seen is signalled, or about to be read, unless
\* the read that was to see it reported an error (joystick.c:67-77,
\* joystick_task.c:81-84).
ChangeNotForgotten == front = "joystick" => Joy!ChangeNotForgotten

\* What a press runs is what the pane marked when it was pressed, in lists longer
\* than the pane too, and whatever went to the game in between
\* (joy_menu.c:212-297, 385-480).
RunsWhatIsMarked == [][front = "menu" => Menu!RunsMarked]_vars

\* Through any sequence of events, rounds and modes, what the game remembers of
\* the board is what is on it (tictactoe_task.c:565-600).
StateMatchesBoard == front = "tictactoe" => Ttt!StateMatchesBoard

\* The hard CPU cannot be beaten, whatever the player does
\* (tictactoe_task.c:425-467, 514-544).
HardNeverLoses == front = "tictactoe" => Ttt!HardNeverLoses

\* Either CPU ends the round when it can, and else takes the one cell that the
\* player threatens (tictactoe_task.c:486-504).
CpuSeesOneMoveAhead == [][front = "tictactoe" => Ttt!CpuLooksAhead]_vars

\* A glider glides over every edge, unharmed, for as long as it is shown
\* (gol_task.c:43-111, 272-358).
GliderGlides == front = "gol" => Life!GliderGlides

\* While env_task runs, a reader gets data of its session only: the last complete
\* sample, and the newest of the spaced ones, the oldest first (env_task.c:73-220).
StoreIsRecentPast == front = "store" => Store!StoreIsRecentPast

\* A reading is the value of the device's own line, to a hundredth, whatever the
\* calibration and however often it was read in part (hts221.c:88-331).
ReadingOnLine == front = "sensors" => Sensors!ReadingOnLine

\* Whoever takes a snapshot, the difference of a task that was there at the last
\* one is what it was charged since, and if no slot changed hands the percentage
\* is the share of the period that was not idle (diag.c:24-111).
DeltasCoverPeriod == front = "diag" => Diag!DeltasCoverPeriod
=============================================================================
