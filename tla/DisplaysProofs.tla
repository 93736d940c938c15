--------------------------- MODULE DisplaysProofs ---------------------------
(***************************************************************************)
(* What AppTasks promises about the LED matrix, the pane and the           *)
(* joystick's events, proved for every number of slots and however the     *)
(* tasks interleave, as long as no command begins while another is in the  *)
(* middle of a stop (OneAtATime).  That is the code's own assumption: the  *)
(* second half of a stop uses the id that is registered by then, and with  *)
(* the UART shell and the menu both at work the promises fail.             *)
(*                                                                         *)
(* AppInv is inductive.  Its first half, TaskInv, is about tasks and       *)
(* registrations: a registered id is the task's that registered it, or the *)
(* id a command is cleaning up after.  Its second half, ResInv, says who   *)
(* owns a display, that an owner uses it or is being cleaned up after,     *)
(* what the game's two flags mean, and that a free matrix gets dark.       *)
(*                                                                         *)
(* The last part is about what the panes show, for panes of every size:    *)
(* every way a character moves the cursor marks the cell it goes to, and a *)
(* text is a fold of its characters; and the renderer does not sleep on    *)
(* what is undrawn.                                                        *)
(***************************************************************************)
EXTENDS Displays, TaskTableProofs, Sequences, TLAPS

Places == {"unused", "dying", "new", "denied", "acquire", "running", "leaving", "flush"}
Stages == {"idle", "envdash", "diagdash", "tictactoe"}
Live   == {"denied", "acquire", "running", "leaving", "flush"}
Owners == Slots \cup {None}

\* What kind of task may stand where.
PlacesOfKind(t) ==
  /\ t.kind = "none" <=> t.at = "unused"
  /\ t.kind = "env" => t.at \in {"new", "acquire", "running", "leaving", "dying"}
  /\ t.kind = "envdash" => t.at \in {"new", "denied", "running", "leaving", "flush", "dying"}
  /\ t.kind = "diagdash" => t.at \in {"new", "denied", "running", "dying"}
  /\ t.kind = "envled" => t.at \in {"new", "denied", "acquire", "running", "leaving", "dying"}
  /\ t.kind = "gol" => t.at \in {"new", "denied", "acquire", "running", "dying"}
  /\ t.kind = "tictactoe" => t.at \in {"new", "denied", "running", "flush", "dying"}

TaskTypes ==
  /\ app \in [Slots -> [kind : Kinds \cup {"none"}, at : Places]]
  /\ \A i \in Slots : PlacesOfKind(app[i])
  /\ cmd \in [Commanders -> [at : Stages, id : Owners]]
  /\ reg \in [Kinds -> Owners]

\* shell_cmd_start_arg starts no second task of a kind.
OneOfAKind ==
  \A i, j \in Slots : app[i].kind = app[j].kind /\ app[i].kind # "none" => i = j

\* Command c waits for its flush: the task is gone, its id is still registered.
Cleaning(c) ==
  /\ cmd[c].at # "idle"
  /\ cmd[c].id \in Slots
  /\ app[cmd[c].id].at \in {"unused", "dying"}
  /\ reg[cmd[c].at] = cmd[c].id
  /\ \A j \in Slots : app[j].kind = cmd[c].at => j = cmd[c].id

OneCommand ==
  /\ \A c, d \in Commanders : cmd[c] # NoStop /\ cmd[d] # NoStop => c = d
  /\ \A c \in Commanders : cmd[c] # NoStop => Cleaning(c)

BeingCleaned(k, i) == \E c \in Commanders : cmd[c].at = k /\ cmd[c].id = i

\* A registered id is a task's that lives, or one that a command cleans up after;
\* env_task alone leaves its id behind.
RegSound ==
  \A k \in Kinds \ {"env"} : reg[k] # None =>
    \/ app[reg[k]].kind = k /\ app[reg[k]].at \in Live
    \/ BeingCleaned(k, reg[k])

\* A task that has run is registered.
Registers == \A i \in Slots : app[i].at \in Live => reg[app[i].kind] = i

TaskInv == TaskTypes /\ OneOfAKind /\ OneCommand /\ RegSound /\ Registers

-----------------------------------------------------------------------------
\* No slot is the id that stands for nobody.
LEMMA SlotsAreIds == Slots \subseteq Nat /\ None \notin Slots /\ "env" # "none"
  BY AppAssumption, MaxTasksAssumption DEF Tasks, None, NoTask

\* Where the other tasks are when task i has moved.
Others(i) ==
  \A j \in Slots \ {i} : \/ app'[j] = app[j]
                         \/ app[j].at = "dying" /\ app'[j] = Unused

\* What Move leaves behind.
LEMMA Moved ==
  ASSUME TaskTypes, NEW i \in Slots, NEW at \in Places, Move(i, at),
         app[i].at # "unused", at # "unused", PlacesOfKind([app[i] EXCEPT !.at = at])
  PROVE /\ app' \in [Slots -> [kind : Kinds \cup {"none"}, at : Places]]
        /\ \A j \in Slots : PlacesOfKind(app'[j])
        /\ app'[i].kind = app[i].kind /\ app'[i].at = at
        /\ Others(i)
<1>1. /\ app' \in [Slots -> [kind : Kinds \cup {"none"}, at : Places]]
      /\ app'[i] = [app[i] EXCEPT !.at = at]
      /\ Others(i)
  BY DEF TaskTypes, Move, AfterReap, Others, Unused, Places
<1>2. PlacesOfKind(Unused)
  BY DEF PlacesOfKind, Unused
<1>3. ASSUME NEW j \in Slots PROVE PlacesOfKind(app'[j])
  BY <1>1, <1>2 DEF Others, TaskTypes
<1> QED
  BY <1>1, <1>3 DEF TaskTypes

\* What a cleanup under way is about is left alone by the step of another task.
LEMMA CleaningStays ==
  ASSUME TaskInv, NEW i \in Slots, app[i].at \in Live \cup {"new"},
         app'[i].kind = app[i].kind, Others(i), UNCHANGED cmd,
         \A k \in Kinds : k # app[i].kind => reg'[k] = reg[k]
  PROVE  OneCommand'
<1> SUFFICES ASSUME NEW c \in Commanders, cmd[c] # NoStop
             PROVE  Cleaning(c)'
  BY DEF TaskInv, OneCommand
<1>1. Cleaning(c) /\ cmd[c].at \in Kinds
  BY DEF TaskInv, OneCommand, Cleaning, TaskTypes, Stages, Kinds
<1>2. cmd[c].id # i /\ cmd[c].at # app[i].kind
  BY <1>1 DEF Cleaning, Live
<1>3. app'[cmd[c].id].at \in {"unused", "dying"}
  BY <1>1, <1>2 DEF Cleaning, Others, Unused
<1>4. ASSUME NEW j \in Slots, app'[j].kind = cmd[c].at PROVE j = cmd[c].id
  <2>1. app[j].kind = cmd[c].at
    BY <1>1, <1>2, <1>4 DEF Others, Unused, Kinds
  <2> QED
    BY <1>1, <2>1 DEF Cleaning
<1> QED
  BY <1>1, <1>2, <1>3, <1>4 DEF Cleaning

\* A task goes on, its registration as it was.
LEMMA GoesOn ==
  ASSUME TaskInv, NEW i \in Slots, NEW at \in Live, Move(i, at),
         app[i].at \in Live, PlacesOfKind([app[i] EXCEPT !.at = at]), UNCHANGED <<cmd, reg>>
  PROVE  TaskInv' /\ Others(i) /\ app'[i].kind = app[i].kind /\ app'[i].at = at
<1>1. /\ app' \in [Slots -> [kind : Kinds \cup {"none"}, at : Places]]
      /\ \A j \in Slots : PlacesOfKind(app'[j])
      /\ app'[i].kind = app[i].kind /\ app'[i].at = at
      /\ Others(i)
  <2>1. at \in Places /\ at # "unused" /\ app[i].at # "unused"
    BY DEF Live, Places
  <2> QED
    BY <2>1, Moved DEF TaskInv
<1>2. TaskTypes'
  BY <1>1 DEF TaskInv, TaskTypes
<1>3. OneOfAKind'
  BY <1>1 DEF TaskInv, OneOfAKind, Others, Unused
<1>4. OneCommand'
  BY <1>1, CleaningStays
<1>5. RegSound'
  <2> SUFFICES ASSUME NEW k \in Kinds \ {"env"}, reg[k] # None,
                      app[reg[k]].kind = k, app[reg[k]].at \in Live
               PROVE  app'[reg[k]].kind = k /\ app'[reg[k]].at \in Live
    BY DEF TaskInv, RegSound, BeingCleaned
  <2>1. reg[k] \in Slots
    BY DEF TaskInv, TaskTypes, Owners
  <2> QED
    BY <1>1, <2>1 DEF Others, Live
<1>6. Registers'
  BY <1>1 DEF TaskInv, Registers, Others, Unused, Live
<1> QED
  BY <1>1, <1>2, <1>3, <1>4, <1>5, <1>6 DEF TaskInv

\* A task's first step registers it.
LEMMA ComesUp ==
  ASSUME TaskInv, NEW i \in Slots, NEW at \in Live, Move(i, at), Registered(i),
         app[i].at = "new", PlacesOfKind([app[i] EXCEPT !.at = at]), UNCHANGED cmd
  PROVE  TaskInv' /\ Others(i) /\ app'[i].kind = app[i].kind /\ app'[i].at = at
<1>1. /\ app' \in [Slots -> [kind : Kinds \cup {"none"}, at : Places]]
      /\ \A j \in Slots : PlacesOfKind(app'[j])
      /\ app'[i].kind = app[i].kind /\ app'[i].at = at
      /\ Others(i)
  <2>1. at \in Places /\ at # "unused" /\ app[i].at # "unused"
    BY DEF Live, Places
  <2> QED
    BY <2>1, Moved DEF TaskInv
<1>k. app[i].kind \in Kinds /\ reg' = [reg EXCEPT ![app[i].kind] = i] /\ reg \in [Kinds -> Owners]
  BY DEF Registered, TaskInv, TaskTypes, PlacesOfKind
<1>2. TaskTypes'
  BY <1>1, <1>k DEF TaskInv, TaskTypes, Owners
<1>3. OneOfAKind'
  BY <1>1 DEF TaskInv, OneOfAKind, Others, Unused
<1>4. OneCommand'
  <2>1. app[i].at \in Live \cup {"new"} /\ \A k \in Kinds : k # app[i].kind => reg'[k] = reg[k]
    BY <1>k
  <2> QED
    BY <1>1, <2>1, CleaningStays
<1>5. RegSound'
  <2> SUFFICES ASSUME NEW k \in Kinds \ {"env"}, reg'[k] # None, ~ BeingCleaned(k, reg'[k])
               PROVE  app'[reg'[k]].kind = k /\ app'[reg'[k]].at \in Live
    BY DEF RegSound, BeingCleaned
  <2>1. CASE k = app[i].kind
    BY <1>1, <1>k, <2>1
  <2>2. CASE k # app[i].kind
    <3>1. reg'[k] = reg[k] /\ reg[k] \in Slots
      BY <1>k, <2>2 DEF Owners
    <3>2. app[reg[k]].kind = k /\ app[reg[k]].at \in Live
      BY <3>1 DEF TaskInv, RegSound
    <3> QED
      BY <1>1, <3>1, <3>2 DEF Others, Live
  <2> QED
    BY <2>1, <2>2
<1>6. Registers'
  <2> SUFFICES ASSUME NEW j \in Slots, app'[j].at \in Live PROVE reg'[app'[j].kind] = j
    BY DEF Registers
  <2>1. CASE j = i
    BY <1>1, <1>k, <2>1 DEF Live
  <2>2. CASE j # i
    <3>1. app'[j] = app[j]
      BY <1>1, <2>2 DEF Others, Unused, Live
    <3>2. app[j].kind # app[i].kind /\ reg[app[j].kind] = j /\ app[j].kind \in Kinds
      BY <2>2, <3>1, <1>k DEF TaskInv, TaskTypes, OneOfAKind, Registers, PlacesOfKind, Live, Kinds
    <3> QED
      BY <1>k, <3>1, <3>2
  <2> QED
    BY <2>1, <2>2
<1> QED
  BY <1>1, <1>2, <1>3, <1>4, <1>5, <1>6 DEF TaskInv

\* A task ends and takes its registration back, which env_task does not.
LEMMA Ends ==
  ASSUME TaskInv, NEW i \in Slots, Exit(i), app[i].at \in Live,
         (app[i].kind = "env" /\ UNCHANGED reg) \/ Unregistered(i), UNCHANGED cmd
  PROVE  TaskInv' /\ Others(i) /\ app'[i].kind = app[i].kind /\ app'[i].at = "dying"
<1>1. /\ app' \in [Slots -> [kind : Kinds \cup {"none"}, at : Places]]
      /\ \A j \in Slots : PlacesOfKind(app'[j])
      /\ app'[i].kind = app[i].kind /\ app'[i].at = "dying"
      /\ Others(i)
  <2>1. PlacesOfKind([app[i] EXCEPT !.at = "dying"]) /\ app[i].at # "unused"
    BY DEF TaskInv, TaskTypes, PlacesOfKind, Live
  <2>2. Move(i, "dying") /\ "dying" \in Places
    BY DEF Exit, Places
  <2> QED
    BY <2>1, <2>2, Moved DEF TaskInv
<1>k. /\ app[i].kind \in Kinds /\ reg \in [Kinds -> Owners]
      /\ \/ reg' = [reg EXCEPT ![app[i].kind] = None]
         \/ reg' = reg /\ app[i].kind = "env"
  BY DEF Unregistered, TaskInv, TaskTypes, PlacesOfKind, Live
<1>2. TaskTypes'
  BY <1>1, <1>k DEF TaskInv, TaskTypes, Owners
<1>3. OneOfAKind'
  BY <1>1 DEF TaskInv, OneOfAKind, Others, Unused
<1>4. OneCommand'
  <2>1. app[i].at \in Live \cup {"new"} /\ \A k \in Kinds : k # app[i].kind => reg'[k] = reg[k]
    BY <1>k
  <2> QED
    BY <1>1, <2>1, CleaningStays
<1>5. RegSound'
  <2> SUFFICES ASSUME NEW k \in Kinds \ {"env"}, reg'[k] # None, ~ BeingCleaned(k, reg'[k])
               PROVE  app'[reg'[k]].kind = k /\ app'[reg'[k]].at \in Live
    BY DEF RegSound, BeingCleaned
  <2>1. k # app[i].kind /\ reg'[k] = reg[k] /\ reg[k] \in Slots
    BY <1>k DEF Owners
  <2>2. app[reg[k]].kind = k /\ app[reg[k]].at \in Live
    BY <2>1 DEF TaskInv, RegSound
  <2> QED
    BY <1>1, <2>1, <2>2 DEF Others, Live
<1>6. Registers'
  <2> SUFFICES ASSUME NEW j \in Slots, app'[j].at \in Live PROVE reg'[app'[j].kind] = j
    BY DEF Registers
  <2>1. CASE j = i
    BY <1>1, <1>k, <2>1 DEF Live
  <2>2. CASE j # i
    <3>1. app'[j] = app[j]
      BY <1>1, <2>2 DEF Others, Unused, Live
    <3>2. app[j].kind # app[i].kind /\ reg[app[j].kind] = j /\ app[j].kind \in Kinds
      BY <2>2, <3>1, <1>k DEF TaskInv, TaskTypes, OneOfAKind, Registers, PlacesOfKind, Live, Kinds
    <3> QED
      BY <1>k, <3>1, <3>2
  <2> QED
    BY <2>1, <2>2
<1> QED
  BY <1>1, <1>2, <1>3, <1>4, <1>5, <1>6 DEF TaskInv

-----------------------------------------------------------------------------
\* From the acquisition of a display to the end of the task's own cleanup.
PaneUser(i) == app[i].kind \in {"envdash", "diagdash"} /\ app[i].at \in {"running", "leaving", "flush"}
LedUser(i)  == app[i].kind \in {"envled", "gol"} /\ app[i].at \in {"running", "leaving"}
Gaming(i)   == app[i].kind = "tictactoe" /\ app[i].at \in {"running", "flush"}

Frames == {"clear", "envled", "gol", "tictactoe"}

Resources ==
  [pane : Owners, led : Owners, frame : Frames, pending : BOOLEAN,
   ledTask : {"ready", "blocked", "drawing"}, drawing : Frames, shown : Frames,
   failed : BOOLEAN, handler : {"menu", "game"}, env : BOOLEAN,
   tttLed : BOOLEAN, tttHdmi : BOOLEAN]

ResTypes == res \in Resources

\* The flags of the game say what task i owns.
FlagsOf(i) == res.tttLed = (res.led = i) /\ res.tttHdmi = (res.pane = i)

\* Who uses a display owns it.
UsersOwn ==
  \A i \in Slots : /\ PaneUser(i) => res.pane = i
                   /\ LedUser(i) => res.led = i
                   /\ Gaming(i) => FlagsOf(i)

\* No display is owned by a task that neither uses it nor is cleaned up after.
OwnersUse ==
  /\ res.pane # None => \/ PaneUser(res.pane) \/ Gaming(res.pane)
                        \/ \E k \in {"envdash", "diagdash", "tictactoe"} : BeingCleaned(k, res.pane)
  /\ res.led # None => \/ LedUser(res.led) \/ Gaming(res.led)
                       \/ BeingCleaned("tictactoe", res.led)

\* The flags are the game's while it has a display or is cleaned up after, and are
\* clear otherwise.
GameFlags ==
  /\ \A c \in Commanders : cmd[c].at = "tictactoe" => FlagsOf(cmd[c].id)
  /\ res.tttLed \/ res.tttHdmi => \/ \E i \in Slots : Gaming(i)
                                  \/ \E c \in Commanders : cmd[c].at = "tictactoe"

\* The joystick's events go to the game exactly while it runs.
EventsToGame == res.handler = "game" <=> \E i \in Slots : At(i, "tictactoe", "running")

\* What follows led_release: the clear frame is pending, being drawn or shown.
DarkIn(r) ==
  r.led = None =>
    IF r.pending THEN r.frame = "clear"
    ELSE IF r.ledTask = "drawing" THEN r.drawing = "clear"
    ELSE r.shown = "clear" \/ r.failed

Dark == DarkIn(res)

ResInv == ResTypes /\ UsersOwn /\ OwnersUse /\ GameFlags /\ EventsToGame /\ Dark

AppInv == TaskInv /\ ResInv

\* The other tasks use what they used.
LEMMA Bystanders ==
  ASSUME NEW i \in Slots, Others(i)
  PROVE  \A j \in Slots \ {i} : /\ PaneUser(j)' <=> PaneUser(j)
                                /\ LedUser(j)' <=> LedUser(j)
                                /\ Gaming(j)' <=> Gaming(j)
                                /\ At(j, "tictactoe", "running")' <=> At(j, "tictactoe", "running")
  BY DEF Others, PaneUser, LedUser, Gaming, At, Unused

\* The resources stay sound when the task that moves owns what it did, and nothing
\* that ownership rests on has changed.
LEMMA NothingTaken ==
  ASSUME AppInv, NEW i \in Slots, Others(i), UNCHANGED cmd, ResTypes', Dark',
         PaneUser(i)' <=> PaneUser(i), LedUser(i)' <=> LedUser(i), Gaming(i)' <=> Gaming(i),
         At(i, "tictactoe", "running")' <=> At(i, "tictactoe", "running"),
         res'.pane = res.pane, res'.led = res.led, res'.handler = res.handler,
         res'.tttLed = res.tttLed, res'.tttHdmi = res.tttHdmi
  PROVE  ResInv'
<1>1. \A j \in Slots : /\ PaneUser(j)' <=> PaneUser(j)
                       /\ LedUser(j)' <=> LedUser(j)
                       /\ Gaming(j)' <=> Gaming(j)
                       /\ At(j, "tictactoe", "running")' <=> At(j, "tictactoe", "running")
  BY Bystanders
<1> HIDE DEF PaneUser, LedUser, Gaming, At
<1>2. res.pane \in Owners /\ res.led \in Owners
  BY DEF AppInv, ResInv, ResTypes, Resources
<1>3. UsersOwn'
  BY <1>1 DEF AppInv, ResInv, UsersOwn, FlagsOf
<1>4. OwnersUse'
  BY <1>1, <1>2 DEF AppInv, ResInv, OwnersUse, BeingCleaned, Owners
<1>5. GameFlags'
  BY <1>1 DEF AppInv, ResInv, GameFlags, FlagsOf
<1>6. EventsToGame'
  BY <1>1 DEF AppInv, ResInv, EventsToGame
<1> QED
  BY <1>3, <1>4, <1>5, <1>6 DEF ResInv

\* The sensor task has no display.
LEMMA EnvSteps ==
  ASSUME AppInv, NEW i \in Slots, EnvNew(i) \/ EnvSensors(i) \/ EnvFailed(i), UNCHANGED cmd
  PROVE  AppInv'
<1>1. app[i].kind = "env"
  BY DEF EnvNew, EnvSensors, EnvFailed, At
<1>2. TaskInv' /\ Others(i) /\ app'[i].kind = "env"
  <2>1. CASE EnvNew(i)
    <3>1. "acquire" \in Live /\ PlacesOfKind([app[i] EXCEPT !.at = "acquire"])
      BY <2>1 DEF EnvNew, At, Live, PlacesOfKind
    <3> QED
      BY <1>1, <2>1, <3>1, ComesUp DEF EnvNew, At, AppInv
  <2>2. CASE EnvSensors(i)
    <3>1. PICK at \in {"running", "leaving"} : Move(i, at)
      BY <2>2 DEF EnvSensors
    <3>2. at \in Live /\ app[i].at \in Live /\ PlacesOfKind([app[i] EXCEPT !.at = at])
      BY <2>2 DEF EnvSensors, At, Live, PlacesOfKind
    <3> QED
      BY <1>1, <2>2, <3>1, <3>2, GoesOn DEF EnvSensors, AppInv
  <2>3. CASE EnvFailed(i)
    BY <1>1, <2>3, Ends DEF EnvFailed, At, AppInv, Live
  <2> QED
    BY <2>1, <2>2, <2>3
<1>3. \E b \in BOOLEAN : res' = [res EXCEPT !.env = b]
  <2>1. CASE EnvNew(i)
    BY <2>1 DEF EnvNew
  <2>2. CASE EnvSensors(i)
    BY <2>2 DEF EnvSensors
  <2>3. CASE EnvFailed(i)
    <3>1. res' = [res EXCEPT !.env = res.env]
      BY <2>3 DEF EnvFailed, AppInv, ResInv, ResTypes, Resources
    <3> QED
      BY <3>1 DEF AppInv, ResInv, ResTypes, Resources
  <2> QED
    BY <2>1, <2>2, <2>3
<1>4. /\ ResTypes' /\ Dark'
      /\ res'.pane = res.pane /\ res'.led = res.led /\ res'.handler = res.handler
      /\ res'.tttLed = res.tttLed /\ res'.tttHdmi = res.tttHdmi
  BY <1>3 DEF AppInv, ResInv, ResTypes, Resources, Dark, DarkIn
<1>5. /\ ~ PaneUser(i) /\ ~ LedUser(i) /\ ~ Gaming(i) /\ ~ At(i, "tictactoe", "running")
      /\ ~ PaneUser(i)' /\ ~ LedUser(i)' /\ ~ Gaming(i)' /\ ~ At(i, "tictactoe", "running")'
  BY <1>1, <1>2 DEF PaneUser, LedUser, Gaming, At
<1> QED
  BY <1>2, <1>4, <1>5, NothingTaken DEF AppInv

\* Steps after which a task has what it had.
LEMMA QuietSteps ==
  ASSUME AppInv, NEW i \in Slots, UNCHANGED cmd,
         LampNew(i) \/ Denied(i) \/ Draw(i) \/ EnvGone(i) \/ EnvDashLeaves(i)
  PROVE  AppInv'
<1>1. CASE LampNew(i)
  <2>1. PICK at \in {"denied", "acquire"} : Move(i, at)
    BY <1>1 DEF LampNew
  <2>2. at \in Live /\ PlacesOfKind([app[i] EXCEPT !.at = at])
    BY <1>1 DEF LampNew, Live, PlacesOfKind
  <2>3. TaskInv' /\ Others(i) /\ app'[i].kind = app[i].kind /\ app'[i].at = at
    BY <1>1, <2>1, <2>2, ComesUp DEF LampNew, AppInv
  <2>4. ResTypes' /\ Dark' /\ res' = res
    BY <1>1 DEF LampNew, AppInv, ResInv, ResTypes, Resources, Dark, DarkIn
  <2>5. /\ ~ PaneUser(i) /\ ~ LedUser(i) /\ ~ Gaming(i) /\ ~ At(i, "tictactoe", "running")
        /\ ~ PaneUser(i)' /\ ~ LedUser(i)' /\ ~ Gaming(i)' /\ ~ At(i, "tictactoe", "running")'
    BY <1>1, <2>3 DEF LampNew, PaneUser, LedUser, Gaming, At
  <2> QED
    BY <2>3, <2>4, <2>5, NothingTaken DEF AppInv
<1>2. CASE Denied(i)
  <2>1. TaskInv' /\ Others(i) /\ app'[i].kind = app[i].kind /\ app'[i].at = "dying"
    BY <1>2, Ends DEF Denied, AppInv, Live
  <2>2. ResTypes' /\ Dark' /\ res' = res
    BY <1>2 DEF Denied, AppInv, ResInv, ResTypes, Resources, Dark, DarkIn
  <2>3. /\ ~ PaneUser(i) /\ ~ LedUser(i) /\ ~ Gaming(i) /\ ~ At(i, "tictactoe", "running")
        /\ ~ PaneUser(i)' /\ ~ LedUser(i)' /\ ~ Gaming(i)' /\ ~ At(i, "tictactoe", "running")'
    BY <1>2, <2>1 DEF Denied, PaneUser, LedUser, Gaming, At
  <2> QED
    BY <2>1, <2>2, <2>3, NothingTaken DEF AppInv
<1>3. CASE Draw(i)
  <2>1. app[i].at = "running" /\ app[i].kind \in {"envled", "gol", "tictactoe"}
    BY <1>3 DEF Draw
  <2>2. TaskInv' /\ Others(i) /\ app'[i].kind = app[i].kind /\ app'[i].at = "running"
    <3>1. PlacesOfKind([app[i] EXCEPT !.at = "running"])
      BY <2>1 DEF PlacesOfKind
    <3> QED
      BY <1>3, <2>1, <3>1, GoesOn DEF Draw, AppInv, Live
  <2>3. res.led = i
    <3>1. app[i].kind = "tictactoe" => res.tttLed
      BY <1>3 DEF Draw
    <3> QED
      BY <2>1, <3>1 DEF AppInv, ResInv, UsersOwn, LedUser, Gaming, FlagsOf
  <2>4. res' = LedSubmitted(res, i, app[i].kind)
    <3>1. reg[app[i].kind] = i
      BY <2>1 DEF AppInv, TaskInv, Registers, Live
    <3> QED
      BY <1>3, <3>1 DEF Draw
  <2>5. /\ ResTypes' /\ res'.pane = res.pane /\ res'.led = res.led
        /\ res'.handler = res.handler /\ res'.tttLed = res.tttLed /\ res'.tttHdmi = res.tttHdmi
    BY <2>1, <2>4 DEF LedSubmitted, AppInv, ResInv, ResTypes, Resources, Frames
  <2>6. Dark'
    BY <2>3, <2>5, SlotsAreIds DEF Dark, DarkIn
  <2>7. /\ PaneUser(i)' <=> PaneUser(i)
        /\ LedUser(i)' <=> LedUser(i)
        /\ Gaming(i)' <=> Gaming(i)
        /\ At(i, "tictactoe", "running")' <=> At(i, "tictactoe", "running")
    <3>1. app'[i] = app[i]
      BY <2>1, <2>2 DEF AppInv, TaskInv, TaskTypes
    <3> QED
      BY <3>1 DEF PaneUser, LedUser, Gaming, At
  <2> QED
    BY <2>2, <2>5, <2>6, <2>7, NothingTaken DEF AppInv
<1>4. CASE EnvGone(i)
  <2>1. app[i].at = "running" /\ app[i].kind \in {"envdash", "envled"}
    BY <1>4 DEF EnvGone, NeedEnv
  <2>2. TaskInv' /\ Others(i) /\ app'[i].kind = app[i].kind /\ app'[i].at = "leaving"
    <3>1. PlacesOfKind([app[i] EXCEPT !.at = "leaving"])
      BY <2>1 DEF PlacesOfKind
    <3> QED
      BY <1>4, <2>1, <3>1, GoesOn DEF EnvGone, AppInv, Live
  <2>3. ResTypes' /\ Dark' /\ res' = res
    BY <1>4 DEF EnvGone, AppInv, ResInv, ResTypes, Resources, Dark, DarkIn
  <2>4. /\ PaneUser(i)' <=> PaneUser(i)
        /\ LedUser(i)' <=> LedUser(i)
        /\ ~ Gaming(i) /\ ~ At(i, "tictactoe", "running")
        /\ ~ Gaming(i)' /\ ~ At(i, "tictactoe", "running")'
    BY <2>1, <2>2 DEF PaneUser, LedUser, Gaming, At
  <2> QED
    BY <2>2, <2>3, <2>4, NothingTaken DEF AppInv
<1>5. CASE EnvDashLeaves(i)
  <2>1. app[i].at = "leaving" /\ app[i].kind = "envdash"
    BY <1>5 DEF EnvDashLeaves, At
  <2>2. Move(i, "flush")
    <3>1. reg["envdash"] # None
      BY <2>1, SlotsAreIds DEF AppInv, TaskInv, Registers, Live
    <3> QED
      BY <1>5, <3>1 DEF EnvDashLeaves
  <2>3. TaskInv' /\ Others(i) /\ app'[i].kind = app[i].kind /\ app'[i].at = "flush"
    <3>1. PlacesOfKind([app[i] EXCEPT !.at = "flush"])
      BY <2>1 DEF PlacesOfKind
    <3> QED
      BY <1>5, <2>1, <2>2, <3>1, GoesOn DEF EnvDashLeaves, AppInv, Live
  <2>4. ResTypes' /\ Dark' /\ res' = res
    BY <1>5 DEF EnvDashLeaves, AppInv, ResInv, ResTypes, Resources, Dark, DarkIn
  <2>5. /\ PaneUser(i)' <=> PaneUser(i)
        /\ LedUser(i)' <=> LedUser(i)
        /\ ~ Gaming(i) /\ ~ At(i, "tictactoe", "running")
        /\ ~ Gaming(i)' /\ ~ At(i, "tictactoe", "running")'
    BY <2>1, <2>3 DEF PaneUser, LedUser, Gaming, At
  <2> QED
    BY <2>3, <2>4, <2>5, NothingTaken DEF AppInv
<1> QED
  BY <1>1, <1>2, <1>3, <1>4, <1>5

\* A task that has not run yet owns nothing.
LEMMA NewOwnsNothing ==
  ASSUME AppInv, NEW i \in Slots, app[i].at \in {"new", "denied", "acquire"}
  PROVE  /\ res.pane # i /\ res.led # i
         /\ ~ PaneUser(i) /\ ~ LedUser(i) /\ ~ Gaming(i) /\ ~ At(i, "tictactoe", "running")
<1>1. ~ PaneUser(i) /\ ~ LedUser(i) /\ ~ Gaming(i) /\ ~ At(i, "tictactoe", "running")
  BY DEF PaneUser, LedUser, Gaming, At
<1>2. ASSUME NEW c \in Commanders, cmd[c].at # "idle" PROVE cmd[c].id # i
  BY <1>2 DEF AppInv, TaskInv, OneCommand, Cleaning, NoStop
<1>3. ASSUME NEW k \in {"envdash", "diagdash", "tictactoe"} PROVE ~ BeingCleaned(k, i)
  BY <1>2 DEF BeingCleaned
<1>4. i # None
  BY SlotsAreIds
<1> QED
  BY <1>1, <1>3, <1>4 DEF AppInv, ResInv, OwnersUse

\* While task i is the game, no other task plays and no game is being cleaned up.
LEMMA OneGame ==
  ASSUME AppInv, NEW i \in Slots, app[i].kind = "tictactoe", app[i].at \in Live \cup {"new"}
  PROVE  /\ \A j \in Slots \ {i} : ~ Gaming(j) /\ ~ At(j, "tictactoe", "running")
         /\ \A c \in Commanders : cmd[c].at # "tictactoe"
<1>1. \A j \in Slots \ {i} : app[j].kind # "tictactoe"
  BY DEF AppInv, TaskInv, OneOfAKind
<1>2. ASSUME NEW c \in Commanders, cmd[c].at = "tictactoe" PROVE FALSE
  <2>1. Cleaning(c)
    BY <1>2 DEF AppInv, TaskInv, OneCommand, NoStop
  <2>2. cmd[c].id = i
    BY <1>2, <2>1 DEF Cleaning
  <2> QED
    BY <2>1, <2>2 DEF Cleaning, Live
<1> QED
  BY <1>1, <1>2 DEF Gaming, At

\* A dashboard takes the pane, if it is free.
LEMMA DashNewKeeps ==
  ASSUME AppInv, NEW i \in Slots, DashNew(i), UNCHANGED cmd
  PROVE  AppInv'
<1>1. app[i].kind \in {"envdash", "diagdash"} /\ app[i].at = "new"
  BY DEF DashNew
<1>2. /\ res.pane # i /\ res.led # i /\ i # None
      /\ ~ PaneUser(i) /\ ~ LedUser(i) /\ ~ Gaming(i) /\ ~ At(i, "tictactoe", "running")
  BY <1>1, NewOwnsNothing, SlotsAreIds
<1>3. PICK at \in {"running", "denied"} :
        /\ Move(i, at)
        /\ IF at = "running" THEN res.pane = None /\ res' = [res EXCEPT !.pane = i] ELSE res' = res
  BY <1>2 DEF DashNew, PaneAcquired, CanTake, AppInv, ResInv, ResTypes, Resources
<1>4. TaskInv' /\ Others(i) /\ app'[i].kind = app[i].kind /\ app'[i].at = at
  <2>1. at \in Live /\ PlacesOfKind([app[i] EXCEPT !.at = at])
    BY <1>1 DEF Live, PlacesOfKind
  <2> QED
    BY <1>1, <1>3, <2>1, ComesUp DEF DashNew, AppInv
<1>5. ~ LedUser(i)' /\ ~ Gaming(i)' /\ ~ At(i, "tictactoe", "running")'
  BY <1>1, <1>4 DEF LedUser, Gaming, At
<1>6. CASE at = "denied"
  <2>1. ResTypes' /\ Dark' /\ res' = res
    BY <1>3, <1>6 DEF AppInv, ResInv, ResTypes, Resources, Dark, DarkIn
  <2>2. ~ PaneUser(i)'
    BY <1>4, <1>6 DEF PaneUser
  <2> QED
    BY <1>2, <1>4, <1>5, <2>1, <2>2, NothingTaken DEF AppInv
<1>7. CASE at = "running"
  <2>1. /\ ResTypes' /\ Dark' /\ res.pane = None /\ res'.pane = i /\ res'.led = res.led
        /\ res'.handler = res.handler /\ res'.tttLed = res.tttLed /\ res'.tttHdmi = res.tttHdmi
    BY <1>3, <1>7 DEF AppInv, ResInv, ResTypes, Resources, Dark, DarkIn, Owners
  <2>2. PaneUser(i)'
    BY <1>1, <1>4, <1>7 DEF PaneUser
  <2>3. \A j \in Slots \ {i} : /\ ~ PaneUser(j)' /\ ~ PaneUser(j)
                               /\ LedUser(j)' <=> LedUser(j)
                               /\ Gaming(j)' <=> Gaming(j)
                               /\ At(j, "tictactoe", "running")' <=> At(j, "tictactoe", "running")
    BY <1>4, <2>1, Bystanders, SlotsAreIds DEF AppInv, ResInv, UsersOwn
  <2> HIDE DEF PaneUser, LedUser, Gaming, At
  <2>4. UsersOwn'
    <3> SUFFICES ASSUME NEW j \in Slots \ {i} PROVE (LedUser(j)' => res'.led = j) /\ (Gaming(j)' => FlagsOf(j)')
      BY <1>5, <2>1, <2>2, <2>3 DEF UsersOwn
    <3> QED
      BY <2>1, <2>3, SlotsAreIds DEF AppInv, ResInv, UsersOwn, FlagsOf
  <2>5. OwnersUse'
    BY <1>2, <2>1, <2>2, <2>3, <1>5 DEF AppInv, ResInv, ResTypes, Resources, OwnersUse, BeingCleaned, Owners
  <2>6. GameFlags'
    <3>1. ASSUME NEW c \in Commanders, cmd[c].at = "tictactoe" PROVE cmd[c].id # i /\ cmd[c].id # None
      BY <1>1, <3>1, SlotsAreIds DEF AppInv, TaskInv, OneCommand, Cleaning, NoStop
    <3> QED
      BY <1>2, <1>5, <2>1, <2>3, <3>1 DEF AppInv, ResInv, GameFlags, FlagsOf
  <2>7. EventsToGame'
    BY <1>2, <1>5, <2>1, <2>3 DEF AppInv, ResInv, EventsToGame
  <2> QED
    BY <1>4, <2>1, <2>4, <2>5, <2>6, <2>7 DEF AppInv, ResInv
<1> QED
  BY <1>6, <1>7

\* A lamp takes the LED matrix with the id that is registered, which is its own.
LEMMA LampAcquireKeeps ==
  ASSUME AppInv, NEW i \in Slots, LampAcquire(i), UNCHANGED cmd
  PROVE  AppInv'
<1>1. app[i].kind \in {"envled", "gol"} /\ app[i].at = "acquire"
  BY DEF LampAcquire
<1>2. /\ res.pane # i /\ res.led # i /\ i # None
      /\ ~ PaneUser(i) /\ ~ LedUser(i) /\ ~ Gaming(i) /\ ~ At(i, "tictactoe", "running")
  BY <1>1, NewOwnsNothing, SlotsAreIds
<1>3. PICK at \in {"running", "denied"} :
        /\ Move(i, at)
        /\ IF at = "running" THEN res.led = None /\ res' = [res EXCEPT !.led = i] ELSE res' = res
  <2>1. reg[app[i].kind] = i
    BY <1>1 DEF AppInv, TaskInv, Registers, Live
  <2> QED
    BY <1>2, <2>1 DEF LampAcquire, LedAcquired, CanTake
<1>4. TaskInv' /\ Others(i) /\ app'[i].kind = app[i].kind /\ app'[i].at = at
  <2>1. at \in Live /\ app[i].at \in Live /\ PlacesOfKind([app[i] EXCEPT !.at = at])
    BY <1>1 DEF Live, PlacesOfKind
  <2> QED
    BY <1>1, <1>3, <2>1, GoesOn DEF LampAcquire, AppInv
<1>5. ~ PaneUser(i)' /\ ~ Gaming(i)' /\ ~ At(i, "tictactoe", "running")'
  BY <1>1, <1>4 DEF PaneUser, Gaming, At
<1>6. CASE at = "denied"
  <2>1. ResTypes' /\ Dark' /\ res' = res
    BY <1>3, <1>6 DEF AppInv, ResInv, ResTypes, Resources, Dark, DarkIn
  <2>2. ~ LedUser(i)'
    BY <1>4, <1>6 DEF LedUser
  <2> QED
    BY <1>2, <1>4, <1>5, <2>1, <2>2, NothingTaken DEF AppInv
<1>7. CASE at = "running"
  <2>1. /\ ResTypes' /\ Dark' /\ res.led = None /\ res'.led = i /\ res'.pane = res.pane
        /\ res'.handler = res.handler /\ res'.tttLed = res.tttLed /\ res'.tttHdmi = res.tttHdmi
    BY <1>2, <1>3, <1>7 DEF AppInv, ResInv, ResTypes, Resources, Dark, DarkIn, Owners
  <2>2. LedUser(i)'
    BY <1>1, <1>4, <1>7 DEF LedUser
  <2>3. \A j \in Slots \ {i} : /\ ~ LedUser(j)' /\ ~ LedUser(j)
                               /\ PaneUser(j)' <=> PaneUser(j)
                               /\ Gaming(j)' <=> Gaming(j)
                               /\ At(j, "tictactoe", "running")' <=> At(j, "tictactoe", "running")
    BY <1>4, <2>1, Bystanders, SlotsAreIds DEF AppInv, ResInv, UsersOwn
  <2> HIDE DEF PaneUser, LedUser, Gaming, At
  <2>4. UsersOwn'
    <3> SUFFICES ASSUME NEW j \in Slots \ {i} PROVE (PaneUser(j)' => res'.pane = j) /\ (Gaming(j)' => FlagsOf(j)')
      BY <1>5, <2>1, <2>2, <2>3 DEF UsersOwn
    <3> QED
      BY <2>1, <2>3, SlotsAreIds DEF AppInv, ResInv, UsersOwn, FlagsOf
  <2>5. OwnersUse'
    BY <1>2, <2>1, <2>2, <2>3, <1>5 DEF AppInv, ResInv, ResTypes, Resources, OwnersUse, BeingCleaned, Owners
  <2>6. GameFlags'
    <3>1. ASSUME NEW c \in Commanders, cmd[c].at = "tictactoe" PROVE cmd[c].id # i /\ cmd[c].id # None
      BY <1>1, <3>1, SlotsAreIds DEF AppInv, TaskInv, OneCommand, Cleaning, NoStop
    <3> QED
      BY <1>2, <1>5, <2>1, <2>3, <3>1 DEF AppInv, ResInv, GameFlags, FlagsOf
  <2>7. EventsToGame'
    BY <1>2, <1>5, <2>1, <2>3 DEF AppInv, ResInv, EventsToGame
  <2> QED
    BY <1>4, <2>1, <2>4, <2>5, <2>6, <2>7 DEF AppInv, ResInv
<1> QED
  BY <1>6, <1>7

\* The game takes whatever display is free, and the events if it got one.
LEMMA GameNewKeeps ==
  ASSUME AppInv, NEW i \in Slots, GameNew(i), UNCHANGED cmd
  PROVE  AppInv'
<1>1. app[i].kind = "tictactoe" /\ app[i].at = "new"
  BY DEF GameNew, At
<1>2. /\ res.pane # i /\ res.led # i /\ i # None
      /\ ~ PaneUser(i) /\ ~ LedUser(i) /\ ~ Gaming(i) /\ ~ At(i, "tictactoe", "running")
  BY <1>1, NewOwnsNothing, SlotsAreIds
<1>3. PICK at \in {"running", "denied"} :
        /\ Move(i, at)
        /\ ResTypes'
        /\ res'.pane = (IF res.pane = None THEN i ELSE res.pane)
        /\ res'.led = (IF res.led = None THEN i ELSE res.led)
        /\ res'.tttLed = (res'.led = i) /\ res'.tttHdmi = (res'.pane = i)
        /\ at = "running" <=> res'.tttLed \/ res'.tttHdmi
        /\ res'.handler = IF at = "running" THEN "game" ELSE res.handler
        /\ UNCHANGED <<res.frame, res.pending, res.ledTask, res.drawing, res.shown, res.failed>>
  <2> DEFINE r == PaneAcquired(LedAcquired(res, i), i)
             s == [r EXCEPT !.tttLed = (r.led = i), !.tttHdmi = (r.pane = i)]
  <2>1. /\ r \in Resources
        /\ r.pane = (IF res.pane = None THEN i ELSE res.pane)
        /\ r.led = (IF res.led = None THEN i ELSE res.led)
        /\ r.handler = res.handler
        /\ r.frame = res.frame /\ r.pending = res.pending /\ r.ledTask = res.ledTask
        /\ r.drawing = res.drawing /\ r.shown = res.shown /\ r.failed = res.failed
    BY <1>2 DEF AppInv, ResInv, ResTypes, Resources, PaneAcquired, LedAcquired, CanTake, Owners
  <2> HIDE DEF r
  <2>2. \E at \in {"running", "denied"} :
          /\ Move(i, at)
          /\ at = "running" <=> s.tttLed \/ s.tttHdmi
          /\ res' = IF at = "running" THEN [s EXCEPT !.handler = "game"] ELSE s
    BY DEF GameNew, r
  <2>3. PICK at \in {"running", "denied"} :
          /\ Move(i, at)
          /\ at = "running" <=> s.tttLed \/ s.tttHdmi
          /\ res' = IF at = "running" THEN [s EXCEPT !.handler = "game"] ELSE s
    BY <2>2
  <2>4. /\ s.tttLed = (r.led = i) /\ s.tttHdmi = (r.pane = i)
    BY <2>1
  <2>5. /\ ResTypes'
        /\ res'.pane = r.pane /\ res'.led = r.led
        /\ res'.tttLed = (r.led = i) /\ res'.tttHdmi = (r.pane = i)
        /\ res'.handler = (IF at = "running" THEN "game" ELSE res.handler)
        /\ res'.frame = res.frame /\ res'.pending = res.pending /\ res'.ledTask = res.ledTask
        /\ res'.drawing = res.drawing /\ res'.shown = res.shown /\ res'.failed = res.failed
    BY <2>1, <2>3 DEF ResTypes, Resources
  <2> HIDE DEF s
  <2> QED
    BY <2>1, <2>3, <2>4, <2>5
<1>4. TaskInv' /\ Others(i) /\ app'[i].kind = app[i].kind /\ app'[i].at = at
  <2>1. at \in Live /\ PlacesOfKind([app[i] EXCEPT !.at = at])
    BY <1>1 DEF Live, PlacesOfKind
  <2>2. Registered(i)
    BY DEF GameNew
  <2> QED
    BY <1>1, <1>3, <2>1, <2>2, ComesUp DEF AppInv
<1>5. /\ ~ PaneUser(i)' /\ ~ LedUser(i)'
      /\ Gaming(i)' <=> at = "running"
      /\ At(i, "tictactoe", "running")' <=> at = "running"
  <2>1. app'[i] = [kind |-> "tictactoe", at |-> at]
    BY <1>1, <1>4 DEF AppInv, TaskInv, TaskTypes
  <2> QED
    BY <2>1 DEF PaneUser, LedUser, Gaming, At
<1>6. \A j \in Slots \ {i} : /\ PaneUser(j)' <=> PaneUser(j)
                             /\ LedUser(j)' <=> LedUser(j)
                             /\ ~ Gaming(j) /\ ~ Gaming(j)'
                             /\ ~ At(j, "tictactoe", "running") /\ ~ At(j, "tictactoe", "running")'
  BY <1>1, <1>4, Bystanders, OneGame
<1>7. \A c \in Commanders : cmd[c].at # "tictactoe"
  BY <1>1, OneGame
<1> HIDE DEF PaneUser, LedUser, Gaming, At
<1>8. UsersOwn'
  <2> SUFFICES ASSUME NEW j \in Slots PROVE /\ PaneUser(j)' => res'.pane = j
                                            /\ LedUser(j)' => res'.led = j
                                            /\ Gaming(j)' => FlagsOf(j)'
    BY DEF UsersOwn
  <2>1. CASE j = i
    BY <1>3, <1>5, <2>1 DEF FlagsOf
  <2>2. CASE j # i
    BY <1>3, <1>6, <2>2, SlotsAreIds DEF AppInv, ResInv, UsersOwn
  <2> QED
    BY <2>1, <2>2
<1>9. OwnersUse'
  <2>1. \A k, j : BeingCleaned(k, j)' <=> BeingCleaned(k, j)
    BY DEF BeingCleaned
  <2>2. /\ res.pane \in Owners /\ res.led \in Owners
        /\ \A j \in Slots : Gaming(j) => j = i
    BY <1>6 DEF AppInv, ResInv, ResTypes, Resources
  <2>3. res'.pane = i => Gaming(i)'
    BY <1>3, <1>5
  <2>4. res'.led = i => Gaming(i)'
    BY <1>3, <1>5
  <2> HIDE DEF BeingCleaned
  <2> QED
    BY <1>2, <1>3, <1>6, <2>1, <2>2, <2>3, <2>4 DEF AppInv, ResInv, OwnersUse, Owners
<1>10. GameFlags'
  BY <1>3, <1>5, <1>7 DEF GameFlags
<1>11. EventsToGame'
  <2>1. res.handler = "menu"
    BY <1>2, <1>6 DEF AppInv, ResInv, EventsToGame, ResTypes, Resources
  <2> QED
    BY <1>3, <1>5, <1>6, <2>1 DEF EventsToGame
<1>12. Dark'
  BY <1>2, <1>3 DEF AppInv, ResInv, Dark, DarkIn
<1> QED
  BY <1>3, <1>4, <1>8, <1>9, <1>10, <1>11, <1>12 DEF AppInv, ResInv

-----------------------------------------------------------------------------
\* led_release and the cleanup of the game give up what id owns, and no more; a
\* matrix that becomes free has a clear frame to show.
LEMMA LedReleasedGivesUp ==
  ASSUME NEW r \in Resources, NEW id \in Slots, NEW t, t = LedReleased(r, id)
  PROVE  /\ t \in Resources
         /\ t.pane = r.pane /\ t.led = (IF r.led = id THEN None ELSE r.led)
         /\ t.handler = r.handler /\ t.tttLed = r.tttLed /\ t.tttHdmi = r.tttHdmi
         /\ DarkIn(r) => DarkIn(t)
<1>1. CASE r.led = id
  <2>1. t = [r EXCEPT !.frame = "clear", !.pending = TRUE,
                      !.ledTask = IF @ = "blocked" THEN "ready" ELSE @, !.led = None]
    BY <1>1, SlotsAreIds DEF LedReleased, LedSubmitted, Resources
  <2> QED
    BY <1>1, <2>1 DEF Resources, DarkIn, Frames, Owners
<1>2. CASE r.led # id
  BY <1>2, SlotsAreIds DEF LedReleased, LedSubmitted
<1> QED
  BY <1>1, <1>2

\* ttt_cleanup_resources, when the flags say what id owns.
LEMMA GameFreedGivesUp ==
  ASSUME NEW r \in Resources, NEW id \in Slots, NEW t, t = GameFreed(r, id),
         r.tttLed <=> r.led = id, r.tttHdmi <=> r.pane = id
  PROVE  /\ t \in Resources
         /\ t.pane = (IF r.pane = id THEN None ELSE r.pane)
         /\ t.led = (IF r.led = id THEN None ELSE r.led)
         /\ t.handler = r.handler /\ ~ t.tttLed /\ ~ t.tttHdmi
         /\ DarkIn(r) => DarkIn(t)
<1>1. PICK s : s = (IF r.tttHdmi THEN PaneReleased(r, id) ELSE r)
  OBVIOUS
<1>2. /\ s \in Resources
      /\ s.pane = (IF r.pane = id THEN None ELSE r.pane)
      /\ s.led = r.led /\ s.handler = r.handler /\ (s.tttLed <=> r.tttLed)
      /\ DarkIn(r) => DarkIn(s)
  BY <1>1, SlotsAreIds DEF PaneReleased, Resources, Owners, DarkIn
<1>3. PICK u : u = (IF s.tttLed THEN LedReleased(s, id) ELSE s)
  OBVIOUS
<1>4. /\ u \in Resources
      /\ u.pane = s.pane
      /\ u.led = (IF s.led = id THEN None ELSE s.led) /\ u.handler = s.handler
      /\ DarkIn(s) => DarkIn(u)
  BY <1>2, <1>3, LedReleasedGivesUp
<1>5. t = [u EXCEPT !.tttLed = FALSE, !.tttHdmi = FALSE]
  BY <1>1, <1>3 DEF GameFreed
<1>6. /\ t \in Resources /\ t.pane = u.pane /\ t.led = u.led /\ t.handler = u.handler
      /\ ~ t.tttLed /\ ~ t.tttHdmi
      /\ DarkIn(u) => DarkIn(t)
  BY <1>4, <1>5 DEF Resources, DarkIn
<1> QED
  BY <1>2, <1>4, <1>6

\* The resources stay sound when task i gives up all it has.
LEMMA GivenUp ==
  ASSUME AppInv, NEW i \in Slots, ResTypes', Dark', EventsToGame',
         \A j \in Slots \ {i} : /\ PaneUser(j)' <=> PaneUser(j)
                                /\ LedUser(j)' <=> LedUser(j)
                                /\ Gaming(j)' <=> Gaming(j)
                                /\ \A k \in Kinds : BeingCleaned(k, j) => BeingCleaned(k, j)',
         ~ PaneUser(i)', ~ LedUser(i)', ~ Gaming(i)',
         res'.pane = (IF res.pane = i THEN None ELSE res.pane),
         res'.led = (IF res.led = i THEN None ELSE res.led),
         \/ /\ res'.tttLed = res.tttLed /\ res'.tttHdmi = res.tttHdmi /\ ~ Gaming(i)
            /\ \A c \in Commanders : /\ cmd[c].at = "tictactoe" <=> cmd'[c].at = "tictactoe"
                                     /\ cmd'[c].at = "tictactoe" =>
                                          cmd'[c].id = cmd[c].id /\ cmd[c].id # i
         \/ /\ ~ res'.tttLed /\ ~ res'.tttHdmi
            /\ \A j \in Slots \ {i} : ~ Gaming(j)
            /\ \A c \in Commanders : cmd'[c].at # "tictactoe"
  PROVE  ResInv'
<1> HIDE DEF PaneUser, LedUser, Gaming
<1>1. i # None /\ \A j \in Slots : j # None
  BY SlotsAreIds
<1>2. UsersOwn'
  <2> SUFFICES ASSUME NEW j \in Slots \ {i} PROVE /\ PaneUser(j)' => res'.pane = j
                                                  /\ LedUser(j)' => res'.led = j
                                                  /\ Gaming(j)' => FlagsOf(j)'
    BY DEF UsersOwn
  <2> QED
    BY <1>1 DEF AppInv, ResInv, UsersOwn, FlagsOf
<1>3. OwnersUse'
  <2>1. /\ res.pane \in Owners /\ res.led \in Owners
        /\ {"envdash", "diagdash", "tictactoe"} \subseteq Kinds
    BY DEF AppInv, ResInv, ResTypes, Resources, Kinds
  <2> HIDE DEF BeingCleaned
  <2> QED
    BY <1>1, <2>1 DEF AppInv, ResInv, OwnersUse, Owners
<1>4. GameFlags'
  <2>1. ASSUME NEW c \in Commanders, cmd[c].at = "tictactoe" PROVE cmd[c].id \in Slots
    BY <2>1 DEF AppInv, TaskInv, OneCommand, Cleaning, NoStop
  <2> QED
    BY <1>1, <2>1 DEF AppInv, ResInv, GameFlags, FlagsOf
<1> QED
  BY <1>2, <1>3, <1>4 DEF ResInv

\* A task gives up what it has and ends.
LEMMA LeavingKeeps ==
  ASSUME AppInv, NEW i \in Slots, UNCHANGED cmd,
         EnvLedLeaves(i) \/ EnvDashFlushed(i) \/ GameFlushed(i) \/ GameEnds(i)
  PROVE  AppInv'
<1>1. \A j \in Slots : \A k : BeingCleaned(k, j)' <=> BeingCleaned(k, j)
  BY DEF BeingCleaned
<1>2. ASSUME NEW c \in Commanders, app[i].at \in Live, cmd[c].at # "idle" PROVE cmd[c].id # i
  BY <1>2 DEF AppInv, TaskInv, OneCommand, Cleaning, NoStop, Live
<1>3. ASSUME Exit(i), Unregistered(i), app[i].at \in Live
      PROVE  /\ TaskInv' /\ Others(i)
             /\ ~ PaneUser(i)' /\ ~ LedUser(i)' /\ ~ Gaming(i)' /\ ~ At(i, "tictactoe", "running")'
  <2>1. TaskInv' /\ Others(i) /\ app'[i].kind = app[i].kind /\ app'[i].at = "dying"
    BY <1>3, Ends DEF AppInv
  <2> QED
    BY <2>1 DEF PaneUser, LedUser, Gaming, At
<1>4. CASE EnvLedLeaves(i)
  <2>1. app[i].kind = "envled" /\ app[i].at = "leaving" /\ Exit(i) /\ Unregistered(i)
    BY <1>4 DEF EnvLedLeaves, At
  <2>2. /\ TaskInv' /\ Others(i)
        /\ ~ PaneUser(i)' /\ ~ LedUser(i)' /\ ~ Gaming(i)' /\ ~ At(i, "tictactoe", "running")'
        /\ ~ Gaming(i) /\ ~ At(i, "tictactoe", "running") /\ LedUser(i) /\ ~ PaneUser(i)
    BY <1>3, <2>1 DEF Live, Gaming, At, LedUser, PaneUser
  <2>3. reg["envled"] = i /\ res.led = i
    BY <2>1, <2>2 DEF AppInv, TaskInv, Registers, Live, ResInv, UsersOwn
  <2>4. res.pane # i
    <3>1. ASSUME NEW k PROVE ~ BeingCleaned(k, i) \/ k = "idle"
      BY <1>2, <2>1 DEF BeingCleaned, Live
    <3> QED
      BY <2>2, <3>1, SlotsAreIds DEF AppInv, ResInv, OwnersUse
  <2> DEFINE r == LedSubmitted(res, i, "clear")
  <2>5. /\ r \in Resources /\ r.pane = res.pane /\ r.led = res.led /\ r.handler = res.handler
        /\ r.tttLed = res.tttLed /\ r.tttHdmi = res.tttHdmi
        /\ DarkIn(r)
    BY <2>3, SlotsAreIds DEF LedSubmitted, AppInv, ResInv, ResTypes, Resources, Frames, DarkIn
  <2>6. res' = LedReleased(r, i)
    BY <1>4, <2>3 DEF EnvLedLeaves
  <2> HIDE DEF r
  <2>7. /\ res' \in Resources /\ res'.pane = r.pane /\ res'.led = None /\ res'.handler = r.handler
        /\ res'.tttLed = r.tttLed /\ res'.tttHdmi = r.tttHdmi /\ DarkIn(res')
    BY <2>3, <2>5, <2>6, LedReleasedGivesUp
  <2>8. EventsToGame'
    BY <2>2, <2>5, <2>7, Bystanders DEF AppInv, ResInv, EventsToGame
  <2>9. ResTypes' /\ Dark'
    BY <2>7 DEF ResTypes, Dark
  <2>10. \A c \in Commanders : cmd[c].at = "tictactoe" => cmd[c].id # i
    BY <1>2, <2>1 DEF Live
  <2>11. ResInv'
    BY <1>1, <2>2, <2>3, <2>4, <2>5, <2>7, <2>8, <2>9, <2>10, GivenUp, Bystanders
  <2> QED
    BY <2>2, <2>11 DEF AppInv
<1>5. CASE EnvDashFlushed(i)
  <2>1. app[i].kind = "envdash" /\ app[i].at = "flush" /\ Exit(i) /\ Unregistered(i)
    BY <1>5 DEF EnvDashFlushed, At
  <2>2. /\ TaskInv' /\ Others(i)
        /\ ~ PaneUser(i)' /\ ~ LedUser(i)' /\ ~ Gaming(i)' /\ ~ At(i, "tictactoe", "running")'
        /\ ~ Gaming(i) /\ ~ At(i, "tictactoe", "running") /\ PaneUser(i) /\ ~ LedUser(i)
    BY <1>3, <2>1 DEF Live, Gaming, At, LedUser, PaneUser
  <2>3. reg["envdash"] = i /\ res.pane = i
    BY <2>1, <2>2 DEF AppInv, TaskInv, Registers, Live, ResInv, UsersOwn
  <2>4. res.led # i
    <3>1. ASSUME NEW k PROVE ~ BeingCleaned(k, i) \/ k = "idle"
      BY <1>2, <2>1 DEF BeingCleaned, Live
    <3> QED
      BY <2>2, <3>1, SlotsAreIds DEF AppInv, ResInv, OwnersUse
  <2>5. /\ res' \in Resources /\ res'.pane = None /\ res'.led = res.led /\ res'.handler = res.handler
        /\ res'.tttLed = res.tttLed /\ res'.tttHdmi = res.tttHdmi /\ DarkIn(res')
    BY <1>5, <2>3, SlotsAreIds
       DEF EnvDashFlushed, PaneReleased, AppInv, ResInv, ResTypes, Resources, Dark, DarkIn, Owners
  <2>6. EventsToGame'
    BY <2>2, <2>5, Bystanders DEF AppInv, ResInv, EventsToGame
  <2>7. ResTypes' /\ Dark'
    BY <2>5 DEF ResTypes, Dark
  <2>8. \A c \in Commanders : cmd[c].at = "tictactoe" => cmd[c].id # i
    BY <1>2, <2>1 DEF Live
  <2>9. ResInv'
    BY <1>1, <2>2, <2>3, <2>4, <2>5, <2>6, <2>7, <2>8, GivenUp, Bystanders
  <2> QED
    BY <2>2, <2>9 DEF AppInv
<1>6. ASSUME NEW r \in Resources, DarkIn(r), r.pane = res.pane, r.led = res.led, r.handler = "menu",
             r.tttLed = res.tttLed, r.tttHdmi = res.tttHdmi, res' = GameFreed(r, i),
             Exit(i), Unregistered(i), Gaming(i)
      PROVE  AppInv'
  <2>1. app[i].kind = "tictactoe" /\ app[i].at \in Live
    BY <1>6 DEF Gaming, Live
  <2>2. /\ TaskInv' /\ Others(i)
        /\ ~ PaneUser(i)' /\ ~ LedUser(i)' /\ ~ Gaming(i)' /\ ~ At(i, "tictactoe", "running")'
    BY <1>3, <1>6, <2>1
  <2>3. FlagsOf(i)
    BY <1>6 DEF AppInv, ResInv, UsersOwn
  <2>a. (r.tttLed <=> r.led = i) /\ (r.tttHdmi <=> r.pane = i) /\ i \in Slots
    BY <1>6, <2>3 DEF FlagsOf
  <2>4. /\ res' \in Resources
        /\ res'.pane = (IF r.pane = i THEN None ELSE r.pane)
        /\ res'.led = (IF r.led = i THEN None ELSE r.led)
        /\ res'.handler = r.handler /\ ~ res'.tttLed /\ ~ res'.tttHdmi
        /\ DarkIn(res')
    BY <1>6, <2>a, GameFreedGivesUp
  <2>5. /\ \A j \in Slots \ {i} : ~ Gaming(j) /\ ~ At(j, "tictactoe", "running")
        /\ \A c \in Commanders : cmd[c].at # "tictactoe"
    BY <2>1, OneGame
  <2>6. ResTypes' /\ Dark' /\ EventsToGame'
    BY <1>6, <2>2, <2>4, <2>5, Bystanders DEF ResTypes, Dark, EventsToGame
  <2>7. ResInv'
    BY <1>1, <1>6, <2>2, <2>4, <2>5, <2>6, GivenUp, Bystanders
  <2> QED
    BY <2>2, <2>7 DEF AppInv
<1>7. CASE GameFlushed(i)
  <2>1. app[i].kind = "tictactoe" /\ app[i].at = "flush"
    BY <1>7 DEF GameFlushed, At
  <2>2. reg["tictactoe"] = i /\ Gaming(i)
    BY <2>1 DEF AppInv, TaskInv, Registers, Live, Gaming
  <2>3. res.handler = "menu"
    BY <2>1, OneGame DEF AppInv, ResInv, EventsToGame, ResTypes, Resources, At, Live
  <2> QED
    BY <1>6, <1>7, <2>2, <2>3 DEF GameFlushed, AppInv, ResInv, ResTypes, Dark
<1>8. CASE GameEnds(i)
  <2> DEFINE s == [res EXCEPT !.handler = "menu"]
  <2>1. app[i].kind = "tictactoe" /\ app[i].at = "running"
    BY <1>8 DEF GameEnds, At
  <2>2. reg["tictactoe"] = i /\ Gaming(i)
    BY <2>1 DEF AppInv, TaskInv, Registers, Live, Gaming
  <2>3. /\ s \in Resources /\ DarkIn(s) /\ s.pane = res.pane /\ s.led = res.led
        /\ s.handler = "menu" /\ s.tttLed = res.tttLed /\ s.tttHdmi = res.tttHdmi
    BY DEF AppInv, ResInv, ResTypes, Resources, Dark, DarkIn
  <2>4. CASE ~ s.tttHdmi
    BY <1>6, <1>8, <2>2, <2>3, <2>4 DEF GameEnds
  <2>5. CASE s.tttHdmi
    <3>1. res' = s /\ Move(i, "flush") /\ UNCHANGED reg
      BY <1>8, <2>5 DEF GameEnds
    <3>2. TaskInv' /\ Others(i) /\ app'[i].kind = app[i].kind /\ app'[i].at = "flush"
      <4>1. PlacesOfKind([app[i] EXCEPT !.at = "flush"])
        BY <2>1 DEF PlacesOfKind
      <4> QED
        BY <2>1, <3>1, <4>1, GoesOn DEF AppInv, Live
    <3> HIDE DEF s
    <3>3. /\ Gaming(i)' /\ ~ PaneUser(i)' /\ ~ LedUser(i)' /\ ~ At(i, "tictactoe", "running")'
          /\ ~ PaneUser(i) /\ ~ LedUser(i)
      BY <2>1, <3>2 DEF Gaming, PaneUser, LedUser, At
    <3>4. \A j \in Slots : /\ PaneUser(j)' <=> PaneUser(j)
                           /\ LedUser(j)' <=> LedUser(j)
                           /\ Gaming(j)' <=> Gaming(j)
                           /\ ~ At(j, "tictactoe", "running")'
      BY <2>1, <2>2, <3>2, <3>3, Bystanders, OneGame DEF Live
    <3> HIDE DEF PaneUser, LedUser, Gaming, At
    <3>5. ResTypes' /\ Dark' /\ EventsToGame'
      BY <2>3, <3>1, <3>4 DEF ResTypes, Dark, EventsToGame
    <3>6. UsersOwn' /\ GameFlags'
      BY <2>3, <3>1, <3>4 DEF AppInv, ResInv, UsersOwn, GameFlags, FlagsOf
    <3>7. OwnersUse'
      BY <1>1, <2>3, <3>1, <3>4 DEF AppInv, ResInv, ResTypes, Resources, OwnersUse, Owners
    <3> QED
      BY <3>2, <3>5, <3>6, <3>7 DEF AppInv, ResInv
  <2> QED
    BY <2>4, <2>5
<1> QED
  BY <1>4, <1>5, <1>7, <1>8
-----------------------------------------------------------------------------
\* Only what was DYING is gone.
LEMMA OnlyReaped ==
  ASSUME AppInv, app' = AfterReap(app, None), NEW i \in Slots
  PROVE  /\ app' \in [Slots -> [kind : Kinds \cup {"none"}, at : Places]]
         /\ \A j \in Slots : PlacesOfKind(app'[j])
         /\ Others(i)
         /\ app'[i] = app[i] \/ (app[i].at = "dying" /\ app'[i] = Unused)
<1>1. /\ app' \in [Slots -> [kind : Kinds \cup {"none"}, at : Places]]
      /\ \A j \in Slots : app'[j] = app[j] \/ (app[j].at = "dying" /\ app'[j] = Unused)
  <2>1. Unused \in [kind : Kinds \cup {"none"}, at : Places]
    BY DEF Unused, Places
  <2>2. \A j \in Slots : app'[j] = IF app[j].at = "dying" /\ j # None THEN Unused ELSE app[j]
    BY DEF AfterReap
  <2>3. app' = [j \in Slots |-> IF app[j].at = "dying" /\ j # None THEN Unused ELSE app[j]]
    BY DEF AfterReap
  <2> QED
    BY <2>1, <2>2, <2>3 DEF AppInv, TaskInv, TaskTypes
<1>2. PlacesOfKind(Unused)
  BY DEF PlacesOfKind, Unused
<1> QED
  BY <1>1, <1>2 DEF Others, AppInv, TaskInv, TaskTypes

\* The LED task renders, or blocks.
LEMMA LedTaskKeeps ==
  ASSUME AppInv, LedTake \/ LedRender
  PROVE  AppInv'
<1>1. app' = AfterReap(app, None) /\ UNCHANGED <<cmd, reg>>
  BY DEF LedTake, LedRender
<1>2. PICK i \in Slots : TRUE
  BY AppAssumption
<1>3. /\ app' \in [Slots -> [kind : Kinds \cup {"none"}, at : Places]]
      /\ \A j \in Slots : PlacesOfKind(app'[j])
      /\ \A j \in Slots : Others(j)
      /\ \A j \in Slots : app'[j] = app[j] \/ (app[j].at = "dying" /\ app'[j] = Unused)
  BY <1>1, <1>2, OnlyReaped
<1>4. TaskInv'
  <2>1. TaskTypes' /\ OneOfAKind'
    BY <1>1, <1>3 DEF AppInv, TaskInv, TaskTypes, OneOfAKind, Unused
  <2>2. OneCommand'
    BY <1>1, <1>3 DEF AppInv, TaskInv, TaskTypes, OneCommand, Cleaning, Unused, NoStop, Stages
  <2>3. RegSound'
    <3> SUFFICES ASSUME NEW k \in Kinds \ {"env"}, reg[k] # None,
                        app[reg[k]].kind = k, app[reg[k]].at \in Live
                 PROVE  app'[reg[k]].kind = k /\ app'[reg[k]].at \in Live
      BY <1>1 DEF AppInv, TaskInv, RegSound, BeingCleaned
    <3>1. reg[k] \in Slots
      BY DEF AppInv, TaskInv, TaskTypes, Owners
    <3> QED
      BY <1>3, <3>1 DEF Live
  <2>4. Registers'
    BY <1>1, <1>3 DEF AppInv, TaskInv, Registers, Unused, Live
  <2> QED
    BY <2>1, <2>2, <2>3, <2>4 DEF TaskInv
<1>5. /\ ResTypes' /\ Dark'
      /\ res'.pane = res.pane /\ res'.led = res.led /\ res'.handler = res.handler
      /\ res'.tttLed = res.tttLed /\ res'.tttHdmi = res.tttHdmi
  <2>1. CASE LedTake
    BY <2>1 DEF LedTake, AppInv, ResInv, ResTypes, Resources, Dark, DarkIn
  <2>2. CASE LedRender
    BY <2>2 DEF LedRender, AppInv, ResInv, ResTypes, Resources, Dark, DarkIn
  <2> QED
    BY <2>1, <2>2
<1>6. /\ PaneUser(i)' <=> PaneUser(i)
      /\ LedUser(i)' <=> LedUser(i)
      /\ Gaming(i)' <=> Gaming(i)
      /\ At(i, "tictactoe", "running")' <=> At(i, "tictactoe", "running")
  BY <1>3 DEF PaneUser, LedUser, Gaming, At, Unused
<1>7. ResInv'
  BY <1>1, <1>3, <1>5, <1>6, NothingTaken
<1> QED
  BY <1>4, <1>7 DEF AppInv

\* A new task, of a kind that nobody has.
LEMMA StartKeeps ==
  ASSUME AppInv, NEW c \in Commanders, NEW k \in Kinds, Start(c, k),
         \A d \in Commanders : cmd[d] = NoStop
  PROVE  AppInv'
<1>1. PICK i \in Slots :
        /\ app[i].at = "unused"
        /\ app' = AfterReap([app EXCEPT ![i] = [kind |-> k, at |-> "new"]], None)
  BY DEF Start
<1>2. UNCHANGED <<cmd, reg, res>> /\ \A j \in Slots : app[j].kind # k
  BY DEF Start
<1>3. /\ app' \in [Slots -> [kind : Kinds \cup {"none"}, at : Places]]
      /\ app'[i] = [kind |-> k, at |-> "new"]
      /\ Others(i)
  BY <1>1 DEF AppInv, TaskInv, TaskTypes, AfterReap, Others, Unused, Places
<1>4. \A j \in Slots : PlacesOfKind(app'[j])
  <2>1. PlacesOfKind(Unused) /\ PlacesOfKind([kind |-> k, at |-> "new"])
    BY DEF PlacesOfKind, Unused, Kinds
  <2> QED
    BY <1>3, <2>1 DEF Others, AppInv, TaskInv, TaskTypes
<1>5. TaskInv'
  <2>1. TaskTypes'
    BY <1>2, <1>3, <1>4 DEF AppInv, TaskInv, TaskTypes
  <2>2. OneOfAKind'
    BY <1>2, <1>3 DEF AppInv, TaskInv, OneOfAKind, Others, Unused
  <2>3. OneCommand'
    BY <1>2 DEF OneCommand
  <2>4. RegSound'
    <3> SUFFICES ASSUME NEW q \in Kinds \ {"env"}, reg[q] # None
                 PROVE  app'[reg[q]].kind = q /\ app'[reg[q]].at \in Live
      BY <1>2 DEF RegSound
    <3>1. ~ BeingCleaned(q, reg[q]) /\ reg[q] \in Slots
      BY DEF BeingCleaned, NoStop, Kinds, AppInv, TaskInv, TaskTypes, Owners
    <3>2. app[reg[q]].kind = q /\ app[reg[q]].at \in Live
      BY <3>1 DEF AppInv, TaskInv, RegSound
    <3> QED
      BY <1>1, <1>3, <3>1, <3>2 DEF Others, Live
  <2>5. Registers'
    BY <1>2, <1>3 DEF AppInv, TaskInv, Registers, Others, Unused, Live
  <2> QED
    BY <2>1, <2>2, <2>3, <2>4, <2>5 DEF TaskInv
<1>6. /\ PaneUser(i)' <=> PaneUser(i)
      /\ LedUser(i)' <=> LedUser(i)
      /\ Gaming(i)' <=> Gaming(i)
      /\ At(i, "tictactoe", "running")' <=> At(i, "tictactoe", "running")
  BY <1>1, <1>3 DEF PaneUser, LedUser, Gaming, At
<1>7. ResInv'
  BY <1>2, <1>3, <1>6, NothingTaken DEF AppInv, ResInv, ResTypes, Dark
<1> QED
  BY <1>5, <1>7 DEF AppInv
-----------------------------------------------------------------------------
\* The pane that hdmi_release_pane gives up.
LEMMA PaneReleasedGivesUp ==
  ASSUME NEW r \in Resources, NEW id \in Slots, NEW t, t = PaneReleased(r, id)
  PROVE  /\ t \in Resources
         /\ t.pane = (IF r.pane = id THEN None ELSE r.pane) /\ t.led = r.led
         /\ t.handler = r.handler /\ t.tttLed = r.tttLed /\ t.tttHdmi = r.tttHdmi
         /\ DarkIn(r) => DarkIn(t)
  BY SlotsAreIds DEF PaneReleased, Resources, Owners, DarkIn

\* Where the second part of a stop ends: after the flush nothing is left to compare.
LEMMA FlushedEnds ==
  ASSUME NEW K \in {"envdash", "diagdash", "tictactoe"}, NEW id \in Slots,
         reg \in [Kinds -> Owners], reg[K] = id,
         \A k \in Kinds \ {"env", K} : reg[k] # id
  PROVE  Flushed(K, id) =
           Stage("idle", [reg EXCEPT ![K] = None],
                 IF K = "tictactoe" THEN GameFreed(res, id) ELSE PaneReleased(res, id))
<1> DEFINE g == [reg EXCEPT ![K] = None]
           r == PaneReleased(res, id)
<1>1. id # None
  BY SlotsAreIds
<1>2. \A k \in Kinds \ {"env"} : g[k] # id
  BY <1>1
<1>3. {"envled", "diagdash", "gol", "tictactoe"} \subseteq Kinds \ {"env"}
  BY DEF Kinds
<1>4. CASE K = "tictactoe"
  BY <1>4 DEF Flushed
<1>5. CASE K = "envdash"
  <2>1. Flushed(K, id) = StopEnvLed(g, r, id)
    BY <1>5 DEF Flushed
  <2> HIDE DEF g, r
  <2>2. Flushed(K, id) = Stage("idle", g, r)
    BY <1>2, <1>3, <2>1 DEF StopEnvLed, StopDiagDash, StopGol, StopGame
  <2> QED
    BY <1>5, <2>2 DEF g, r
<1>6. CASE K = "diagdash"
  <2>1. Flushed(K, id) = StopGol(g, r, id)
    BY <1>6 DEF Flushed
  <2> HIDE DEF g, r
  <2>2. Flushed(K, id) = Stage("idle", g, r)
    BY <1>2, <1>3, <2>1 DEF StopGol, StopGame
  <2> QED
    BY <1>6, <2>2 DEF g, r
<1> QED
  BY <1>4, <1>5, <1>6

\* A task that is cleaned up after is registered where it was, and nowhere else.
LEMMA CleanedOnce ==
  ASSUME AppInv, NEW c \in Commanders, cmd[c] # NoStop
  PROVE  /\ Cleaning(c) /\ cmd[c].at \in {"envdash", "diagdash", "tictactoe"}
         /\ \A k \in Kinds \ {"env", cmd[c].at} : reg[k] # cmd[c].id
         /\ \A d \in Commanders \ {c} : cmd[d] = NoStop
         /\ LET i == cmd[c].id
            IN  ~ PaneUser(i) /\ ~ LedUser(i) /\ ~ Gaming(i) /\ ~ At(i, "tictactoe", "running")
<1>1. Cleaning(c) /\ cmd[c].at \in {"envdash", "diagdash", "tictactoe"}
  BY DEF AppInv, TaskInv, OneCommand, TaskTypes, Stages, Cleaning
<1>2. \A d \in Commanders \ {c} : cmd[d] = NoStop
  BY DEF AppInv, TaskInv, OneCommand
<1>3. ASSUME NEW k \in Kinds \ {"env", cmd[c].at}, reg[k] = cmd[c].id PROVE FALSE
  <2>1. app[reg[k]].at \notin Live /\ reg[k] # None
    BY <1>1, <1>3, SlotsAreIds DEF Cleaning, Live
  <2>2. BeingCleaned(k, reg[k])
    BY <2>1 DEF AppInv, TaskInv, RegSound
  <2> QED
    BY <1>2, <1>3, <2>2 DEF BeingCleaned, NoStop, Kinds
<1> QED
  BY <1>1, <1>2, <1>3 DEF Cleaning, PaneUser, LedUser, Gaming, At

\* The command that stops a task goes on after the flush.
LEMMA StopGoesOnKeeps ==
  ASSUME AppInv, NEW c \in Commanders, StopGoesOn(c)
  PROVE  AppInv'
<1> DEFINE i == cmd[c].id
           K == cmd[c].at
<1>1. cmd[c] # NoStop /\ app' = AfterReap(app, None)
  BY DEF StopGoesOn
<1>2. /\ Cleaning(c) /\ K \in {"envdash", "diagdash", "tictactoe"}
      /\ \A k \in Kinds \ {"env", K} : reg[k] # i
      /\ \A d \in Commanders \ {c} : cmd[d] = NoStop
      /\ ~ PaneUser(i) /\ ~ LedUser(i) /\ ~ Gaming(i) /\ ~ At(i, "tictactoe", "running")
  BY <1>1, CleanedOnce
<1>3. i \in Slots /\ reg[K] = i /\ K \in Kinds \ {"env"} /\ app[i].at \in {"unused", "dying"}
  BY <1>2 DEF Cleaning, Kinds
<1>4. /\ reg' = [reg EXCEPT ![K] = None]
      /\ res' = (IF K = "tictactoe" THEN GameFreed(res, i) ELSE PaneReleased(res, i))
      /\ cmd' = [cmd EXCEPT ![c] = NoStop]
  <2>1. Flushed(K, i) =
          Stage("idle", [reg EXCEPT ![K] = None],
                IF K = "tictactoe" THEN GameFreed(res, i) ELSE PaneReleased(res, i))
    BY <1>2, <1>3, FlushedEnds DEF AppInv, TaskInv, TaskTypes
  <2>2. StopReaches(c, Flushed(K, i), i)
    BY DEF StopGoesOn
  <2> QED
    BY <2>1, <2>2 DEF StopReaches, Stage
<1>5. /\ app' \in [Slots -> [kind : Kinds \cup {"none"}, at : Places]]
      /\ \A j \in Slots : PlacesOfKind(app'[j])
      /\ \A j \in Slots : Others(j)
      /\ \A j \in Slots : app'[j] = app[j] \/ (app[j].at = "dying" /\ app'[j] = Unused)
  BY <1>1, OnlyReaped, AppAssumption
<1>6. \A d \in Commanders : cmd'[d] = NoStop
  BY <1>2, <1>4 DEF AppInv, TaskInv, TaskTypes
<1>t. reg \in [Kinds -> Owners] /\ cmd \in [Commanders -> [at : Stages, id : Owners]]
  BY DEF AppInv, TaskInv, TaskTypes
<1> HIDE DEF i, K
<1>7. TaskInv'
  <2>1. TaskTypes' /\ OneOfAKind'
    <3>1. NoStop \in [at : Stages, id : Owners] /\ None \in Owners
      BY DEF NoStop, Stages, Owners
    <3>2. TaskTypes'
      BY <1>4, <1>5, <1>t, <3>1 DEF TaskTypes
    <3> QED
      BY <1>5, <3>2 DEF AppInv, TaskInv, OneOfAKind, Unused
  <2>2. OneCommand'
    BY <1>6 DEF OneCommand
  <2>3. RegSound'
    <3> SUFFICES ASSUME NEW k \in Kinds \ {"env"}, reg'[k] # None
                 PROVE  app'[reg'[k]].kind = k /\ app'[reg'[k]].at \in Live
      BY DEF RegSound
    <3>1. k # K /\ reg'[k] = reg[k] /\ reg[k] \in Slots
      BY <1>4, <1>t, <1>3 DEF Owners
    <3>2. ~ BeingCleaned(k, reg[k])
      BY <1>2, <3>1 DEF BeingCleaned, NoStop, K, Kinds
    <3>3. app[reg[k]].kind = k /\ app[reg[k]].at \in Live
      BY <3>1, <3>2 DEF AppInv, TaskInv, RegSound
    <3> QED
      BY <1>5, <3>1, <3>3 DEF Live
  <2>4. Registers'
    <3> SUFFICES ASSUME NEW j \in Slots, app'[j].at \in Live PROVE reg'[app'[j].kind] = j
      BY DEF Registers
    <3>1. app'[j] = app[j]
      BY <1>5 DEF Unused, Live
    <3>2. app[j].kind # K
      BY <1>2, <1>3, <3>1 DEF Cleaning, Live, i, K
    <3>3. app[j].kind \in Kinds /\ reg[app[j].kind] = j
      BY <3>1 DEF AppInv, TaskInv, TaskTypes, Registers, PlacesOfKind, Live
    <3> QED
      BY <1>4, <1>t, <3>1, <3>2, <3>3
  <2> QED
    BY <2>1, <2>2, <2>3, <2>4 DEF TaskInv
<1>8. ResInv'
  <2>1. res \in Resources /\ DarkIn(res)
    BY DEF AppInv, ResInv, ResTypes, Dark
  <2>2. \A j \in Slots : /\ PaneUser(j)' <=> PaneUser(j)
                         /\ LedUser(j)' <=> LedUser(j)
                         /\ Gaming(j)' <=> Gaming(j)
                         /\ At(j, "tictactoe", "running")' <=> At(j, "tictactoe", "running")
    BY <1>5 DEF PaneUser, LedUser, Gaming, At, Unused
  <2>3. \A j \in Slots \ {i} : \A k \in Kinds : ~ BeingCleaned(k, j)
    BY <1>2 DEF BeingCleaned, NoStop, Kinds, i
  <2>4. \A d \in Commanders : cmd'[d].at # "tictactoe"
    BY <1>6 DEF NoStop
  <2>5. CASE K = "tictactoe"
    <3>1. (res.tttLed <=> res.led = i) /\ (res.tttHdmi <=> res.pane = i)
      BY <2>5 DEF AppInv, ResInv, GameFlags, FlagsOf, i, K
    <3>2. /\ res' \in Resources
          /\ res'.pane = (IF res.pane = i THEN None ELSE res.pane)
          /\ res'.led = (IF res.led = i THEN None ELSE res.led)
          /\ res'.handler = res.handler /\ ~ res'.tttLed /\ ~ res'.tttHdmi
          /\ DarkIn(res')
      BY <1>3, <1>4, <2>1, <2>5, <3>1, GameFreedGivesUp
    <3>3. \A j \in Slots \ {i} : ~ Gaming(j)
      BY <1>2, <2>5 DEF Cleaning, Gaming, i, K
    <3>4. ResTypes' /\ Dark' /\ EventsToGame'
      BY <2>2, <3>2 DEF AppInv, ResInv, ResTypes, Dark, EventsToGame
    <3> QED
      BY <1>2, <1>3, <2>2, <2>3, <2>4, <3>2, <3>3, <3>4, GivenUp
  <2>6. CASE K # "tictactoe"
    <3>1. res' = PaneReleased(res, i)
      BY <1>4, <2>6
    <3>2. /\ res' \in Resources
          /\ res'.pane = (IF res.pane = i THEN None ELSE res.pane) /\ res'.led = res.led
          /\ res'.handler = res.handler /\ res'.tttLed = res.tttLed /\ res'.tttHdmi = res.tttHdmi
          /\ DarkIn(res')
      BY <1>3, <2>1, <3>1, PaneReleasedGivesUp
    <3>3. res.led # i
      <4>1. ~ BeingCleaned("tictactoe", i)
        BY <1>2, <2>6 DEF BeingCleaned, NoStop, K
      <4> QED
        BY <1>2, <1>3, <4>1, SlotsAreIds DEF AppInv, ResInv, OwnersUse
    <3>4. \A d \in Commanders : cmd[d].at # "tictactoe"
      BY <1>2, <2>6 DEF NoStop, K
    <3>5. ResTypes' /\ Dark' /\ EventsToGame'
      BY <2>2, <3>2 DEF AppInv, ResInv, ResTypes, Dark, EventsToGame
    <3> QED
      BY <1>2, <1>3, <2>2, <2>3, <2>4, <3>2, <3>3, <3>4, <3>5, GivenUp
  <2> QED
    BY <2>5, <2>6
<1> QED
  BY <1>7, <1>8 DEF AppInv
-----------------------------------------------------------------------------
\* What the command does up to its end or to its flush, for the task with id i
\* whose kind is K: no other kind has that id registered.
LEMMA StopDoes ==
  ASSUME NEW i \in Slots, NEW K \in Kinds, reg \in [Kinds -> Owners],
         \A k \in Kinds \ {"env", K} : reg[k] # i,
         NEW r, r = IF i = reg["env"] THEN [res EXCEPT !.env = FALSE] ELSE res
  PROVE  /\ K = "env" \/ reg[K] # i => StopEnv(reg, res, i) = Stage("idle", reg, r)
         /\ reg[K] = i =>
              /\ K \in {"envdash", "diagdash"} => StopEnv(reg, res, i) = Stage(K, reg, r)
              /\ K \in {"envled", "gol"} =>
                   StopEnv(reg, res, i) = Stage("idle", [reg EXCEPT ![K] = None], LedReleased(r, i))
              /\ K = "tictactoe" => StopEnv(reg, res, i) = StopGame(reg, r, i)
<1>0. {"envdash", "envled", "diagdash", "gol", "tictactoe"} = Kinds \ {"env"}
  BY DEF Kinds
<1>n. i # None
  BY SlotsAreIds
<1>1. StopEnv(reg, res, i) = StopEnvDash(reg, r, i)
  BY DEF StopEnv
<1>2. CASE K = "env" \/ reg[K] # i
  <2>1. \A k \in Kinds \ {"env"} : reg[k] # i
    BY <1>2
  <2>2. StopEnv(reg, res, i) = Stage("idle", reg, r)
    BY <1>0, <1>1, <2>1 DEF StopEnvDash, StopEnvLed, StopDiagDash, StopGol, StopGame
  <2> QED
    BY <1>2, <2>2
<1>3. CASE K = "envdash" /\ reg[K] = i
  BY <1>1, <1>3 DEF StopEnvDash
<1>4. CASE K = "diagdash" /\ reg[K] = i
  <2>1. reg["envdash"] # i /\ reg["envled"] # i
    BY <1>0, <1>4
  <2> QED
    BY <1>1, <1>4, <2>1 DEF StopEnvDash, StopEnvLed, StopDiagDash
<1>5. CASE K = "envled" /\ reg[K] = i
  <2> DEFINE g == [reg EXCEPT ![K] = None]
  <2>1. reg["envdash"] # i /\ g["diagdash"] # i /\ g["gol"] # i /\ g["tictactoe"] # i
    BY <1>0, <1>5, <1>n
  <2>2. StopEnv(reg, res, i) = StopDiagDash(g, LedReleased(r, i), i)
    BY <1>1, <1>5, <2>1 DEF StopEnvDash, StopEnvLed
  <2> HIDE DEF g
  <2>3. StopEnv(reg, res, i) = Stage("idle", g, LedReleased(r, i))
    BY <2>1, <2>2 DEF StopDiagDash, StopGol, StopGame
  <2> QED
    BY <1>5, <2>3 DEF g
<1>6. CASE K = "gol" /\ reg[K] = i
  <2> DEFINE g == [reg EXCEPT ![K] = None]
  <2>1. reg["envdash"] # i /\ reg["envled"] # i /\ reg["diagdash"] # i /\ g["tictactoe"] # i
    BY <1>0, <1>6, <1>n
  <2>2. StopEnv(reg, res, i) = StopGame(g, LedReleased(r, i), i)
    BY <1>1, <1>6, <2>1 DEF StopEnvDash, StopEnvLed, StopDiagDash, StopGol
  <2> HIDE DEF g
  <2>3. StopEnv(reg, res, i) = Stage("idle", g, LedReleased(r, i))
    BY <2>1, <2>2 DEF StopGame
  <2> QED
    BY <1>6, <2>3 DEF g
<1>7. CASE K = "tictactoe" /\ reg[K] = i
  <2>1. reg["envdash"] # i /\ reg["envled"] # i /\ reg["diagdash"] # i /\ reg["gol"] # i
    BY <1>0, <1>7
  <2> QED
    BY <1>1, <1>7, <2>1 DEF StopEnvDash, StopEnvLed, StopDiagDash, StopGol
<1> QED
  BY <1>0, <1>2, <1>3, <1>4, <1>5, <1>6, <1>7

Halted(i) == app' = AfterReap([app EXCEPT ![i].at = "dying"], None)

\* Nothing was registered for task i, or it has been taken back, or it is still
\* there and command c cleans up.
TakenBack(i)  == /\ cmd' = cmd
                 /\ \/ reg' = reg /\ (app[i].kind = "env" \/ app[i].at = "new")
                    \/ reg' = [reg EXCEPT ![app[i].kind] = None]
CleansUp(c, i) == /\ reg' = reg
                  /\ app[i].kind \in {"envdash", "diagdash", "tictactoe"}
                  /\ reg[app[i].kind] = i
                  /\ cmd' = [cmd EXCEPT ![c] = [at |-> app[i].kind, id |-> i]]

\* The tasks and registrations after a stop, whatever is registered: what the
\* command took back was the stopped task's, and what it left is being cleaned.
LEMMA StoppedTasks ==
  ASSUME AppInv, NEW c \in Commanders, NEW i \in Slots,
         \A d \in Commanders : cmd[d] = NoStop,
         app[i].at \notin {"unused", "dying"},
         Halted(i), TakenBack(i) \/ CleansUp(c, i)
  PROVE  TaskInv' /\ Others(i) /\ app'[i] = Unused
<1> DEFINE K == app[i].kind
<1>1. /\ app' \in [Slots -> [kind : Kinds \cup {"none"}, at : Places]]
      /\ app'[i] = Unused
      /\ Others(i)
  <2>1. Unused \in [kind : Kinds \cup {"none"}, at : Places]
    BY DEF Unused, Places
  <2>2. app' = [j \in Slots |-> IF (app[j].at = "dying" \/ j = i) THEN Unused ELSE app[j]]
    BY SlotsAreIds DEF Halted, AppInv, TaskInv, TaskTypes, AfterReap
  <2> QED
    BY <2>1, <2>2 DEF AppInv, TaskInv, TaskTypes, Others
<1>2. \A j \in Slots : PlacesOfKind(app'[j])
  <2>1. PlacesOfKind(Unused)
    BY DEF PlacesOfKind, Unused
  <2> QED
    BY <1>1, <2>1 DEF Others, AppInv, TaskInv, TaskTypes
<1>t. /\ reg \in [Kinds -> Owners] /\ cmd \in [Commanders -> [at : Stages, id : Owners]]
      /\ K \in Kinds
  BY DEF AppInv, TaskInv, TaskTypes, PlacesOfKind
<1>3. \A k \in Kinds \ {"env"} : reg[k] # None => /\ app[reg[k]].kind = k /\ app[reg[k]].at \in Live
                                                  /\ reg[k] \in Slots
  BY <1>t DEF AppInv, TaskInv, RegSound, BeingCleaned, NoStop, Kinds, Owners
<1>4. \A j \in Slots \ {i} : app[j].kind # K
  BY <1>t DEF AppInv, TaskInv, OneOfAKind, Kinds
<1>5. \A k \in Kinds : k # K => reg'[k] = reg[k]
  BY <1>t DEF TakenBack, CleansUp
<1> HIDE DEF K
<1>6. TaskTypes'
  <2>1. reg' \in [Kinds -> Owners]
    BY <1>t DEF Owners, TakenBack, CleansUp
  <2>2. cmd' \in [Commanders -> [at : Stages, id : Owners]]
    BY <1>t DEF Owners, Stages, TakenBack, CleansUp
  <2> QED
    BY <1>1, <1>2, <2>1, <2>2 DEF TaskTypes
<1>7. OneOfAKind'
  BY <1>1 DEF AppInv, TaskInv, OneOfAKind, Others, Unused
<1>8. OneCommand'
  <2>1. CASE TakenBack(i)
    BY <2>1 DEF OneCommand, TakenBack
  <2>2. CASE CleansUp(c, i)
    <3>1. /\ reg' = reg /\ K \in {"envdash", "diagdash", "tictactoe"} /\ reg[K] = i
          /\ cmd' = [cmd EXCEPT ![c] = [at |-> K, id |-> i]]
      BY <2>2 DEF K, CleansUp
    <3>2. cmd'[c] = [at |-> K, id |-> i] /\ \A d \in Commanders \ {c} : cmd'[d] = NoStop
      BY <1>t, <3>1
    <3>3. Cleaning(c)'
      <4>1. \A j \in Slots : app'[j].kind = K => j = i
        BY <1>1, <1>4, <1>t DEF Others, Unused, Kinds
      <4> QED
        BY <1>1, <3>1, <3>2, <4>1 DEF Cleaning, Unused
    <3> QED
      BY <3>2, <3>3 DEF OneCommand
  <2> QED
    BY <2>1, <2>2
<1>9. RegSound'
  <2> SUFFICES ASSUME NEW k \in Kinds \ {"env"}, reg'[k] # None, ~ BeingCleaned(k, reg[k])'
               PROVE  app'[reg'[k]].kind = k /\ app'[reg'[k]].at \in Live
    BY DEF RegSound
  <2>1. CASE k # K
    <3>1. /\ reg'[k] = reg[k] /\ reg[k] \in Slots \ {i}
          /\ app[reg[k]].kind = k /\ app[reg[k]].at \in Live
      BY <1>3, <1>5, <2>1 DEF K
    <3> QED
      BY <1>1, <3>1 DEF Others, Live
  <2>2. CASE k = K
    <3>1. ~ TakenBack(i)
      <4>1. SUFFICES ASSUME TakenBack(i) PROVE FALSE
        OBVIOUS
      <4>2. reg'[K] = reg[K] /\ K # "env" /\ app[i].at = "new"
        BY <1>t, <2>2, <4>1 DEF TakenBack, K
      <4> QED
        BY <1>3, <1>4, <2>2, <4>2 DEF Live
    <3>2. CleansUp(c, i)
      BY <3>1
    <3>3. cmd'[c] = [at |-> K, id |-> i] /\ reg'[K] = i
      BY <1>t, <3>2 DEF CleansUp, K
    <3> QED
      BY <2>2, <3>3 DEF BeingCleaned
  <2> QED
    BY <2>1, <2>2
<1>10. Registers'
  <2> SUFFICES ASSUME NEW j \in Slots, app'[j].at \in Live PROVE reg'[app'[j].kind] = j
    BY DEF Registers
  <2>1. j # i /\ app'[j] = app[j]
    BY <1>1 DEF Others, Unused, Live
  <2>2. app[j].kind \in Kinds /\ reg[app[j].kind] = j /\ app[j].kind # K
    BY <1>4, <2>1 DEF AppInv, TaskInv, TaskTypes, Registers, PlacesOfKind, Live
  <2> QED
    BY <1>5, <2>1, <2>2
<1> QED
  BY <1>1, <1>6, <1>7, <1>8, <1>9, <1>10 DEF TaskInv
\* What a stopped task has stays with it until the flush of its cleanup is over.
LEMMA LeftToCleaner ==
  ASSUME AppInv, NEW c \in Commanders, NEW i \in Slots, \A d \in Commanders : cmd[d] = NoStop,
         CleansUp(c, i), Others(i), app'[i] = Unused, ResTypes', Dark', EventsToGame',
         res'.pane = res.pane, res'.led = res.led,
         res'.tttLed = res.tttLed, res'.tttHdmi = res.tttHdmi,
         IF app[i].kind = "tictactoe" THEN FlagsOf(i) ELSE res.led # i /\ ~ Gaming(i)
  PROVE  ResInv'
<1>0. PICK K : K = app[i].kind
  OBVIOUS
<1>1. /\ cmd'[c] = [at |-> K, id |-> i] /\ \A d \in Commanders \ {c} : cmd'[d] = NoStop
      /\ K \in {"envdash", "diagdash", "tictactoe"}
  BY <1>0 DEF CleansUp, AppInv, TaskInv, TaskTypes
<1>2. \A j \in Slots \ {i} : /\ PaneUser(j)' <=> PaneUser(j)
                             /\ LedUser(j)' <=> LedUser(j)
                             /\ Gaming(j)' <=> Gaming(j)
  BY Bystanders
<1>3. ~ PaneUser(i)' /\ ~ LedUser(i)' /\ ~ Gaming(i)'
  BY DEF PaneUser, LedUser, Gaming, Unused
<1>4. /\ \A j : \A k \in Kinds : ~ BeingCleaned(k, j)
      /\ BeingCleaned(K, i)'
      /\ {"envdash", "diagdash", "tictactoe"} \subseteq Kinds
  BY <1>1 DEF BeingCleaned, NoStop, Kinds
<1>5. IF K = "tictactoe" THEN FlagsOf(i)' ELSE res.led # i /\ ~ Gaming(i)
  BY <1>0 DEF FlagsOf
<1> HIDE DEF PaneUser, LedUser, Gaming, BeingCleaned
<1>6. UsersOwn'
  BY <1>2, <1>3 DEF AppInv, ResInv, UsersOwn, FlagsOf
<1>7. OwnersUse'
  <2>1. res.pane # None => \/ PaneUser(res.pane)' \/ Gaming(res.pane)'
                           \/ \E k \in {"envdash", "diagdash", "tictactoe"} : BeingCleaned(k, res.pane)'
    <3>1. CASE res.pane = i
      BY <1>1, <1>4, <3>1
    <3>2. CASE res.pane # i
      BY <1>2, <1>4, <3>2 DEF AppInv, ResInv, ResTypes, Resources, Owners, OwnersUse
    <3> QED
      BY <3>1, <3>2
  <2>2. res.led # None => LedUser(res.led)' \/ Gaming(res.led)' \/ BeingCleaned("tictactoe", res.led)'
    <3>1. CASE res.led = i
      BY <1>1, <1>4, <1>5, <3>1
    <3>2. CASE res.led # i
      BY <1>2, <1>4, <3>2 DEF AppInv, ResInv, ResTypes, Resources, Owners, OwnersUse
    <3> QED
      BY <3>1, <3>2
  <2> QED
    BY <2>1, <2>2 DEF OwnersUse
<1>8. GameFlags'
  <2>1. ASSUME NEW d \in Commanders, cmd'[d].at = "tictactoe" PROVE FlagsOf(cmd[d].id)'
    <3>1. d = c /\ K = "tictactoe" /\ cmd'[d].id = i
      BY <1>1, <2>1 DEF NoStop
    <3> QED
      BY <1>5, <3>1
  <2>2. ASSUME res'.tttLed \/ res'.tttHdmi, K # "tictactoe" PROVE \E j \in Slots : Gaming(j)'
    <3>1. \A d \in Commanders : cmd[d].at # "tictactoe"
      BY DEF NoStop
    <3>2. PICK j \in Slots : Gaming(j)
      BY <2>2, <3>1 DEF AppInv, ResInv, GameFlags
    <3>3. j # i
      BY <1>5, <2>2, <3>2
    <3> QED
      BY <1>2, <3>2, <3>3
  <2> QED
    BY <1>1, <2>1, <2>2 DEF GameFlags
<1> QED
  BY <1>6, <1>7, <1>8 DEF ResInv

\* A command stops task i.
LEMMA StopKeeps ==
  ASSUME AppInv, NEW c \in Commanders, NEW i \in Slots, Stop(c, i),
         \A d \in Commanders : cmd[d] = NoStop
  PROVE  AppInv'
<1> DEFINE K == app[i].kind
<1>1. app[i].at \notin {"unused", "dying"} /\ Halted(i) /\ StopReaches(c, StopEnv(reg, res, i), i)
  BY DEF Stop, Halted
<1>2. PICK r : r = IF i = reg["env"] THEN [res EXCEPT !.env = FALSE] ELSE res
  OBVIOUS
<1>3. /\ r \in Resources /\ DarkIn(r)
      /\ r.pane = res.pane /\ r.led = res.led /\ r.handler = res.handler
      /\ r.tttLed = res.tttLed /\ r.tttHdmi = res.tttHdmi
  BY <1>2 DEF AppInv, ResInv, ResTypes, Resources, Dark, DarkIn
<1>4. K \in Kinds /\ app[i].at \in Live \cup {"new"} /\ reg \in [Kinds -> Owners]
      /\ cmd \in [Commanders -> [at : Stages, id : Owners]]
  BY <1>1 DEF AppInv, TaskInv, TaskTypes, PlacesOfKind, Live, Places
<1>5. \A k \in Kinds \ {"env"} : reg[k] = i => K = k /\ app[i].at \in Live
  BY SlotsAreIds DEF AppInv, TaskInv, RegSound, BeingCleaned, NoStop, Kinds
<1>6. app[i].at \in Live => reg[K] = i
  BY DEF AppInv, TaskInv, Registers
<1>7. \A k \in Kinds \ {"env", K} : reg[k] # i
  BY <1>5
<1>8. /\ K = "env" \/ reg[K] # i => StopEnv(reg, res, i) = Stage("idle", reg, r)
      /\ reg[K] = i =>
           /\ K \in {"envdash", "diagdash"} => StopEnv(reg, res, i) = Stage(K, reg, r)
           /\ K \in {"envled", "gol"} =>
                StopEnv(reg, res, i) = Stage("idle", [reg EXCEPT ![K] = None], LedReleased(r, i))
           /\ K = "tictactoe" => StopEnv(reg, res, i) = StopGame(reg, r, i)
  BY <1>2, <1>4, <1>7, StopDoes
<1>9. \A k, j : k \in Kinds => ~ BeingCleaned(k, j)
  BY DEF BeingCleaned, NoStop, Kinds
<1>10. {"envdash", "envled", "diagdash", "gol", "tictactoe"} = Kinds \ {"env"}
  BY DEF Kinds
<1>11. ASSUME TakenBack(i) \/ CleansUp(c, i) PROVE TaskInv' /\ Others(i) /\ app'[i] = Unused
  BY <1>1, <1>11, StoppedTasks
<1>12. ASSUME app'[i] = Unused
       PROVE  ~ PaneUser(i)' /\ ~ LedUser(i)' /\ ~ Gaming(i)' /\ ~ At(i, "tictactoe", "running")'
  BY <1>12 DEF PaneUser, LedUser, Gaming, At, Unused
<1>13. \A d \in Commanders : cmd[d].at # "tictactoe"
  BY DEF NoStop
<1>14. CASE K = "env" \/ app[i].at = "new"
  <2>1. res' = r /\ TakenBack(i)
    <3>1. K = "env" \/ reg[K] # i
      BY <1>4, <1>5, <1>14 DEF Live
    <3>2. StopReaches(c, Stage("idle", reg, r), i)
      BY <1>1, <1>8, <3>1
    <3>3. cmd' = [cmd EXCEPT ![c] = NoStop] /\ reg' = reg /\ res' = r
      BY <3>2 DEF StopReaches, Stage
    <3>4. cmd' = cmd
      BY <1>4, <3>3
    <3> QED
      BY <1>14, <3>3, <3>4 DEF TakenBack
  <2>2. TaskInv' /\ Others(i) /\ app'[i] = Unused
    BY <1>11, <2>1
  <2>3. ~ PaneUser(i) /\ ~ LedUser(i) /\ ~ Gaming(i) /\ ~ At(i, "tictactoe", "running")
    BY <1>14 DEF PaneUser, LedUser, Gaming, At
  <2>4. ResTypes' /\ Dark' /\ UNCHANGED cmd
    BY <1>3, <2>1 DEF ResTypes, Dark, TakenBack
  <2>5. ResInv'
    BY <1>3, <1>12, <2>1, <2>2, <2>3, <2>4, NothingTaken
  <2> QED
    BY <2>2, <2>5 DEF AppInv
<1>15. CASE K \in {"envdash", "diagdash"} /\ app[i].at \in Live
  <2>1. res' = r /\ CleansUp(c, i)
    <3>1. StopReaches(c, Stage(K, reg, r), i)
      BY <1>1, <1>6, <1>8, <1>15
    <3> QED
      BY <1>6, <1>15, <3>1 DEF StopReaches, Stage, CleansUp
  <2>2. TaskInv' /\ Others(i) /\ app'[i] = Unused
    BY <1>11, <2>1
  <2>3. ~ LedUser(i) /\ ~ Gaming(i) /\ ~ At(i, "tictactoe", "running")
    BY <1>15 DEF LedUser, Gaming, At
  <2>4. res.led # i
    BY <1>9, <1>10, <2>3, SlotsAreIds DEF AppInv, ResInv, OwnersUse
  <2>5. ResTypes' /\ Dark' /\ EventsToGame'
    BY <1>3, <1>12, <2>1, <2>2, <2>3, Bystanders DEF ResTypes, Dark, AppInv, ResInv, EventsToGame
  <2>6. ResInv'
    BY <1>3, <1>15, <2>1, <2>2, <2>3, <2>4, <2>5, LeftToCleaner
  <2> QED
    BY <2>2, <2>6 DEF AppInv
<1>16. CASE K \in {"envled", "gol"} /\ app[i].at \in Live
  <2>1. res' = LedReleased(r, i) /\ TakenBack(i)
    <3>1. StopReaches(c, Stage("idle", [reg EXCEPT ![K] = None], LedReleased(r, i)), i)
      BY <1>1, <1>6, <1>8, <1>16
    <3>2. /\ cmd' = [cmd EXCEPT ![c] = NoStop] /\ reg' = [reg EXCEPT ![K] = None]
          /\ res' = LedReleased(r, i)
      BY <3>1 DEF StopReaches, Stage
    <3>3. cmd' = cmd
      BY <1>4, <3>2
    <3> QED
      BY <3>2, <3>3 DEF TakenBack
  <2>2. TaskInv' /\ Others(i) /\ app'[i] = Unused
    BY <1>11, <2>1
  <2>3. ~ PaneUser(i) /\ ~ Gaming(i) /\ ~ At(i, "tictactoe", "running")
    BY <1>16 DEF PaneUser, Gaming, At
  <2>4. res.pane # i
    BY <1>9, <1>10, <2>3, SlotsAreIds DEF AppInv, ResInv, OwnersUse
  <2>5. /\ res' \in Resources
        /\ res'.pane = r.pane /\ res'.led = (IF r.led = i THEN None ELSE r.led)
        /\ res'.handler = r.handler /\ res'.tttLed = r.tttLed /\ res'.tttHdmi = r.tttHdmi
        /\ DarkIn(res')
    BY <1>3, <2>1, LedReleasedGivesUp
  <2>6. ResTypes' /\ Dark' /\ EventsToGame'
    BY <1>3, <1>12, <2>2, <2>3, <2>5, Bystanders DEF ResTypes, Dark, AppInv, ResInv, EventsToGame
  <2>7. cmd' = cmd
    BY <2>1 DEF TakenBack
  <2>8. ResInv'
    BY <1>3, <1>9, <1>12, <1>13, <2>2, <2>3, <2>4, <2>5, <2>6, <2>7, GivenUp, Bystanders
  <2> QED
    BY <2>2, <2>8 DEF AppInv
<1>17. CASE K = "tictactoe" /\ app[i].at \in Live
  <2> DEFINE s == [r EXCEPT !.handler = "menu"]
  <2>1. /\ s \in Resources /\ DarkIn(s)
        /\ s.pane = res.pane /\ s.led = res.led /\ s.handler = "menu"
        /\ s.tttLed = res.tttLed /\ s.tttHdmi = res.tttHdmi
    BY <1>3 DEF Resources, DarkIn
  <2>2. \A j \in Slots \ {i} : ~ Gaming(j) /\ ~ At(j, "tictactoe", "running")
    BY <1>17, OneGame
  <2>3. FlagsOf(i)
    <3>1. CASE Gaming(i)
      BY <3>1 DEF AppInv, ResInv, UsersOwn
    <3>2. CASE ~ Gaming(i)
      <4>1. ~ res.tttLed /\ ~ res.tttHdmi
        BY <1>13, <2>2, <3>2 DEF AppInv, ResInv, GameFlags
      <4>2. ~ PaneUser(i) /\ ~ LedUser(i)
        BY <1>17 DEF PaneUser, LedUser
      <4>3. res.pane # i /\ res.led # i
        BY <1>9, <1>10, <3>2, <4>2, SlotsAreIds DEF AppInv, ResInv, OwnersUse
      <4> QED
        BY <4>1, <4>3 DEF FlagsOf, AppInv, ResInv, ResTypes, Resources
    <3> QED
      BY <3>1, <3>2
  <2>4. StopReaches(c, StopGame(reg, r, i), i)
    BY <1>1, <1>6, <1>8, <1>17
  <2>5. CASE s.tttHdmi
    <3>1. res' = s /\ CleansUp(c, i)
      <4>1. StopReaches(c, Stage("tictactoe", reg, s), i)
        BY <1>6, <1>17, <2>4, <2>5 DEF StopGame
      <4> QED
        BY <1>6, <1>17, <4>1 DEF StopReaches, Stage, CleansUp
    <3>2. TaskInv' /\ Others(i) /\ app'[i] = Unused
      BY <1>11, <3>1
    <3> HIDE DEF s
    <3>3. ResTypes' /\ Dark' /\ EventsToGame'
      BY <1>12, <2>1, <2>2, <3>1, <3>2, Bystanders DEF ResTypes, Dark, EventsToGame
    <3>4. ResInv'
      BY <1>17, <2>1, <2>3, <3>1, <3>2, <3>3, LeftToCleaner
    <3> QED
      BY <3>2, <3>4 DEF AppInv
  <2>6. CASE ~ s.tttHdmi
    <3>1. res' = GameFreed(s, i) /\ TakenBack(i)
      <4>1. StopReaches(c, Stage("idle", [reg EXCEPT ![K] = None], GameFreed(s, i)), i)
        BY <1>6, <1>17, <2>4, <2>6 DEF StopGame
      <4>2. /\ cmd' = [cmd EXCEPT ![c] = NoStop] /\ reg' = [reg EXCEPT ![K] = None]
            /\ res' = GameFreed(s, i)
        BY <4>1 DEF StopReaches, Stage
      <4>3. cmd' = cmd
        BY <1>4, <4>2
      <4> QED
        BY <4>2, <4>3 DEF TakenBack
    <3>2. TaskInv' /\ Others(i) /\ app'[i] = Unused
      BY <1>11, <3>1
    <3> HIDE DEF s
    <3>3. (s.tttLed <=> s.led = i) /\ (s.tttHdmi <=> s.pane = i)
      BY <2>1, <2>3 DEF FlagsOf
    <3>4. /\ res' \in Resources
          /\ res'.pane = (IF s.pane = i THEN None ELSE s.pane)
          /\ res'.led = (IF s.led = i THEN None ELSE s.led)
          /\ res'.handler = s.handler /\ ~ res'.tttLed /\ ~ res'.tttHdmi
          /\ DarkIn(res')
      BY <2>1, <3>1, <3>3, GameFreedGivesUp
    <3>5. ResTypes' /\ Dark' /\ EventsToGame'
      BY <1>12, <2>1, <2>2, <3>2, <3>4, Bystanders DEF ResTypes, Dark, EventsToGame
    <3>6. cmd' = cmd
      BY <3>1 DEF TakenBack
    <3>7. ResInv'
      BY <1>9, <1>12, <1>13, <2>1, <2>2, <3>2, <3>4, <3>5, <3>6, GivenUp, Bystanders
    <3> QED
      BY <3>2, <3>7 DEF AppInv
  <2> QED
    BY <2>5, <2>6
<1> QED
  BY <1>4, <1>10, <1>14, <1>15, <1>16, <1>17
-----------------------------------------------------------------------------
\* No command begins while another is in the middle of a stop.
Begins     == \/ \E c \in Commanders, k \in Kinds : Start(c, k)
              \/ \E c \in Commanders, i \in Slots : Stop(c, i)
Waits      == Begins => \A d \in Commanders : cmd[d] = NoStop
OneAtATime == [][Waits]_vars

\* Nothing runs and nothing is owned at first.
LEMMA AppInit == Init => AppInv
<1> SUFFICES ASSUME Init PROVE AppInv
  OBVIOUS
<1>1. TaskTypes
  BY DEF Init, TaskTypes, Unused, NoStop, Places, Stages, Owners, PlacesOfKind
<1>2. OneOfAKind /\ OneCommand /\ RegSound /\ Registers
  BY DEF Init, OneOfAKind, OneCommand, RegSound, Registers, Unused, Live
<1>3. ResTypes /\ Dark
  BY DEF Init, ResTypes, Resources, Frames, Owners, Dark, DarkIn
<1>4. UsersOwn /\ OwnersUse /\ GameFlags /\ EventsToGame
  BY DEF Init, UsersOwn, OwnersUse, GameFlags, EventsToGame, PaneUser, LedUser, Gaming, At,
         Unused, NoStop
<1> QED
  BY <1>1, <1>2, <1>3, <1>4 DEF AppInv, TaskInv, ResInv

\* A step of a task.
LEMMA StepKeeps ==
  ASSUME AppInv, NEW i \in Slots, Step(i), UNCHANGED cmd
  PROVE  AppInv'
<1>1. CASE EnvNew(i) \/ EnvSensors(i) \/ EnvFailed(i)
  BY <1>1, EnvSteps
<1>2. CASE LampNew(i) \/ Denied(i) \/ Draw(i) \/ EnvGone(i) \/ EnvDashLeaves(i)
  BY <1>2, QuietSteps
<1>3. CASE DashNew(i)
  BY <1>3, DashNewKeeps
<1>4. CASE LampAcquire(i)
  BY <1>4, LampAcquireKeeps
<1>5. CASE GameNew(i)
  BY <1>5, GameNewKeeps
<1>6. CASE EnvLedLeaves(i) \/ EnvDashFlushed(i) \/ GameEnds(i) \/ GameFlushed(i)
  BY <1>6, LeavingKeeps
<1> QED
  BY <1>1, <1>2, <1>3, <1>4, <1>5, <1>6 DEF Step

\* AppInv is inductive for the steps that OneAtATime allows.
LEMMA NextKeeps == AppInv /\ [Next]_vars /\ [Waits]_vars => AppInv'
<1> SUFFICES ASSUME AppInv, [Next]_vars, [Waits]_vars PROVE AppInv'
  OBVIOUS
<1>1. CASE UNCHANGED vars
  <2>1. app' = app /\ cmd' = cmd /\ reg' = reg /\ res' = res
    BY <1>1 DEF vars
  <2>2. TaskInv'
    BY <2>1 DEF AppInv, TaskInv, TaskTypes, OneOfAKind, OneCommand, Cleaning, RegSound,
                BeingCleaned, Registers
  <2>3. ResInv'
    BY <2>1 DEF AppInv, ResInv, ResTypes, UsersOwn, OwnersUse, GameFlags, EventsToGame, Dark,
                PaneUser, LedUser, Gaming, At, FlagsOf, BeingCleaned
  <2> QED
    BY <2>2, <2>3 DEF AppInv
<1>2. CASE ~ UNCHANGED vars /\ \E c \in Commanders, k \in Kinds : Start(c, k)
  <2>1. \A d \in Commanders : cmd[d] = NoStop
    BY <1>2 DEF Waits, Begins
  <2> QED
    BY <1>2, <2>1, StartKeeps
<1>3. CASE ~ UNCHANGED vars /\ \E c \in Commanders, i \in Slots : Stop(c, i)
  <2>1. \A d \in Commanders : cmd[d] = NoStop
    BY <1>3 DEF Waits, Begins
  <2> QED
    BY <1>3, <2>1, StopKeeps
<1>4. CASE \E c \in Commanders : StopGoesOn(c)
  BY <1>4, StopGoesOnKeeps
<1>5. CASE \E i \in Slots : Step(i) /\ UNCHANGED cmd
  BY <1>5, StepKeeps
<1>6. CASE LedTake \/ LedRender
  BY <1>6, LedTaskKeeps
<1> QED
  BY <1>1, <1>2, <1>3, <1>4, <1>5, <1>6 DEF Next

\* Types, one task of a kind, registrations and ownership, in every reachable state
\* (task creation, shell_cmd_stop_id and the tasks' own cleanup).
THEOREM AppInvHolds == Spec /\ OneAtATime => []AppInv
  BY AppInit, NextKeeps, PTL DEF Spec, OneAtATime

\* A task that runs on the pane or the LED matrix owns it: no other task's
\* acquisition, release or cleanup takes it away (hdmi_acquire_pane, led_acquire,
\* the cleanup in shell_cmd_stop_id), and the game's flags say what it owns.
THEOREM RunningTasksOwn == Spec /\ OneAtATime => []OwnsWhileRunning
<1>1. AppInv => OwnsWhileRunning
  <2> SUFFICES ASSUME AppInv, NEW i \in Slots, app[i].at = "running"
               PROVE  /\ app[i].kind \in {"envdash", "diagdash"} => res.pane = i
                      /\ app[i].kind \in {"envled", "gol"} => res.led = i
                      /\ app[i].kind = "tictactoe" => /\ res.handler = "game"
                                                      /\ res.tttLed = (res.led = i)
                                                      /\ res.tttHdmi = (res.pane = i)
    BY DEF OwnsWhileRunning
  <2>1. app[i].kind \in {"envdash", "diagdash"} => res.pane = i
    BY DEF AppInv, ResInv, UsersOwn, PaneUser
  <2>2. app[i].kind \in {"envled", "gol"} => res.led = i
    BY DEF AppInv, ResInv, UsersOwn, LedUser
  <2>3. ASSUME app[i].kind = "tictactoe" PROVE FlagsOf(i)
    BY <2>3 DEF AppInv, ResInv, UsersOwn, Gaming
  <2>4. ASSUME app[i].kind = "tictactoe" PROVE res.handler = "game"
    <3>1. At(i, "tictactoe", "running")
      BY <2>4 DEF At, AppInv, TaskInv, TaskTypes
    <3> QED
      BY <3>1 DEF AppInv, ResInv, EventsToGame
  <2> QED
    BY <2>1, <2>2, <2>3, <2>4 DEF FlagsOf
<1> QED
  BY <1>1, AppInvHolds, PTL

\* However a task ends, no display and no joystick handler stays with a task that is
\* gone, unless a command is still cleaning up after it (shell_cmd_stop_id, the
\* cleanup_resources of the tasks).
THEOREM NothingIsLeftTaken == Spec /\ OneAtATime => []NothingStaysTaken
<1>1. AppInv => NothingStaysTaken
  BY DEF AppInv, ResInv, OwnersUse, EventsToGame, NothingStaysTaken, PaneUser, LedUser, Gaming,
         BeingCleaned, Alive, BeingStopped
<1> QED
  BY <1>1, AppInvHolds, PTL

\* A free LED matrix is dark once the LED task is done, unless the last rendering
\* failed (led_release submits a clear frame before it gives up the ownership).
THEOREM FreeMatrixIsDark == Spec /\ OneAtATime => []DarkWhenFree
<1>1. AppInv => DarkWhenFree
  BY DEF AppInv, ResInv, Dark, DarkIn, DarkWhenFree
<1> QED
  BY <1>1, AppInvHolds, PTL

-----------------------------------------------------------------------------
(* The panes.  IsPane is the type of a pane between two writes to it, when  *)
(* the cursor may stand behind its row; Shown is the property of a pane.    *)
Glyphs     == Chars \cup {" "}
Area(r, c) == 0 .. r * c - 1

PaneType(r, c) ==
  [rows : {r}, columns : {c}, cursor_x : Nat, cursor_y : Nat,
   cells : [Area(r, c) -> Glyphs], dirty : SUBSET Area(r, c),
   draw : [Area(r, c) -> Glyphs \cup {"nothing"}], lit : SUBSET Area(r, c)]

IsPane(p, r, c) == p \in PaneType(r, c)

\* The cursor's cell is inside and will be drawn, or it has been drawn.
Marked(p) ==
  /\ p.cursor_x < p.columns /\ p.cursor_y < p.rows
  /\ Panes!CursorCell(p) \in p.dirty

Shown(p) ==
  /\ p.cursor_x < p.columns /\ p.cursor_y < p.rows
  /\ Panes!CursorCell(p) \in Panes!Stale(p) \cup p.lit

LEMMA AreaHas ==
  ASSUME NEW r \in Nat, NEW c \in Nat, NEW x \in Nat, NEW y \in Nat, x < c, y < r
  PROVE  y * c + x \in Area(r, c)
<1>1. y * c + c <= r * c
  BY SMT
<1>2. y * c + x >= 0 /\ y * c + x <= r * c - 1
  BY <1>1, SMT
<1>3. y * c + x \in Int /\ r * c - 1 \in Int
  OBVIOUS
<1> QED
  BY <1>2, <1>3 DEF Area

\* New contents.
Repaint(p, t, d) == [p EXCEPT !.cells = t, !.dirty = d]

LEMMA Repainted ==
  ASSUME NEW r, NEW c, NEW p, IsPane(p, r, c), NEW t \in [Area(r, c) -> Glyphs],
         NEW d \in SUBSET Area(r, c)
  PROVE  /\ IsPane(Repaint(p, t, d), r, c) /\ Repaint(p, t, d).dirty = d
         /\ Repaint(p, t, d).cursor_x = p.cursor_x /\ Repaint(p, t, d).cursor_y = p.cursor_y
BY DEF IsPane, PaneType, Repaint

Place(p, x, y) == [p EXCEPT !.cursor_x = x, !.cursor_y = y]

LEMMA Placed ==
  ASSUME NEW r \in Nat, NEW c \in Nat, NEW p, IsPane(p, r, c), NEW x \in Nat, NEW y \in Nat
  PROVE  /\ IsPane(Place(p, x, y), r, c) /\ Place(p, x, y).dirty = p.dirty
         /\ Place(p, x, y).cursor_x = x /\ Place(p, x, y).cursor_y = y
BY DEF IsPane, PaneType, Place

LEMMA MarkedIsShown ==
  ASSUME NEW r, NEW c, NEW p, IsPane(p, r, c), Marked(p)
  PROVE  Shown(p)
<1>1. p.rows = r /\ p.columns = c /\ p.dirty \subseteq Area(r, c)
  BY DEF IsPane, PaneType
<1> QED
  BY <1>1 DEF Marked, Shown, Panes!Stale, Panes!Cells, Area

\* What does not move the cursor, nor take a mark away.
SameCursor(p, q) ==
  /\ q.cursor_x = p.cursor_x /\ q.cursor_y = p.cursor_y
  /\ p.dirty \subseteq q.dirty

LEMMA MarkKeeps ==
  ASSUME NEW r \in Nat, NEW c \in Nat, NEW p, IsPane(p, r, c), NEW x \in Nat, NEW y \in Nat,
         NEW q, q = Panes!MarkDirty(p, x, y)
  PROVE  /\ IsPane(q, r, c) /\ SameCursor(p, q)
         /\ x < c /\ y < r => y * c + x \in q.dirty
<1>1. p.rows = r /\ p.columns = c
  BY DEF IsPane, PaneType
<1>2. CASE x < c /\ y < r
  <2>1. q = [p EXCEPT !.dirty = p.dirty \cup {y * c + x}]
    BY <1>1, <1>2 DEF Panes!MarkDirty, Panes!At
  <2>2. y * c + x \in Area(r, c)
    BY <1>2, AreaHas
  <2> QED
    BY <2>1, <2>2 DEF IsPane, PaneType, SameCursor
<1>3. CASE ~ (x < c /\ y < r)
  <2>1. q = p
    BY <1>1, <1>3 DEF Panes!MarkDirty
  <2> QED
    BY <1>3, <2>1 DEF SameCursor
<1> QED
  BY <1>2, <1>3

LEMMA SetKeeps ==
  ASSUME NEW r \in Nat, NEW c \in Nat, NEW p, IsPane(p, r, c), NEW x \in Nat, NEW y \in Nat,
         NEW v \in Glyphs, NEW q, q = Panes!SetCell(p, x, y, v)
  PROVE  IsPane(q, r, c) /\ SameCursor(p, q)
<1>1. p.rows = r /\ p.columns = c
  BY DEF IsPane, PaneType
<1>2. CASE q = p
  BY <1>2 DEF SameCursor
<1>3. CASE q # p
  <2>1. x < c /\ y < r
    BY <1>1, <1>3 DEF Panes!SetCell
  <2>2. y * c + x \in Area(r, c)
    BY <2>1, AreaHas
  <2>3. PICK n : n = y * c + x
    OBVIOUS
  <2>4. PICK f : f = [p.cells EXCEPT ![n] = v]
    OBVIOUS
  <2>5. PICK d : d = p.dirty \cup {n}
    OBVIOUS
  <2>6. q = Repaint(p, f, d)
    BY <1>1, <1>3, <2>3, <2>4, <2>5 DEF Panes!SetCell, Panes!At, Repaint
  <2>7. f \in [Area(r, c) -> Glyphs] /\ d \in SUBSET Area(r, c)
    BY <2>2, <2>3, <2>4, <2>5 DEF IsPane, PaneType
  <2> QED
    BY <2>5, <2>6, <2>7, Repainted DEF SameCursor
<1> QED
  BY <1>2, <1>3

\* A cursor that was moved from somewhere else is marked.
Remarked(q, a, b, x, y) == Panes!MarkDirty(Panes!MarkDirty(q, a, b), x, y)

LEMMA PlacedIsMarked ==
  ASSUME NEW r \in Nat, NEW c \in Nat, NEW q, IsPane(q, r, c), NEW x \in Nat, NEW y \in Nat,
         q.cursor_x = x, q.cursor_y = y, x < c, y < r, NEW a \in Nat, NEW b \in Nat
  PROVE  IsPane(Remarked(q, a, b, x, y), r, c) /\ Marked(Remarked(q, a, b, x, y))
<1>1. PICK t : t = Panes!MarkDirty(q, a, b)
  OBVIOUS
<1>2. IsPane(t, r, c) /\ SameCursor(q, t)
  BY <1>1, MarkKeeps
<1>3. PICK s : s = Panes!MarkDirty(t, x, y)
  OBVIOUS
<1>4. IsPane(s, r, c) /\ SameCursor(t, s) /\ y * c + x \in s.dirty
  BY <1>2, <1>3, MarkKeeps
<1>5. s.rows = r /\ s.columns = c
  BY <1>4 DEF IsPane, PaneType
<1>6. Marked(s)
  BY <1>2, <1>4, <1>5 DEF Marked, SameCursor, Panes!CursorCell, Panes!At
<1> QED
  BY <1>1, <1>3, <1>4, <1>6 DEF Remarked

LEMMA SetCursorMarks ==
  ASSUME NEW r \in Nat \ {0}, NEW c \in Nat \ {0}, NEW p, IsPane(p, r, c),
         NEW x \in Nat, NEW y \in Nat, NEW s, s = Panes!SetCursor(p, x, y)
  PROVE  IsPane(s, r, c) /\ Marked(s)
<1>1. p.rows = r /\ p.columns = c /\ p.cursor_x \in Nat /\ p.cursor_y \in Nat
  BY DEF IsPane, PaneType
<1>2. PICK a, b \in Nat : /\ a = Panes!Least(x, c - 1) /\ a < c
                           /\ b = Panes!Least(y, r - 1) /\ b < r
  BY DEF Panes!Least
<1>3. PICK q : q = [p EXCEPT !.cursor_x = a, !.cursor_y = b]
  OBVIOUS
<1>4. IsPane(q, r, c) /\ q.cursor_x = a /\ q.cursor_y = b
  BY <1>3 DEF IsPane, PaneType
<1>5. s = Remarked(q, p.cursor_x, p.cursor_y, a, b)
  BY <1>1, <1>2, <1>3, <1>4, Zenon DEF Panes!SetCursor, Remarked
<1> QED
  BY <1>1, <1>2, <1>4, <1>5, PlacedIsMarked

LEMMA ScrollKeeps ==
  ASSUME NEW r \in Nat, NEW c \in Nat, NEW p, IsPane(p, r, c), NEW q, q = Panes!Scroll(p)
  PROVE  IsPane(q, r, c) /\ SameCursor(p, q)
<1>1. p.rows = r /\ p.columns = c
  BY DEF IsPane, PaneType
<1>2. PICK t : t = [n \in Area(r, c) |-> IF n + c \in Area(r, c) THEN p.cells[n + c] ELSE " "]
  OBVIOUS
<1>3. q = [p EXCEPT !.cells = t, !.dirty = Area(r, c)]
  BY <1>1, <1>2, Zenon DEF Panes!Scroll, Panes!Cells, Area
<1>4. t \in [Area(r, c) -> Glyphs]
  BY <1>2 DEF IsPane, PaneType, Glyphs
<1> QED
  BY <1>3, <1>4 DEF IsPane, PaneType, SameCursor

LEMMA NewLineMarks ==
  ASSUME NEW r \in Nat \ {0}, NEW c \in Nat \ {0}, NEW p, IsPane(p, r, c), p.cursor_y < r,
         NEW s, s = Panes!NewLine(p)
  PROVE  IsPane(s, r, c) /\ Marked(s)
<1>1. p.rows = r /\ p.columns = c /\ p.cursor_x \in Nat /\ p.cursor_y \in Nat
  BY DEF IsPane, PaneType
<1>2. PICK t : t = IF p.cursor_y + 1 >= p.rows THEN Panes!Scroll(p) ELSE p
  OBVIOUS
<1>3. IsPane(t, r, c)
  BY <1>2, ScrollKeeps
<1>4. PICK b \in Nat : b = Panes!Least(p.cursor_y + 1, r - 1) /\ b < r
  BY <1>1 DEF Panes!Least
<1>5. PICK q : q = [t EXCEPT !.cursor_x = 0, !.cursor_y = b]
  OBVIOUS
<1>6. IsPane(q, r, c) /\ q.cursor_x = 0 /\ q.cursor_y = b
  BY <1>3, <1>5 DEF IsPane, PaneType
<1>7. s = Remarked(q, p.cursor_x, p.cursor_y, 0, b)
  BY <1>1, <1>2, <1>4, <1>5, <1>6, Zenon DEF Panes!NewLine, Remarked
<1>8. 0 \in Nat /\ 0 < c
  OBVIOUS
<1> QED
  BY <1>1, <1>4, <1>6, <1>7, <1>8, PlacedIsMarked

LEMMA ClearLineMarks ==
  ASSUME NEW r \in Nat \ {0}, NEW c \in Nat \ {0}, NEW p, IsPane(p, r, c),
         p.cursor_x < c, p.cursor_y < r, NEW s, s = Panes!ClearLine(p)
  PROVE  IsPane(s, r, c) /\ Marked(s)
<1>1. /\ p.rows = r /\ p.columns = c /\ p.cursor_x \in Nat /\ p.cursor_y \in Nat
      /\ p.dirty \subseteq Area(r, c)
  BY DEF IsPane, PaneType
<1>2. PICK n : n = p.cursor_y * c + p.cursor_x
  OBVIOUS
<1>3. n \in Area(r, c) /\ n \div c = p.cursor_y
  <2>1. PICK x, y \in Nat : x = p.cursor_x /\ y = p.cursor_y
    BY <1>1
  <2>2. y * c + x \in Area(r, c)
    BY <2>1, AreaHas
  <2>3. PICK z \in Nat : z = y * c
    BY SMT
  <2>4. (z + x) \div c = y
    <3>1. PICK d \in Nat : d = (z + x) \div c /\ d * c <= z + x /\ z + x < d * c + c
      OBVIOUS
    <3>2. ~ (d < y)
      <4>1. d < y => d * c + c <= y * c
        BY SMT
      <4> QED
        BY <2>1, <2>3, <3>1, <4>1
    <3>3. ~ (y < d)
      <4>1. y < d => y * c + c <= d * c
        BY SMT
      <4> QED
        BY <2>1, <2>3, <3>1, <4>1
    <3> QED
      BY <3>1, <3>2, <3>3
  <2> QED
    BY <1>2, <2>1, <2>2, <2>3, <2>4
<1>4. PICK line : line = {m \in Area(r, c) : m \div c = p.cursor_y}
  OBVIOUS
<1>5. PICK t : t = [m \in Area(r, c) |-> IF m \in line THEN " " ELSE p.cells[m]]
  OBVIOUS
<1>6. PICK d : d = p.dirty \cup line
  OBVIOUS
<1>7. s = Repaint(p, t, d)
  BY <1>1, <1>4, <1>5, <1>6, Zenon DEF Panes!ClearLine, Panes!Cells, Area, Repaint
<1>8. t \in [Area(r, c) -> Glyphs]
  BY <1>5 DEF IsPane, PaneType, Glyphs
<1>9. n \in d /\ d \in SUBSET Area(r, c)
  BY <1>1, <1>3, <1>4, <1>6
<1>10. /\ IsPane(s, r, c) /\ s.dirty = d
       /\ s.cursor_x = p.cursor_x /\ s.cursor_y = p.cursor_y
  BY <1>7, <1>8, <1>9, Repainted
<1>11. s.rows = r /\ s.columns = c
  BY <1>10 DEF IsPane, PaneType
<1> QED
  BY <1>2, <1>9, <1>10, <1>11 DEF Marked, Panes!CursorCell, Panes!At

\* The cursor has advanced.
Wrapped(q) == IF q.cursor_x >= q.columns THEN Panes!NewLine(q)
              ELSE Panes!MarkDirty(q, q.cursor_x, q.cursor_y)

LEMMA GlyphMarks ==
  ASSUME NEW r \in Nat \ {0}, NEW c \in Nat \ {0}, NEW p, IsPane(p, r, c),
         p.cursor_x < c, p.cursor_y < r, NEW v \in Glyphs, NEW s, s = Panes!PutGlyph(p, v)
  PROVE  IsPane(s, r, c) /\ Marked(s)
<1>1. PICK t : t = Panes!SetCell(p, p.cursor_x, p.cursor_y, v)
  OBVIOUS
<1>2. PICK q : q = [Panes!SetCell(p, p.cursor_x, p.cursor_y, v) EXCEPT !.cursor_x = @ + 1]
  OBVIOUS
<1>3. p.cursor_x \in Nat /\ p.cursor_y \in Nat
  BY DEF IsPane, PaneType
<1>4. IsPane(t, r, c) /\ SameCursor(p, t)
  BY <1>1, <1>3, SetKeeps
<1>5. /\ IsPane(q, r, c) /\ q.columns = c /\ q.cursor_x = p.cursor_x + 1
      /\ q.cursor_y = p.cursor_y
  BY <1>1, <1>2, <1>3, <1>4 DEF IsPane, PaneType, SameCursor
<1>6. s = Wrapped(q)
  <2>1. s = Wrapped([Panes!SetCell(p, p.cursor_x, p.cursor_y, v) EXCEPT !.cursor_x = @ + 1])
    BY Zenon DEF Panes!PutGlyph, Wrapped
  <2> QED
    BY <1>2, <2>1, Zenon
<1>7. CASE q.cursor_x >= q.columns
  BY <1>3, <1>5, <1>6, <1>7, NewLineMarks DEF Wrapped
<1>8. CASE ~ (q.cursor_x >= q.columns)
  <2>1. PICK x, y \in Nat : x = q.cursor_x /\ y = q.cursor_y /\ x < c /\ y < r
    BY <1>3, <1>5, <1>8
  <2>2. s = Panes!MarkDirty(q, x, y)
    BY <1>6, <1>8, <2>1 DEF Wrapped
  <2>3. IsPane(s, r, c) /\ SameCursor(q, s) /\ y * c + x \in s.dirty
    BY <1>5, <2>1, <2>2, MarkKeeps
  <2>4. s.rows = r /\ s.columns = c
    BY <2>3 DEF IsPane, PaneType
  <2> QED
    BY <2>1, <2>3, <2>4 DEF Marked, SameCursor, Panes!CursorCell, Panes!At
<1> QED
  BY <1>7, <1>8

\* Wherever the cursor goes, it is marked there.
LEMMA PutMarks ==
  ASSUME NEW r \in Nat \ {0}, NEW c \in Nat \ {0}, NEW p, IsPane(p, r, c),
         p.cursor_x < c, p.cursor_y < r, NEW k \in Glyphs, NEW s, s = Panes!PutC(p, k)
  PROVE  IsPane(s, r, c) /\ Marked(s)
<1>1. PICK x, y \in Nat : x = p.cursor_x /\ y = p.cursor_y /\ x < c /\ y < r
  BY DEF IsPane, PaneType
<1>2. ASSUME NEW a \in Nat, NEW b \in Nat, s = Panes!SetCursor(p, a, b)
      PROVE  IsPane(s, r, c) /\ Marked(s)
  BY <1>2, SetCursorMarks
<1>3. CASE k = "up"
  <2>1. s = Panes!SetCursor(p, x, IF y = 0 THEN 0 ELSE y - 1)
    BY <1>1, <1>3 DEF Panes!PutC, Panes!Csi, Panes!Escapes
  <2>2. PICK b \in Nat : b = IF y = 0 THEN 0 ELSE y - 1
    OBVIOUS
  <2> QED
    BY <1>2, <2>1, <2>2
<1>4. CASE k = "down"
  <2>1. s = Panes!SetCursor(p, x, y + 1)
    BY <1>1, <1>4 DEF Panes!PutC, Panes!Csi, Panes!Escapes
  <2> QED
    BY <1>2, <2>1
<1>5. CASE k = "kill"
  <2>1. s = Panes!ClearLine(p)
    BY <1>5 DEF Panes!PutC, Panes!Csi, Panes!Escapes
  <2> QED
    BY <2>1, ClearLineMarks
<1>6. CASE k = "cr"
  <2>1. s = Panes!SetCursor(p, 0, y)
    BY <1>1, <1>6 DEF Panes!PutC, Panes!Escapes
  <2> QED
    BY <1>2, <2>1
<1>7. CASE k = "lf"
  <2>1. s = Panes!NewLine(p)
    BY <1>7 DEF Panes!PutC, Panes!Escapes
  <2> QED
    BY <2>1, NewLineMarks
<1>8. CASE k = "bs"
  <2>1. PICK q : q = IF x > 0 THEN Panes!SetCursor(p, x - 1, y) ELSE p
    OBVIOUS
  <2>2. s = Panes!MarkDirty(Panes!SetCell(q, q.cursor_x, q.cursor_y, " "),
                            q.cursor_x, q.cursor_y)
    BY <1>1, <1>8, <2>1, Zenon DEF Panes!PutC, Panes!Escapes
  <2>3. IsPane(q, r, c) /\ q.cursor_x < c /\ q.cursor_y < r
    <3>1. CASE x > 0
      <4>1. q = Panes!SetCursor(p, x - 1, y) /\ x - 1 \in Nat
        BY <2>1, <3>1
      <4>2. IsPane(q, r, c) /\ Marked(q)
        BY <4>1, SetCursorMarks
      <4> QED
        BY <4>2 DEF Marked, IsPane, PaneType
    <3>2. CASE ~ (x > 0)
      BY <1>1, <2>1, <3>2
    <3> QED
      BY <3>1, <3>2
  <2>4. PICK a, b \in Nat : a = q.cursor_x /\ b = q.cursor_y /\ a < c /\ b < r
    BY <2>3 DEF IsPane, PaneType
  <2>5. PICK t : t = Panes!SetCell(q, a, b, " ")
    OBVIOUS
  <2>6. IsPane(t, r, c) /\ SameCursor(q, t)
    <3>1. " " \in Glyphs
      BY DEF Glyphs
    <3> QED
      BY <2>3, <2>5, <3>1, SetKeeps
  <2>7. s = Panes!MarkDirty(t, a, b)
    BY <2>2, <2>4, <2>5
  <2>8. IsPane(s, r, c) /\ SameCursor(t, s) /\ b * c + a \in s.dirty
    BY <2>4, <2>6, <2>7, MarkKeeps
  <2>9. s.rows = r /\ s.columns = c
    BY <2>8 DEF IsPane, PaneType
  <2> QED
    BY <2>4, <2>6, <2>8, <2>9 DEF Marked, SameCursor, Panes!CursorCell, Panes!At
<1>9. CASE k \notin {"up", "down", "kill", "cr", "lf", "bs"}
  <2>1. s = Panes!PutGlyph(p, k)
    BY <1>9 DEF Panes!PutC, Panes!Escapes
  <2> QED
    BY <2>1, GlyphMarks
<1> QED
  BY <1>3, <1>4, <1>5, <1>6, <1>7, <1>8, <1>9

-----------------------------------------------------------------------------
(* A text is a fold of its characters.                                     *)
PaneSet(r, c) == {p \in PaneType(r, c) : Shown(p)}

IsPuts(base, q, g) ==
  g = [T \in SUBSET DOMAIN q |->
         IF T = {} THEN base ELSE Panes!PutC(g[T \ {Top(T)}], q[Top(T)])]

Puts(base, q) == (CHOOSE g : IsPuts(base, q, g))[DOMAIN q]

LEMMA PutsShow ==
  ASSUME NEW r \in Nat \ {0}, NEW c \in Nat \ {0}, NEW n \in Nat, NEW q \in [1 .. n -> Glyphs],
         NEW base, IsPane(base, r, c), Shown(base)
  PROVE  IsPane(Puts(base, q), r, c) /\ Shown(Puts(base, q))
<1>1. PICK A : A = PaneSet(r, c)
  OBVIOUS
<1>2. \A p : p \in A <=> IsPane(p, r, c) /\ Shown(p)
  BY <1>1 DEF PaneSet, IsPane, PaneType
<1>3. \A p \in A, k \in Glyphs : Panes!PutC(p, k) \in A
  <2>1. SUFFICES ASSUME NEW p \in A, NEW k \in Glyphs PROVE Panes!PutC(p, k) \in A
    OBVIOUS
  <2>2. IsPane(p, r, c) /\ p.cursor_x < c /\ p.cursor_y < r
    BY <1>2 DEF IsPane, PaneType, Shown
  <2>3. IsPane(Panes!PutC(p, k), r, c) /\ Marked(Panes!PutC(p, k))
    BY <2>2, PutMarks
  <2>4. Shown(Panes!PutC(p, k))
    BY <2>3, MarkedIsShown
  <2> QED
    BY <1>2, <2>3, <2>4
<1>4. PICK step : step = [a \in A \X Glyphs |-> Panes!PutC(a[1], a[2])]
  OBVIOUS
<1>5. \A p \in A, k \in Glyphs : step[<<p, k>>] = Panes!PutC(p, k)
  BY <1>4
<1>6. DOMAIN q = 1 .. n /\ \A j \in 1 .. n : q[j] \in Glyphs
  OBVIOUS
<1>7. base \in A
  BY <1>2
<1>8. PICK f : IsFolds(step, base, q, f)
  BY <1>6, FoldsExist
<1>9. \A T \in SUBSET DOMAIN q : f[T] \in A
  <2>1. \A a \in A : \A j \in 1 .. n : step[<<a, q[j]>>] \in A
    BY <1>3, <1>5, <1>6
  <2> QED
    BY <1>6, <1>7, <1>8, <2>1, FoldsTyped
<1>10. \A T \in SUBSET DOMAIN q :
         T # {} => Top(T) \in 1 .. n /\ T \ {Top(T)} \in SUBSET DOMAIN q
  BY <1>6, TopIn
<1>11. IsPuts(base, q, f)
  <2>1. ASSUME NEW T \in SUBSET DOMAIN q, T # {}
        PROVE  f[T] = Panes!PutC(f[T \ {Top(T)}], q[Top(T)])
    <3>1. f[T] = step[<<f[T \ {Top(T)}], q[Top(T)]>>]
      BY <1>8, <2>1 DEF IsFolds
    <3>2. f[T \ {Top(T)}] \in A /\ q[Top(T)] \in Glyphs
      BY <1>6, <1>9, <1>10, <2>1
    <3> QED
      BY <1>5, <3>1, <3>2
  <2>2. f[{}] = base /\ f = [T \in SUBSET DOMAIN q |-> f[T]]
    BY <1>8 DEF IsFolds
  <2> QED
    BY <2>1, <2>2 DEF IsPuts
<1>12. PICK g : g = CHOOSE x : IsPuts(base, q, x)
  OBVIOUS
<1>13. IsPuts(base, q, g)
  BY <1>11, <1>12
<1>14. PICK Fails : Fails = {T \in SUBSET (1 .. n) : g[T] \notin A}
  OBVIOUS
<1>15. ASSUME NEW T \in Fails PROVE T # {} /\ T \ {Top(T)} \in Fails
  <2>1. T \in SUBSET DOMAIN q /\ g[T] \notin A
    BY <1>6, <1>14
  <2>2. g[T] = IF T = {} THEN base ELSE Panes!PutC(g[T \ {Top(T)}], q[Top(T)])
    BY <1>13, <2>1 DEF IsPuts
  <2>3. T # {}
    BY <1>7, <2>1, <2>2
  <2>4. g[T \ {Top(T)}] \notin A
    BY <1>3, <1>6, <1>10, <2>1, <2>2, <2>3
  <2> QED
    BY <1>6, <1>10, <1>14, <2>1, <2>3, <2>4
<1>16. g[DOMAIN q] \in A
  <2>1. Fails = {}
    BY <1>14, <1>15, NoTopFails
  <2> QED
    BY <1>6, <1>14, <2>1
<1> QED
  BY <1>2, <1>12, <1>16 DEF Puts

\* A line is put on the pane like any other text.
LEMMA LineShows ==
  ASSUME NEW r \in Nat \ {0}, NEW c \in Nat \ {0}, NEW p, IsPane(p, r, c), NEW y \in Nat,
         NEW v \in Glyphs, NEW s, s = Panes!WriteLine(p, y, v)
  PROVE  IsPane(s, r, c) /\ Shown(s)
<1>1. PICK width : width = IF p.columns = 1 THEN 1 ELSE p.columns - 1
  OBVIOUS
<1>2. width \in Nat
  BY <1>1 DEF IsPane, PaneType
<1>3. PICK q : q = [i \in 1 .. width |-> IF i = 1 THEN v ELSE " "]
  OBVIOUS
<1>4. q \in [1 .. width -> Glyphs]
  BY <1>3 DEF Glyphs
<1>5. PICK t : t = Panes!SetCursor(p, 0, y)
  OBVIOUS
<1>6. IsPane(t, r, c) /\ Shown(t)
  BY <1>5, SetCursorMarks, MarkedIsShown
<1>7. s = Puts(t, q)
  <2>1. s = Puts(Panes!SetCursor(p, 0, y),
                 [i \in 1 .. (IF p.columns = 1 THEN 1 ELSE p.columns - 1) |->
                    IF i = 1 THEN v ELSE " "])
    BY Zenon DEF Panes!WriteLine, Panes!FoldLeft, Panes!MapThenFoldSet, Panes!Max,
                 Puts, IsPuts, Top
  <2> QED
    BY <1>1, <1>3, <1>5, <2>1, Zenon
<1> QED
  BY <1>2, <1>4, <1>6, <1>7, PutsShow

LEMMA ClearShows ==
  ASSUME NEW r \in Nat \ {0}, NEW c \in Nat \ {0}, NEW p, IsPane(p, r, c),
         NEW s, s = Panes!ClearPane(p)
  PROVE  IsPane(s, r, c) /\ Shown(s)
<1>1. p.rows = r /\ p.columns = c
  BY DEF IsPane, PaneType
<1>2. PICK t : t = [n \in Area(r, c) |-> " "]
  OBVIOUS
<1>3. s = [p EXCEPT !.cells = t, !.dirty = Area(r, c), !.cursor_x = 0, !.cursor_y = 0]
  BY <1>1, <1>2, Zenon DEF Panes!ClearPane, Panes!Cells, Area
<1>4. t \in [Area(r, c) -> Glyphs]
  BY <1>2 DEF Glyphs
<1>5. PICK q : q = Repaint(p, t, Area(r, c))
  OBVIOUS
<1>6. IsPane(q, r, c) /\ q.dirty = Area(r, c)
  BY <1>4, <1>5, Repainted
<1>7. PICK z \in Nat : z = 0
  OBVIOUS
<1>8. s = Place(q, z, z)
  BY <1>3, <1>5, <1>7 DEF Repaint, Place
<1>9. IsPane(s, r, c) /\ s.cursor_x = z /\ s.cursor_y = z /\ s.dirty = Area(r, c)
  <2>1. /\ IsPane(Place(q, z, z), r, c) /\ Place(q, z, z).dirty = q.dirty
        /\ Place(q, z, z).cursor_x = z /\ Place(q, z, z).cursor_y = z
    BY <1>6, <1>7, Placed
  <2> QED
    BY <1>6, <1>8, <2>1, Zenon
<1>10. s.rows = r /\ s.columns = c
  BY <1>9 DEF IsPane, PaneType
<1>11. 0 * c + 0 \in Area(r, c)
  BY AreaHas
<1>12. Marked(s)
  BY <1>7, <1>9, <1>10, <1>11 DEF Marked, Panes!CursorCell, Panes!At
<1> QED
  BY <1>9, <1>12, MarkedIsShown

LEMMA PresentShows ==
  ASSUME NEW r \in Nat \ {0}, NEW c \in Nat \ {0}, NEW p, IsPane(p, r, c), Shown(p),
         NEW max, NEW s, s = Panes!Present(p, max)
  PROVE  IsPane(s, r, c) /\ Shown(s)
<1>1. PICK now : now = Panes!Reached(p, max)
  OBVIOUS
<1>2. PICK cur : cur = Panes!CursorCell(p)
  OBVIOUS
<1>3. PICK area : area = Area(r, c) /\ area = Panes!Cells(p)
  BY DEF IsPane, PaneType, Panes!Cells, Area
<1>4. PICK t : t = [n \in area |-> IF n \in now THEN p.cells[n] ELSE p.draw[n]]
  OBVIOUS
<1>5. PICK d, lit : d = p.dirty \ now /\ lit = (p.lit \ now) \cup ({cur} \cap now)
  OBVIOUS
<1>6. s = [p EXCEPT !.draw = t, !.dirty = d, !.lit = lit]
  BY <1>1, <1>2, <1>3, <1>4, <1>5, Zenon DEF Panes!Present
<1>7. now \subseteq area
  BY <1>1, <1>3, Zenon DEF Panes!Reached, Panes!Stale
<1>8. t \in [area -> Glyphs \cup {"nothing"}] /\ d \in SUBSET area /\ lit \in SUBSET area
  BY <1>3, <1>4, <1>5, <1>7 DEF IsPane, PaneType
<1>9. IsPane(s, r, c)
  BY <1>3, <1>6, <1>8 DEF IsPane, PaneType
<1>10. /\ s.cells = p.cells /\ s.cursor_x = p.cursor_x /\ s.cursor_y = p.cursor_y
       /\ s.rows = p.rows /\ s.columns = p.columns
  BY <1>6 DEF IsPane, PaneType
<1>11. s.draw = t /\ s.dirty = d /\ s.lit = lit
  BY <1>6 DEF IsPane, PaneType
<1>12. Panes!CursorCell(s) = cur /\ Panes!Cells(s) = area
  BY <1>2, <1>3, <1>10, Zenon DEF Panes!CursorCell, Panes!At, Panes!Cells
<1>13. cur \in Panes!Stale(p) \cup p.lit
  BY <1>2 DEF Shown
<1>14. cur \in Panes!Stale(s) \cup s.lit
  <2>1. CASE cur \in now
    BY <1>5, <1>11, <2>1
  <2>2. CASE cur \notin now /\ cur \in p.lit
    BY <1>5, <1>11, <2>2
  <2>3. CASE cur \notin now /\ cur \in Panes!Stale(p)
    <3>1. cur \in area /\ (cur \in p.dirty \/ p.cells[cur] # p.draw[cur])
      BY <1>3, <2>3 DEF Panes!Stale
    <3>2. t[cur] = p.draw[cur]
      BY <1>4, <2>3, <3>1
    <3>3. cur \in d \/ s.cells[cur] # t[cur]
      BY <1>5, <1>10, <2>3, <3>1, <3>2
    <3> QED
      BY <1>11, <1>12, <3>1, <3>3 DEF Panes!Stale
  <2> QED
    BY <1>13, <2>1, <2>2, <2>3
<1> QED
  BY <1>9, <1>10, <1>12, <1>14 DEF Shown

LEMMA NewPaneShows ==
  ASSUME NEW r \in Nat \ {0}, NEW c \in Nat \ {0}, NEW s, s = Panes!NewPane(r, c)
  PROVE  IsPane(s, r, c) /\ Shown(s)
<1>1. IsPane(s, r, c)
  BY DEF Panes!NewPane, IsPane, PaneType, Area, Glyphs
<1>2. /\ s.rows = r /\ s.columns = c /\ s.cursor_x = 0 /\ s.cursor_y = 0
      /\ s.dirty = Area(r, c)
  BY DEF Panes!NewPane, Area
<1>3. 0 * c + 0 \in Area(r, c)
  BY AreaHas
<1>4. Marked(s)
  BY <1>2, <1>3 DEF Marked, Panes!CursorCell, Panes!At
<1> QED
  BY <1>1, <1>4, MarkedIsShown

-----------------------------------------------------------------------------
\* Both panes show their cursor, and what is queued are characters.
PanesOk ==
  /\ IsPane(main, Rows, Columns) /\ Shown(main)
  /\ IsPane(menu, MenuRows, MenuColumns) /\ Shown(menu)
  /\ queue \in Seq(Chars)

LEMMA SizesArePositive ==
  /\ Rows \in Nat \ {0} /\ Columns \in Nat \ {0}
  /\ MenuRows \in Nat \ {0} /\ MenuColumns \in Nat \ {0}
  /\ Capacity \in Nat \ {0} /\ CharsPerSlice \in Nat \ {0}
BY PaneAssumption

LEMMA BothPresented ==
  ASSUME PanesOk, NEW max, Panes!PresentBoth(max), queue' \in Seq(Chars)
  PROVE  PanesOk'
<1>1. IsPane(main', Rows, Columns) /\ Shown(main')
  BY SizesArePositive, PresentShows DEF PanesOk, Panes!PresentBoth
<1>2. IsPane(menu', MenuRows, MenuColumns) /\ Shown(menu')
  BY SizesArePositive, PresentShows DEF PanesOk, Panes!PresentBoth
<1>3. Shown(main)' = Shown(main') /\ Shown(menu)' = Shown(menu')
  BY DEF Shown, Panes!CursorCell, Panes!At, Panes!Stale, Panes!Cells
<1> QED
  BY <1>1, <1>2, <1>3 DEF PanesOk, IsPane, PaneType

LEMMA Written ==
  /\ \A c \in Chars : c \in Glyphs
  /\ \A v \in Texts : v \in Glyphs
BY PaneAssumption DEF Glyphs

LEMMA RoundKeeps == ASSUME PanesOk, Panes!ConsoleRound PROVE PanesOk'
<1>1. PICK n : n = Panes!Least(CharsPerSlice, Len(queue))
  OBVIOUS
<1>2. n \in Nat /\ n <= Len(queue) /\ Len(queue) \in Nat /\ queue \in Seq(Chars)
  BY <1>1, SizesArePositive DEF PanesOk, Panes!Least
<1>3. PICK q : q = SubSeq(queue, 1, n)
  OBVIOUS
<1>4. q \in [1 .. n -> Glyphs]
  <2>1. q = [i \in 1 .. n |-> queue[i]]
    <3>1. q = [i \in 1 .. n |-> queue[(i + 1) - 1]]
      BY <1>2, <1>3
    <3>2. \A i \in 1 .. n : (i + 1) - 1 = i
      OBVIOUS
    <3> QED
      BY <3>1, <3>2
  <2>2. \A i \in 1 .. n : queue[i] \in Glyphs
    BY <1>2, Written
  <2> QED
    BY <2>1, <2>2
<1>5. PICK text : text = Puts(main, q)
  OBVIOUS
<1>6. IsPane(text, Rows, Columns) /\ Shown(text)
  BY <1>2, <1>4, <1>5, SizesArePositive, PutsShow DEF PanesOk
<1>7. CASE Panes!Writable
  <2>1. main' = Panes!Present(text, CellsPerSlice)
    <3>1. main' =
            Panes!Present(Puts(main, SubSeq(queue, 1, Panes!Least(CharsPerSlice, Len(queue)))),
                          CellsPerSlice)
      BY <1>7, Zenon
         DEF Panes!ConsoleRound, Panes!FoldLeft, Panes!MapThenFoldSet, Panes!Max,
             Puts, IsPuts, Top
    <3> QED
      BY <1>1, <1>3, <1>5, <3>1, Zenon
  <2>2. \E left : menu' = Panes!Present(menu, left)
    BY <1>7, Zenon DEF Panes!ConsoleRound
  <2>3. queue' = SubSeq(queue, n + 1, Len(queue))
    BY <1>1, <1>7, Zenon DEF Panes!ConsoleRound
  <2>4. queue' \in Seq(Chars)
    BY <1>2, <2>3
  <2>5. IsPane(main', Rows, Columns) /\ Shown(main')
    BY <1>6, <2>1, SizesArePositive, PresentShows DEF PanesOk
  <2>6. IsPane(menu', MenuRows, MenuColumns) /\ Shown(menu')
    BY <2>2, SizesArePositive, PresentShows DEF PanesOk
  <2> QED
    BY <2>4, <2>5, <2>6 DEF PanesOk
<1>8. CASE ~ Panes!Writable
  <2>1. main' = main /\ menu' = menu /\ queue' = <<>>
    BY <1>8, Zenon DEF Panes!ConsoleRound
  <2> QED
    BY <2>1 DEF PanesOk
<1> QED
  BY <1>7, <1>8

LEMMA EmptyQueue == <<>> \in Seq(Chars)
OBVIOUS

LEMMA EnqueueKeeps == ASSUME PanesOk, NEW k \in Chars, Panes!Enqueue(k) PROVE PanesOk'
<1>1. main' = main /\ menu' = menu
  BY DEF Panes!Enqueue
<1>2. \A q \in Seq(Chars) : q # <<>> => Tail(q) \in Seq(Chars)
  OBVIOUS
<1>3. \A q \in Seq(Chars) : Append(q, k) \in Seq(Chars)
  OBVIOUS
<1>4. Len(queue) = Capacity => queue # <<>>
  BY SizesArePositive DEF PanesOk
<1>5. PICK q : q = IF Len(queue) = Capacity THEN Tail(queue) ELSE queue
  OBVIOUS
<1>6. q \in Seq(Chars)
  BY <1>2, <1>4, <1>5 DEF PanesOk
<1>7. queue' = Append(q, k)
  BY <1>5, Zenon DEF Panes!Enqueue
<1> QED
  BY <1>1, <1>3, <1>6, <1>7 DEF PanesOk

LEMMA AppKeeps == ASSUME PanesOk, Panes!App PROVE PanesOk'
<1>1. IsPane(main, Rows, Columns) /\ Shown(main) /\ queue \in Seq(Chars)
  BY DEF PanesOk
<1>2. ASSUME menu' = menu, queue' \in Seq(Chars), IsPane(main', Rows, Columns), Shown(main')
      PROVE  PanesOk'
  BY <1>2 DEF PanesOk
<1>3. ASSUME main' = Panes!ClearPane(main), menu' = menu, queue' = <<>> PROVE PanesOk'
  BY <1>1, <1>2, <1>3, EmptyQueue, SizesArePositive, ClearShows
<1>4. CASE Panes!AppAcquire
  BY <1>3, <1>4 DEF Panes!AppAcquire
<1>5. CASE Panes!AppDraw
  <2>1. PICK y \in 0 .. Rows - 1, v \in Texts, clear \in BOOLEAN :
          main' = Panes!WriteLine(IF clear THEN Panes!ClearPane(main) ELSE main, y, v)
    BY <1>5, Zenon DEF Panes!AppDraw
  <2>2. PICK p : p = IF clear THEN Panes!ClearPane(main) ELSE main
    OBVIOUS
  <2>3. IsPane(p, Rows, Columns)
    BY <1>1, <2>2, SizesArePositive, ClearShows
  <2>4. y \in Nat /\ v \in Glyphs
    BY SizesArePositive, Written
  <2>5. IsPane(main', Rows, Columns) /\ Shown(main')
    BY <2>1, <2>2, <2>3, <2>4, SizesArePositive, LineShows
  <2>6. menu' = menu /\ queue' = queue
    BY <1>5 DEF Panes!AppDraw
  <2> QED
    BY <1>1, <1>2, <2>5, <2>6
<1>6. CASE Panes!AppPresent
  BY <1>1, <1>6, BothPresented DEF Panes!AppPresent
<1>7. CASE Panes!Cleanup
  BY <1>3, <1>7 DEF Panes!Cleanup
<1>8. CASE Panes!Release
  <2>1. queue' \in Seq(Chars)
    BY <1>1, <1>8, EmptyQueue DEF Panes!Release
  <2> QED
    BY <1>8, <2>1, BothPresented DEF Panes!Release
<1> QED
  BY <1>4, <1>5, <1>6, <1>7, <1>8 DEF Panes!App

LEMMA PanesKept == PanesOk /\ [Panes!Next]_paneVars => PanesOk'
<1> SUFFICES ASSUME PanesOk, [Panes!Next]_paneVars PROVE PanesOk'
  OBVIOUS
<1>1. /\ IsPane(menu, MenuRows, MenuColumns) /\ Shown(menu) /\ queue \in Seq(Chars)
  BY DEF PanesOk
<1>2. ASSUME main' = main, queue' = queue, IsPane(menu', MenuRows, MenuColumns), Shown(menu')
      PROVE  PanesOk'
  BY <1>2 DEF PanesOk
<1>3. ASSUME NEW k \in Chars, Panes!Enqueue(k) PROVE PanesOk'
  BY <1>3, EnqueueKeeps
<1>4. CASE Panes!ConsoleRound
  BY <1>4, RoundKeeps
<1>5. CASE Panes!App
  BY <1>5, AppKeeps
<1>6. CASE Panes!MenuDraw
  <2>1. PICK y \in 0 .. MenuRows - 1, v \in Texts :
          menu' = Panes!WriteLine(Panes!ClearPane(menu), y, v)
    BY <1>6, Zenon DEF Panes!MenuDraw
  <2>2. PICK p : p = Panes!ClearPane(menu)
    OBVIOUS
  <2>3. IsPane(p, MenuRows, MenuColumns)
    BY <1>1, <2>2, SizesArePositive, ClearShows
  <2>4. y \in Nat /\ v \in Glyphs
    BY SizesArePositive, Written
  <2>5. IsPane(menu', MenuRows, MenuColumns) /\ Shown(menu')
    BY <2>1, <2>2, <2>3, <2>4, SizesArePositive, LineShows
  <2> QED
    BY <1>2, <1>6, <2>5 DEF Panes!MenuDraw
<1>7. CASE Panes!MenuPresent
  BY <1>1, <1>7, BothPresented DEF Panes!MenuPresent
<1>8. CASE Panes!MenuPass
  <2>1. IsPane(menu', MenuRows, MenuColumns) /\ Shown(menu')
    BY <1>1, <1>8, SizesArePositive, PresentShows DEF Panes!MenuPass
  <2> QED
    BY <1>2, <1>8, <2>1 DEF Panes!MenuPass
<1>9. CASE UNCHANGED paneVars
  BY <1>1, <1>2, <1>9 DEF paneVars
<1> QED
  BY <1>3, <1>4, <1>5, <1>6, <1>7, <1>8, <1>9 DEF Panes!Next

LEMMA PanesStart == BothInit => PanesOk
<1> SUFFICES ASSUME BothInit PROVE PanesOk
  OBVIOUS
<1>1. /\ main = Panes!NewPane(Rows, Columns) /\ menu = Panes!NewPane(MenuRows, MenuColumns)
      /\ queue = <<>>
  BY DEF BothInit, Panes!Init
<1> QED
  BY <1>1, SizesArePositive, NewPaneShows, EmptyQueue DEF PanesOk

\* Each step of the whole is one of the panes or leaves them alone.
LEMMA PaneSteps == [BothNext]_bothVars => [Panes!Next]_paneVars
BY DEF BothNext, OwnerStep, PaneStep, bothVars, paneVars

\* In panes of any size, whatever is written, in whatever slices it is drawn: the
\* cursor stays inside its pane, and its cell, once drawn, shows it
\* (hdmi.c:331-353, 954-981, 991-1084).
THEOREM CursorStaysShown == BothSpec => []CursorIsShown
<1>1. BothInit => PanesOk
  BY PanesStart
<1>2. PanesOk /\ [BothNext]_bothVars => PanesOk'
  BY PaneSteps, PanesKept
<1>3. PanesOk => CursorIsShown
  BY DEF PanesOk, Shown, CursorIsShown, Panes!CursorIsShown
<1> QED
  BY <1>1, <1>2, <1>3, PTL DEF BothSpec

-----------------------------------------------------------------------------
\* While an application has the pane, no output is queued for it.
NoneQueued == user # "none" => queue = <<>>

PrivateStep ==
  user # "none" /\ user' # "none" => queue' = <<>> /\ (main'.cells # main.cells => Panes!App)

LEMMA DrawingKeepsCells ==
  ASSUME NEW r, NEW c, NEW p, IsPane(p, r, c), NEW max
  PROVE  Panes!Present(p, max).cells = p.cells
BY DEF Panes!Present, IsPane, PaneType

LEMMA QueueStaysPrivate ==
  PanesOk /\ NoneQueued /\ [Panes!Next]_paneVars => NoneQueued' /\ [PrivateStep]_paneVars
<1> SUFFICES ASSUME PanesOk, NoneQueued, Panes!Next PROVE NoneQueued' /\ PrivateStep
  BY DEF NoneQueued, paneVars
<1>1. ASSUME NEW k \in Chars, Panes!Enqueue(k) PROVE NoneQueued' /\ PrivateStep
  BY <1>1 DEF Panes!Enqueue, Panes!Writable, NoneQueued, PrivateStep
<1>2. CASE Panes!ConsoleRound
  <2>1. user' = user
    BY <1>2 DEF Panes!ConsoleRound
  <2>2. CASE user = "none"
    BY <2>1, <2>2 DEF NoneQueued, PrivateStep
  <2>3. CASE user # "none"
    <3>1. queue' = <<>> /\ main' = main
      BY <1>2, <2>3, Zenon DEF Panes!ConsoleRound, Panes!Writable
    <3> QED
      BY <3>1 DEF NoneQueued, PrivateStep
  <2> QED
    BY <2>2, <2>3
<1>3. CASE Panes!App
  <2>1. NoneQueued'
    BY <1>3 DEF Panes!App, Panes!AppAcquire, Panes!AppDraw, Panes!AppPresent, Panes!Cleanup,
                Panes!Release, NoneQueued
  <2> QED
    BY <1>3, <2>1 DEF NoneQueued, PrivateStep
<1>4. CASE Panes!MenuDraw
  BY <1>4 DEF Panes!MenuDraw, NoneQueued, PrivateStep
<1>5. CASE Panes!MenuPresent
  <2>1. queue' = queue /\ user' = user /\ \E max : main' = Panes!Present(main, max)
    BY <1>5 DEF Panes!MenuPresent, Panes!PresentBoth
  <2>2. main'.cells = main.cells
    BY <2>1, DrawingKeepsCells DEF PanesOk
  <2> QED
    BY <2>1, <2>2 DEF NoneQueued, PrivateStep
<1>6. CASE Panes!MenuPass
  BY <1>6 DEF Panes!MenuPass, NoneQueued, PrivateStep
<1> QED
  BY <1>1, <1>2, <1>3, <1>4, <1>5, <1>6 DEF Panes!Next

\* Console output never reaches a pane that an application owns, not even what
\* was queued before it took it (hdmi_console.c:198-208, 294-312).
THEOREM OwnedPaneStaysPrivate == BothSpec => OwnedPaneIsPrivate
<1>1. BothInit => PanesOk /\ NoneQueued
  BY PanesStart DEF BothInit, Panes!Init, NoneQueued
<1>2. PanesOk /\ NoneQueued /\ [BothNext]_bothVars =>
        PanesOk' /\ NoneQueued' /\ [PrivateStep]_paneVars
  BY PaneSteps, PanesKept, QueueStaysPrivate
<1>3. [PrivateStep]_paneVars =>
        [user # "none" /\ user' # "none" =>
           queue' = <<>> /\ (main'.cells # main.cells => Panes!App)]_Panes!vars
  BY DEF PrivateStep, paneVars, Panes!vars
<1> QED
  BY <1>1, <1>2, <1>3, PTL DEF BothSpec, OwnedPaneIsPrivate, Panes!OwnedPaneIsPrivate

-----------------------------------------------------------------------------
(* What OutputIsShown rests on: the renderer sleeps only when everything   *)
(* is drawn, and each of its rounds leaves less to do.                     *)

LEMMA PanesCount == \A S : Panes!Cardinality(S) = Cardinality(S)
BY DEF Panes!Cardinality, Cardinality

LEMMA StaleCells ==
  ASSUME NEW r \in Nat \ {0}, NEW c \in Nat \ {0}, NEW p, IsPane(p, r, c)
  PROVE  /\ Panes!Stale(p) \subseteq Nat /\ IsFiniteSet(Panes!Stale(p))
         /\ Cardinality(Panes!Stale(p)) \in Nat
<1>1. PICK area : area = 0 .. r * c - 1 /\ area = Panes!Cells(p)
  BY DEF IsPane, PaneType, Panes!Cells
<1>2. r * c - 1 \in Int
  OBVIOUS
<1>3. area \subseteq Nat /\ IsFiniteSet(area)
  BY <1>1, <1>2, FS_Interval
<1>4. Panes!Stale(p) \in SUBSET area
  BY <1>1, Zenon DEF Panes!Stale
<1>5. IsFiniteSet(Panes!Stale(p))
  BY <1>3, <1>4, FS_Subset
<1> QED
  BY <1>3, <1>4, <1>5, FS_CardinalityType

\* A cell that was reached is drawn, and the others are as stale as before.
LEMMA DrawnIsFresh ==
  ASSUME NEW r \in Nat \ {0}, NEW c \in Nat \ {0}, NEW p, IsPane(p, r, c), NEW max
  PROVE  Panes!Stale(Panes!Present(p, max)) = Panes!Stale(p) \ Panes!Reached(p, max)
<1>1. PICK now : now = Panes!Reached(p, max)
  OBVIOUS
<1>2. PICK area : area = Area(r, c) /\ area = Panes!Cells(p)
  BY DEF IsPane, PaneType, Panes!Cells, Area
<1>3. PICK t : t = [n \in area |-> IF n \in now THEN p.cells[n] ELSE p.draw[n]]
  OBVIOUS
<1>4. PICK d, lit : d = p.dirty \ now
                    /\ lit = (p.lit \ now) \cup ({Panes!CursorCell(p)} \cap now)
  OBVIOUS
<1>5. PICK s : s = [p EXCEPT !.draw = t, !.dirty = d, !.lit = lit]
  OBVIOUS
<1>6. s = Panes!Present(p, max)
  BY <1>1, <1>2, <1>3, <1>4, <1>5, Zenon DEF Panes!Present
<1>7. /\ s.draw = t /\ s.dirty = d /\ s.cells = p.cells
      /\ s.rows = p.rows /\ s.columns = p.columns
  BY <1>5 DEF IsPane, PaneType
<1>8. Panes!Cells(s) = area
  BY <1>2, <1>7, Zenon DEF Panes!Cells
<1>9. Panes!Stale(s) = {n \in area : n \in d \/ p.cells[n] # t[n]}
  BY <1>7, <1>8, Zenon DEF Panes!Stale
<1>10. Panes!Stale(p) = {n \in area : n \in p.dirty \/ p.cells[n] # p.draw[n]}
  BY <1>2, Zenon DEF Panes!Stale
<1>11. \A n \in area : t[n] = IF n \in now THEN p.cells[n] ELSE p.draw[n]
  BY <1>3
<1>12. Panes!Stale(s) = Panes!Stale(p) \ now
  BY <1>4, <1>9, <1>10, <1>11
<1> QED
  BY <1>1, <1>6, <1>12

\* A slice with room to spare reaches every stale cell.
LEMMA LastSlice ==
  ASSUME NEW r \in Nat \ {0}, NEW c \in Nat \ {0}, NEW p, IsPane(p, r, c), NEW max \in Nat,
         ~ Panes!More(p, max)
  PROVE  Panes!Stale(Panes!Present(p, max)) = {}
<1>1. PICK S : S = Panes!Stale(p)
  OBVIOUS
<1>2. IsFiniteSet(S) /\ Cardinality(S) \in Nat /\ S \subseteq Nat
  BY <1>1, StaleCells
<1>3. Cardinality(S) <= max
  BY <1>1, <1>2, PanesCount DEF Panes!More
<1>4. ASSUME NEW n \in S PROVE n \in Panes!Reached(p, max)
  <2>1. PICK T : T = {m \in S : m < n}
    OBVIOUS
  <2>2. T \in SUBSET S /\ T # S
    BY <1>2, <1>4, <2>1
  <2>3. IsFiniteSet(T) /\ Cardinality(T) <= Cardinality(S) /\ Cardinality(T) # Cardinality(S)
    BY <1>2, <2>2, FS_Subset
  <2>4. Cardinality(T) \in Nat
    BY <2>3, FS_CardinalityType
  <2>5. Cardinality(T) < max
    BY <1>2, <1>3, <2>3, <2>4
  <2> QED
    BY <1>1, <1>4, <2>1, <2>5, PanesCount DEF Panes!Reached
<1> QED
  BY <1>1, <1>4, DrawnIsFresh

\* Any slice reaches the first stale cell.
LEMMA SliceDraws ==
  ASSUME NEW r \in Nat \ {0}, NEW c \in Nat \ {0}, NEW p, IsPane(p, r, c),
         NEW max \in Nat \ {0}, Panes!Stale(p) # {}
  PROVE  /\ Panes!Stale(Panes!Present(p, max)) \subseteq Panes!Stale(p)
         /\ Panes!Stale(Panes!Present(p, max)) # Panes!Stale(p)
<1>1. PICK S : S = Panes!Stale(p)
  OBVIOUS
<1>2. S \subseteq Nat /\ S # {}
  BY <1>1, StaleCells
<1>3. PICK n \in S : \A m \in S : n <= m
  BY <1>2, LeastExists
<1>4. {m \in S : m < n} = {}
  <2>1. ASSUME NEW m \in S PROVE ~ (m < n)
    <3>1. m \in Nat /\ n \in Nat /\ n <= m
      BY <1>2, <1>3
    <3> QED
      BY <3>1
  <2> QED
    BY <2>1
<1>5. Cardinality({m \in S : m < n}) < max
  BY <1>4, FS_EmptySet
<1>6. n \in Panes!Reached(p, max)
  BY <1>1, <1>5, PanesCount DEF Panes!Reached
<1> QED
  BY <1>1, <1>6, DrawnIsFresh

\* No text, nothing changed.
LEMMA NothingPut == ASSUME NEW base PROVE Puts(base, <<>>) = base
<1>1. PICK q : q = <<>> /\ DOMAIN q = {}
  <2>1. DOMAIN <<>> = {}
    OBVIOUS
  <2> QED
    BY <2>1
<1>2. PICK g : g = [T \in SUBSET DOMAIN q |-> base]
  OBVIOUS
<1>3. IsPuts(base, q, g)
  BY <1>1, <1>2 DEF IsPuts
<1>4. PICK h : h = (CHOOSE f : IsPuts(base, q, f)) /\ IsPuts(base, q, h)
  BY <1>3
<1>5. h[{}] = base
  BY <1>1, <1>4 DEF IsPuts
<1> QED
  BY <1>1, <1>4, <1>5 DEF Puts

\* What a round writes and draws, while the console has the pane.
LEMMA RoundDoes ==
  ASSUME PanesOk, Panes!ConsoleRound, user = "none"
  PROVE  \E n \in Nat : \E text :
           /\ n <= Len(queue) /\ (queue # <<>> => n > 0)
           /\ queue' = SubSeq(queue, n + 1, Len(queue))
           /\ IsPane(text, Rows, Columns) /\ (queue = <<>> => text = main)
           /\ main' = Panes!Present(text, CellsPerSlice)
           /\ console' = "blocked" => queue' = <<>> /\ ~ Panes!More(text, CellsPerSlice)
<1>1. PICK n : n = Panes!Least(CharsPerSlice, Len(queue))
  OBVIOUS
<1>2. /\ n \in Nat /\ n <= Len(queue) /\ Len(queue) \in Nat /\ queue \in Seq(Chars)
      /\ queue # <<>> => n > 0
  <2>1. queue \in Seq(Chars) /\ CharsPerSlice \in Nat \ {0}
    BY SizesArePositive DEF PanesOk
  <2>2. Len(queue) \in Nat /\ (queue # <<>> => Len(queue) > 0)
    BY <2>1
  <2>3. n = IF CharsPerSlice < Len(queue) THEN CharsPerSlice ELSE Len(queue)
    BY <1>1 DEF Panes!Least
  <2> QED
    BY <2>1, <2>2, <2>3
<1>3. PICK q : q = SubSeq(queue, 1, n)
  OBVIOUS
<1>4. q \in [1 .. n -> Glyphs]
  <2>1. q = [i \in 1 .. n |-> queue[i]]
    <3>1. q = [i \in 1 .. n |-> queue[(i + 1) - 1]]
      BY <1>2, <1>3
    <3>2. \A i \in 1 .. n : (i + 1) - 1 = i
      OBVIOUS
    <3> QED
      BY <3>1, <3>2
  <2>2. \A i \in 1 .. n : queue[i] \in Glyphs
    BY <1>2, Written
  <2> QED
    BY <2>1, <2>2
<1>5. PICK text : text = Puts(main, q)
  OBVIOUS
<1>6. IsPane(text, Rows, Columns)
  BY <1>2, <1>4, <1>5, SizesArePositive, PutsShow DEF PanesOk
<1>7. queue = <<>> => text = main
  <2>1. SUFFICES ASSUME queue = <<>> PROVE text = main
    OBVIOUS
  <2>2. q = <<>>
    <3>1. Len(queue) = 0 /\ n = 0
      BY <1>2, <2>1
    <3> QED
      BY <1>3, <2>1, <3>1
  <2> QED
    BY <1>5, <2>2, NothingPut
<1>8. Panes!Writable
  BY DEF Panes!Writable
<1>9. /\ main' = Panes!Present(text, CellsPerSlice)
      /\ queue' = SubSeq(queue, n + 1, Len(queue))
      /\ console' = IF /\ SubSeq(queue, n + 1, Len(queue)) = <<>>
                       /\ ~ Panes!MoreInBoth(text, menu, CellsPerSlice)
                      THEN "blocked" ELSE "ready"
  <2>1. main' = Panes!Present(Puts(main, SubSeq(queue, 1,
                                                Panes!Least(CharsPerSlice, Len(queue)))),
                              CellsPerSlice)
    BY <1>8, Zenon
       DEF Panes!ConsoleRound, Panes!FoldLeft, Panes!MapThenFoldSet, Panes!Max, Puts, IsPuts, Top
  <2>2. queue' = SubSeq(queue, Panes!Least(CharsPerSlice, Len(queue)) + 1, Len(queue))
    BY <1>8, Zenon DEF Panes!ConsoleRound
  <2>3. console' =
          IF /\ SubSeq(queue, Panes!Least(CharsPerSlice, Len(queue)) + 1, Len(queue)) = <<>>
             /\ ~ Panes!MoreInBoth(Puts(main, SubSeq(queue, 1,
                                                     Panes!Least(CharsPerSlice, Len(queue)))),
                                   menu, CellsPerSlice)
            THEN "blocked" ELSE "ready"
    BY <1>8, Zenon
       DEF Panes!ConsoleRound, Panes!FoldLeft, Panes!MapThenFoldSet, Panes!Max, Puts, IsPuts, Top
  <2> QED
    BY <1>1, <1>3, <1>5, <2>1, <2>2, <2>3, Zenon
<1>10. console' = "blocked" => queue' = <<>> /\ ~ Panes!More(text, CellsPerSlice)
  <2>1. "ready" # "blocked"
    OBVIOUS
  <2> QED
    BY <1>9, <2>1 DEF Panes!MoreInBoth
<1> QED
  BY <1>2, <1>6, <1>7, <1>9, <1>10

Budgets == {CellsPerSlice, AppCells, MenuCells}

LEMMA BudgetsArePositive == \A max \in Budgets : max \in Nat \ {0}
BY PaneAssumption DEF Budgets

\* A present without new text leaves nothing stale that was not stale before.
LEMMA PresentFreshens ==
  ASSUME PanesOk, NEW max \in Budgets, Panes!PresentBoth(max)
  PROVE  /\ Panes!Stale(main)' \subseteq Panes!Stale(main)
         /\ ~ Panes!MoreInBoth(main, menu, max) => Panes!Stale(main)' = {}
<1>1. main' = Panes!Present(main, max)
  BY DEF Panes!PresentBoth
<1>2. Panes!Stale(main)' = Panes!Stale(main')
  BY DEF Panes!Stale, Panes!Cells
<1>3. Panes!Stale(main') \subseteq Panes!Stale(main)
  BY <1>1, SizesArePositive, DrawnIsFresh DEF PanesOk
<1>4. ~ Panes!MoreInBoth(main, menu, max) => Panes!Stale(main') = {}
  BY <1>1, SizesArePositive, BudgetsArePositive, LastSlice DEF PanesOk, Panes!MoreInBoth
<1> QED
  BY <1>2, <1>3, <1>4

\* The renderer does not sleep on output that is queued or not drawn.
AwakeIfUndrawn == console = "blocked" /\ user = "none" => Panes!AllShown

\* Without new output and without applications, each round of the renderer takes
\* characters from the queue or, when there are none, draws stale cells; no other
\* step adds to either (hdmi_console.c:294-330).
RoundsLeaveLess ==
  user = "none" /\ user' = "none" /\ ~ (\E k \in Chars : Panes!Enqueue(k)) =>
    IF Panes!ConsoleRound /\ ~ Panes!AllShown
      THEN \/ Len(queue') < Len(queue)
           \/ /\ queue' = queue /\ Panes!Stale(main)' \subseteq Panes!Stale(main)
              /\ Panes!Stale(main)' # Panes!Stale(main)
      ELSE Len(queue') <= Len(queue) /\ Panes!Stale(main)' \subseteq Panes!Stale(main)

LEMMA RoundLeavesLess ==
  ASSUME PanesOk, AwakeIfUndrawn, Panes!ConsoleRound
  PROVE  AwakeIfUndrawn' /\ RoundsLeaveLess
<1>1. user' = user
  BY DEF Panes!ConsoleRound
<1>2. CASE user # "none"
  BY <1>1, <1>2 DEF AwakeIfUndrawn, RoundsLeaveLess
<1>3. CASE user = "none"
  <2>0. PICK n \in Nat : \E text :
           /\ n <= Len(queue) /\ (queue # <<>> => n > 0)
           /\ queue' = SubSeq(queue, n + 1, Len(queue))
           /\ IsPane(text, Rows, Columns) /\ (queue = <<>> => text = main)
           /\ main' = Panes!Present(text, CellsPerSlice)
           /\ console' = "blocked" => queue' = <<>> /\ ~ Panes!More(text, CellsPerSlice)
    BY <1>3, RoundDoes
  <2>1. PICK text :
           /\ n <= Len(queue) /\ (queue # <<>> => n > 0)
           /\ queue' = SubSeq(queue, n + 1, Len(queue))
           /\ IsPane(text, Rows, Columns) /\ (queue = <<>> => text = main)
           /\ main' = Panes!Present(text, CellsPerSlice)
           /\ console' = "blocked" => queue' = <<>> /\ ~ Panes!More(text, CellsPerSlice)
    BY <2>0
  <2>2. Panes!Stale(main)' = Panes!Stale(main')
    BY DEF Panes!Stale, Panes!Cells
  <2>3. CellsPerSlice \in Nat \ {0}
    BY BudgetsArePositive DEF Budgets
  <2>4. AwakeIfUndrawn'
    <3>1. console' = "blocked" => Panes!Stale(main') = {}
      BY <2>1, <2>3, SizesArePositive, LastSlice
    <3> QED
      BY <2>1, <2>2, <3>1 DEF AwakeIfUndrawn, Panes!AllShown
  <2>5. queue \in Seq(Chars) /\ Len(queue) \in Nat
    BY DEF PanesOk
  <2>6. queue # <<>> => Len(queue') < Len(queue)
    <3>1. SUFFICES ASSUME queue # <<>> PROVE Len(queue') < Len(queue)
      OBVIOUS
    <3>2. n \in 1 .. Len(queue)
      BY <2>1, <2>5, <3>1
    <3>3. Len(SubSeq(queue, n + 1, Len(queue))) = Len(queue) - n
      BY <2>5, <3>2
    <3> QED
      BY <2>1, <2>5, <3>2, <3>3
  <2>7. queue = <<>> =>
          /\ queue' = <<>>
          /\ Panes!Stale(main') \subseteq Panes!Stale(main)
          /\ Panes!Stale(main) # {} => Panes!Stale(main') # Panes!Stale(main)
    <3>1. SUFFICES ASSUME queue = <<>>
                   PROVE  /\ queue' = <<>>
                          /\ Panes!Stale(main') \subseteq Panes!Stale(main)
                          /\ Panes!Stale(main) # {} => Panes!Stale(main') # Panes!Stale(main)
      OBVIOUS
    <3>2. queue' = <<>>
      <4>1. Len(queue) = 0
        BY <3>1
      <4>2. n = 0
        BY <2>1, <4>1
      <4> QED
        BY <2>1, <3>1, <4>1, <4>2
    <3>3. text = main /\ IsPane(main, Rows, Columns)
      BY <2>1, <3>1
    <3> QED
      BY <2>1, <2>3, <3>2, <3>3, SizesArePositive, DrawnIsFresh, SliceDraws
  <2>8. RoundsLeaveLess
    <3>1. CASE queue # <<>> /\ ~ Panes!AllShown
      BY <2>6, <3>1 DEF RoundsLeaveLess
    <3>2. CASE Panes!AllShown \/ queue = <<>>
      <4>1. queue = <<>>
        BY <3>2 DEF Panes!AllShown
      <4>2. queue' = queue /\ Len(queue') <= Len(queue)
        BY <2>5, <2>7, <4>1
      <4>3. ~ Panes!AllShown => Panes!Stale(main) # {}
        BY <4>1 DEF Panes!AllShown
      <4> QED
        BY <2>2, <2>7, <4>1, <4>2, <4>3 DEF RoundsLeaveLess
    <3> QED
      BY <3>1, <3>2
  <2> QED
    BY <2>4, <2>8
<1> QED
  BY <1>2, <1>3

LEMMA OthersLeaveLess ==
  PanesOk /\ AwakeIfUndrawn /\ [Panes!Next]_paneVars
    => AwakeIfUndrawn' /\ [RoundsLeaveLess]_paneVars
<1> SUFFICES ASSUME PanesOk, AwakeIfUndrawn, [Panes!Next]_paneVars
             PROVE  AwakeIfUndrawn' /\ [RoundsLeaveLess]_paneVars
  OBVIOUS
<1>0. Panes!Stale(main)' = Panes!Stale(main') /\ queue \in Seq(Chars) /\ Len(queue) \in Nat
  BY DEF Panes!Stale, Panes!Cells, PanesOk
<1>1. ASSUME NEW k \in Chars, Panes!Enqueue(k) PROVE AwakeIfUndrawn' /\ RoundsLeaveLess
  <2>1. console' # "blocked"
    BY <1>1 DEF Panes!Enqueue
  <2> QED
    BY <1>1, <2>1 DEF AwakeIfUndrawn, RoundsLeaveLess
<1>2. CASE Panes!ConsoleRound
  BY <1>2, RoundLeavesLess
<1>3. CASE Panes!App
  <2>1. CASE Panes!Release
    <3>1. user # "none"
      BY <2>1 DEF Panes!Release
    <3>2. Panes!PresentBoth(AppCells) /\ AppCells \in Budgets
      BY <2>1 DEF Panes!Release, Budgets
    <3>3. user' = "none" => ~ Panes!MoreInBoth(main, menu, AppCells) /\ queue' = <<>>
      BY <2>1, <3>1, Zenon DEF Panes!Release
    <3>4. user' = "none" => Panes!Stale(main)' = {}
      BY <3>2, <3>3, PresentFreshens
    <3> QED
      BY <3>1, <3>3, <3>4 DEF AwakeIfUndrawn, RoundsLeaveLess, Panes!AllShown
  <2>2. CASE \/ Panes!AppAcquire \/ Panes!AppDraw \/ Panes!AppPresent \/ Panes!Cleanup
    <3>1. user' # "none"
      BY <2>2 DEF Panes!AppAcquire, Panes!AppDraw, Panes!AppPresent, Panes!Cleanup
    <3> QED
      BY <3>1 DEF AwakeIfUndrawn, RoundsLeaveLess
  <2> QED
    BY <1>3, <2>1, <2>2 DEF Panes!App
<1>4. ASSUME UNCHANGED <<queue, console, user>>, Panes!Stale(main)' \subseteq Panes!Stale(main),
             ~ Panes!ConsoleRound
      PROVE  AwakeIfUndrawn' /\ RoundsLeaveLess
  <2>1. Len(queue') <= Len(queue) /\ queue' = queue
    BY <1>0, <1>4
  <2> QED
    BY <1>4, <2>1 DEF AwakeIfUndrawn, RoundsLeaveLess, Panes!AllShown
<1>5. CASE Panes!MenuPresent
  <2>1. Panes!PresentBoth(MenuCells) /\ MenuCells \in Budgets
    BY <1>5 DEF Panes!MenuPresent, Budgets
  <2>2. UNCHANGED <<queue, console, user>>
    BY <1>5 DEF Panes!MenuPresent
  <2> QED
    BY <1>2, <1>4, <2>1, <2>2, PresentFreshens
<1>6. CASE Panes!MenuDraw \/ Panes!MenuPass
  <2>1. UNCHANGED <<queue, console, user, main>>
    BY <1>6 DEF Panes!MenuDraw, Panes!MenuPass
  <2> QED
    BY <1>0, <1>2, <1>4, <2>1
<1>7. CASE UNCHANGED paneVars
  BY <1>0, <1>7 DEF paneVars, AwakeIfUndrawn, Panes!AllShown
<1> QED
  BY <1>1, <1>2, <1>3, <1>5, <1>6, <1>7 DEF Panes!Next

\* In panes of any size and whatever the budgets: when the renderer sleeps and no
\* application has the pane, the queue is empty and every cell is drawn; and once
\* output pauses, each round leaves less to do (hdmi_console.c:294-330).
THEOREM UndrawnKeepsAwake == BothSpec => []AwakeIfUndrawn /\ [][RoundsLeaveLess]_paneVars
<1>1. BothInit => PanesOk /\ AwakeIfUndrawn
  BY PanesStart DEF BothInit, Panes!Init, AwakeIfUndrawn
<1>2. PanesOk /\ AwakeIfUndrawn /\ [BothNext]_bothVars =>
        PanesOk' /\ AwakeIfUndrawn' /\ [RoundsLeaveLess]_paneVars
  BY PaneSteps, PanesKept, OthersLeaveLess
<1> QED
  BY <1>1, <1>2, PTL DEF BothSpec
=============================================================================
