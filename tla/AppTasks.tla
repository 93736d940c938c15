------------------------------ MODULE AppTasks ------------------------------
(***************************************************************************)
(* The tasks a user starts and stops, and what they share: the owner of    *)
(* the LED matrix and its one-frame buffer (led_task.c), the owner of the  *)
(* main HDMI pane (hdmi.c), the joystick's event handler                   *)
(* (joystick_task.c) and the running flag of the sensor task (env_task.c). *)
(* Each kind of task registers its id in a variable of its own, and the    *)
(* command that stops a task cleans up after it when the id is the         *)
(* registered one (shell_cmd_stop_id).                                     *)
(*                                                                         *)
(* The scheduler is cooperative: an action is the code from one point      *)
(* where a task can yield (console output, a flush of the pane, a sleep, a *)
(* sensor access) to the next, and reaps what is DYING when it yields.     *)
(* Both the UART shell and the joystick menu run commands.                 *)
(***************************************************************************)
EXTENDS TaskTable

CONSTANTS Slots,        \* the task slots that applications get
          Commanders,   \* the tasks that run commands: "shell", "menu"
          RenderErrors  \* whether led_matrix_render_frame may fail

ASSUME AppAssumption ==
  /\ Slots \subseteq Tasks \ {Idle} /\ Slots # {}
  /\ Commanders \subseteq {"shell", "menu"}
  /\ RenderErrors \in BOOLEAN

VARIABLES app,      \* per slot: the kind of its task and where it stands
          cmd,      \* per commander: a stop in progress
          reg,      \* the registered id of each kind (gol_task_id, ...)
          res       \* the shared resources

vars == <<app, cmd, reg, res>>

None    == NoTask
Kinds   == {"env", "envdash", "envled", "diagdash", "gol", "tictactoe"}
NeedEnv == {"envdash", "envled"}

\* Where a task stands when it has yielded:
\*   unused
\*   dying
\*   new       created, not run yet
\*   denied    printing why it cannot run
\*   acquire   before led_acquire, or in the sensors' initialization
\*   running
\*   leaving   printing that it ends
\*   flush     flushing the pane it cleared

Unused == [kind |-> "none", at |-> "unused"]
NoStop == [at |-> "idle", id |-> None]

Init ==
  /\ app = [i \in Slots |-> Unused]
  /\ cmd = [c \in Commanders |-> NoStop]
  /\ reg = [k \in Kinds |-> None]
  /\ res = [pane    |-> None,    \* owner of HDMI_PANE_MAIN
            led     |-> None,    \* led_owner_task_id
            frame   |-> "clear", \* pending_frame: who drew it
            pending |-> FALSE,   \* frame_pending
            ledTask |-> "ready",
            drawing |-> "clear", \* the LED task's copy of the frame
            shown   |-> "clear",
            failed  |-> FALSE,   \* the last rendering failed
            handler |-> "menu",  \* joystick_event_handler
            env     |-> FALSE,   \* env_store.running
            tttLed  |-> FALSE, tttHdmi |-> FALSE]

\* task_reap_dying in the yield that ends a step of task me.
AfterReap(a, me) == [i \in Slots |-> IF a[i].at = "dying" /\ i # me THEN Unused ELSE a[i]]

Move(i, at) == app' = AfterReap([app EXCEPT ![i].at = at], i)
Exit(i)     == Move(i, "dying")

-----------------------------------------------------------------------------
(* led_task.c and hdmi.c                                                   *)
CanTakeAny(owner, id) == TRUE

\* Free, or one's own already.
CanTake(owner, id) == owner = None \/ owner = id

\* led_acquire and hdmi_acquire_pane: the latter refuses an id below 0.
LedAcquired(r, id)  == IF CanTake(r.led, id) THEN [r EXCEPT !.led = id] ELSE r
PaneAcquired(r, id) == IF id # None /\ CanTake(r.pane, id) THEN [r EXCEPT !.pane = id] ELSE r

\* led_submit_frame: the owner's frame replaces the pending one and wakes the
\* LED task.
LedSubmitted(r, id, f) ==
  IF r.led # id THEN r
  ELSE [r EXCEPT !.frame = f, !.pending = TRUE,
                 !.ledTask = IF @ = "blocked" THEN "ready" ELSE @]

LedReleasedLit(r, id) == IF id # None /\ r.led = id THEN [r EXCEPT !.led = None] ELSE r

\* led_release: a clear frame, then the ownership.
LedReleased(r, id) ==
  LET s == LedSubmitted(r, id, "clear")
  IN  IF id = None THEN r ELSE IF s.led = id THEN [s EXCEPT !.led = None] ELSE s

PaneReleased(r, id) == IF id # None /\ r.pane = id THEN [r EXCEPT !.pane = None] ELSE r

\* The loop of led_task: take the pending frame or block, in one critical
\* section; render the copy.
LedTake ==
  /\ res.ledTask = "ready"
  /\ res' = IF res.pending
              THEN [res EXCEPT !.ledTask = "drawing", !.drawing = res.frame, !.pending = FALSE]
              ELSE [res EXCEPT !.ledTask = "blocked"]
  /\ app' = AfterReap(app, None)
  /\ UNCHANGED <<cmd, reg>>

LedRender ==
  /\ res.ledTask = "drawing"
  /\ \/ res' = [res EXCEPT !.ledTask = "ready", !.shown = res.drawing, !.failed = FALSE]
     \/ RenderErrors /\ res' = [res EXCEPT !.ledTask = "ready", !.failed = TRUE]
  /\ app' = AfterReap(app, None)
  /\ UNCHANGED <<cmd, reg>>

-----------------------------------------------------------------------------
(* ttt_cleanup_resources after its flush, or without one.                  *)
GameFreed(r, id) ==
  LET s == IF r.tttHdmi THEN PaneReleased(r, id) ELSE r
      t == IF s.tttLed THEN LedReleased(s, id) ELSE s
  IN  [t EXCEPT !.tttLed = FALSE, !.tttHdmi = FALSE]

(* shell_cmd_stop_id: the registered ids are compared one after the other.  *)
(* A stage gives the registrations and resources, and where the command    *)
(* stands next; it yields in the flush of a dashboard or of the game.      *)
Stage(at, g, r) == [at |-> at, reg |-> g, res |-> r]

StopGame(g, r, id) ==
  IF id # g["tictactoe"] THEN Stage("idle", g, r)
  ELSE LET s == [r EXCEPT !.handler = "menu"]
       IN  IF s.tttHdmi THEN Stage("tictactoe", g, s)
           ELSE Stage("idle", [g EXCEPT !["tictactoe"] = None], GameFreed(s, g["tictactoe"]))

StopGol(g, r, id) ==
  IF id = g["gol"] THEN StopGame([g EXCEPT !["gol"] = None], LedReleased(r, id), id)
  ELSE StopGame(g, r, id)

StopDiagDash(g, r, id) ==
  IF id = g["diagdash"] THEN Stage("diagdash", g, r) ELSE StopGol(g, r, id)

StopEnvLedUnreleased(g, r, id) ==
  IF id = g["envled"] THEN StopDiagDash([g EXCEPT !["envled"] = None], r, id)
  ELSE StopDiagDash(g, r, id)

StopEnvLed(g, r, id) ==
  IF id = g["envled"]
    THEN StopDiagDash([g EXCEPT !["envled"] = None], LedReleased(r, id), id)
    ELSE StopDiagDash(g, r, id)

StopEnvDash(g, r, id) ==
  IF id = g["envdash"] THEN Stage("envdash", g, r) ELSE StopEnvLed(g, r, id)

StopEnv(g, r, id) ==
  StopEnvDash(g, IF id = g["env"] THEN [r EXCEPT !.env = FALSE] ELSE r, id)

\* The flush is over: what cleanup_resources does then uses the id that is
\* registered now; the comparisons go on with the id of the command.
Flushed(kind, id) ==
  LET g == [reg EXCEPT ![kind] = None]
      r == IF kind = "tictactoe" THEN GameFreed(res, reg[kind]) ELSE PaneReleased(res, reg[kind])
  IN  CASE kind = "envdash"   -> StopEnvLed(g, r, id)
        [] kind = "diagdash"  -> StopGol(g, r, id)
        [] kind = "tictactoe" -> Stage("idle", g, r)

\* A game takes the joystick's events away from the menu.
MayCommand(c) == cmd[c] = NoStop /\ (c = "menu" => res.handler = "menu")

\* shell_cmd_start_arg: one task of a kind, and the sensor task for two of them;
\* the new task gets the lowest free slot.
Start(c, k) ==
  LET free == {i \in Slots : app[i].at = "unused"}
  IN  /\ MayCommand(c)
      /\ \A i \in Slots : app[i].kind # k
      /\ k \in NeedEnv => res.env
      /\ \E i \in free :
           /\ \A j \in free : i <= j
           /\ app' = AfterReap([app EXCEPT ![i] = [kind |-> k, at |-> "new"]], None)
      /\ UNCHANGED <<cmd, reg, res>>

StopReaches(c, s, id) ==
  /\ reg' = s.reg
  /\ res' = s.res
  /\ cmd' = [cmd EXCEPT ![c] = IF s.at = "idle" THEN NoStop ELSE [at |-> s.at, id |-> id]]

Stop(c, i) ==
  /\ MayCommand(c)
  /\ app[i].at \notin {"unused", "dying"}
  /\ app' = AfterReap([app EXCEPT ![i].at = "dying"], None)
  /\ StopReaches(c, StopEnv(reg, res, i), i)

StopGoesOn(c) ==
  /\ cmd[c] # NoStop
  /\ StopReaches(c, Flushed(cmd[c].at, cmd[c].id), cmd[c].id)
  /\ app' = AfterReap(app, None)

-----------------------------------------------------------------------------
(* The tasks.  Each begins by registering its id.                          *)
Registered(i) == reg' = [reg EXCEPT ![app[i].kind] = i]
Unregistered(i) == reg' = [reg EXCEPT ![app[i].kind] = None]

At(i, k, at) == app[i] = [kind |-> k, at |-> at]

\* env_task: env_init, the sensors, and no registration is ever taken back.
EnvNew(i) ==
  /\ At(i, "env", "new")
  /\ Registered(i)
  /\ res' = [res EXCEPT !.env = FALSE]
  /\ Move(i, "acquire")

EnvSensors(i) ==
  /\ At(i, "env", "acquire")
  /\ \E ok \in BOOLEAN :
       /\ res' = [res EXCEPT !.env = ok]
       /\ Move(i, IF ok THEN "running" ELSE "leaving")
  /\ UNCHANGED reg

EnvFailed(i) ==
  /\ At(i, "env", "leaving")
  /\ Exit(i)
  /\ UNCHANGED <<reg, res>>

\* env_dash_task and diag_dash_task up to their "started".
DashNew(i) ==
  LET taken == PaneAcquired(res, i)
      ok    == app[i].kind = "envdash" => res.env
  IN  /\ app[i].kind \in {"envdash", "diagdash"} /\ app[i].at = "new"
      /\ Registered(i)
      /\ res' = IF ok THEN taken ELSE res
      /\ Move(i, IF ok /\ taken.pane = i THEN "running" ELSE "denied")

\* env_status_task and gol_task up to led_acquire, which is called with the
\* registered id.
LampNew(i) ==
  /\ app[i].kind \in {"envled", "gol"} /\ app[i].at = "new"
  /\ Registered(i)
  /\ Move(i, IF app[i].kind = "envled" /\ ~ res.env THEN "denied" ELSE "acquire")
  /\ UNCHANGED res

LampAcquire(i) ==
  LET id == reg[app[i].kind]
  IN  /\ app[i].kind \in {"envled", "gol"} /\ app[i].at = "acquire"
      /\ res' = LedAcquired(res, id)
      /\ Move(i, IF CanTake(res.led, id) THEN "running" ELSE "denied")
      /\ UNCHANGED reg

\* tictactoe_task: whatever display is free, then the joystick's events.
GameNew(i) ==
  LET r == PaneAcquired(LedAcquired(res, i), i)
      s == [r EXCEPT !.tttLed = (r.led = i), !.tttHdmi = (r.pane = i)]
  IN  /\ At(i, "tictactoe", "new")
      /\ Registered(i)
      /\ res' = IF s.tttLed \/ s.tttHdmi THEN [s EXCEPT !.handler = "game"] ELSE s
      /\ Move(i, IF s.tttLed \/ s.tttHdmi THEN "running" ELSE "denied")

\* The message is out: registration back, end of the task.
Denied(i) ==
  /\ app[i].at = "denied"
  /\ Unregistered(i)
  /\ Exit(i)
  /\ UNCHANGED res

\* A frame of envled, gol or the game, with the registered id.
Draw(i) ==
  LET k == app[i].kind
  IN  /\ k \in {"envled", "gol", "tictactoe"} /\ app[i].at = "running"
      /\ k = "envled" => res.env
      /\ k = "tictactoe" => res.tttLed
      /\ res' = LedSubmitted(res, reg[k], k)
      /\ Move(i, "running")
      /\ UNCHANGED reg

\* env_status_task and env_dash_task see that the sensor task is gone.
EnvGone(i) ==
  /\ app[i].kind \in NeedEnv /\ app[i].at = "running"
  /\ ~ res.env
  /\ Move(i, "leaving")
  /\ UNCHANGED <<reg, res>>

EnvLedLeaves(i) ==
  /\ At(i, "envled", "leaving")
  /\ res' = LedReleased(LedSubmitted(res, reg["envled"], "clear"), reg["envled"])
  /\ Unregistered(i)
  /\ Exit(i)

\* env_dash_cleanup_resources in the task itself.
EnvDashLeaves(i) ==
  /\ At(i, "envdash", "leaving")
  /\ IF reg["envdash"] = None THEN Exit(i) ELSE Move(i, "flush")
  /\ UNCHANGED <<reg, res>>

EnvDashFlushed(i) ==
  /\ At(i, "envdash", "flush")
  /\ res' = PaneReleased(res, reg["envdash"])
  /\ Unregistered(i)
  /\ Exit(i)

\* The player ends the game: ttt_cleanup_resources in the task itself.
GameEnds(i) ==
  LET s == [res EXCEPT !.handler = "menu"]
  IN  /\ At(i, "tictactoe", "running")
      /\ IF s.tttHdmi
           THEN res' = s /\ Move(i, "flush") /\ UNCHANGED reg
           ELSE res' = GameFreed(s, reg["tictactoe"]) /\ Unregistered(i) /\ Exit(i)

GameFlushed(i) ==
  /\ At(i, "tictactoe", "flush")
  /\ res' = GameFreed(res, reg["tictactoe"])
  /\ Unregistered(i)
  /\ Exit(i)

Step(i) ==
  \/ EnvNew(i) \/ EnvSensors(i) \/ EnvFailed(i)
  \/ DashNew(i) \/ LampNew(i) \/ LampAcquire(i) \/ GameNew(i)
  \/ Denied(i) \/ Draw(i) \/ EnvGone(i)
  \/ EnvLedLeaves(i) \/ EnvDashLeaves(i) \/ EnvDashFlushed(i)
  \/ GameEnds(i) \/ GameFlushed(i)

Next ==
  \/ \E c \in Commanders, k \in Kinds : Start(c, k)
  \/ \E c \in Commanders, i \in Slots : Stop(c, i)
  \/ \E c \in Commanders : StopGoesOn(c)
  \/ \E i \in Slots : Step(i) /\ UNCHANGED cmd
  \/ LedTake
  \/ LedRender

Spec == Init /\ [][Next]_vars

-----------------------------------------------------------------------------
\* A task that runs on a display owns it until it leaves: nothing that another
\* task or a command does takes the LED matrix or the pane away from it.
OwnsWhileRunning ==
  \A i \in Slots : app[i].at = "running" =>
    /\ app[i].kind \in {"envdash", "diagdash"} => res.pane = i
    /\ app[i].kind \in {"envled", "gol"} => res.led = i
    /\ app[i].kind = "tictactoe" => /\ res.handler = "game"
                                    /\ res.tttLed = (res.led = i)
                                    /\ res.tttHdmi = (res.pane = i)

\* The cleanup of what task i held is still under way.
BeingStopped(i, kinds) == \E c \in Commanders : cmd[c].id = i /\ cmd[c].at \in kinds

Alive(i, kinds) == app[i].kind \in kinds /\ app[i].at \in {"running", "leaving", "flush"}

\* Whatever way a task ends, by itself, stopped before it ran, stopped while it
\* was cleaning up or while a command was: no display stays owned by, and the
\* joystick's events do not stay with, a task that is no longer there.
NothingStaysTaken ==
  /\ res.pane # None => \/ Alive(res.pane, {"envdash", "diagdash", "tictactoe"})
                        \/ BeingStopped(res.pane, {"envdash", "diagdash", "tictactoe"})
  /\ res.led # None => \/ Alive(res.led, {"envled", "gol", "tictactoe"})
                       \/ BeingStopped(res.led, {"tictactoe"})
  /\ res.handler = "game" => \E i \in Slots : At(i, "tictactoe", "running")

\* A free LED matrix is dark once the LED task has nothing left to draw, unless
\* the last rendering failed (led_release submits a clear frame first).
DarkWhenFree ==
  res.led = None /\ ~ res.pending /\ res.ledTask # "drawing" =>
    res.shown = "clear" \/ res.failed

\* diag_dash_task.c:340 "The task owns HDMI_PANE_MAIN while running".
DiagDashOwnsPane ==
  \A i \in Slots : At(i, "diagdash", "running") => res.pane = i
=============================================================================
