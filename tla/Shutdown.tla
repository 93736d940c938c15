------------------------------ MODULE Shutdown ------------------------------
(***************************************************************************)
(* The command "shutdown" (src/kernel/shutdown.c) on top of AppTasks.  It  *)
(* stops no task: until it disables the IRQs for good, every wait of its   *)
(* own (console output, the flush of a pane, the transfer that clears the  *)
(* LED matrix) lets the applications and the LED task go on, after what    *)
(* they held has been taken from them.                                     *)
(***************************************************************************)
EXTENDS AppTasks

VARIABLE halt   \* where kernel_shutdown stands, and who called it

\* The values of halt.at:
\*   off
\*   begun                          printing the first message
\*   diagdash, envdash, tictactoe   flushing the pane of that application
\*   clear                          in led_matrix_clear_shutdown
\*   message                        printing the last message
\*   halted                         parked, with IRQs disabled

shutdownVars == <<vars, halt>>

ShutdownInit == Init /\ halt = [at |-> "off", by |-> "nobody"]

-----------------------------------------------------------------------------
(* What follows a flush, up to the next one, as a Stage of AppTasks.       *)

\* The LED matrix is taken from env_status_task and gol_task, env_task is marked as
\* not running, the panes are cleared and "SYSTEM HALTED" is drawn.
ToClear(g, r) ==
  LET s == LedReleased(LedReleased(r, g["envled"]), g["gol"])
  IN  Stage("clear", [g EXCEPT !["envled"] = None, !["gol"] = None],
            IF g["env"] # None THEN [s EXCEPT !.env = FALSE] ELSE s)

ToGame(g, r) ==
  LET s == [r EXCEPT !.handler = "menu"]
  IN  IF s.tttHdmi THEN Stage("tictactoe", g, s)
      ELSE ToClear([g EXCEPT !["tictactoe"] = None], GameFreed(s, g["tictactoe"]))

ToEnvDash(g, r) == IF g["envdash"] # None THEN Stage("envdash", g, r) ELSE ToGame(g, r)

ToDiagDash(g, r) == IF g["diagdash"] # None THEN Stage("diagdash", g, r) ELSE ToEnvDash(g, r)

Reaches(s) ==
  /\ reg' = s.reg
  /\ res' = s.res
  /\ halt' = [halt EXCEPT !.at = s.at]
  /\ app' = AfterReap(app, None)
  /\ UNCHANGED cmd

ShutdownBegins(c) ==
  /\ halt.at = "off" /\ MayCommand(c)
  /\ halt' = [at |-> "begun", by |-> c]
  /\ app' = AfterReap(app, None)
  /\ UNCHANGED <<cmd, reg, res>>

ShutdownReleases ==
  LET g(kind) == [reg EXCEPT ![kind] = None]
  IN  \/ halt.at = "begun" /\ Reaches(ToDiagDash(reg, res))
      \/ /\ halt.at = "diagdash"
         /\ Reaches(ToEnvDash(g("diagdash"), PaneReleased(res, reg["diagdash"])))
      \/ /\ halt.at = "envdash"
         /\ Reaches(ToGame(g("envdash"), PaneReleased(res, reg["envdash"])))
      \/ /\ halt.at = "tictactoe"
         /\ Reaches(ToClear(g("tictactoe"), GameFreed(res, reg["tictactoe"])))

\* led_matrix_clear_shutdown; the bus lock keeps it apart from the LED task's
\* transfer, before or after it.
ShutdownClears ==
  /\ halt.at = "clear"
  /\ \/ Reaches(Stage("message", reg, [res EXCEPT !.shown = "clear", !.failed = FALSE]))
     \/ RenderErrors /\ Reaches(Stage("message", reg, [res EXCEPT !.failed = TRUE]))

\* irq_disable, and the loop of wfi.
ShutdownHalts ==
  /\ halt.at = "message"
  /\ halt' = [halt EXCEPT !.at = "halted"]
  /\ UNCHANGED vars

\* The other tasks, in the waits of the shutdown.
OthersStep ==
  /\ halt.at # "halted"
  /\ \/ \E c \in Commanders \ {halt.by} :
          \/ \E k \in Kinds : Start(c, k)
          \/ \E i \in Slots : Stop(c, i)
          \/ StopGoesOn(c)
     \/ \E i \in Slots : Step(i) /\ UNCHANGED cmd
     \/ LedTake
     \/ LedRender
  /\ UNCHANGED halt

Parked == halt.at = "halted" /\ UNCHANGED shutdownVars

ShutdownNext ==
  \/ \E c \in Commanders : ShutdownBegins(c)
  \/ ShutdownReleases
  \/ ShutdownClears
  \/ ShutdownHalts
  \/ OthersStep
  \/ Parked

ShutdownSpec == ShutdownInit /\ [][ShutdownNext]_shutdownVars

-----------------------------------------------------------------------------
\* When the CPU is parked the LED matrix is dark, if the transfer that clears it
\* worked (shutdown.c:65-70).  The user manual: "After shutdown, the kernel clears
\* the displays, disables interrupts, and enters a halted wait loop."
DarkWhenHalted == halt.at = "halted" => res.shown = "clear" \/ res.failed
=============================================================================
