----------------------------- MODULE TicTacToe -----------------------------
(***************************************************************************)
(* The game of tictactoe_task.c: its mode menu, the board, the two CPU     *)
(* players and the result menu.  The joystick's events come in any order:  *)
(* the ring they wait in only delays or drops them, so it is left out, and *)
(* so are the displays.                                                    *)
(***************************************************************************)
EXTENDS Integers, FiniteSets, FiniteSetsExt

VARIABLES game,     \* ttt_game_t
          running   \* the task's loop has not been left

vars == <<game, running>>

Cells   == 0 .. 8
Players == {"X", "O"}
Marks   == Players \cup {"empty"}
Boards  == [Cells -> Marks]
Modes   == {"easy", "hard", "pvp"}
Events  == {"up", "down", "left", "right", "center_press", "center_release"}

Lines == << <<0, 1, 2>>, <<3, 4, 5>>, <<6, 7, 8>>,
            <<0, 3, 6>>, <<1, 4, 7>>, <<2, 5, 8>>, <<0, 4, 8>>, <<2, 4, 6>> >>

Blank == [i \in Cells |-> "empty"]

-----------------------------------------------------------------------------
(* The board                                                               *)
Free(b) == {i \in Cells : b[i] = "empty"}

Complete(b) ==
  {n \in 1 .. 8 : \E p \in Players : \A k \in 1 .. 3 : b[Lines[n][k]] = p}

\* ttt_check_winner and ttt_check_winner_line: the first line that is complete.
Winner(b)     == IF Complete(b) = {} THEN "empty" ELSE b[Lines[Min(Complete(b))][1]]
WinnerLine(b) == IF Complete(b) = {} THEN -1 ELSE Min(Complete(b)) - 1

\* ttt_minimax, called with a board, a depth and is_maximizing.  Its moves_left
\* is the number of free cells.
Minimax[call \in Boards \X Nat \X BOOLEAN] ==
  LET b          == call[1]
      depth      == call[2]
      maximizing == call[3]
      mark       == IF maximizing THEN "O" ELSE "X"
      scores     == {Minimax[<<[b EXCEPT ![i] = mark], depth + 1, ~ maximizing>>] : i \in Free(b)}
  IN  CASE Winner(b) = "O" -> 10 - depth
        [] Winner(b) = "X" -> depth - 10
        [] Winner(b) = "empty" /\ Free(b) = {} -> 0
        [] OTHER -> IF maximizing THEN Max(scores) ELSE Min(scores)

\* The lowest of the cells with the best score.
Best(scored) ==
  (CHOOSE s \in scored :
     \A t \in scored : s.score > t.score \/ (s.score = t.score /\ s.cell <= t.cell)).cell

HardMoveForX(b) ==
  Best({[cell |-> i, score |-> Minimax[<<[b EXCEPT ![i] = "O"], 0, TRUE>>]] : i \in Free(b)})

\* ttt_pick_cpu_move_hard
HardMove(b) ==
  Best({[cell |-> i, score |-> Minimax[<<[b EXCEPT ![i] = "O"], 0, FALSE>>]] : i \in Free(b)})

\* The cells that complete a line of p (ttt_find_winning_move takes the lowest).
Winning(b, p) == {i \in Free(b) : Winner([b EXCEPT ![i] = p]) = p}

Preference == <<4, 0, 2, 6, 8, 1, 3, 5, 7>>

Preferred(b) == Preference[Min({n \in 1 .. 9 : Preference[n] \in Free(b)})]

EasyMoveBlocksFirst(b) ==
  IF Winning(b, "X") # {} THEN Min(Winning(b, "X"))
  ELSE IF Winning(b, "O") # {} THEN Min(Winning(b, "O")) ELSE Preferred(b)

\* ttt_pick_cpu_move_easy
EasyMove(b) ==
  IF Winning(b, "O") # {} THEN Min(Winning(b, "O"))
  ELSE IF Winning(b, "X") # {} THEN Min(Winning(b, "X")) ELSE Preferred(b)

-----------------------------------------------------------------------------
(* The game                                                                *)
FirstGame ==
  [board |-> Blank, cursor |-> 4, mode |-> "easy", state |-> "menu",
   current_player |-> "X", winner |-> "empty", moves |-> 0,
   menu_index |-> 0, result_index |-> 0, win_line |-> -1]

Reset(g) ==
  [g EXCEPT !.board = Blank, !.cursor = 4, !.current_player = "X", !.winner = "empty",
            !.moves = 0, !.result_index = 0, !.win_line = -1, !.state = "playing"]

Finished(g) ==
  CASE Winner(g.board) # "empty" ->
         [g EXCEPT !.winner = Winner(g.board), !.win_line = WinnerLine(g.board), !.state = "result"]
    [] Winner(g.board) = "empty" /\ g.moves >= 9 ->
         [g EXCEPT !.winner = "empty", !.win_line = -1, !.state = "result"]
    [] OTHER -> g

Marked(g, i) ==
  Finished([g EXCEPT !.board[i] = g.current_player, !.cursor = i, !.moves = @ + 1])

ApplyMoveAnywhere(g, i) ==
  LET h == Marked(g, i)
  IN  IF h.state = "playing"
        THEN [h EXCEPT !.current_player = IF @ = "X" THEN "O" ELSE "X"] ELSE h

\* ttt_apply_move; every index the code passes is in 0..8.
ApplyMove(g, i) ==
  LET h == Marked(g, i)
  IN  IF i \notin Free(g.board) \/ g.state # "playing" THEN g
      ELSE IF h.state = "playing"
             THEN [h EXCEPT !.current_player = IF @ = "X" THEN "O" ELSE "X"] ELSE h

IsCpuTurn(g) == g.state = "playing" /\ g.mode # "pvp" /\ g.current_player = "O"

\* ttt_move_cursor wraps around the edges.
MoveCursor(g, e) ==
  LET row == g.cursor \div 3
      col == g.cursor % 3
  IN  [g EXCEPT !.cursor = CASE e = "up"    -> ((row + 2) % 3) * 3 + col
                             [] e = "down"  -> ((row + 1) % 3) * 3 + col
                             [] e = "left"  -> row * 3 + ((col + 2) % 3)
                             [] e = "right" -> row * 3 + ((col + 1) % 3)]

Turned(index, e) == IF e = "up" THEN (index + 2) % 3 ELSE (index + 1) % 3

-----------------------------------------------------------------------------
(* The task                                                                *)
Init == game = FirstGame /\ running = TRUE

\* ttt_run_cpu_turn after its sleep of 20 ticks.
CpuTurn ==
  /\ running /\ IsCpuTurn(game)
  /\ game' = ApplyMove(game, IF game.mode = "hard" THEN HardMove(game.board) ELSE EasyMove(game.board))
  /\ UNCHANGED running

\* ttt_handle_menu_joy
MenuEvent(e) ==
  /\ running /\ game.state = "menu"
  /\ game' = CASE e \in {"up", "down"} -> [game EXCEPT !.menu_index = Turned(@, e)]
               [] e = "center_release" ->
                    Reset([game EXCEPT !.mode = <<"easy", "hard", "pvp">>[game.menu_index + 1]])
               [] OTHER -> game
  /\ UNCHANGED running

\* ttt_handle_play_joy: events are not read while it is the CPU's turn.
PlayEvent(e) ==
  /\ running /\ game.state = "playing" /\ ~ IsCpuTurn(game)
  /\ game' = CASE e \in {"up", "down", "left", "right"} -> MoveCursor(game, e)
               [] e = "center_release" -> ApplyMove(game, game.cursor)
               [] OTHER -> game
  /\ UNCHANGED running

\* ttt_handle_result_joy: play again, back to the mode menu, or exit.
ResultEvent(e) ==
  /\ running /\ game.state = "result"
  /\ game' = CASE e \in {"up", "down"} -> [game EXCEPT !.result_index = Turned(@, e)]
               [] e = "center_release" /\ game.result_index = 0 -> Reset(game)
               [] e = "center_release" /\ game.result_index = 1 ->
                    [game EXCEPT !.state = "menu", !.menu_index = 0]
               [] OTHER -> game
  /\ running' = ~ (e = "center_release" /\ game.result_index = 2)

\* The task is created again: game is a local variable of its function.
Restart ==
  /\ ~ running
  /\ running' = TRUE
  /\ game' = FirstGame

Next ==
  \/ CpuTurn
  \/ \E e \in Events : MenuEvent(e) \/ PlayEvent(e) \/ ResultEvent(e)
  \/ Restart

Spec == Init /\ [][Next]_vars

-----------------------------------------------------------------------------
Count(b, p) == Cardinality({i \in Cells : b[i] = p})

Over(b) == Winner(b) # "empty" \/ Free(b) = {}

\* Through any sequence of events, rounds and modes, what the game remembers
\* about the board is what is on it: whose turn it is, how many moves were made,
\* who won on which line, and that the round is over exactly when it is
\* (tictactoe_task.c:565-600).
StateMatchesBoard ==
  LET g == game
      x == Count(g.board, "X")
      o == Count(g.board, "O")
  IN  /\ g.moves = x + o
      /\ x \in {o, o + 1}
      /\ g.state = "playing" => g.current_player = IF x = o THEN "X" ELSE "O"
      /\ g.winner = Winner(g.board) /\ g.win_line = WinnerLine(g.board)
      /\ g.state = "playing" => ~ Over(g.board)
      /\ g.state = "result" => Over(g.board)
      /\ ~ \E m, n \in Complete(g.board) : g.board[Lines[m][1]] # g.board[Lines[n][1]]

\* The hard CPU cannot be beaten, whatever the player does
\* (tictactoe_task.c:425-467, 514-544).
HardNeverLoses == game.mode = "hard" => game.winner # "X"

\* Either CPU ends the round when it can; when it cannot and the player
\* threatens one cell, it takes that cell (tictactoe_task.c:486-504; for the
\* hard CPU it follows from the scores).
CpuLooksAhead ==
  LET b == game.board
  IN  CpuTurn => IF Winning(b, "O") # {} THEN game'.winner = "O"
                 ELSE Cardinality(Winning(b, "X")) = 1 =>
                        \A i \in Winning(b, "X") : game'.board[i] = "O"
=============================================================================
