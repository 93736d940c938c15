----------------------------- MODULE GameOfLife -----------------------------
(***************************************************************************)
(* The game of life of gol_task.c: a board whose edges meet, the ages of   *)
(* its cells, and the choice of a new pattern when nothing happens on it   *)
(* any more.  How the task takes and loses the LED matrix is in AppTasks.  *)
(***************************************************************************)
EXTENDS Integers, FiniteSets

CONSTANTS
  Width, Height,      \* 8 and 8 in the code, at least 6 and 5 for the seeds
  MaxAge,             \* MAX_AGE, 7 in the code
  ReseedAfterFrames,  \* RESEED_AFTER_FRAMES, 120 in the code
  RandomBoards        \* the sets of cells gol_seed_random may bring to life

VARIABLES
  current,           \* the age of every cell, 0 for a dead one
  generation_count,
  pattern            \* what gol_seed_pattern has chosen last

vars == <<current, generation_count, pattern>>

Cells  == (0 .. Height - 1) \X (0 .. Width - 1)   \* <<y, x>>
Ages   == 0 .. MaxAge
Boards == [Cells -> Ages]

\* The cells that each seed brings to life.
Glider   == {<<1, 2>>, <<2, 3>>, <<3, 1>>, <<3, 2>>, <<3, 3>>}
Explorer == {<<2, 3>>, <<1, 2>>, <<1, 3>>, <<1, 4>>, <<3, 2>>, <<3, 4>>, <<4, 3>>}
Ship     == {<<1, 2>>, <<1, 5>>, <<2, 1>>, <<3, 1>>, <<3, 5>>, <<4, 1>>, <<4, 2>>,
             <<4, 3>>, <<4, 4>>}

\* gol_seed_pattern: the generator's state is arbitrary, as the start of the task
\* mixes the system tick into it.
Seeds == [name : {"glider"}, alive : {Glider}]
           \cup [name : {"explorer"}, alive : {Explorer}]
           \cup [name : {"ship"}, alive : {Ship}]
           \cup [name : {"random"}, alive : RandomBoards]

Seeded(alive) == [c \in Cells |-> IF c \in alive THEN 1 ELSE 0]

Alive(board) == {c \in Cells : board[c] > 0}

\* Faulty variant: a neighbour beyond an edge is the cell at that edge.
WrapAtEdge(i, size) == IF i < 0 THEN 0 ELSE IF i >= size THEN size - 1 ELSE i

\* gol_wrap_x and gol_wrap_y
Wrapped(i, size) == (i + size) % size

\* gol_count_neighbors: eight looks, which may meet the same cell twice only on
\* a board narrower than three.
Neighbors(board, y, x) ==
  Cardinality({d \in (-1 .. 1) \X (-1 .. 1) :
                 /\ d # <<0, 0>>
                 /\ board[<<Wrapped(y + d[1], Height), Wrapped(x + d[2], Width)>>] > 0})

\* gol_step: the next age of a cell.
NextAge(board, c) ==
  LET n == Neighbors(board, c[1], c[2])
  IN  IF board[c] > 0
        THEN IF n \in {2, 3} THEN IF board[c] < MaxAge THEN board[c] + 1 ELSE board[c] ELSE 0
        ELSE IF n = 3 THEN 1 ELSE 0

Step(board) == [c \in Cells |-> NextAge(board, c)]

\* gol_color_for_age: red, green and blue.
Color(age) ==
  CASE age = 0 -> <<0, 0, 0>>     [] age = 1 -> <<0, 120, 255>> [] age = 2 -> <<0, 255, 255>>
    [] age = 3 -> <<0, 255, 120>> [] age = 4 -> <<0, 255, 0>>   [] age = 5 -> <<180, 255, 0>>
    [] age = 6 -> <<255, 180, 0>> [] age > 6 -> <<255, 0, 80>>

\* gol_render
Frame(board) == [c \in Cells |-> Color(board[c])]

Seed(s) ==
  /\ current' = Seeded(s.alive)
  /\ generation_count' = 0
  /\ pattern' = s.name

-----------------------------------------------------------------------------
Init ==
  \E s \in Seeds : /\ current = Seeded(s.alive)
                   /\ generation_count = 0
                   /\ pattern = s.name

\* The board before the step is dead, the step has changed nothing, or the
\* pattern has been shown long enough.
Over(board, next, generation) ==
  \/ Alive(board) = {}
  \/ board = next
  \/ generation >= ReseedAfterFrames

\* One turn of the loop of gol_task: a new pattern, or the next generation.
NewPattern ==
  /\ Over(current, Step(current), generation_count + 1)
  /\ \E s \in Seeds : Seed(s)

NextGeneration ==
  /\ ~ Over(current, Step(current), generation_count + 1)
  /\ current' = Step(current)
  /\ generation_count' = generation_count + 1
  /\ UNCHANGED pattern

Next == NewPattern \/ NextGeneration

Spec == Init /\ [][Next]_vars

-----------------------------------------------------------------------------
Dark == Color(0)

\* The picture of a glider comes out of every four generations one cell further
\* down and to the right, and unharmed over each of the four edges, as long as it
\* is shown: 120 generations, almost four times around the board
\* (gol_task.c:43-111, 272-358).
GliderGlides ==
  pattern = "glider" /\ generation_count % 4 = 0 =>
    LET k == generation_count \div 4
    IN  {c \in Cells : Frame(current)[c] # Dark} =
          {<<(c[1] + k) % Height, (c[2] + k) % Width>> : c \in Glider}
=============================================================================
