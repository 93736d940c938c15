------------------------------ MODULE TextPane ------------------------------
(***************************************************************************)
(* One text pane of hdmi.c: the logical cells and the cursor that output   *)
(* changes, and what was last drawn of them.  Cells are numbered row by    *)
(* row.  A cell's value stands for its character with its colours.         *)
(* An escape sequence of the shell's prompt is one character: "up" is      *)
(* ESC [ A, "down" is ESC [ B and "kill" is ESC [ 2 K.                     *)
(***************************************************************************)
EXTENDS Integers, FiniteSets, Sequences, SequencesExt

Cells(p) == 0 .. p.rows * p.columns - 1
At(p, x, y) == y * p.columns + x

\* The cursor's cell.
CursorCell(p) == At(p, p.cursor_x, p.cursor_y)

\* A pane after boot: configured, blank, and nothing drawn (hdmi_reset_panes).
NewPane(rows, columns) ==
  LET all == 0 .. rows * columns - 1
  IN  [rows |-> rows, columns |-> columns, cursor_x |-> 0, cursor_y |-> 0,
       cells |-> [n \in all |-> " "],
       dirty |-> all,
       draw  |-> [n \in all |-> "nothing"],
       lit   |-> {}]                          \* where a cursor is on the screen

\* hdmi_mark_cell_dirty ignores a place outside the pane.
MarkDirty(p, x, y) ==
  IF x < p.columns /\ y < p.rows THEN [p EXCEPT !.dirty = @ \cup {At(p, x, y)}] ELSE p

\* hdmi_set_cell: a cell that already looks so is not marked.
SetCell(p, x, y, v) ==
  IF x >= p.columns \/ y >= p.rows \/ p.cells[At(p, x, y)] = v THEN p
  ELSE [p EXCEPT !.cells[At(p, x, y)] = v, !.dirty = @ \cup {At(p, x, y)}]

Least(a, b) == IF a < b THEN a ELSE b

\* hdmi_set_cursor
SetCursor(p, x, y) ==
  LET q == [p EXCEPT !.cursor_x = Least(x, p.columns - 1), !.cursor_y = Least(y, p.rows - 1)]
  IN  MarkDirty(MarkDirty(q, p.cursor_x, p.cursor_y), q.cursor_x, q.cursor_y)

\* hdmi_scroll
Scroll(p) ==
  [p EXCEPT !.cells = [n \in Cells(p) |-> IF n + p.columns \in Cells(p) THEN @[n + p.columns] ELSE " "],
            !.dirty = Cells(p)]

NewLineOverTheEdge(p) ==
  LET q == [p EXCEPT !.cursor_x = 0, !.cursor_y = @ + 1]
  IN  MarkDirty(MarkDirty(q, p.cursor_x, p.cursor_y), 0, q.cursor_y)

\* hdmi_newline
NewLine(p) ==
  LET s == IF p.cursor_y + 1 >= p.rows THEN Scroll(p) ELSE p
      q == [s EXCEPT !.cursor_x = 0, !.cursor_y = Least(p.cursor_y + 1, p.rows - 1)]
  IN  MarkDirty(MarkDirty(q, p.cursor_x, p.cursor_y), 0, q.cursor_y)

\* hdmi_clear_pane_line
ClearLine(p) ==
  LET line == {n \in Cells(p) : n \div p.columns = p.cursor_y}
  IN  [p EXCEPT !.cells = [n \in Cells(p) |-> IF n \in line THEN " " ELSE @[n]],
                !.dirty = @ \cup line]

\* A printable character: set the cell, advance, wrap.
PutGlyph(p, v) ==
  LET q == [SetCell(p, p.cursor_x, p.cursor_y, v) EXCEPT !.cursor_x = @ + 1]
  IN  IF q.cursor_x >= q.columns THEN NewLine(q) ELSE MarkDirty(q, q.cursor_x, q.cursor_y)

Escapes == {"up", "down", "kill"}

\* hdmi_handle_csi
Csi(p, c) ==
  CASE c = "up"   -> SetCursor(p, p.cursor_x, IF p.cursor_y = 0 THEN 0 ELSE p.cursor_y - 1)
    [] c = "down" -> SetCursor(p, p.cursor_x, p.cursor_y + 1)
    [] c = "kill" -> ClearLine(p)

\* hdmi_putc
PutC(p, c) ==
  CASE c \in Escapes -> Csi(p, c)
    [] c = "cr"   -> SetCursor(p, 0, p.cursor_y)
    [] c = "lf"   -> NewLine(p)
    [] c = "bs"   -> LET q == IF p.cursor_x > 0 THEN SetCursor(p, p.cursor_x - 1, p.cursor_y) ELSE p
                     IN  MarkDirty(SetCell(q, q.cursor_x, q.cursor_y, " "), q.cursor_x, q.cursor_y)
    [] OTHER      -> PutGlyph(p, c)

\* hdmi_clear_pane
ClearPane(p) ==
  [p EXCEPT !.cells = [n \in Cells(p) |-> " "], !.dirty = Cells(p), !.cursor_x = 0, !.cursor_y = 0]

\* hdmi_write_line of a text of one character, padded up to the last column.
WriteLine(p, y, v) ==
  LET width == IF p.columns = 1 THEN 1 ELSE p.columns - 1
  IN  FoldLeft(PutC, SetCursor(p, 0, y), [i \in 1 .. width |-> IF i = 1 THEN v ELSE " "])

-----------------------------------------------------------------------------
\* The cells hdmi_present_pane finds to draw.
Stale(p) == {n \in Cells(p) : n \in p.dirty \/ p.cells[n] # p.draw[n]}

\* Those it gets to with max_cells to go, row by row.
Reached(p, max) == {n \in Stale(p) : Cardinality({m \in Stale(p) : m < n}) < max}

\* hdmi_present_pane: a cell is drawn with its cursor, if that is where it is.
Present(p, max) ==
  LET now == Reached(p, max)
  IN  [p EXCEPT !.draw = [n \in Cells(p) |-> IF n \in now THEN p.cells[n] ELSE @[n]],
                !.dirty = @ \ now,
                !.lit = (@ \ now) \cup ({CursorCell(p)} \cap now)]

\* Its result: there is more than max_cells to draw.
More(p, max) == Cardinality(Stale(p)) > max

\* The budget that is left for the next pane.
Left(p, max) == max - Cardinality(Reached(p, max))
=============================================================================
