------------------------------ MODULE Terminal -------------------------------
(***************************************************************************)
(* What the text console promises its writers (spec.md, section 5: "a     *)
(* text grid with tab stop 8, a single cursor, implicit scrolling on       *)
(* newline at the bottom row").  The grid shows the lines written since    *)
(* the last clear, at most NUMROWS of them: the last line holds the        *)
(* cursor, every position the writer has not reached is blank, and a new   *)
(* line at the bottom row pushes the top line out.                         *)
(*                                                                         *)
(* This module is written from the specification, not from the code; the  *)
(* console of Console.tla is shown to implement it.                        *)
(***************************************************************************)
EXTENDS Integers, Sequences

CONSTANTS
  NUMROWS,   \* rows of the grid
  NUMCOLS,   \* columns of the grid
  TABSTOP,   \* distance between tab stops
  Chars,     \* the printable characters (codes) a writer may put
  BLANK      \* the code of the blank character

VARIABLES
  lines,     \* the visible lines, top first; the last one holds the cursor
  col        \* the cursor's column in the last line

tvars == <<lines, col>>

Cols == 0..(NUMCOLS - 1)
BlankRow == [c \in Cols |-> BLANK]

\* The terminal as a record, so that a tab can be written as repeated puts.
term == [lines |-> lines, col |-> col]
Cleared == [lines |-> <<BlankRow>>, col |-> 0]

\* A new blank line below the cursor's; at the bottom row the top line goes.
Feed(t) ==
  [lines |-> IF Len(t.lines) = NUMROWS THEN Tail(t.lines) \o <<BlankRow>>
                                       ELSE Append(t.lines, BlankRow),
   col   |-> 0]

\* Put ch at the cursor and advance; the last column wraps to a new line.
Type(t, ch) ==
  LET put == [t EXCEPT !.lines[Len(t.lines)][t.col] = ch, !.col = @ + 1]
  IN  IF put.col = NUMCOLS THEN Feed(put) ELSE put

RECURSIVE Blanks(_, _)
Blanks(t, n) == IF n = 0 THEN t ELSE Blanks(Type(t, BLANK), n - 1)

\* A tab puts blanks up to the next tab stop.
Tab(t) == Blanks(t, TABSTOP - (t.col % TABSTOP))

Become(t) == lines' = t.lines /\ col' = t.col

Init == lines = <<BlankRow>> /\ col = 0

Next ==
  \/ Become(Cleared)
  \/ \E ch \in Chars : Become(Type(term, ch))
  \/ Become(Tab(term))
  \/ Become(Feed(term))

Spec == Init /\ [][Next]_tvars

=============================================================================
