------------------------------- MODULE Console -------------------------------
(***************************************************************************)
(* Cursor movement on a terminal's text page: putc (lib.c) and the echo of *)
(* the keyboard handler (terminal.c).  A cursor is a column, a row and     *)
(* whether scroll_screen was called on the way; what the page shows is     *)
(* left out.                                                               *)
(***************************************************************************)
EXTENDS Integers, Sequences

CONSTANTS
    NUM_COLS,   \* 80
    NUM_ROWS    \* 24; the row below them shows the clock

ASSUME ScreenAssumption ==
    /\ NUM_COLS \in Nat /\ NUM_COLS > 1
    /\ NUM_ROWS \in Nat /\ NUM_ROWS > 1

Cursor(x, y) == [x |-> x, y |-> y, up |-> FALSE]
Cell(c) == c.y * NUM_COLS + c.x    \* offset of the cursor in the page

\* A newline, written or typed: on the last row the page scrolls instead.
Newline(c) ==
    IF c.y + 1 = NUM_ROWS THEN [c EXCEPT !.x = 0, !.up = TRUE]
                          ELSE [c EXCEPT !.x = 0, !.y = c.y + 1]

\* The echo of a typed character.
EchoChar(c) ==
    IF c.x + 1 = NUM_COLS THEN Newline(c) ELSE [c EXCEPT !.x = c.x + 1]

\* The newline after the last character that fits the line buffer.
EchoFull(c) ==
    IF c.y < NUM_ROWS - 1 THEN [c EXCEPT !.x = 0, !.y = c.y + 1]
                          ELSE [c EXCEPT !.x = 0, !.up = TRUE]

\* Mutant: the cursor does not go back to the row before.
EchoEraseColumn(c) == [c EXCEPT !.x = c.x - 1]

\* The cursor movement of Backspace.
EchoErase(c) ==
    IF c.x = 0 /\ c.y # 0 THEN [c EXCEPT !.x = NUM_COLS - 1, !.y = c.y - 1]
                          ELSE [c EXCEPT !.x = c.x - 1]

\* putc of a character other than a newline.  Wrapping on the last row scrolls
\* and leaves the cursor one row below the last.
PutcChar(c) ==
    IF c.x + 1 # NUM_COLS THEN [c EXCEPT !.x = c.x + 1]
    ELSE IF c.y + 1 = NUM_ROWS THEN [c EXCEPT !.x = 0, !.y = NUM_ROWS, !.up = TRUE]
    ELSE [c EXCEPT !.x = 0, !.y = c.y + 1]

putc(c, ch) == IF ch = "nl" THEN Newline(c) ELSE PutcChar(c)

\* puts, printf and terminal_write: one putc after the other.
puts(c, text) ==
    LET after[i \in 0 .. Len(text)] ==
          IF i = 0 THEN c ELSE putc(after[i - 1], text[i])
    IN after[Len(text)]

=============================================================================
