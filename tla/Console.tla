------------------------------ MODULE Console ------------------------------
(***************************************************************************)
(* The text console (kernel/console.cpp): the VGA memory and the cursor.   *)
(* Its functions are operators from a console to the console they leave,   *)
(* so that the shell can make several calls in one step; the actions below *)
(* make one call each.  The copy of the output on the serial port is left  *)
(* out: it keeps no state, and gives up on a port that never drains.       *)
(***************************************************************************)
EXTENDS Integers, Sequences

CONSTANTS
    Height, Width,  \* 25 rows and 80 columns
    Chars,          \* the characters printed, the space among them
    Blank           \* the space, which fills an empty cell

ASSUME ConsoleAssumption ==
    /\ Height \in Nat /\ Height > 1
    /\ Width \in Nat /\ Width > 1
    /\ Blank \in Chars

VARIABLE con        \* VGA, row and column

Rows == 0..(Height - 1)
Cols == 0..(Width - 1)
Consoles == [cells : [Rows -> [Cols -> Chars]], row : Rows, col : Cols]

EmptyLine == [c \in Cols |-> Blank]

-----------------------------------------------------------------------------
\* Fault for BootLooksLikePaper: the line scrolled in keeps its old text.
ScrolledDirty(cells) == [r \in Rows |-> cells[IF r + 1 < Height THEN r + 1 ELSE r]]

\* The rows after the top one is pushed out.
Scrolled(cells) ==
    [r \in Rows |-> IF r + 1 < Height THEN cells[r + 1] ELSE EmptyLine]

\* newline()
LineFed(c) ==
    IF c.row + 1 >= Height
    THEN [cells |-> Scrolled(c.cells), row |-> Height - 1, col |-> 0]
    ELSE [c EXCEPT !.row = @ + 1, !.col = 0]

\* put() of a printable character, of '\r', and of '\b', which erases the
\* character before the cursor unless the cursor is in the first column.
Printed(c, ch) ==
    LET written == [c EXCEPT !.cells[c.row][c.col] = ch]
    IN  IF c.col + 1 >= Width THEN LineFed(written)
        ELSE [written EXCEPT !.col = @ + 1]

Returned(c) == [c EXCEPT !.col = 0]

Erased(c) ==
    IF c.col = 0 THEN c
    ELSE [c EXCEPT !.cells[c.row][c.col - 1] = Blank, !.col = @ - 1]

Cleared == [cells |-> [r \in Rows |-> EmptyLine], row |-> 0, col |-> 0]

-----------------------------------------------------------------------------
CInit == con = Cleared

Put(ch) == con' = Printed(con, ch)
PutNewline == con' = LineFed(con)
PutReturn == con' = Returned(con)
PutBackspace == con' = Erased(con)
Clear == con' = Cleared

CNext ==
    \/ \E ch \in Chars : Put(ch)
    \/ PutNewline
    \/ PutReturn
    \/ PutBackspace
    \/ Clear

CSpec == CInit /\ [][CNext]_con

-----------------------------------------------------------------------------
(* Properties *)

\* The cursor is always on the screen, whatever is printed: the next write to
\* VGA memory is inside it.
CTypeOK == con \in Consoles

Lines == [i \in 1..(con.row + 1) |-> con.cells[i - 1]]

Sheet == INSTANCE Paper WITH roll <- Lines, at <- con.col

\* The rows down to the cursor are the last lines printed since the last
\* clear, none lost, doubled or mixed with the remains of an older one.  That
\* a line that comes up is blank depends on every earlier write.
LooksLikePaper == Sheet!PaperSpec
=============================================================================
