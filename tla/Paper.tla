------------------------------- MODULE Paper -------------------------------
(***************************************************************************)
(* What a text console promises: a roll of at most Height lines of Width   *)
(* columns, with the cursor on the last of them.  There are no rows, no    *)
(* cells and no copying: a line is added below, and the oldest goes.       *)
(***************************************************************************)
EXTENDS Integers, Sequences

CONSTANTS Height, Width, Chars, Blank

VARIABLES
    roll,       \* the lines on the paper, the oldest first
    at          \* the cursor's column on the last line

BlankLine == [c \in 0..(Width - 1) |-> Blank]

\* The roll after a line is added to lines.
Fed(lines) ==
    Append(IF Len(lines) = Height THEN Tail(lines) ELSE lines, BlankLine)

\* The roll with character ch in column c of its last line.
Inked(c, ch) == [roll EXCEPT ![Len(roll)][c] = ch]

PaperInit == roll = <<BlankLine>> /\ at = 0

Feed == roll' = Fed(roll) /\ at' = 0

\* A character fills the cursor's column; the last column feeds a line.
Strike(ch) ==
    IF at + 1 < Width
    THEN roll' = Inked(at, ch) /\ at' = at + 1
    ELSE roll' = Fed(Inked(at, ch)) /\ at' = 0

Carriage == at' = 0 /\ UNCHANGED roll

Rub == at > 0 /\ roll' = Inked(at - 1, Blank) /\ at' = at - 1

NewSheet == roll' = <<BlankLine>> /\ at' = 0

PaperNext == Feed \/ (\E ch \in Chars : Strike(ch)) \/ Carriage \/ Rub \/ NewSheet

PaperSpec == PaperInit /\ [][PaperNext]_<<roll, at>>
=============================================================================
