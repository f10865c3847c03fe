------------------------------- MODULE Shell -------------------------------
(***************************************************************************)
(* The shell's command line (kernel/shell.cpp): a buffer of characters and *)
(* their echo on the console.  Keys that do nothing (releases, codes with  *)
(* no character) and the loop that waits for one are steps that change     *)
(* nothing, and are left out.  Of the commands only what they do to the    *)
(* console is kept: "clear" empties it, "echo" and an unknown command      *)
(* print the command again, the others a line of text.                     *)
(***************************************************************************)
EXTENDS Console, FiniteSets, SequencesExt

CONSTANTS
    MaxCommand,     \* kMaxCommand: bytes of the buffer, its end included
    Letters,        \* the characters translate() gives
    Greeting,       \* the lines run() prints before the first prompt
    Prompt,         \* the text of the prompt
    Said,           \* a line of text that a command prints
    ClearCommand    \* the command "clear"

ASSUME ShellAssumption ==
    /\ MaxCommand \in Nat /\ MaxCommand > 1
    /\ Letters \subseteq Chars
    /\ Greeting \in Seq(Seq(Chars)) /\ Greeting # <<>>
    /\ Prompt \in Seq(Chars) /\ Len(Prompt) < Width
    /\ Said \in Seq(Chars)

VARIABLES
    command,        \* the characters of command[0..length)
    home,           \* history: the row of the prompt, or -1 off the screen
    strayed         \* history: a backspace came in the first column

vars == <<con, command, home, strayed>>

-----------------------------------------------------------------------------
\* write(), by the console after its characters.
Written(c, text) ==
    LET after[n \in 0..Len(text)] ==
          IF n = 0 THEN c ELSE Printed(after[n - 1], text[n])
    IN  after[Len(text)]

WrittenLine(c, text) == LineFed(Written(c, text))

\* The console after the greeting.
Greeted(c) ==
    LET after[n \in 0..Len(Greeting)] ==
          IF n = 0 THEN c ELSE WrittenLine(after[n - 1], Greeting[n])
    IN  after[Len(Greeting)]

\* execute(): the console after it.
Executed(c) ==
    CASE command = <<>> -> {c}
      [] command = ClearCommand -> {Cleared}
      [] OTHER -> {WrittenLine(c, Said), WrittenLine(c, command)}

-----------------------------------------------------------------------------
\* run() begins, on whatever stands on the console.
Run ==
    /\ con' = Written(Greeted(con), Prompt)
    /\ home' = con'.row
    /\ command' = <<>>
    /\ strayed' = FALSE

Room == Len(command) + 1 < MaxCommand

\* The prompt's row after the cursor leaves the last column.
HomeAfter ==
    IF con.col + 1 = Width /\ con.row + 1 = Height /\ home >= 0
    THEN home - 1 ELSE home

\* Fault for EchoExact: a character is echoed although the buffer is full.
TypeEchoed(ch) ==
    /\ command' = IF Room THEN Append(command, ch) ELSE command
    /\ con' = Printed(con, ch)
    /\ home' = HomeAfter
    /\ UNCHANGED strayed

Type(ch) ==
    /\ Room
    /\ command' = Append(command, ch)
    /\ con' = Printed(con, ch)
    /\ home' = HomeAfter
    /\ UNCHANGED strayed

Rubout ==
    /\ command # <<>>
    /\ command' = Front(command)
    /\ con' = Erased(con)
    /\ strayed' = (strayed \/ con.col = 0)
    /\ UNCHANGED home

Enter ==
    /\ \E c \in Executed(LineFed(con)) :
         /\ con' = Written(c, Prompt)
         /\ home' = con'.row
    /\ command' = <<>>
    /\ strayed' = FALSE

Next == (\E ch \in Letters : Type(ch)) \/ Rubout \/ Enter

-----------------------------------------------------------------------------
(* Properties *)

\* The console and the buffer have their types: the buffer always has room
\* for the 0 that ends it.
TypeOK ==
    /\ con \in Consoles
    /\ command \in Seq(Letters) /\ Len(command) < MaxCommand
    /\ home \in -1..(Height - 1)
    /\ strayed \in BOOLEAN

\* The characters from the end of the prompt to the cursor, across lines.
Echo ==
    LET first == home * Width + Len(Prompt)
    IN  [i \in 1..(con.row * Width + con.col - first) |->
           con.cells[(first + i - 1) \div Width][(first + i - 1) % Width]]

\* What is shown after the prompt, which is never erased or typed over, is
\* what Enter will execute, however the line wraps, scrolls and is edited, as
\* long as no backspace came in the first column: there it takes a character
\* off the buffer and none off the screen.
EchoExact ==
    home >= 0 =>
        /\ \A i \in 1..Len(Prompt) : con.cells[home][i - 1] = Prompt[i]
        /\ ~strayed => Echo = command
=============================================================================
