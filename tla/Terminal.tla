------------------------------ MODULE Terminal ------------------------------
(***************************************************************************)
(* The boot and the shell on one console.  The boot prints what it likes,  *)
(* the home screen at the end; the shell starts wherever that leaves the   *)
(* cursor, with all of it still on the screen.                             *)
(***************************************************************************)
EXTENDS Shell

CONSTANT BootChars      \* the characters the boot prints

ASSUME TerminalAssumption == BootChars \subseteq Chars

VARIABLE stage          \* "boot" and then "shell"

\* What the boot and render_home() print: characters, and all put() knows.
BootText ==
    \/ \E ch \in BootChars : Put(ch)
    \/ PutNewline
    \/ PutReturn
    \/ PutBackspace
    \/ Clear

TInit ==
    /\ CInit
    /\ command = <<>> /\ home = -1 /\ strayed = FALSE
    /\ stage = "boot"

\* The last call of the boot, from which it does not return.
ShellStarts ==
    /\ stage = "boot"
    /\ stage' = "shell"
    /\ Run

TNext ==
    \/ ShellStarts
    \/ /\ stage = "boot" /\ BootText
       /\ UNCHANGED <<stage, command, home, strayed>>
    \/ /\ stage = "shell" /\ Next
       /\ UNCHANGED stage

tvars == <<stage, vars>>

TSpec == TInit /\ [][TNext]_tvars

-----------------------------------------------------------------------------
(* Properties *)

\* Whatever the boot prints, the console is a roll of paper: the rows down to
\* the cursor are the last lines printed since the last clear, none lost,
\* doubled or mixed with the remains of an older one.  (Each of the shell's
\* steps is several calls of put(), so the steps of the shell are left out.)
BootLooksLikePaper ==
    /\ Sheet!PaperInit
    /\ [][stage = "boot" /\ stage' = "boot" => Sheet!PaperNext]_<<Lines, con.col>>
=============================================================================
