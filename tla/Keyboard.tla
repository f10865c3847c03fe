------------------------------ MODULE Keyboard ------------------------------
(***************************************************************************)
(* From the keys that are pressed to the shell's buffer: translate() and   *)
(* the key loop of run() (kernel/shell.cpp).  A key is its scan code; what *)
(* is printed on it is the legend of the PC keyboard whose codes the loop  *)
(* takes for Enter (0x1C) and Backspace (0x0E), scan code set 1.  Releases *)
(* (codes from 0x80 on) change nothing and are left out.                   *)
(***************************************************************************)
EXTENDS Naturals, Sequences, SequencesExt, TLC

CONSTANTS
    MaxCommand,     \* kMaxCommand: bytes of the buffer, its end included
    Codes,          \* the keys that are pressed, by their codes
    MaxPressed      \* bound: characters of a line as it was meant

VARIABLES
    line,           \* command[0..length)
    meant           \* history: the line as it is printed on the keys

vars == <<line, meant>>

\* Consecutive codes, the first of them given, and their characters.
Row(first, chars) == [c \in first..(first + Len(chars) - 1) |-> chars[c - first + 1]]

Digits == <<"1", "2", "3", "4", "5", "6", "7", "8", "9", "0", "-", "=">>
Upper == <<"q", "w", "e", "r", "t", "y", "u", "i", "o", "p", "[", "]">>
Home == <<"a", "s", "d", "f", "g", "h", "j", "k", "l", ";", "quote", "grave">>
Lower == <<"\\", "z", "x", "c", "v", "b", "n", "m", ",", ".", "/">>

\* What is printed on the keys, by their codes.
Legend == Row(2, Digits) @@ Row(16, Upper) @@ Row(30, Home) @@ Row(43, Lower)
            @@ Row(57, <<" ">>)

\* The characters of translate()'s table that stand for something, by place.
KeyTable == Row(2, Digits) @@ Row(16, Upper) @@ Row(29, Home) @@ Row(42, Lower)

-----------------------------------------------------------------------------
Init == line = <<>> /\ meant = <<>>

\* A code outside the table, or at a place without a character, is no key;
\* a character that does not fit is dropped.
Press(code) ==
    /\ Len(meant) < MaxPressed                      \* bound
    /\ line' = IF code \in DOMAIN KeyTable /\ Len(line) + 1 < MaxCommand
               THEN Append(line, KeyTable[code]) ELSE line
    /\ meant' = Append(meant, Legend[code])

PressEnter == line' = <<>> /\ meant' = <<>>

Shortened(s) == IF s = <<>> THEN <<>> ELSE Front(s)

PressBackspace ==
    /\ line' = Shortened(line)
    /\ meant' = Shortened(meant)

Next == (\E code \in Codes : Press(code)) \/ PressEnter \/ PressBackspace

Spec == Init /\ [][Next]_vars

-----------------------------------------------------------------------------
(* Properties *)

\* What the shell's help and its greeting say: the commands they name can be
\* typed, so a line that fits is the characters printed on the keys pressed
\* for it, whatever was taken back meanwhile.  It holds on the two upper rows;
\* the letters below them are one place early in the table, and the space bar
\* is behind its end.
LineAsMeant == MaxPressed < MaxCommand => line = meant
=============================================================================
