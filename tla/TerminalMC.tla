----------------------------- MODULE TerminalMC -----------------------------
(***************************************************************************)
(* Data for TLC: a small screen, on which every line of text soon wraps    *)
(* and every few lines scroll.                                             *)
(***************************************************************************)
EXTENDS Terminal

CONSTANTS
    a, b, p, s, sp      \* characters

\* A screen of four rows and four columns, a greeting of an empty line and
\* one with text, a prompt of two cells.
MCChars == {a, b, p, s, sp}
MCLetters == {a, b}
MCGreeting == <<<<>>, <<s>>>>
MCPrompt == <<p, s>>
MCSaid == <<s>>
MCClear == <<b>>
MCBoot == {a, sp}
=============================================================================
