----------------------------- MODULE FocusOrder -----------------------------
(***************************************************************************)
(* What the window manager promises its callers about focus, with no       *)
(* slots, no geometry and no stacking numbers: the windows are in a total  *)
(* order, the focus is on the last shown window of that order, and when it *)
(* goes away the one below it comes next.  A window is named by a number   *)
(* that was never handed out before, and is refused only when there is no  *)
(* room for it.                                                            *)
(***************************************************************************)
EXTENDS Naturals, FiniteSets

CONSTANTS
    Win,        \* every window there will ever be, numbered from 1
    NoWin,      \* what focus is when no window has it
    Room        \* how many windows there may be at a time

VARIABLES
    next,       \* the next window's number
    live,       \* the windows there are
    hidden,     \* those of them that are minimised
    below,      \* pairs <<a, b>>: a is under b
    focus       \* the window with the focus, or NoWin

absvars == <<next, live, hidden, below, focus>>

\* The order with x brought to the top of the windows ws.
OnTop(x, ws) ==
    {p \in below : p[1] \in ws /\ p[2] \in ws /\ p[1] # x /\ p[2] # x}
        \cup ((ws \ {x}) \X {x})

Full == Cardinality(live) >= Room

AbsInit == next = 1 /\ live = {} /\ hidden = {} /\ below = {} /\ focus = NoWin

AbsOpen ==
    /\ ~Full /\ next \in Win
    /\ next' = next + 1
    /\ live' = live \cup {next}
    /\ below' = OnTop(next, live')
    /\ focus' = next
    /\ UNCHANGED hidden

\* Any call that shows a window also brings it to the top and focuses it.
AbsRaise(x) ==
    /\ x \in live
    /\ hidden' = hidden \ {x}
    /\ below' = OnTop(x, live)
    /\ focus' = x
    /\ UNCHANGED <<next, live>>

\* The shown windows that no other shown window is above, after a change.
Top == {y \in live' \ hidden' :
           \A z \in live' \ hidden' : z # y => <<z, y>> \in below}

\* The focus after x left the shown windows: unchanged if it was elsewhere,
\* else on the window below, which is raised over the minimised ones too.
Refocus(x) ==
    \/ /\ focus # x
       /\ below' = {p \in below : p[1] \in live' /\ p[2] \in live'}
       /\ UNCHANGED focus
    \/ /\ focus = x
       /\ \E y \in Top : below' = OnTop(y, live') /\ focus' = y
    \/ /\ focus = x
       /\ live' \ hidden' = {}
       /\ below' = {p \in below : p[1] \in live' /\ p[2] \in live'}
       /\ focus' = NoWin

AbsHide(x) ==
    /\ x \in live
    /\ hidden' = hidden \cup {x}
    /\ UNCHANGED <<next, live>>
    /\ Refocus(x)

AbsClose(x) ==
    /\ x \in live
    /\ live' = live \ {x}
    /\ hidden' = hidden \ {x}
    /\ UNCHANGED next
    /\ Refocus(x)

AbsNext == AbsOpen \/ \E x \in Win : AbsRaise(x) \/ AbsHide(x) \/ AbsClose(x)

AbsSpec == AbsInit /\ [][AbsNext]_absvars
=============================================================================
