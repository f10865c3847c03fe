------------------------------ MODULE Desktop ------------------------------
(***************************************************************************)
(* The desktop's own window table (kernel/desktop.cpp): no stacking order, *)
(* the focus falls to the lowest slot.  The application of a window is     *)
(* left out.                                                               *)
(***************************************************************************)
EXTENDS Integers, FiniteSets

CONSTANTS
    DeskSlots,      \* kMaxWindows
    Screens,        \* the screens init() is called with, [width, height]
    Cascade,        \* windows until the cascade starts over: 8
    MaxDeskId       \* bound: greatest id handed out

ASSUME DesktopAssumption ==
    /\ DeskSlots \in Nat \ {0} /\ Cascade \in Nat \ {0} /\ MaxDeskId \in Nat
    /\ Screens \subseteq [width : Nat \ {0}, height : Nat \ {0}]

VARIABLES
    screen,         \* g_width and g_height
    desk            \* g_windows, g_count and g_next_id

DSlots == 0..(DeskSlots - 1)

\* What a slot without a window holds; its visible is FALSE.
NoWindow == [id |-> 0, x |-> 0, y |-> 0, width |-> 0, height |-> 0,
             visible |-> FALSE, focused |-> FALSE]

Visible(d) == {s \in DSlots : d.windows[s].visible}
First(S) == {s \in S : \A t \in S : s <= t}
WindowAt(d, id) == {s \in Visible(d) : d.windows[s].id = id}

\* clear_focus(), and the focus on the windows in S after it.
FocusOn(w, S) ==
    [s \in DSlots |-> IF w[s].visible THEN [w[s] EXCEPT !.focused = (s \in S)]
                      ELSE w[s]]

\* Fault for DesktopSound: the upper bound is forgotten.
Unclamped(n, least, most) == IF n < least THEN least ELSE n

\* Between two bounds; the upper one wins.
Clamped(n, least, most) ==
    LET m == IF n < least THEN least ELSE n IN IF m > most THEN most ELSE m

\* clamp_window(), of the window open() makes as the one after n others.
Placed(id, n) ==
    LET at == 32 + (n % Cascade) * 28
        w == Clamped(640, 240, screen.width)
        h == Clamped(480, 160, screen.height)
    IN  [id |-> id, width |-> w, height |-> h, visible |-> TRUE, focused |-> FALSE,
         x |-> Clamped(at, 0, screen.width - w),
         y |-> Clamped(at, 0, screen.height - h)]

-----------------------------------------------------------------------------
DesktopInit ==
    /\ screen \in Screens
    /\ desk = [windows |-> [s \in DSlots |-> NoWindow], count |-> 0, next_id |-> 1]

Open ==
    /\ desk.next_id <= MaxDeskId                     \* bound
    /\ UNCHANGED screen
    /\ \E s \in First(DSlots \ Visible(desk)) :
         LET w == Placed(desk.next_id, desk.count)
         IN  desk' = [windows |-> FocusOn([desk.windows EXCEPT ![s] = w], {s}),
                      count |-> desk.count + 1,
                      next_id |-> desk.next_id + 1]

\* Closing the focused window gives the focus to the lowest slot in use.
Close(id) ==
    /\ UNCHANGED screen
    /\ \E s \in First(WindowAt(desk, id)) :
         LET left == [desk.windows EXCEPT ![s] = NoWindow]
         IN  desk' = [desk EXCEPT
                        !.windows = IF desk.windows[s].focused
                                      THEN FocusOn(left, First(Visible(desk) \ {s}))
                                      ELSE left,
                        !.count = IF @ > 0 THEN @ - 1 ELSE @]

Focus(id) ==
    /\ UNCHANGED screen
    /\ \E s \in First(WindowAt(desk, id)) :
         desk' = [desk EXCEPT !.windows = FocusOn(@, {s})]

DesktopNext == Open \/ \E id \in 1..MaxDeskId : Close(id) \/ Focus(id)

DesktopSpec == DesktopInit /\ [][DesktopNext]_<<screen, desk>>

-----------------------------------------------------------------------------
(* Properties *)

\* g_count, which places the next window, is the number of windows; each has
\* an id of its own that was handed out.
CountsWindows ==
    /\ desk.count = Cardinality(Visible(desk))
    /\ \A s \in Visible(desk) : desk.windows[s].id \in 1..(desk.next_id - 1)
    /\ \A s, t \in Visible(desk) :
         desk.windows[s].id = desk.windows[t].id => s = t

\* Exactly one window has the focus, unless there is none.
OneHasFocus ==
    \E S \in SUBSET Visible(desk) :
        /\ Cardinality(S) = IF Visible(desk) = {} THEN 0 ELSE 1
        /\ \A s \in DSlots : desk.windows[s].focused <=> s \in S

\* No window reaches off the screen, however small the screen is.
OnTheScreen ==
    \A s \in Visible(desk) :
        LET w == desk.windows[s]
        IN  /\ w.x >= 0 /\ w.x + w.width <= screen.width
            /\ w.y >= 0 /\ w.y + w.height <= screen.height

\* The desktop's three promises about its windows, for every order of calls.
DesktopSound == CountsWindows /\ OneHasFocus /\ OnTheScreen
=============================================================================
