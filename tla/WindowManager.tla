--------------------------- MODULE WindowManager ---------------------------
(***************************************************************************)
(* The window manager of the kernel (kernel/window_manager.cpp): a table   *)
(* of window slots, the focus, a stacking counter and the geometry of each *)
(* window.  Every function of the file that changes state is one action.   *)
(* A call that returns false or 0 changes nothing, so it is a stuttering   *)
(* step and has no action of its own.                                      *)
(***************************************************************************)
EXTENDS Integers, FiniteSets

CONSTANTS
    MaxWindows,     \* kMaxWindows: slots of g_windows
    ScreenW,        \* g_width
    ScreenH,        \* g_height
    MaxId,          \* bound: ids handed out before the run stops opening
    ZWord,          \* number of values of the uint32_t g_next_z
    MaxZ,           \* bound: raise() needs next_z < MaxZ; MaxZ = ZWord lets
                    \* the counter wrap, MaxZ < ZWord stops short of that
    Coords,         \* values the callers pass as x or y
    Extents,        \* values the callers pass as width or height
    Sides           \* values the callers pass as side of snap()

ASSUME SlotsAssumption == MaxWindows \in Nat \ {0} /\ MaxId \in Nat
ASSUME ScreenAssumption == ScreenW \in Nat \ {0} /\ ScreenH \in Nat \ {0}
ASSUME ZAssumption ==
    ZWord \in Nat /\ ZWord > 1 /\ MaxZ \in Nat /\ MaxZ <= ZWord
ASSUME InputAssumption ==
    Coords \subseteq Int /\ Extents \subseteq Nat
    /\ Sides \subseteq {"Left", "Right", "Top", "Bottom"}

VARIABLES
    win,        \* g_windows
    count,      \* g_count
    next_id,    \* g_next_id
    next_z,     \* g_next_z
    focused     \* g_focused, the id of the focused window or 0

vars == <<win, count, next_id, next_z, focused>>

Slots == 1..MaxWindows
Ids == 1..MaxId
MinW == 280
MinH == 180

States == {"Normal", "Minimized", "Maximized", "Fullscreen"}
Snaps == {"None", "Left", "Right", "Top", "Bottom"}
Rect == [x : Int, y : Int, w : Nat, h : Nat]
Window == [id : Nat, z : Nat, visible : BOOLEAN, focused : BOOLEAN,
           state : States, snap : Snaps, rect : Rect, restore : Rect]

NoRect == [x |-> 0, y |-> 0, w |-> 0, h |-> 0]

\* The value-initialised WindowInfo{}: state and snap take enumerator 0.
Blank == [id |-> 0, z |-> 0, visible |-> FALSE, focused |-> FALSE,
          state |-> "Normal", snap |-> "None",
          rect |-> NoRect, restore |-> NoRect]

-----------------------------------------------------------------------------
(* Geometry *)

\* Fault for ControlsReachable: the lower bound is forgotten.
NoLowerBound(n, low) == n

AtLeast(n, low) == IF n < low THEN low ELSE n
AtMost(n, high) == IF n > high THEN high ELSE n

\* Fault for OnScreen: clamp() places the window before it sizes it.
PositionFirst(r) ==
    [x |-> AtMost(AtLeast(r.x, 0), ScreenW - r.w),
     y |-> AtMost(AtLeast(r.y, 0), ScreenH - r.h),
     w |-> AtMost(AtLeast(r.w, MinW), ScreenW),
     h |-> AtMost(AtLeast(r.h, MinH), ScreenH)]

\* clamp(): the size first, then the position against what the size leaves.
Clamp(r) ==
    LET w == AtMost(AtLeast(r.w, MinW), ScreenW)
        h == AtMost(AtLeast(r.h, MinH), ScreenH)
    IN  [x |-> AtMost(AtLeast(r.x, 0), ScreenW - w),
         y |-> AtMost(AtLeast(r.y, 0), ScreenH - h),
         w |-> w, h |-> h]

Screen == [x |-> 0, y |-> 0, w |-> ScreenW, h |-> ScreenH]

\* The half of the screen snap() gives to a side; its last branch is Bottom.
SnapRect(side) ==
    CASE side = "Left"   -> [Screen EXCEPT !.w = ScreenW \div 2]
      [] side = "Right"  -> [Screen EXCEPT !.x = ScreenW \div 2,
                                           !.w = ScreenW - ScreenW \div 2]
      [] side = "Top"    -> [Screen EXCEPT !.h = ScreenH \div 2]
      [] side = "Bottom" -> [Screen EXCEPT !.y = ScreenH \div 2,
                                           !.h = ScreenH - ScreenH \div 2]

\* Fault for GeometryRemembered: a window is remembered in every state.
AlwaysSaved(w) == [w EXCEPT !.restore = w.rect]

\* save_restore_geometry(): only a window in state Normal is remembered.
Saved(w) == IF w.state = "Normal" THEN [w EXCEPT !.restore = w.rect] ELSE w

\* restore_geometry() with the state and snap its callers set around it.
Floated(w) ==
    [w EXCEPT !.state = "Normal", !.snap = "None", !.rect = Clamp(w.restore)]

-----------------------------------------------------------------------------
(* Stacking and focus *)

\* The first free slot, if any, as a set: the loop of open().
FreeSlot(ws) ==
    {s \in Slots : ~ws[s].visible /\ \A t \in 1..(s - 1) : ws[t].visible}

\* find(): ids are unique (UniqueIds), so at most one slot has the id.
Find(id) == {s \in Slots : win[s].visible /\ win[s].id = id}

Shown(ws) == {s \in Slots : ws[s].visible /\ ws[s].state # "Minimized"}

\* Faults for FocusAgrees and FocusOrderKept: minimised windows are not
\* skipped, and the comparison of z is the wrong way round.
TopmostOfAll(ws) ==
    {s \in Slots : ws[s].visible /\ \A t \in Slots :
        ws[t].visible => ws[t].z <= ws[s].z}
Lowermost(ws) ==
    {s \in Shown(ws) : \A t \in Shown(ws) : ws[s].z <= ws[t].z}

\* The slot focus_topmost() picks: the greatest z, the lowest slot of a tie.
Topmost(ws) ==
    {s \in Shown(ws) : \A t \in Shown(ws) :
        ws[t].z < ws[s].z \/ (ws[t].z = ws[s].z /\ s <= t)}

\* Fault for FocusedIsTopmost: the counter is not advanced.
NoInc(n) == n

Inc(n) == IF n + 1 = ZWord THEN 0 ELSE n + 1

\* raise() of slot s in the table ws, the counter being z at that point.
Raise(ws, s, z) ==
    /\ next_z < MaxZ /\ z < MaxZ
    /\ win' = [t \in Slots |->
                 IF t = s THEN [ws[t] EXCEPT !.focused = TRUE, !.z = z]
                          ELSE [ws[t] EXCEPT !.focused = FALSE]]
    /\ next_z' = Inc(z)
    /\ focused' = ws[s].id

FocusTopmost(ws) ==
    \/ \E s \in Topmost(ws) : Raise(ws, s, next_z)
    \/ /\ Shown(ws) = {}
       /\ win' = [t \in Slots |-> [ws[t] EXCEPT !.focused = FALSE]]
       /\ focused' = 0
       /\ UNCHANGED next_z

\* The common end of most calls: slot s becomes w and is raised.
Put(s, w, z) ==
    /\ Raise([win EXCEPT ![s] = w], s, z)
    /\ UNCHANGED <<count, next_id>>

-----------------------------------------------------------------------------
Init ==
    /\ win = [s \in Slots |-> Blank]
    /\ count = 0
    /\ next_id = 1
    /\ next_z = 1
    /\ focused = 0

\* New windows cascade: seven places, 28 pixels apart, then from the start.
Open(width, height) ==
    \E s \in FreeSlot(win) :
        LET place == 40 + (count % 7) * 28
            rect == Clamp([x |-> place, y |-> place,
                           w |-> IF width = 0 THEN 720 ELSE width,
                           h |-> IF height = 0 THEN 480 ELSE height])
            w == [Blank EXCEPT !.id = next_id, !.visible = TRUE,
                               !.rect = rect, !.restore = rect]
        IN  /\ next_id <= MaxId
            /\ Raise([win EXCEPT ![s] = w], s, next_z)
            /\ next_id' = next_id + 1
            /\ count' = count + 1

Close(id) ==
    \E s \in Find(id) :
        LET ws == [win EXCEPT ![s] = Blank]
        IN  /\ count' = IF count > 0 THEN count - 1 ELSE count
            /\ UNCHANGED next_id
            /\ IF focused = id
                 THEN FocusTopmost(ws)
                 ELSE win' = ws /\ UNCHANGED <<next_z, focused>>

\* focus() brings a minimised window back to its remembered geometry.
Focus(id) ==
    \E s \in Find(id) :
        Put(s, IF win[s].state = "Minimized" THEN Floated(win[s]) ELSE win[s],
            next_z)

\* move() and resize() first restore() a maximised window, which raises it
\* once more than the call itself does.
Unmaximized(w) == IF w.state = "Maximized" THEN Floated(w) ELSE w
ZAfterRestore(w) == IF w.state = "Maximized" THEN Inc(next_z) ELSE next_z

Move(id, x, y) ==
    \E s \in Find(id) :
        LET w == Unmaximized(win[s])
        IN  /\ win[s].state \notin {"Minimized", "Fullscreen"}
            /\ Put(s, [Saved(w) EXCEPT
                         !.snap = "None",
                         !.rect = Clamp([w.rect EXCEPT !.x = x, !.y = y])],
                   ZAfterRestore(win[s]))

Resize(id, width, height) ==
    \E s \in Find(id) :
        LET w == Unmaximized(win[s])
            rect == Clamp([w.rect EXCEPT
                             !.w = IF width = 0 THEN MinW ELSE width,
                             !.h = IF height = 0 THEN MinH ELSE height])
        IN  /\ win[s].state \notin {"Minimized", "Fullscreen"}
            /\ Put(s, [w EXCEPT !.state = "Normal", !.snap = "None",
                                !.rect = rect, !.restore = rect],
                   ZAfterRestore(win[s]))

\* The snap is kept, so a snapped window is Minimized with its side.
Minimize(id) ==
    \E s \in Find(id) :
        LET ws == [win EXCEPT ![s] = [Saved(win[s]) EXCEPT
                                        !.state = "Minimized",
                                        !.focused = FALSE]]
        IN  /\ UNCHANGED <<count, next_id>>
            /\ IF focused = id
                 THEN FocusTopmost(ws)
                 ELSE win' = ws /\ UNCHANGED <<next_z, focused>>

\* Fault for ModeIsRegion: the window stays snapped.
FilledSnapped(w, state) == [Saved(w) EXCEPT !.state = state, !.rect = Screen]

Filled(w, state) ==
    [Saved(w) EXCEPT !.state = state, !.snap = "None", !.rect = Screen]

Maximize(id) ==
    \E s \in Find(id) :
        /\ win[s].state # "Minimized"
        /\ Put(s, Filled(win[s], "Maximized"), next_z)

\* A snapped window is in state Normal, so Saved covers both reasons the
\* code has to save here.
Fullscreen(id) ==
    \E s \in Find(id) :
        /\ win[s].state # "Minimized"
        /\ Put(s, Filled(win[s], "Fullscreen"), next_z)

\* restore(), and snap(id, Snap::None), which calls it.
Restore(id) ==
    \E s \in Find(id) :
        Put(s, IF win[s].state # "Normal" \/ win[s].snap # "None"
                 THEN Floated(win[s]) ELSE win[s],
            next_z)

Snap(id, side) ==
    \E s \in Find(id) :
        LET w == IF win[s].snap = "None" THEN Saved(win[s]) ELSE win[s]
        IN  /\ win[s].state \notin {"Minimized", "Fullscreen"}
            /\ Put(s, [w EXCEPT !.state = "Normal", !.snap = side,
                                !.rect = SnapRect(side)],
                   next_z)

Next ==
    \/ \E width, height \in Extents : Open(width, height)
    \/ \E id \in Ids :
        \/ Close(id)
        \/ Focus(id)
        \/ \E x, y \in Coords : Move(id, x, y)
        \/ \E width, height \in Extents : Resize(id, width, height)
        \/ Minimize(id)
        \/ Maximize(id)
        \/ Fullscreen(id)
        \/ Restore(id)
        \/ \E side \in Sides : Snap(id, side)

Spec == Init /\ [][Next]_vars

-----------------------------------------------------------------------------
(* hit_test(): what the pointer is on, for a window and a screen point *)

HitTest(w, px, py) ==
    LET rx == px - w.rect.x
        ry == py - w.rect.y
    IN  CASE \/ ~w.visible \/ w.state = "Minimized"
             \/ rx \notin 0..(w.rect.w - 1)
             \/ ry \notin 0..(w.rect.h - 1)          -> "None"
          [] OTHER ->
             CASE w.state = "Fullscreen"             -> "Content"
               [] OTHER ->
                  IF ry < 42
                    THEN CASE rx >= w.rect.w - 42    -> "Close"
                           [] rx \in (w.rect.w - 84)..(w.rect.w - 43)
                                                     -> "Maximize"
                           [] rx \in (w.rect.w - 126)..(w.rect.w - 85)
                                                     -> "Minimize"
                           [] OTHER                  -> "Titlebar"
                    ELSE CASE rx < 8                 -> "ResizeLeft"
                           [] rx >= 8 /\ rx >= w.rect.w - 8
                                                     -> "ResizeRight"
                           [] OTHER ->
                              IF ry >= w.rect.h - 8  THEN "ResizeBottom"
                                                     ELSE "Content"

-----------------------------------------------------------------------------
(* Properties *)

\* Every variable has its type; ids and stacking numbers stay in their words.
TypeOK ==
    /\ win \in [Slots -> Window]
    /\ count \in 0..MaxWindows
    /\ next_id \in 1..(MaxId + 1)
    /\ next_z \in 0..(ZWord - 1)
    /\ focused \in 0..MaxId

\* open() never reuses the id of a window that is still in the table, and
\* g_count, which places the next window, is the number of windows.
UniqueIds ==
    /\ \A s \in Slots : win[s].visible => win[s].id \in 1..(next_id - 1)
    /\ \A s, t \in Slots :
         win[s].visible /\ win[t].visible /\ win[s].id = win[t].id => s = t
    /\ count = Cardinality({s \in Slots : win[s].visible})

\* The two records of the focus agree: the flag is set in exactly the window
\* g_focused names, that window is shown, and only an empty screen has no
\* focus (raise, clear_focus, focus_topmost; close and minimize on the way).
FocusAgrees ==
    /\ \A s \in Slots :
         win[s].focused <=> (win[s].visible /\ win[s].id = focused)
    /\ focused = 0 <=> Shown(win) = {}
    /\ focused # 0 => \E s \in Shown(win) : win[s].id = focused

\* The focused window is drawn on top: no shown window has a greater or
\* equal z.  It needs the counter not to wrap (MaxZ < ZWord).
FocusedIsTopmost ==
    \A s, t \in Shown(win) :
        win[s].id = focused /\ t # s => win[t].z < win[s].z

Inside(r) ==
    /\ r.x >= 0 /\ r.x + r.w <= ScreenW
    /\ r.y >= 0 /\ r.y + r.h <= ScreenH

\* A window never leaves the screen and is never remembered off it, whatever
\* the order of moves, resizes, snaps and restores (clamp at every end).
OnScreen ==
    \A s \in Slots : win[s].visible => Inside(win[s].rect) /\ Inside(win[s].restore)

\* The mode of a window is the region it covers: a maximised or full-screen
\* window covers the screen and is not snapped, a snapped one, minimised or
\* not, has its half, and a floating one has at least the minimum size.
ModeIsRegion ==
    \A s \in Slots :
        LET w == win[s]
        IN  w.visible =>
              /\ w.state \in {"Maximized", "Fullscreen"}
                   => w.rect = Screen /\ w.snap = "None"
              /\ w.snap # "None" => w.rect = SnapRect(w.snap)
              /\ w.state = "Normal" /\ w.snap = "None" => w.rect = Clamp(w.rect)

\* The three title-bar controls of every shown window that has a title bar
\* can be reached with the pointer on the screen.
ControlsReachable ==
    \A s \in Shown(win) :
        LET w == win[s]
            On(k, control) ==
                LET px == w.rect.x + w.rect.w - k
                    py == w.rect.y + 21
                IN  /\ px \in 0..(ScreenW - 1) /\ py \in 0..(ScreenH - 1)
                    /\ HitTest(w, px, py) = control
        IN  w.state # "Fullscreen" =>
              On(1, "Close") /\ On(43, "Maximize") /\ On(126, "Minimize")

Floating(w) == w.state = "Normal" /\ w.snap = "None"
Away(w) == w.state # "Normal"

\* A window that stops floating remembers where it floated, keeps that
\* through every further change among minimised, maximised and full screen,
\* and a minimised one that comes back is exactly there.  (A snapped window
\* is outside the promise: it is Normal to save_restore_geometry.)
GeometryRemembered ==
    [][\A s \in Slots :
         LET w == win[s]
             v == win'[s]
         IN  w.visible /\ v.visible /\ w.id = v.id =>
               /\ Floating(w) /\ ~Floating(v) => v.restore = w.rect
               /\ Away(w) /\ ~Floating(v) => v.restore = w.restore
               /\ w.state = "Minimized" /\ Floating(v) => v.rect = w.restore]_vars
=============================================================================
