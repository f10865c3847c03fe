------------------------ MODULE WindowManager_proofs ------------------------
(***************************************************************************)
(* Proofs about the window manager, for every number of slots, screen size *)
(* and stacking word: first ids, focus and the screen, then the mode of a  *)
(* window and what it remembers while it does not float, and last the      *)
(* stacking order and the refinement of FocusOrder.                        *)
(***************************************************************************)
EXTENDS WindowOrder, FiniteSetTheorems, Induction, TLAPS

\* What every table the calls build on their way satisfies, n being the next
\* id: typed windows, ids below n and unique, and both rectangles on screen.
TableOK(ws, n) ==
    /\ ws \in [Slots -> Window]
    /\ \A s \in Slots : ws[s].visible =>
         ws[s].id \in 1..(n - 1) /\ Inside(ws[s].rect) /\ Inside(ws[s].restore)
    /\ \A s, t \in Slots :
         ws[s].visible /\ ws[t].visible /\ ws[s].id = ws[t].id => s = t

Visible(ws) == {s \in Slots : ws[s].visible}

\* A window that may take the place of window v.
Replaces(w, v) ==
    /\ w \in Window
    /\ w.visible /\ w.id = v.id
    /\ Inside(w.rect) /\ Inside(w.restore)

\* The inductive invariant.  Ids and the two rectangles are in it because
\* a call reads them back later, count because it limits itself to the slots.
IInv ==
    /\ TableOK(win, next_id)
    /\ next_id \in 1..(MaxId + 1)
    /\ next_z \in 0..(ZWord - 1)
    /\ count = Cardinality(Visible(win))
    /\ focused \in 0..(next_id - 1)
    /\ FocusAgrees

-----------------------------------------------------------------------------
(* Geometry *)

\* clamp() returns a rectangle on the screen.
LEMMA ClampInside ==
    ASSUME NEW r \in Rect
    PROVE  Clamp(r) \in Rect /\ Inside(Clamp(r))
BY ScreenAssumption DEF Clamp, Rect, Inside, AtLeast, AtMost, MinW, MinH

\* clamp() has nothing left to do on its own result.
LEMMA ClampIdempotent ==
    ASSUME NEW r \in Rect
    PROVE  Clamp(Clamp(r)) = Clamp(r)
<1> DEFINE s == Clamp(r)
<1>1. s \in Rect /\ Inside(s)
  BY ClampInside
<1>2. /\ AtMost(AtLeast(s.w, MinW), ScreenW) = s.w
      /\ AtMost(AtLeast(s.h, MinH), ScreenH) = s.h
  <2>1. /\ s.w = AtMost(AtLeast(r.w, MinW), ScreenW)
        /\ s.h = AtMost(AtLeast(r.h, MinH), ScreenH)
    BY DEF Clamp
  <2>2. r.w \in Int /\ r.h \in Int
    BY DEF Rect
  <2> HIDE DEF s
  <2> QED
    BY <2>1, <2>2, ScreenAssumption DEF AtLeast, AtMost, MinW, MinH
<1> HIDE DEF s
<1>3. /\ AtMost(AtLeast(s.x, 0), ScreenW - s.w) = s.x
      /\ AtMost(AtLeast(s.y, 0), ScreenH - s.h) = s.y
  BY <1>1, ScreenAssumption DEF Rect, Inside, AtLeast, AtMost
<1>4. Clamp(s) = [x |-> s.x, y |-> s.y, w |-> s.w, h |-> s.h]
  BY <1>2, <1>3 DEF Clamp
<1>5. Clamp(s) = s
  BY <1>1, <1>4 DEF Rect
<1> QED
  BY <1>5 DEF s

\* The halves of the screen that snap() uses are on the screen.
LEMMA SnapRectInside ==
    ASSUME NEW side \in {"Left", "Right", "Top", "Bottom"}
    PROVE  SnapRect(side) \in Rect /\ Inside(SnapRect(side))
<1>1. /\ ScreenW \div 2 \in Nat /\ ScreenW \div 2 <= ScreenW
      /\ ScreenH \div 2 \in Nat /\ ScreenH \div 2 <= ScreenH
  BY ScreenAssumption
<1>2. CASE side = "Left"
  <2>1. SnapRect(side) = [x |-> 0, y |-> 0, w |-> ScreenW \div 2, h |-> ScreenH]
    BY <1>2 DEF SnapRect, Screen
  <2> QED
    BY <2>1, <1>1, ScreenAssumption DEF Rect, Inside
<1>3. CASE side = "Right"
  <2>1. SnapRect(side) = [x |-> ScreenW \div 2, y |-> 0,
                          w |-> ScreenW - ScreenW \div 2, h |-> ScreenH]
    BY <1>3 DEF SnapRect, Screen
  <2> QED
    BY <2>1, <1>1, ScreenAssumption DEF Rect, Inside
<1>4. CASE side = "Top"
  <2>1. SnapRect(side) = [x |-> 0, y |-> 0, w |-> ScreenW, h |-> ScreenH \div 2]
    BY <1>4 DEF SnapRect, Screen
  <2> QED
    BY <2>1, <1>1, ScreenAssumption DEF Rect, Inside
<1>5. CASE side = "Bottom"
  <2>1. SnapRect(side) = [x |-> 0, y |-> ScreenH \div 2,
                          w |-> ScreenW, h |-> ScreenH - ScreenH \div 2]
    BY <1>5 DEF SnapRect, Screen
  <2> QED
    BY <2>1, <1>1, ScreenAssumption DEF Rect, Inside
<1> QED
  BY <1>2, <1>3, <1>4, <1>5

\* Saving and restoring keep a window on the screen and its identity.
LEMMA SavedReplaces ==
    ASSUME NEW v, NEW w, Replaces(w, v)
    PROVE  Replaces(Saved(w), v) /\ Saved(w).state = w.state
                                 /\ Saved(w).rect = w.rect
BY DEF Saved, Replaces, Window, States

LEMMA FloatedReplaces ==
    ASSUME NEW v, NEW w, Replaces(w, v)
    PROVE  Replaces(Floated(w), v) /\ Floated(w).state = "Normal"
<1>1. w.restore \in Rect
  BY DEF Replaces, Window
<1>2. Clamp(w.restore) \in Rect /\ Inside(Clamp(w.restore))
  BY <1>1, ClampInside
<1> QED
  BY <1>2 DEF Floated, Replaces, Window, States, Snaps

\* A new rectangle on the screen, state and snap keep the identity.
LEMMA ReshapeReplaces ==
    ASSUME NEW v, NEW w, Replaces(w, v),
           NEW st \in States, NEW sn \in Snaps,
           NEW r \in Rect, Inside(r)
    PROVE  /\ Replaces([w EXCEPT !.state = st, !.snap = sn, !.rect = r], v)
           /\ Replaces([w EXCEPT !.state = st, !.snap = sn,
                                 !.rect = r, !.restore = r], v)
           /\ Replaces([w EXCEPT !.snap = sn, !.rect = r], v)
BY DEF Replaces, Window

-----------------------------------------------------------------------------
(* Tables *)

LEMMA SlotsFinite ==
    ASSUME NEW ws
    PROVE  /\ IsFiniteSet(Visible(ws))
           /\ Cardinality(Visible(ws)) \in 0..MaxWindows
<1>1. IsFiniteSet(Slots) /\ Cardinality(Slots) = MaxWindows
  BY FS_Interval, SlotsAssumption DEF Slots
<1>2. Visible(ws) \in SUBSET Slots
  BY DEF Visible
<1>3. IsFiniteSet(Visible(ws)) /\ Cardinality(Visible(ws)) <= Cardinality(Slots)
  BY <1>1, <1>2, FS_Subset
<1>4. Cardinality(Visible(ws)) \in Nat
  BY <1>3, FS_CardinalityType
<1> QED
  BY <1>1, <1>3, <1>4, SlotsAssumption

\* The counter stays in its word.
LEMMA IncInWord ==
    ASSUME NEW z \in 0..(ZWord - 1)
    PROVE  Inc(z) \in 0..(ZWord - 1)
BY ZAssumption DEF Inc

\* Replacing a window by one with its id keeps the table and who is in it.
LEMMA ReplaceTable ==
    ASSUME NEW n \in Nat, TableOK(win, n), NEW s \in Slots, win[s].visible,
           NEW w, Replaces(w, win[s])
    PROVE  /\ TableOK([win EXCEPT ![s] = w], n)
           /\ Visible([win EXCEPT ![s] = w]) = Visible(win)
<1> DEFINE ws == [win EXCEPT ![s] = w]
<1>1. ws \in [Slots -> Window]
  BY DEF TableOK, Replaces
<1>2. \A t \in Slots : /\ ws[t].visible <=> win[t].visible
                       /\ ws[t].id = win[t].id
  BY DEF TableOK, Replaces
<1>3. \A t \in Slots : ws[t].visible =>
         ws[t].id \in 1..(n - 1) /\ Inside(ws[t].rect) /\ Inside(ws[t].restore)
  BY DEF TableOK, Replaces
<1>4. Visible(ws) = Visible(win)
  BY <1>2 DEF Visible
<1>5. TableOK(ws, n)
  BY <1>1, <1>2, <1>3 DEF TableOK
<1> QED
  BY <1>4, <1>5

\* raise() changes flags and one z only, and leaves the focus records agreeing.
LEMMA RaiseTable ==
    ASSUME NEW ws, NEW n \in Nat, TableOK(ws, n),
           NEW s \in Shown(ws), NEW z \in 0..(ZWord - 1), Raise(ws, s, z)
    PROVE  /\ TableOK(win', n)
           /\ Visible(win') = Visible(ws)
           /\ next_z' \in 0..(ZWord - 1)
           /\ focused' \in 0..(n - 1)
           /\ FocusAgrees'
<1>1. s \in Slots /\ ws[s].visible /\ ws[s].state # "Minimized"
  BY DEF Shown
<1>2. win' \in [Slots -> Window]
  <2>1. z \in Nat
    BY ZAssumption
  <2>2. \A t \in Slots : /\ [ws[t] EXCEPT !.focused = TRUE, !.z = z] \in Window
                         /\ [ws[t] EXCEPT !.focused = FALSE] \in Window
    BY <2>1 DEF TableOK, Window
  <2> QED
    BY <2>2 DEF Raise
<1>3. \A t \in Slots :
         /\ win'[t].visible = ws[t].visible /\ win'[t].id = ws[t].id
         /\ win'[t].state = ws[t].state
         /\ win'[t].rect = ws[t].rect /\ win'[t].restore = ws[t].restore
         /\ win'[t].focused <=> t = s
  BY DEF Raise, TableOK, Window
<1>4. TableOK(win', n)
  <2>1. \A t \in Slots : win'[t].visible =>
           /\ win'[t].id \in 1..(n - 1)
           /\ Inside(win'[t].rect) /\ Inside(win'[t].restore)
    BY <1>3 DEF TableOK
  <2>2. \A t, u \in Slots :
           win'[t].visible /\ win'[u].visible /\ win'[t].id = win'[u].id => t = u
    BY <1>3 DEF TableOK
  <2> QED
    BY <1>2, <2>1, <2>2 DEF TableOK
<1>5. Visible(win') = Visible(ws)
  BY <1>3 DEF Visible
<1>6. focused' = ws[s].id /\ focused' \in 1..(n - 1)
  BY <1>1 DEF Raise, TableOK
<1>7. Shown(win') = Shown(ws)
  BY <1>3 DEF Shown
<1>8. FocusAgrees'
  <2>1. \A t \in Slots :
           win'[t].focused <=> (win'[t].visible /\ win'[t].id = focused')
    BY <1>1, <1>3, <1>6 DEF TableOK
  <2>2. focused' # 0
    BY <1>6
  <2>3. s \in Shown(win') /\ win'[s].id = focused'
    BY <1>1, <1>3, <1>6, <1>7
  <2> QED
    BY <2>1, <2>2, <2>3 DEF FocusAgrees
<1>9. next_z' \in 0..(ZWord - 1)
  BY IncInWord DEF Raise
<1> QED
  BY <1>4, <1>5, <1>6, <1>8, <1>9

\* focus_topmost() raises a shown window or, with none, leaves no focus.
LEMMA FocusTopmostTable ==
    ASSUME NEW ws, NEW n \in Nat \ {0}, TableOK(ws, n),
           next_z \in 0..(ZWord - 1), FocusTopmost(ws)
    PROVE  /\ TableOK(win', n)
           /\ Visible(win') = Visible(ws)
           /\ next_z' \in 0..(ZWord - 1)
           /\ focused' \in 0..(n - 1)
           /\ FocusAgrees'
<1>1. CASE \E s \in Topmost(ws) : Raise(ws, s, next_z)
  <2>1. PICK s \in Topmost(ws) : Raise(ws, s, next_z)
    BY <1>1
  <2>2. s \in Shown(ws)
    BY DEF Topmost
  <2> QED
    BY <2>1, <2>2, RaiseTable
<1>2. CASE /\ Shown(ws) = {}
           /\ win' = [t \in Slots |-> [ws[t] EXCEPT !.focused = FALSE]]
           /\ focused' = 0
           /\ UNCHANGED next_z
  <2>1. win' \in [Slots -> Window]
    BY <1>2 DEF TableOK, Window
  <2>2. \A t \in Slots :
           /\ win'[t].visible = ws[t].visible /\ win'[t].id = ws[t].id
           /\ win'[t].state = ws[t].state
           /\ win'[t].rect = ws[t].rect /\ win'[t].restore = ws[t].restore
           /\ ~win'[t].focused
    BY <1>2 DEF TableOK, Window
  <2>3. TableOK(win', n)
    <3>1. \A t \in Slots : win'[t].visible =>
             /\ win'[t].id \in 1..(n - 1)
             /\ Inside(win'[t].rect) /\ Inside(win'[t].restore)
      BY <2>2 DEF TableOK
    <3>2. \A t, u \in Slots :
             win'[t].visible /\ win'[u].visible /\ win'[t].id = win'[u].id
               => t = u
      BY <2>2 DEF TableOK
    <3> QED
      BY <2>1, <3>1, <3>2 DEF TableOK
  <2>4. Visible(win') = Visible(ws)
    BY <2>2 DEF Visible
  <2>5. Shown(win') = {}
    BY <1>2, <2>2 DEF Shown
  <2>6. \A t \in Slots : win'[t].visible => win'[t].id # 0
    BY <2>3 DEF TableOK
  <2>7. FocusAgrees'
    BY <1>2, <2>2, <2>5, <2>6 DEF FocusAgrees
  <2> QED
    BY <1>2, <2>3, <2>4, <2>7
<1> QED
  BY <1>1, <1>2 DEF FocusTopmost

-----------------------------------------------------------------------------
(* Steps *)

\* What focus, move, resize, maximize, fullscreen, restore and snap have in
\* common: a window takes the place of the one with its id, is shown, and is
\* raised with the counter as it is or one later.
PutShown(id) ==
    \E s \in Find(id), w \in Window, z \in {next_z, Inc(next_z)} :
        Replaces(w, win[s]) /\ w.state # "Minimized" /\ Put(s, w, z)

\* A window of the table stands in for itself.
LEMMA SelfReplaces ==
    ASSUME IInv, NEW s \in Slots, win[s].visible
    PROVE  Replaces(win[s], win[s])
BY DEF IInv, TableOK, Replaces

\* The common end of the calls preserves the invariant.
LEMMA PutStep ==
    ASSUME IInv, NEW id \in Ids, PutShown(id)
    PROVE  IInv'
<1>1. PICK s \in Find(id), w \in Window, z \in {next_z, Inc(next_z)} :
         Replaces(w, win[s]) /\ w.state # "Minimized" /\ Put(s, w, z)
  BY DEF PutShown
<1>2. s \in Slots /\ win[s].visible
  BY DEF Find
<1>3. z \in 0..(ZWord - 1)
  BY IncInWord DEF IInv
<1> DEFINE ws == [win EXCEPT ![s] = w]
<1>4. TableOK(win, next_id) /\ next_id \in Nat
  BY SlotsAssumption DEF IInv
<1>5. TableOK(ws, next_id) /\ Visible(ws) = Visible(win)
  BY <1>1, <1>2, <1>4, ReplaceTable
<1>6. ws[s] = w
  BY <1>4, <1>2 DEF TableOK
<1>7. s \in Shown(ws)
  BY <1>1, <1>6, <1>2 DEF Shown, Replaces
<1>8. Raise(ws, s, z) /\ UNCHANGED <<count, next_id>>
  BY <1>1 DEF Put
<1> HIDE DEF ws
<1>9. /\ TableOK(win', next_id) /\ Visible(win') = Visible(win)
      /\ next_z' \in 0..(ZWord - 1)
      /\ focused' \in 0..(next_id - 1)
      /\ FocusAgrees'
  BY <1>3, <1>4, <1>5, <1>7, <1>8, RaiseTable
<1> QED
  BY <1>8, <1>9 DEF IInv

LEMMA InitIInv == Init => IInv
<1> SUFFICES ASSUME Init PROVE IInv
  OBVIOUS
<1>1. Blank \in Window
  BY DEF Blank, Window, States, Snaps, NoRect, Rect
<1>2. win \in [Slots -> Window] /\ \A s \in Slots : win[s] = Blank
  BY <1>1 DEF Init
<1>3. \A s \in Slots : ~win[s].visible /\ ~win[s].focused
  BY <1>2 DEF Blank
<1>4. TableOK(win, next_id)
  BY <1>2, <1>3 DEF TableOK
<1>5. Visible(win) = {} /\ Shown(win) = {}
  BY <1>3 DEF Visible, Shown
<1>6. count = Cardinality(Visible(win))
  BY <1>5, FS_EmptySet DEF Init
<1>7. FocusAgrees
  BY <1>3, <1>5 DEF FocusAgrees, Init
<1> QED
  BY <1>4, <1>6, <1>7, SlotsAssumption, ZAssumption DEF IInv, Init

\* What open() puts in a free slot and raises.
NewWindows == {w \in Window : w.visible /\ w.id = next_id /\ w.state = "Normal"}

LEMMA OpenShape ==
    ASSUME IInv, NEW width \in Extents, NEW height \in Extents,
           Open(width, height)
    PROVE  \E s \in FreeSlot(win), w \in NewWindows :
              /\ next_id <= MaxId
              /\ TableOK([win EXCEPT ![s] = w], next_id + 1)
              /\ Raise([win EXCEPT ![s] = w], s, next_z)
              /\ next_id' = next_id + 1
              /\ count' = count + 1
<1>1. PICK s \in FreeSlot(win) :
         LET place == 40 + (count % 7) * 28
             rect == Clamp([x |-> place, y |-> place,
                            w |-> IF width = 0 THEN 720 ELSE width,
                            h |-> IF height = 0 THEN 480 ELSE height])
             w == [Blank EXCEPT !.id = next_id, !.visible = TRUE,
                                !.rect = rect, !.restore = rect]
         IN  /\ next_id <= MaxId
             /\ Raise([win EXCEPT ![s] = w], s, next_z)
             /\ next_id' = next_id + 1
             /\ count' = count + 1
  BY DEF Open
<1> DEFINE place == 40 + (count % 7) * 28
           r == [x |-> place, y |-> place,
                 w |-> IF width = 0 THEN 720 ELSE width,
                 h |-> IF height = 0 THEN 480 ELSE height]
           rect == Clamp(r)
           w == [Blank EXCEPT !.id = next_id, !.visible = TRUE,
                              !.rect = rect, !.restore = rect]
           ws == [win EXCEPT ![s] = w]
<1>2. s \in Slots /\ ~win[s].visible
  BY DEF FreeSlot
<1>3. TableOK(win, next_id) /\ next_id \in Nat \ {0} /\ count \in Nat
  BY SlotsAssumption, SlotsFinite DEF IInv
<1>4. rect \in Rect /\ Inside(rect)
  <2>1. place \in Int
    BY <1>3
  <2>2. width \in Nat /\ height \in Nat
    BY InputAssumption
  <2>3. r \in Rect
    BY <2>1, <2>2 DEF Rect
  <2> QED
    BY <2>3, ClampInside
<1> HIDE DEF rect
<1>5. w \in NewWindows /\ w.rect = rect /\ w.restore = rect
  BY <1>3, <1>4 DEF Blank, Window, States, Snaps, NewWindows
<1> HIDE DEF w
<1>6. ws \in [Slots -> Window] /\ ws[s] = w
      /\ \A t \in Slots \ {s} : ws[t] = win[t]
  BY <1>2, <1>3, <1>5 DEF TableOK, NewWindows
<1>7. TableOK(ws, next_id + 1)
  <2>1. \A t \in Slots : ws[t].visible =>
           /\ ws[t].id \in 1..next_id
           /\ Inside(ws[t].rect) /\ Inside(ws[t].restore)
    BY <1>3, <1>4, <1>5, <1>6 DEF TableOK, NewWindows
  <2>2. \A t, u \in Slots :
           ws[t].visible /\ ws[u].visible /\ ws[t].id = ws[u].id => t = u
    BY <1>3, <1>5, <1>6 DEF TableOK, NewWindows
  <2>3. (next_id + 1) - 1 = next_id
    BY <1>3
  <2> QED
    BY <1>6, <2>1, <2>2, <2>3 DEF TableOK
<1>8. /\ Raise(ws, s, next_z) /\ next_id <= MaxId
      /\ next_id' = next_id + 1 /\ count' = count + 1
  BY <1>1 DEF w, rect
<1> QED
  BY <1>5, <1>7, <1>8

LEMMA OpenStep ==
    ASSUME IInv, NEW width \in Extents, NEW height \in Extents,
           Open(width, height)
    PROVE  IInv'
<1>1. PICK s \in FreeSlot(win), w \in NewWindows :
         /\ next_id <= MaxId
         /\ TableOK([win EXCEPT ![s] = w], next_id + 1)
         /\ Raise([win EXCEPT ![s] = w], s, next_z)
         /\ next_id' = next_id + 1
         /\ count' = count + 1
  BY OpenShape
<1> DEFINE ws == [win EXCEPT ![s] = w]
<1>2. s \in Slots /\ ~win[s].visible
  BY DEF FreeSlot
<1>3. win \in [Slots -> Window] /\ next_id \in Nat \ {0}
      /\ next_z \in 0..(ZWord - 1)
  BY SlotsAssumption DEF IInv, TableOK
<1>4. ws[s] = w /\ \A t \in Slots \ {s} : ws[t] = win[t]
  BY <1>2, <1>3
<1>5. Visible(ws) = Visible(win) \cup {s} /\ s \notin Visible(win)
  BY <1>2, <1>4 DEF Visible, NewWindows
<1>6. s \in Shown(ws)
  BY <1>2, <1>4 DEF Shown, NewWindows
<1>7. TableOK(ws, next_id + 1) /\ Raise(ws, s, next_z)
  BY <1>1
<1> HIDE DEF ws
<1>8. /\ TableOK(win', next_id + 1) /\ Visible(win') = Visible(ws)
      /\ next_z' \in 0..(ZWord - 1)
      /\ focused' \in 0..((next_id + 1) - 1)
      /\ FocusAgrees'
  BY <1>3, <1>6, <1>7, RaiseTable
<1>9. count' = Cardinality(Visible(win'))
  BY <1>1, <1>5, <1>8, SlotsFinite, FS_AddElement DEF IInv
<1>10. next_id' \in 1..(MaxId + 1)
  BY <1>1, <1>3, SlotsAssumption
<1> QED
  BY <1>1, <1>8, <1>9, <1>10 DEF IInv

\* What close and minimize have in common: slot s leaves the shown windows of
\* a table ws that is otherwise the old one, and focus_topmost() runs if s
\* had the focus.
Leaves(s, ws) ==
    /\ TableOK(ws, next_id)
    /\ ~ws[s].focused /\ s \notin Shown(ws)
    /\ ws[s].visible => ws[s].id = win[s].id /\ ws[s].z = win[s].z
    /\ \A t \in Slots \ {s} : ws[t] = win[t]
    /\ count' = Cardinality(Visible(ws))
    /\ next_id' = next_id
    /\ IF focused = win[s].id
         THEN FocusTopmost(ws)
         ELSE win' = ws /\ UNCHANGED <<next_z, focused>>

LEMMA CloseTable ==
    ASSUME IInv, NEW id \in Ids, NEW s \in Find(id),
           LET ws == [win EXCEPT ![s] = Blank]
           IN  /\ count' = IF count > 0 THEN count - 1 ELSE count
               /\ UNCHANGED next_id
               /\ IF focused = id
                    THEN FocusTopmost(ws)
                    ELSE win' = ws /\ UNCHANGED <<next_z, focused>>
    PROVE  Leaves(s, [win EXCEPT ![s] = Blank])
<1> DEFINE ws == [win EXCEPT ![s] = Blank]
<1>1. s \in Slots /\ win[s].visible /\ win[s].id = id
  BY DEF Find
<1>2. TableOK(win, next_id)
  BY DEF IInv
<1>3. Blank \in Window /\ ~Blank.visible /\ ~Blank.focused
  BY DEF Blank, Window, States, Snaps, NoRect, Rect
<1>4. /\ ws \in [Slots -> Window] /\ ws[s] = Blank
      /\ \A t \in Slots \ {s} : ws[t] = win[t]
  BY <1>1, <1>2, <1>3 DEF TableOK
<1>5. TableOK(ws, next_id)
  BY <1>2, <1>3, <1>4 DEF TableOK
<1>6. Visible(ws) = Visible(win) \ {s} /\ s \in Visible(win)
  BY <1>1, <1>3, <1>4 DEF Visible
<1>7. count' = Cardinality(Visible(ws))
  <2>1. Cardinality(Visible(ws)) = Cardinality(Visible(win)) - 1
    BY <1>6, SlotsFinite, FS_RemoveElement
  <2>2. count \in Nat /\ Cardinality(Visible(ws)) \in Nat
    BY SlotsFinite DEF IInv
  <2> QED
    BY <2>1, <2>2 DEF IInv
<1>8. s \notin Shown(ws)
  BY <1>3, <1>4 DEF Shown
<1> QED
  BY <1>1, <1>3, <1>4, <1>5, <1>7, <1>8 DEF Leaves

LEMMA MinimizeTable ==
    ASSUME IInv, NEW id \in Ids, NEW s \in Find(id), NEW w,
           w = [Saved(win[s]) EXCEPT !.state = "Minimized", !.focused = FALSE],
           UNCHANGED <<count, next_id>>,
           IF focused = id
             THEN FocusTopmost([win EXCEPT ![s] = w])
             ELSE win' = [win EXCEPT ![s] = w] /\ UNCHANGED <<next_z, focused>>
    PROVE  Leaves(s, [win EXCEPT ![s] = w])
<1> DEFINE ws == [win EXCEPT ![s] = w]
<1>1. s \in Slots /\ win[s].visible /\ win[s].id = id
  BY DEF Find
<1>2. TableOK(win, next_id) /\ next_id \in Nat
  BY SlotsAssumption DEF IInv
<1>3. Replaces(Saved(win[s]), win[s]) /\ Saved(win[s]).z = win[s].z
  BY <1>1, SelfReplaces, SavedReplaces DEF Saved, Replaces, Window
<1>4. Replaces(w, win[s]) /\ w.state = "Minimized" /\ ~w.focused
      /\ w.z = win[s].z
  BY <1>3 DEF Replaces, Window, States
<1>5. TableOK(ws, next_id) /\ Visible(ws) = Visible(win)
  BY <1>1, <1>2, <1>4, ReplaceTable
<1>6. ws[s] = w /\ \A t \in Slots \ {s} : ws[t] = win[t]
  BY <1>1, <1>2 DEF TableOK
<1>7. s \notin Shown(ws)
  BY <1>4, <1>6 DEF Shown
<1>8. count' = Cardinality(Visible(ws))
  BY <1>5 DEF IInv
<1> QED
  BY <1>1, <1>4, <1>5, <1>6, <1>7, <1>8 DEF Leaves, Replaces

LEMMA LeaveStep ==
    ASSUME IInv, NEW s \in Slots, win[s].visible, NEW ws, Leaves(s, ws)
    PROVE  IInv'
<1>1. next_id \in Nat \ {0} /\ next_z \in 0..(ZWord - 1)
  BY SlotsAssumption DEF IInv
<1>2. CASE focused = win[s].id
  <2>1. /\ TableOK(win', next_id) /\ Visible(win') = Visible(ws)
        /\ next_z' \in 0..(ZWord - 1)
        /\ focused' \in 0..(next_id - 1)
        /\ FocusAgrees'
    BY <1>1, <1>2, FocusTopmostTable DEF Leaves
  <2> QED
    BY <2>1 DEF IInv, Leaves
<1>3. CASE focused # win[s].id
  <2>1. win' = ws /\ UNCHANGED <<next_z, focused, next_id>>
    BY <1>3 DEF Leaves
  <2>2. FocusAgrees'
    <3>1. \A t \in Slots :
             ws[t].focused <=> (ws[t].visible /\ ws[t].id = focused)
      BY <1>3 DEF IInv, FocusAgrees, Leaves
    <3>2. Shown(ws) = Shown(win) \ {s}
      BY DEF Shown, Leaves
    <3>3. focused # 0 => \E t \in Shown(ws) : ws[t].id = focused
      BY <1>3, <3>2 DEF IInv, FocusAgrees, Shown, Leaves
    <3>4. focused = 0 => Shown(ws) = {}
      BY <3>2 DEF IInv, FocusAgrees
    <3> QED
      BY <2>1, <3>1, <3>3, <3>4 DEF FocusAgrees, Shown
  <2> QED
    BY <2>1, <2>2 DEF IInv, Leaves
<1> QED
  BY <1>2, <1>3

LEMMA CloseShape ==
    ASSUME IInv, NEW id \in Ids, Close(id)
    PROVE  \E s \in Find(id), ws \in [Slots -> Window] :
             Leaves(s, ws) /\ ~ws[s].visible
<1>1. PICK s \in Find(id) :
         LET ws == [win EXCEPT ![s] = Blank]
         IN  /\ count' = IF count > 0 THEN count - 1 ELSE count
             /\ UNCHANGED next_id
             /\ IF focused = id
                  THEN FocusTopmost(ws)
                  ELSE win' = ws /\ UNCHANGED <<next_z, focused>>
  BY DEF Close
<1>2. Leaves(s, [win EXCEPT ![s] = Blank])
  BY <1>1, CloseTable
<1>3. ~[win EXCEPT ![s] = Blank][s].visible
  BY DEF IInv, TableOK, Find, Blank
<1> QED
  BY <1>2, <1>3 DEF Leaves, TableOK

LEMMA MinimizeShape ==
    ASSUME IInv, NEW id \in Ids, Minimize(id)
    PROVE  \E s \in Find(id), ws \in [Slots -> Window] :
             Leaves(s, ws) /\ ws[s].visible
<1>1. PICK s \in Find(id) :
         LET ws == [win EXCEPT ![s] = [Saved(win[s]) EXCEPT
                                         !.state = "Minimized",
                                         !.focused = FALSE]]
         IN  /\ UNCHANGED <<count, next_id>>
             /\ IF focused = id
                  THEN FocusTopmost(ws)
                  ELSE win' = ws /\ UNCHANGED <<next_z, focused>>
  BY DEF Minimize
<1> DEFINE w == [Saved(win[s]) EXCEPT !.state = "Minimized", !.focused = FALSE]
<1>2. Leaves(s, [win EXCEPT ![s] = w])
  BY <1>1, MinimizeTable
<1>3. s \in Slots /\ win[s].visible
  BY DEF Find
<1>4. w.visible
  BY <1>3, SelfReplaces, SavedReplaces DEF Replaces, Window
<1>5. [win EXCEPT ![s] = w][s].visible
  BY <1>3, <1>4 DEF IInv, TableOK
<1> QED
  BY <1>2, <1>5 DEF Leaves, TableOK

\* The calls that end in raise() on the same window: each puts a window that
\* replaces the old one and is shown.
LEMMA FocusShape ==
    ASSUME IInv, NEW id \in Ids, Focus(id)
    PROVE  PutShown(id)
<1>1. PICK s \in Find(id) :
         Put(s, IF win[s].state = "Minimized" THEN Floated(win[s]) ELSE win[s],
             next_z)
  BY DEF Focus
<1> DEFINE w == IF win[s].state = "Minimized" THEN Floated(win[s]) ELSE win[s]
<1>2. s \in Slots /\ win[s].visible
  BY DEF Find
<1>3. Replaces(win[s], win[s])
  BY <1>2, SelfReplaces
<1>4. Replaces(w, win[s]) /\ w.state # "Minimized"
  BY <1>3, FloatedReplaces
<1> HIDE DEF w
<1>5. Put(s, w, next_z)
  BY <1>1 DEF w
<1> QED
  BY <1>4, <1>5 DEF PutShown, Replaces

LEMMA UnmaximizedReplaces ==
    ASSUME NEW v, NEW w, Replaces(w, v),
           w.state \notin {"Minimized", "Fullscreen"}
    PROVE  Replaces(Unmaximized(w), v) /\ Unmaximized(w).state = "Normal"
<1>1. w.state \in States
  BY DEF Replaces, Window
<1> QED
  BY <1>1, FloatedReplaces DEF Unmaximized, States

LEMMA MoveShape ==
    ASSUME IInv, NEW id \in Ids, NEW x \in Coords, NEW y \in Coords,
           Move(id, x, y)
    PROVE  PutShown(id)
<1> DEFINE r(s) == Clamp([Unmaximized(win[s]).rect EXCEPT !.x = x, !.y = y])
           w(s) == [Saved(Unmaximized(win[s])) EXCEPT
                      !.snap = "None", !.rect = r(s)]
<1>1. PICK s \in Find(id) :
         /\ win[s].state \notin {"Minimized", "Fullscreen"}
         /\ Put(s, w(s), ZAfterRestore(win[s]))
  BY DEF Move
<1>2. s \in Slots /\ win[s].visible
  BY DEF Find
<1>3. Replaces(win[s], win[s])
  BY <1>2, SelfReplaces
<1>4. Replaces(Unmaximized(win[s]), win[s])
      /\ Unmaximized(win[s]).state = "Normal"
  BY <1>1, <1>3, UnmaximizedReplaces
<1>5. r(s) \in Rect /\ Inside(r(s))
  <2>1. Unmaximized(win[s]).rect \in Rect
    BY <1>4 DEF Replaces, Window
  <2>2. x \in Int /\ y \in Int
    BY InputAssumption
  <2>3. [Unmaximized(win[s]).rect EXCEPT !.x = x, !.y = y] \in Rect
    BY <2>1, <2>2 DEF Rect
  <2> QED
    BY <2>3, ClampInside
<1> HIDE DEF r
<1>6. Replaces(Saved(Unmaximized(win[s])), win[s])
      /\ Saved(Unmaximized(win[s])).state = "Normal"
  BY <1>4, SavedReplaces
<1>7. Replaces(w(s), win[s]) /\ w(s).state = "Normal"
  BY <1>5, <1>6 DEF Replaces, Window, Snaps
<1> HIDE DEF w
<1>8. ZAfterRestore(win[s]) \in {next_z, Inc(next_z)}
  BY DEF ZAfterRestore
<1> QED
  BY <1>1, <1>2, <1>7, <1>8 DEF PutShown, Replaces

LEMMA ResizeShape ==
    ASSUME IInv, NEW id \in Ids, NEW width \in Extents, NEW height \in Extents,
           Resize(id, width, height)
    PROVE  PutShown(id)
<1> DEFINE r(s) == Clamp([Unmaximized(win[s]).rect EXCEPT
                            !.w = IF width = 0 THEN MinW ELSE width,
                            !.h = IF height = 0 THEN MinH ELSE height])
           w(s) == [Unmaximized(win[s]) EXCEPT
                      !.state = "Normal", !.snap = "None",
                      !.rect = r(s), !.restore = r(s)]
<1>1. PICK s \in Find(id) :
         /\ win[s].state \notin {"Minimized", "Fullscreen"}
         /\ Put(s, w(s), ZAfterRestore(win[s]))
  BY DEF Resize
<1>2. s \in Slots /\ win[s].visible
  BY DEF Find
<1>3. Replaces(win[s], win[s])
  BY <1>2, SelfReplaces
<1>4. Replaces(Unmaximized(win[s]), win[s])
  BY <1>1, <1>3, UnmaximizedReplaces
<1>5. r(s) \in Rect /\ Inside(r(s))
  <2>1. Unmaximized(win[s]).rect \in Rect
    BY <1>4 DEF Replaces, Window
  <2>2. width \in Nat /\ height \in Nat
    BY InputAssumption
  <2> DEFINE a == IF width = 0 THEN MinW ELSE width
             b == IF height = 0 THEN MinH ELSE height
  <2>3. a \in Nat /\ b \in Nat
    BY <2>2 DEF MinW, MinH
  <2> HIDE DEF a, b
  <2>4. [Unmaximized(win[s]).rect EXCEPT !.w = a, !.h = b] \in Rect
    BY <2>1, <2>3 DEF Rect
  <2> QED
    BY <2>4, ClampInside DEF a, b
<1> HIDE DEF r
<1>6. Replaces(w(s), win[s]) /\ w(s).state = "Normal"
  BY <1>4, <1>5 DEF Replaces, Window, Snaps, States
<1> HIDE DEF w
<1>7. ZAfterRestore(win[s]) \in {next_z, Inc(next_z)}
  BY DEF ZAfterRestore
<1> QED
  BY <1>1, <1>2, <1>6, <1>7 DEF PutShown, Replaces

LEMMA FilledReplaces ==
    ASSUME NEW v, NEW w, Replaces(w, v),
           NEW st \in {"Maximized", "Fullscreen"}
    PROVE  Replaces(Filled(w, st), v) /\ Filled(w, st).state = st
<1>1. Screen \in Rect /\ Inside(Screen)
  BY ScreenAssumption DEF Screen, Rect, Inside
<1>2. Replaces(Saved(w), v)
  BY SavedReplaces
<1> QED
  BY <1>1, <1>2 DEF Filled, Replaces, Window, States, Snaps

LEMMA FillShape ==
    ASSUME IInv, NEW id \in Ids, Maximize(id) \/ Fullscreen(id)
    PROVE  PutShown(id)
<1>1. PICK s \in Find(id), st \in {"Maximized", "Fullscreen"} :
         Put(s, Filled(win[s], st), next_z)
  BY DEF Maximize, Fullscreen
<1>2. s \in Slots /\ win[s].visible
  BY DEF Find
<1>3. Replaces(Filled(win[s], st), win[s])
      /\ Filled(win[s], st).state # "Minimized"
  BY <1>2, SelfReplaces, FilledReplaces
<1> QED
  BY <1>1, <1>2, <1>3 DEF PutShown, Replaces

LEMMA RestoreShape ==
    ASSUME IInv, NEW id \in Ids, Restore(id)
    PROVE  PutShown(id)
<1> DEFINE w(s) == IF win[s].state # "Normal" \/ win[s].snap # "None"
                     THEN Floated(win[s]) ELSE win[s]
<1>1. PICK s \in Find(id) : Put(s, w(s), next_z)
  BY DEF Restore
<1>2. s \in Slots /\ win[s].visible
  BY DEF Find
<1>3. Replaces(win[s], win[s])
  BY <1>2, SelfReplaces
<1>4. Replaces(w(s), win[s]) /\ w(s).state = "Normal"
  BY <1>3, FloatedReplaces
<1> HIDE DEF w
<1> QED
  BY <1>1, <1>2, <1>4 DEF PutShown, Replaces

LEMMA SnapShape ==
    ASSUME IInv, NEW id \in Ids, NEW side \in Sides, Snap(id, side)
    PROVE  PutShown(id)
<1> DEFINE v(s) == IF win[s].snap = "None" THEN Saved(win[s]) ELSE win[s]
           w(s) == [v(s) EXCEPT !.state = "Normal", !.snap = side,
                                !.rect = SnapRect(side)]
<1>1. PICK s \in Find(id) : Put(s, w(s), next_z)
  BY DEF Snap
<1>2. s \in Slots /\ win[s].visible
  BY DEF Find
<1>3. Replaces(v(s), win[s])
  BY <1>2, SelfReplaces, SavedReplaces
<1>4. SnapRect(side) \in Rect /\ Inside(SnapRect(side)) /\ side \in Snaps
  BY SnapRectInside, InputAssumption DEF Snaps
<1> HIDE DEF v
<1>5. Replaces(w(s), win[s]) /\ w(s).state = "Normal"
  BY <1>3, <1>4 DEF Replaces, Window, States
<1> HIDE DEF w
<1> QED
  BY <1>1, <1>2, <1>5 DEF PutShown, Replaces

\* Every call that shows the window it is about is a PutShown.
Shows(id) ==
    \/ Focus(id)
    \/ \E x, y \in Coords : Move(id, x, y)
    \/ \E width, height \in Extents : Resize(id, width, height)
    \/ Maximize(id)
    \/ Fullscreen(id)
    \/ Restore(id)
    \/ \E side \in Sides : Snap(id, side)

LEMMA ShowsShape ==
    ASSUME IInv, NEW id \in Ids, Shows(id)
    PROVE  PutShown(id)
BY FocusShape, MoveShape, ResizeShape, FillShape, RestoreShape, SnapShape
   DEF Shows

LEMMA NextIInv == IInv /\ [Next]_vars => IInv'
<1> SUFFICES ASSUME IInv, [Next]_vars PROVE IInv'
  OBVIOUS
<1>1. CASE UNCHANGED vars
  BY <1>1 DEF vars, IInv, TableOK, Visible, FocusAgrees, Shown
<1>2. CASE \E width, height \in Extents : Open(width, height)
  BY <1>2, OpenStep
<1>3. ASSUME NEW id \in Ids, Close(id) PROVE IInv'
  BY <1>3, CloseShape, LeaveStep DEF Find
<1>4. ASSUME NEW id \in Ids, Minimize(id) PROVE IInv'
  BY <1>4, MinimizeShape, LeaveStep DEF Find
<1>5. ASSUME NEW id \in Ids, Shows(id) PROVE IInv'
  BY <1>5, ShowsShape, PutStep
<1> QED
  BY <1>1, <1>2, <1>3, <1>4, <1>5 DEF Next, Shows

-----------------------------------------------------------------------------
(* Theorems *)

LEMMA SpecIInv == Spec => []IInv
BY InitIInv, NextIInv, PTL DEF Spec

\* Every reachable state is typed: in particular no call sequence makes the
\* table hold more windows than it has slots or an id that was not given out.
THEOREM TypeCorrect == Spec => []TypeOK
<1>1. IInv => TypeOK
  <2> SUFFICES ASSUME IInv PROVE TypeOK
    OBVIOUS
  <2>1. count \in 0..MaxWindows
    BY SlotsFinite DEF IInv
  <2>2. focused \in 0..MaxId
    BY SlotsAssumption DEF IInv
  <2> QED
    BY <2>1, <2>2 DEF IInv, TableOK, TypeOK
<1> QED
  BY <1>1, SpecIInv, PTL

\* Live windows have distinct ids, and g_count counts them.
THEOREM IdsUnique == Spec => []UniqueIds
<1>1. IInv => UniqueIds
  BY DEF IInv, TableOK, UniqueIds, Visible
<1> QED
  BY <1>1, SpecIInv, PTL

\* The focus flags and g_focused always tell the same story, and there is a
\* focus exactly when a window is shown: with any word width of the stacking
\* counter, so also after it has wrapped.
THEOREM FocusCorrect == Spec => []FocusAgrees
<1>1. IInv => FocusAgrees
  BY DEF IInv
<1> QED
  BY <1>1, SpecIInv, PTL

\* No call sequence puts a window, or the place it will return to, off the
\* screen, whatever the size of the screen.
THEOREM NeverOffScreen == Spec => []OnScreen
<1>1. IInv => OnScreen
  BY DEF IInv, TableOK, OnScreen
<1> QED
  BY <1>1, SpecIInv, PTL

-----------------------------------------------------------------------------
(* Modes and what is remembered, for every screen *)

\* Half of the screen is not below the minimum size of a window, as on the
\* 1024 by 768 screen of the kernel.
RoomForHalves == ScreenW \div 2 >= MinW /\ ScreenH \div 2 >= MinH

\* clamp() leaves the rectangle alone.
Fits(r) == Clamp(r) = r

Region(w) ==
    /\ w.state \in {"Maximized", "Fullscreen"} => w.rect = Screen /\ w.snap = "None"
    /\ w.snap # "None" => w.rect = SnapRect(w.snap)
    /\ w.state = "Normal" /\ w.snap = "None" => w.rect = Clamp(w.rect)

\* What a call leaves in a slot.  Both rectangles fit: the remembered one can
\* be a snapped half, which clamp() would widen on a smaller screen.
Proper(w) ==
    /\ w \in Window /\ w.visible /\ Region(w)
    /\ RoomForHalves => Fits(w.rect) /\ Fits(w.restore)

\* Window v follows window w: what GeometryRemembered says of the two.
Remembers(w, v) ==
    /\ Floating(w) /\ ~Floating(v) => v.restore = w.rect
    /\ Away(w) /\ ~Floating(v) => v.restore = w.restore
    /\ RoomForHalves /\ w.state = "Minimized" /\ Floating(v) => v.rect = w.restore

Follows(v, w) == Proper(v) /\ v.id = w.id /\ Remembers(w, v)

\* The same window, up to its place in the stack and its focus.
SamePlace(v, w) ==
    /\ v \in Window
    /\ v.id = w.id /\ v.visible = w.visible /\ v.state = w.state
    /\ v.snap = w.snap /\ v.rect = w.rect /\ v.restore = w.restore

\* The inductive invariant.
GInv == IInv /\ \A s \in Slots : win[s].visible => Proper(win[s])

-----------------------------------------------------------------------------
(* Windows *)

LEMMA ScreenFits ==
    /\ Screen \in Rect
    /\ RoomForHalves => Fits(Screen)
<1>1. Screen \in Rect
  BY ScreenAssumption DEF Screen, Rect
<1>2. ASSUME RoomForHalves PROVE Fits(Screen)
  <2>1. ScreenW >= MinW /\ ScreenH >= MinH
    BY <1>2, ScreenAssumption DEF RoomForHalves, MinW, MinH
  <2> QED
    BY <2>1, ScreenAssumption
       DEF Fits, Clamp, Screen, AtLeast, AtMost, MinW, MinH
<1> QED
  BY <1>1, <1>2

LEMMA HalvesFit ==
    ASSUME RoomForHalves, NEW side \in {"Left", "Right", "Top", "Bottom"}
    PROVE  Fits(SnapRect(side))
<1> DEFINE hw == ScreenW \div 2
           hh == ScreenH \div 2
<1>1. /\ hw \in Nat /\ hw >= MinW /\ ScreenW - hw >= hw
      /\ hh \in Nat /\ hh >= MinH /\ ScreenH - hh >= hh
  BY ScreenAssumption DEF RoomForHalves
<1>2. MinW = 280 /\ MinH = 180
  BY DEF MinW, MinH
<1>3. ScreenW \in Nat /\ ScreenH \in Nat
  BY ScreenAssumption
<1>4. ASSUME NEW x \in Nat, NEW y \in Nat, NEW w \in Nat, NEW h \in Nat,
             w >= 280, h >= 180, x + w <= ScreenW, y + h <= ScreenH
      PROVE  Fits([x |-> x, y |-> y, w |-> w, h |-> h])
  BY <1>2, <1>4, ScreenAssumption DEF Fits, Clamp, AtLeast, AtMost
<1>5. CASE side = "Left"
  <2>1. SnapRect(side) = [x |-> 0, y |-> 0, w |-> hw, h |-> ScreenH]
    BY <1>5 DEF SnapRect, Screen
  <2> HIDE DEF hw, hh
  <2>2. /\ 0 \in Nat /\ 0 \in Nat /\ hw \in Nat /\ ScreenH \in Nat
        /\ hw >= 280 /\ ScreenH >= 180
        /\ 0 + (hw) <= ScreenW /\ 0 + (ScreenH) <= ScreenH
    BY <1>1, <1>2, <1>3
  <2> QED
    BY <1>4, <2>1, <2>2
<1>6. CASE side = "Right"
  <2>1. SnapRect(side) = [x |-> hw, y |-> 0, w |-> ScreenW - hw, h |-> ScreenH]
    BY <1>6 DEF SnapRect, Screen
  <2> HIDE DEF hw, hh
  <2>2. /\ hw \in Nat /\ 0 \in Nat /\ ScreenW - hw \in Nat /\ ScreenH \in Nat
        /\ ScreenW - hw >= 280 /\ ScreenH >= 180
        /\ hw + (ScreenW - hw) <= ScreenW /\ 0 + (ScreenH) <= ScreenH
    BY <1>1, <1>2, <1>3
  <2> QED
    BY <1>4, <2>1, <2>2
<1>7. CASE side = "Top"
  <2>1. SnapRect(side) = [x |-> 0, y |-> 0, w |-> ScreenW, h |-> hh]
    BY <1>7 DEF SnapRect, Screen
  <2> HIDE DEF hw, hh
  <2>2. /\ 0 \in Nat /\ 0 \in Nat /\ ScreenW \in Nat /\ hh \in Nat
        /\ ScreenW >= 280 /\ hh >= 180
        /\ 0 + (ScreenW) <= ScreenW /\ 0 + (hh) <= ScreenH
    BY <1>1, <1>2, <1>3
  <2> QED
    BY <1>4, <2>1, <2>2
<1>8. CASE side = "Bottom"
  <2>1. SnapRect(side) = [x |-> 0, y |-> hh, w |-> ScreenW, h |-> ScreenH - hh]
    BY <1>8 DEF SnapRect, Screen
  <2> HIDE DEF hw, hh
  <2>2. /\ 0 \in Nat /\ hh \in Nat /\ ScreenW \in Nat /\ ScreenH - hh \in Nat
        /\ ScreenW >= 280 /\ ScreenH - hh >= 180
        /\ 0 + (ScreenW) <= ScreenW /\ hh + (ScreenH - hh) <= ScreenH
    BY <1>1, <1>2, <1>3
  <2> QED
    BY <1>4, <2>1, <2>2
<1> QED
  BY <1>5, <1>6, <1>7, <1>8

\* A floating window with a rectangle that clamp() returned.
LEMMA FloatingProper ==
    ASSUME NEW w \in Window, w.visible, Floating(w), NEW r \in Rect,
           w.rect = Clamp(r), RoomForHalves => Fits(w.restore)
    PROVE  Proper(w)
<1>1. Fits(w.rect)
  BY ClampIdempotent DEF Fits
<1> QED
  BY <1>1 DEF Proper, Region, Floating, Fits

LEMMA SameFollows ==
    ASSUME NEW w, Proper(w)
    PROVE  Follows(w, w)
BY DEF Follows, Remembers, Floating, Away

\* restore_geometry(): back to where the window floated.
LEMMA FloatedFollows ==
    ASSUME NEW w, Proper(w)
    PROVE  Follows(Floated(w), w) /\ Floating(Floated(w))
<1> DEFINE v == Floated(w)
<1>1. w.restore \in Rect /\ Clamp(w.restore) \in Rect
  BY ClampInside DEF Proper, Window
<1>2. /\ v \in Window /\ v.visible /\ v.id = w.id /\ Floating(v)
      /\ v.rect = Clamp(w.restore) /\ v.restore = w.restore
  BY <1>1 DEF Floated, Floating, Proper, Window, States, Snaps
<1> HIDE DEF v
<1>3. Proper(v)
  BY <1>1, <1>2, FloatingProper DEF Proper
<1>4. Remembers(w, v)
  BY <1>2 DEF Remembers, Proper, Fits
<1> QED
  BY <1>2, <1>3, <1>4 DEF Follows, v

\* save_restore_geometry() changes nothing but what is remembered.
LEMMA SavedKeeps ==
    ASSUME NEW w, Proper(w)
    PROVE  /\ Proper(Saved(w)) /\ Saved(w).id = w.id
           /\ Saved(w).state = w.state /\ Saved(w).snap = w.snap
           /\ Saved(w).rect = w.rect
           /\ Saved(w).restore = IF w.state = "Normal" THEN w.rect ELSE w.restore
<1>1. /\ Saved(w) \in Window /\ Saved(w).visible /\ Saved(w).id = w.id
      /\ Saved(w).state = w.state /\ Saved(w).snap = w.snap
      /\ Saved(w).rect = w.rect
      /\ Saved(w).restore = IF w.state = "Normal" THEN w.rect ELSE w.restore
  BY DEF Saved, Proper, Window
<1> QED
  BY <1>1 DEF Proper, Region

\* The window that move() and resize() start from.
LEMMA UnmaximizedKeeps ==
    ASSUME NEW w, Proper(w), w.state \notin {"Minimized", "Fullscreen"}
    PROVE  /\ Proper(Unmaximized(w)) /\ Unmaximized(w).id = w.id
           /\ Unmaximized(w).state = "Normal"
BY FloatedFollows DEF Unmaximized, Follows, Floating, Proper, Window, States

LEMMA MovedFollows ==
    ASSUME NEW w, Proper(w), w.state \notin {"Minimized", "Fullscreen"},
           NEW x \in Int, NEW y \in Int
    PROVE  Follows([Saved(Unmaximized(w)) EXCEPT
                      !.snap = "None",
                      !.rect = Clamp([Unmaximized(w).rect EXCEPT !.x = x, !.y = y])],
                   w)
<1> DEFINE u == Unmaximized(w)
           r == [u.rect EXCEPT !.x = x, !.y = y]
           v == [Saved(u) EXCEPT !.snap = "None", !.rect = Clamp(r)]
<1>1. Proper(u) /\ u.id = w.id /\ u.state = "Normal"
  BY UnmaximizedKeeps
<1> HIDE DEF u
<1>2. Proper(Saved(u)) /\ Saved(u).id = w.id /\ Saved(u).state = "Normal"
  BY <1>1, SavedKeeps
<1>3. r \in Rect
  BY <1>1 DEF Proper, Window, Rect
<1>4. Clamp(r) \in Rect
  BY <1>3, ClampInside
<1> HIDE DEF r
<1>5. /\ v \in Window /\ v.visible /\ v.id = w.id /\ Floating(v)
      /\ v.rect = Clamp(r) /\ v.restore = Saved(u).restore
  BY <1>2, <1>4 DEF Floating, Proper, Window, Snaps
<1> HIDE DEF v
<1>6. Proper(v)
  BY <1>2, <1>3, <1>5, FloatingProper DEF Proper
<1>7. Remembers(w, v)
  BY <1>5 DEF Remembers
<1> QED
  BY <1>5, <1>6, <1>7 DEF Follows, v, r, u

LEMMA ResizedFollows ==
    ASSUME NEW w, Proper(w), w.state \notin {"Minimized", "Fullscreen"},
           NEW a \in Nat, NEW b \in Nat, NEW r,
           r = Clamp([Unmaximized(w).rect EXCEPT !.w = a, !.h = b])
    PROVE  Follows([Unmaximized(w) EXCEPT !.state = "Normal", !.snap = "None",
                                          !.rect = r, !.restore = r], w)
<1> DEFINE u == Unmaximized(w)
           q == [u.rect EXCEPT !.w = a, !.h = b]
           v == [u EXCEPT !.state = "Normal", !.snap = "None",
                          !.rect = r, !.restore = r]
<1>1. Proper(u) /\ u.id = w.id /\ u.state = "Normal"
  BY UnmaximizedKeeps
<1>2. r = Clamp(q)
  OBVIOUS
<1> HIDE DEF u
<1>3. q \in Rect
  BY <1>1 DEF Proper, Window, Rect
<1> HIDE DEF q
<1>4. r \in Rect /\ Fits(r)
  BY <1>2, <1>3, ClampInside, ClampIdempotent DEF Fits
<1>5. /\ v \in Window /\ v.visible /\ v.id = w.id /\ Floating(v)
      /\ v.rect = r /\ v.restore = r
  BY <1>1, <1>4 DEF Floating, Proper, Window, Snaps, States
<1> HIDE DEF v
<1>6. Proper(v)
  BY <1>2, <1>3, <1>4, <1>5, FloatingProper DEF Proper
<1>7. Remembers(w, v)
  BY <1>5 DEF Remembers
<1> QED
  BY <1>5, <1>6, <1>7 DEF Follows, v, u

LEMMA FilledFollows ==
    ASSUME NEW w, Proper(w), w.state # "Minimized",
           NEW st \in {"Maximized", "Fullscreen"}
    PROVE  Follows(Filled(w, st), w)
<1> DEFINE v == Filled(w, st)
<1>1. Proper(Saved(w)) /\ Saved(w).id = w.id
      /\ Saved(w).restore = IF w.state = "Normal" THEN w.rect ELSE w.restore
  BY SavedKeeps
<1>2. /\ v \in Window /\ v.visible /\ v.id = w.id
      /\ v.state = st /\ v.snap = "None" /\ v.rect = Screen
      /\ v.restore = Saved(w).restore
  BY <1>1, ScreenFits DEF Filled, Proper, Window, States, Snaps
<1> HIDE DEF v
<1>3. Proper(v)
  BY <1>1, <1>2, ScreenFits DEF Proper, Region
<1>4. Remembers(w, v)
  BY <1>1, <1>2 DEF Remembers, Floating, Away
<1> QED
  BY <1>2, <1>3, <1>4 DEF Follows, v

LEMMA SnappedFollows ==
    ASSUME NEW w, Proper(w), w.state \notin {"Minimized", "Fullscreen"},
           NEW side \in {"Left", "Right", "Top", "Bottom"}
    PROVE  Follows([IF w.snap = "None" THEN Saved(w) ELSE w EXCEPT
                      !.state = "Normal", !.snap = side, !.rect = SnapRect(side)],
                   w)
<1> DEFINE u == IF w.snap = "None" THEN Saved(w) ELSE w
           v == [u EXCEPT !.state = "Normal", !.snap = side,
                          !.rect = SnapRect(side)]
<1>1. /\ Proper(u) /\ u.id = w.id
      /\ w.snap = "None" =>
           u.restore = IF w.state = "Normal" THEN w.rect ELSE w.restore
  BY SavedKeeps
<1>2. w.snap # "None" => w.state = "Normal"
  BY DEF Proper, Region, Window, States
<1>3. SnapRect(side) \in Rect /\ (RoomForHalves => Fits(SnapRect(side)))
  BY SnapRectInside, HalvesFit
<1> HIDE DEF u
<1>4. /\ v \in Window /\ v.visible /\ v.id = w.id
      /\ v.state = "Normal" /\ v.snap = side /\ v.rect = SnapRect(side)
      /\ v.restore = u.restore
  BY <1>1, <1>3 DEF Proper, Window, States, Snaps
<1> HIDE DEF v
<1>5. Proper(v)
  BY <1>1, <1>3, <1>4 DEF Proper, Region
<1>6. Remembers(w, v)
  BY <1>1, <1>2, <1>4 DEF Remembers, Floating, Away
<1> QED
  BY <1>4, <1>5, <1>6 DEF Follows, v, u

LEMMA MinimizedFollows ==
    ASSUME NEW w, Proper(w)
    PROVE  Follows([Saved(w) EXCEPT !.state = "Minimized", !.focused = FALSE], w)
<1> DEFINE v == [Saved(w) EXCEPT !.state = "Minimized", !.focused = FALSE]
<1>1. /\ Proper(Saved(w)) /\ Saved(w).id = w.id
      /\ Saved(w).snap = w.snap /\ Saved(w).rect = w.rect
      /\ Saved(w).restore = IF w.state = "Normal" THEN w.rect ELSE w.restore
  BY SavedKeeps
<1>2. /\ v \in Window /\ v.visible /\ v.id = w.id /\ v.state = "Minimized"
      /\ v.snap = w.snap /\ v.rect = w.rect /\ v.restore = Saved(w).restore
  BY <1>1 DEF Proper, Window, States
<1> HIDE DEF v
<1>3. Proper(v)
  BY <1>1, <1>2 DEF Proper, Region
<1>4. Remembers(w, v)
  BY <1>1, <1>2 DEF Remembers, Floating, Away
<1> QED
  BY <1>2, <1>3, <1>4 DEF Follows, v

-----------------------------------------------------------------------------
(* Tables *)

\* Window t of the next table is one a call may leave there: it follows the
\* window that had the slot, or the slot was free or is free now.
Settled(v, w) ==
    v.visible => Proper(v) /\ (w.visible /\ v.id = w.id => Remembers(w, v))

\* The next table, for every slot.
Kept == \A t \in Slots : Settled(win'[t], win[t])

LEMMA SamePlaceSettled ==
    ASSUME NEW u, NEW v, NEW w, SamePlace(v, u), Settled(u, w)
    PROVE  Settled(v, w)
<1>1. Proper(u) => Proper(v)
  BY DEF SamePlace, Proper, Region
<1>2. Remembers(w, u) => Remembers(w, v)
  BY DEF SamePlace, Remembers, Floating
<1> QED
  BY <1>1, <1>2 DEF Settled, SamePlace

\* raise() and focus_topmost() touch the flags and one stacking number.
LEMMA RaiseSamePlace ==
    ASSUME NEW ws \in [Slots -> Window], NEW s \in Slots, NEW z \in Nat,
           Raise(ws, s, z)
    PROVE  \A t \in Slots : SamePlace(win'[t], ws[t])
BY DEF Raise, SamePlace, Window

LEMMA TopmostSamePlace ==
    ASSUME NEW ws \in [Slots -> Window], next_z \in Nat, FocusTopmost(ws)
    PROVE  \A t \in Slots : SamePlace(win'[t], ws[t])
<1>1. CASE \E s \in Topmost(ws) : Raise(ws, s, next_z)
  BY <1>1, RaiseSamePlace DEF Topmost, Shown
<1>2. CASE win' = [t \in Slots |-> [ws[t] EXCEPT !.focused = FALSE]]
  BY <1>2 DEF SamePlace, Window
<1> QED
  BY <1>1, <1>2 DEF FocusTopmost

\* A table that differs from the old one in slot s only.
LEMMA OneSlotKept ==
    ASSUME GInv, NEW s \in Slots, NEW w \in Window, Settled(w, win[s]),
           \A t \in Slots : SamePlace(win'[t], [win EXCEPT ![s] = w][t])
    PROVE  Kept
<1>1. win \in [Slots -> Window]
  BY DEF GInv, IInv, TableOK
<1>2. ASSUME NEW t \in Slots PROVE Settled([win EXCEPT ![s] = w][t], win[t])
  <2>1. CASE t = s
    BY <1>1, <2>1
  <2>2. CASE t # s
    <3>1. [win EXCEPT ![s] = w][t] = win[t]
      BY <1>1, <2>2
    <3>2. win[t].visible => Proper(win[t]) /\ Remembers(win[t], win[t])
      BY SameFollows DEF GInv, Follows
    <3> QED
      BY <3>1, <3>2 DEF Settled
  <2> QED
    BY <2>1, <2>2
<1> QED
  BY <1>2, SamePlaceSettled DEF Kept

\* A call that puts w where window s was, and raises it.
LEMMA PutKept ==
    ASSUME GInv, NEW s \in Slots, win[s].visible, NEW w, Follows(w, win[s]),
           NEW z \in {next_z, Inc(next_z)}, Put(s, w, z)
    PROVE  Kept
<1>1. win \in [Slots -> Window] /\ w \in Window
  BY DEF GInv, IInv, TableOK, Follows, Proper
<1>2. [win EXCEPT ![s] = w] \in [Slots -> Window]
  BY <1>1
<1>3. z \in Nat
  BY IncInWord, ZAssumption DEF GInv, IInv
<1>4. \A t \in Slots : SamePlace(win'[t], [win EXCEPT ![s] = w][t])
  BY <1>2, <1>3, RaiseSamePlace DEF Put
<1>5. Settled(w, win[s])
  BY DEF Settled, Follows
<1> QED
  BY <1>1, <1>4, <1>5, OneSlotKept

-----------------------------------------------------------------------------
(* Steps *)

LEMMA OpenKept ==
    ASSUME GInv, NEW width \in Extents, NEW height \in Extents,
           Open(width, height)
    PROVE  Kept
<1> DEFINE r == [x |-> 40 + (count % 7) * 28, y |-> 40 + (count % 7) * 28,
                 w |-> IF width = 0 THEN 720 ELSE width,
                 h |-> IF height = 0 THEN 480 ELSE height]
           w == [Blank EXCEPT !.id = next_id, !.visible = TRUE,
                              !.rect = Clamp(r), !.restore = Clamp(r)]
<1>1. PICK s \in FreeSlot(win) : Raise([win EXCEPT ![s] = w], s, next_z)
  BY DEF Open
<1>2. s \in Slots /\ ~win[s].visible
  BY DEF FreeSlot
<1>3. /\ win \in [Slots -> Window] /\ next_id \in Nat /\ count \in Nat
      /\ next_z \in Nat
  BY SlotsFinite, SlotsAssumption, ZAssumption DEF GInv, IInv, TableOK
<1>4. r \in Rect
  <2>1. width \in Nat /\ height \in Nat
    BY InputAssumption
  <2>2. 40 + (count % 7) * 28 \in Int
    BY <1>3
  <2> QED
    BY <2>1, <2>2 DEF Rect
<1> HIDE DEF r
<1>5. Clamp(r) \in Rect /\ Fits(Clamp(r))
  BY <1>4, ClampInside, ClampIdempotent DEF Fits
<1>6. /\ w \in Window /\ w.visible /\ Floating(w)
      /\ w.rect = Clamp(r) /\ w.restore = Clamp(r)
  BY <1>3, <1>5 DEF Blank, Window, States, Snaps, NoRect, Floating
<1> HIDE DEF w
<1>7. Settled(w, win[s])
  BY <1>2, <1>4, <1>5, <1>6, FloatingProper DEF Settled
<1>8. \A t \in Slots : SamePlace(win'[t], [win EXCEPT ![s] = w][t])
  <2>1. [win EXCEPT ![s] = w] \in [Slots -> Window]
    BY <1>3, <1>6
  <2> QED
    BY <1>1, <1>2, <1>3, <2>1, RaiseSamePlace
<1> QED
  BY <1>2, <1>6, <1>7, <1>8, OneSlotKept

\* What close() and minimize() do after they have changed slot s.
LEMMA LeaveKept ==
    ASSUME GInv, NEW s \in Slots, NEW w \in Window, Settled(w, win[s]),
           \/ FocusTopmost([win EXCEPT ![s] = w])
           \/ win' = [win EXCEPT ![s] = w]
    PROVE  Kept
<1> DEFINE ws == [win EXCEPT ![s] = w]
<1>1. ws \in [Slots -> Window] /\ next_z \in Nat
  BY ZAssumption DEF GInv, IInv, TableOK
<1>2. \A t \in Slots : SamePlace(win'[t], ws[t])
  <2>1. CASE FocusTopmost(ws)
    BY <1>1, <2>1, TopmostSamePlace
  <2>2. CASE win' = ws
    BY <1>1, <2>2 DEF SamePlace
  <2> QED
    BY <2>1, <2>2
<1> QED
  BY <1>2, OneSlotKept

LEMMA CloseKept ==
    ASSUME GInv, NEW id \in Ids, Close(id)
    PROVE  Kept
<1>1. PICK s \in Find(id) : \/ FocusTopmost([win EXCEPT ![s] = Blank])
                            \/ win' = [win EXCEPT ![s] = Blank]
  BY DEF Close
<1>2. Blank \in Window /\ ~Blank.visible
  BY DEF Blank, Window, States, Snaps, NoRect, Rect
<1>3. Settled(Blank, win[s]) /\ s \in Slots
  BY <1>2 DEF Settled, Find
<1> QED
  BY <1>1, <1>2, <1>3, LeaveKept

LEMMA MinimizeKept ==
    ASSUME GInv, NEW id \in Ids, Minimize(id)
    PROVE  Kept
<1> DEFINE w(s) == [Saved(win[s]) EXCEPT !.state = "Minimized", !.focused = FALSE]
<1>1. PICK s \in Find(id) : \/ FocusTopmost([win EXCEPT ![s] = w(s)])
                            \/ win' = [win EXCEPT ![s] = w(s)]
  BY DEF Minimize
<1>2. s \in Slots /\ Proper(win[s])
  BY DEF Find, GInv
<1>3. Follows(w(s), win[s])
  BY <1>2, MinimizedFollows
<1> HIDE DEF w
<1>4. w(s) \in Window /\ Settled(w(s), win[s])
  BY <1>3 DEF Follows, Settled, Proper
<1> QED
  BY <1>1, <1>2, <1>4, LeaveKept

\* The calls that end in raise() on the window they are about.
LEMMA ShowsKept ==
    ASSUME GInv, NEW id \in Ids, Shows(id)
    PROVE  Kept
<1>1. ASSUME NEW s \in Find(id) PROVE s \in Slots /\ win[s].visible /\ Proper(win[s])
  BY DEF Find, GInv
<1>2. ASSUME NEW s \in Find(id), NEW w, Follows(w, win[s]),
             NEW z \in {next_z, Inc(next_z)}, Put(s, w, z)
      PROVE  Kept
  BY <1>1, <1>2, PutKept
<1>3. \A s \in Slots : ZAfterRestore(win[s]) \in {next_z, Inc(next_z)}
  BY DEF ZAfterRestore
<1>4. CASE Focus(id)
  <2> DEFINE w(s) == IF win[s].state = "Minimized" THEN Floated(win[s]) ELSE win[s]
  <2>1. PICK s \in Find(id) : Put(s, w(s), next_z)
    BY <1>4 DEF Focus
  <2>2. Follows(w(s), win[s])
    BY <1>1, SameFollows, FloatedFollows
  <2> HIDE DEF w
  <2> QED
    BY <1>2, <2>1, <2>2
<1>5. CASE Restore(id)
  <2> DEFINE w(s) == IF win[s].state # "Normal" \/ win[s].snap # "None"
                       THEN Floated(win[s]) ELSE win[s]
  <2>1. PICK s \in Find(id) : Put(s, w(s), next_z)
    BY <1>5 DEF Restore
  <2>2. Follows(w(s), win[s])
    BY <1>1, SameFollows, FloatedFollows
  <2> HIDE DEF w
  <2> QED
    BY <1>2, <2>1, <2>2
<1>6. ASSUME NEW x \in Coords, NEW y \in Coords, Move(id, x, y) PROVE Kept
  <2> DEFINE r(u) == Clamp([u.rect EXCEPT !.x = x, !.y = y])
             w(s) == [Saved(Unmaximized(win[s])) EXCEPT
                        !.snap = "None", !.rect = r(Unmaximized(win[s]))]
  <2>1. PICK s \in Find(id) : /\ win[s].state \notin {"Minimized", "Fullscreen"}
                              /\ Put(s, w(s), ZAfterRestore(win[s]))
    BY <1>6 DEF Move
  <2>2. x \in Int /\ y \in Int
    BY InputAssumption
  <2>3. Follows(w(s), win[s])
    BY <1>1, <2>1, <2>2, MovedFollows
  <2> HIDE DEF w
  <2> QED
    BY <1>1, <1>2, <1>3, <2>1, <2>3
<1>7. ASSUME NEW width \in Extents, NEW height \in Extents,
             Resize(id, width, height)
      PROVE  Kept
  <2> DEFINE a == IF width = 0 THEN MinW ELSE width
             b == IF height = 0 THEN MinH ELSE height
             r(s) == Clamp([Unmaximized(win[s]).rect EXCEPT !.w = a, !.h = b])
             w(s) == [Unmaximized(win[s]) EXCEPT
                        !.state = "Normal", !.snap = "None",
                        !.rect = r(s), !.restore = r(s)]
  <2>1. PICK s \in Find(id) : /\ win[s].state \notin {"Minimized", "Fullscreen"}
                              /\ Put(s, w(s), ZAfterRestore(win[s]))
    BY <1>7 DEF Resize
  <2>2. a \in Nat /\ b \in Nat
    BY InputAssumption DEF MinW, MinH
  <2>3. Follows(w(s), win[s])
    <3> HIDE DEF a, b
    <3> QED
      BY <1>1, <2>1, <2>2, ResizedFollows
  <2> HIDE DEF w
  <2> QED
    BY <1>1, <1>2, <1>3, <2>1, <2>3
<1>8. CASE Maximize(id) \/ Fullscreen(id)
  <2>1. PICK s \in Find(id), st \in {"Maximized", "Fullscreen"} :
           win[s].state # "Minimized" /\ Put(s, Filled(win[s], st), next_z)
    BY <1>8 DEF Maximize, Fullscreen
  <2>2. Follows(Filled(win[s], st), win[s])
    BY <1>1, <2>1, FilledFollows
  <2> QED
    BY <1>2, <2>1, <2>2
<1>9. ASSUME NEW side \in Sides, Snap(id, side) PROVE Kept
  <2> DEFINE w(s) == [IF win[s].snap = "None" THEN Saved(win[s]) ELSE win[s] EXCEPT
                        !.state = "Normal", !.snap = side, !.rect = SnapRect(side)]
  <2>1. PICK s \in Find(id) : /\ win[s].state \notin {"Minimized", "Fullscreen"}
                              /\ Put(s, w(s), next_z)
    BY <1>9 DEF Snap
  <2>2. side \in {"Left", "Right", "Top", "Bottom"}
    BY InputAssumption
  <2>3. Follows(w(s), win[s])
    BY <1>1, <2>1, <2>2, SnappedFollows
  <2> HIDE DEF w
  <2> QED
    BY <1>2, <2>1, <2>3
<1> QED
  BY <1>4, <1>5, <1>6, <1>7, <1>8, <1>9 DEF Shows

LEMMA NextKept ==
    ASSUME GInv, [Next]_vars
    PROVE  Kept
<1>1. CASE UNCHANGED vars
  <2>1. \A s \in Slots : win[s].visible => Follows(win[s], win[s])
    BY SameFollows DEF GInv
  <2> QED
    BY <1>1, <2>1 DEF vars, Kept, Settled, Follows
<1>2. CASE \E width, height \in Extents : Open(width, height)
  BY <1>2, OpenKept
<1>3. ASSUME NEW id \in Ids, Close(id) PROVE Kept
  BY <1>3, CloseKept
<1>4. ASSUME NEW id \in Ids, Minimize(id) PROVE Kept
  BY <1>4, MinimizeKept
<1>5. ASSUME NEW id \in Ids, Shows(id) PROVE Kept
  BY <1>5, ShowsKept
<1> QED
  BY <1>1, <1>2, <1>3, <1>4, <1>5 DEF Next, Shows

LEMMA SpecGInv == Spec => []GInv
<1>1. Init => GInv
  BY InitIInv DEF GInv, Init, Blank
<1>2. GInv /\ [Next]_vars => GInv'
  <2>1. ASSUME GInv, [Next]_vars PROVE GInv'
    <3>1. IInv'
      BY <2>1, NextIInv DEF GInv
    <3>2. \A s \in Slots : win'[s].visible => Proper(win'[s])
      BY <2>1, NextKept DEF Kept, Settled
    <3> QED
      BY <3>1, <3>2 DEF GInv, Proper, Region, RoomForHalves, Fits
  <2> QED
    BY <2>1
<1> QED
  BY <1>1, <1>2, PTL DEF Spec

-----------------------------------------------------------------------------
(* Theorems *)

\* The mode of a window is the region it covers, for every screen and every
\* argument of the calls.
THEOREM ModeCorrect == Spec => []ModeIsRegion
<1>1. GInv => ModeIsRegion
  BY DEF GInv, Proper, Region, ModeIsRegion
<1> QED
  BY <1>1, SpecGInv, PTL

\* A window that stops floating comes back where it floated, on every screen
\* whose halves clamp() leaves alone.
THEOREM GeometryComesBack ==
    ASSUME RoomForHalves
    PROVE  Spec => GeometryRemembered
<1> DEFINE Step == \A s \in Slots :
             LET w == win[s]
                 v == win'[s]
             IN  w.visible /\ v.visible /\ w.id = v.id =>
                   /\ Floating(w) /\ ~Floating(v) => v.restore = w.rect
                   /\ Away(w) /\ ~Floating(v) => v.restore = w.restore
                   /\ w.state = "Minimized" /\ Floating(v) => v.rect = w.restore
<1>1. GInv /\ [Next]_vars => [Step]_vars
  BY NextKept DEF Kept, Settled, Remembers
<1> QED
  BY <1>1, SpecGInv, PTL DEF Spec, GeometryRemembered

\* The controls of a title bar can be reached with the pointer, on every
\* screen whose halves are not below the minimum size of a window.
THEOREM ControlsInReach ==
    ASSUME RoomForHalves
    PROVE  Spec => []ControlsReachable
<1>1. ASSUME GInv PROVE ControlsReachable
  <2> SUFFICES ASSUME NEW s \in Shown(win), win[s].state # "Fullscreen",
                      NEW kc \in {<<1, "Close">>, <<43, "Maximize">>,
                                  <<126, "Minimize">>}
               PROVE  LET px == win[s].rect.x + win[s].rect.w - kc[1]
                          py == win[s].rect.y + 21
                      IN  /\ px \in 0..(ScreenW - 1) /\ py \in 0..(ScreenH - 1)
                          /\ HitTest(win[s], px, py) = kc[2]
    BY DEF ControlsReachable
  <2> DEFINE r == win[s].rect
  <2>1. /\ win[s].visible /\ win[s].state # "Minimized"
        /\ Proper(win[s]) /\ Inside(r) /\ r \in Rect
    BY <1>1 DEF Shown, GInv, IInv, TableOK, Proper, Window
  <2>2. r.w >= 280 /\ r.h >= 180
    <3>1. Clamp(r) = r
      BY <2>1 DEF Proper, Fits
    <3>2. Clamp(r).w >= 280 /\ Clamp(r).h >= 180
      BY <2>1, ScreenAssumption
         DEF Clamp, AtLeast, AtMost, MinW, MinH, Rect, RoomForHalves
    <3> QED
      BY <3>1, <3>2
  <2> QED
    BY <2>1, <2>2, ScreenAssumption DEF HitTest, Inside, Rect
<1> QED
  BY <1>1, SpecGInv, PTL

-----------------------------------------------------------------------------
(***************************************************************************)
(* Stacking: the focused window is the topmost one, and the window manager *)
(* implements FocusOrder.  Both need the stacking counter to stay below    *)
(* its wrap, NoWrap.                                                       *)
(***************************************************************************)

NoWrap == MaxZ < ZWord

\* Stacking numbers are distinct and all in the past of the counter.
Stacked(ws, others, z) ==
    /\ \A t \in others : ws[t].z < z
    /\ \A t, u \in others : t # u => ws[t].z # ws[u].z

SInv ==
    /\ IInv
    /\ Stacked(win, LiveSlots, next_z)
    /\ FocusedIsTopmost

-----------------------------------------------------------------------------
(* Raising *)

\* A raised window is above all others, whose order is as it was.
LEMMA RaiseStacks ==
    ASSUME NoWrap, next_z \in 0..(ZWord - 1),
           NEW ws, NEW n \in Nat, TableOK(ws, n),
           NEW s \in Shown(ws), NEW z \in {next_z, Inc(next_z)},
           Stacked(ws, Visible(ws) \ {s}, next_z), Raise(ws, s, z)
    PROVE  /\ Stacked(win', LiveSlots', next_z')
           /\ FocusedIsTopmost'
           /\ LiveSlots' = Visible(ws)
           /\ \A t \in Slots : /\ win'[t].id = ws[t].id
                               /\ win'[t].state = ws[t].state
           /\ \A t \in Visible(ws) \ {s} : win'[t].z < win'[s].z
           /\ \A t, u \in Visible(ws) \ {s} :
                win'[t].z < win'[u].z <=> ws[t].z < ws[u].z
<1>1. s \in Slots /\ ws[s].visible /\ ws[s].state # "Minimized"
  BY DEF Shown
<1>2. z \in Nat /\ z >= next_z /\ next_z' = z + 1
  <2>1. next_z < MaxZ /\ z < MaxZ /\ next_z' = Inc(z)
    BY DEF Raise
  <2>2. next_z + 1 # ZWord
    BY <2>1, ZAssumption DEF NoWrap
  <2>3. Inc(next_z) = next_z + 1
    BY <2>2 DEF Inc
  <2>4. z \in Nat /\ z >= next_z
    BY <2>3, ZAssumption
  <2>5. z + 1 # ZWord
    BY <2>1, <2>4, ZAssumption DEF NoWrap
  <2> QED
    BY <2>1, <2>4, <2>5 DEF Inc
<1>3. \A t \in Slots :
         /\ win'[t].visible = ws[t].visible /\ win'[t].id = ws[t].id
         /\ win'[t].state = ws[t].state
         /\ win'[t].z = IF t = s THEN z ELSE ws[t].z
  BY DEF Raise, TableOK, Window
<1>4. LiveSlots' = Visible(ws)
  BY <1>3 DEF LiveSlots, Visible
<1>5. \A t \in Visible(ws) : ws[t].z \in Nat
  BY DEF Visible, TableOK, Window
<1>6. \A t \in Visible(ws) \ {s} : win'[t].z < win'[s].z
  BY <1>1, <1>2, <1>3, <1>5, ZAssumption DEF Stacked, Visible
<1>7. Stacked(win', LiveSlots', next_z')
  BY <1>1, <1>2, <1>3, <1>4, <1>5, <1>6, ZAssumption DEF Stacked, Visible
<1>8. Shown(win') \subseteq LiveSlots'
  BY DEF Shown, LiveSlots
<1>9. focused' = ws[s].id
  BY DEF Raise
<1>10. FocusedIsTopmost'
  <2> SUFFICES ASSUME NEW t \in Shown(win'), NEW u \in Shown(win'),
                      win'[t].id = focused', u # t
               PROVE  win'[u].z < win'[t].z
    BY DEF FocusedIsTopmost
  <2>1. t = s
    BY <1>1, <1>3, <1>9 DEF TableOK, Shown
  <2> QED
    BY <2>1, <1>4, <1>6, <1>8
<1> QED
  BY <1>3, <1>4, <1>6, <1>7, <1>10 DEF Visible

\* The pairs of Below, read by slot.
LEMMA BelowBySlot ==
    IInv => \A s, t \in LiveSlots :
              <<win[s].id, win[t].id>> \in Below <=> win[s].z < win[t].z
BY SlotsAssumption DEF Below, LiveSlots, IInv, TableOK, Ids

\* Live ids are ids, the order is on them, and an id is in one live slot.
LEMMA IdsAreSlots ==
    IInv => /\ IdsOf(LiveSlots) \subseteq Ids
            /\ Below \subseteq IdsOf(LiveSlots) \X IdsOf(LiveSlots)
            /\ \A s, t \in LiveSlots : win[s].id = win[t].id => s = t
BY SlotsAssumption DEF IdsOf, Below, LiveSlots, IInv, TableOK, Ids

\* FocusOrder counts with the same operator.
LEMMA SameCount == ASSUME NEW S PROVE Order!Cardinality(S) = Cardinality(S)
BY DEF Order!Cardinality, Cardinality

\* As many windows as live slots, and the loop of open() finds a free slot as
\* long as there are fewer than slots.
LEMMA FullWhenNoSlot ==
    ASSUME IInv
    PROVE  RefusedWhenFull
<1>1. LiveSlots = Visible(win) /\ LiveSlots \in SUBSET Slots
  BY DEF LiveSlots, Visible
<1>2. /\ IsFiniteSet(Slots) /\ Cardinality(Slots) = MaxWindows
      /\ IsFiniteSet(LiveSlots) /\ Cardinality(LiveSlots) \in 0..MaxWindows
  BY <1>1, SlotsFinite, FS_Interval, SlotsAssumption DEF Slots
<1>3. Cardinality(IdsOf(LiveSlots)) = Cardinality(LiveSlots)
  <2> DEFINE f == [s \in LiveSlots |-> win[s].id]
  <2>1. f \in [LiveSlots -> IdsOf(LiveSlots)]
        /\ \A i \in IdsOf(LiveSlots) : \E s \in LiveSlots : f[s] = i
    BY DEF IdsOf
  <2>2. \A s, t \in LiveSlots : f[s] = f[t] => s = t
    BY IdsAreSlots
  <2> HIDE DEF f
  <2>3. f \in Bijection(LiveSlots, IdsOf(LiveSlots))
    BY <2>1, <2>2 DEF Bijection, Injection, Surjection, IsInjective
  <2>4. ExistsBijection(LiveSlots, IdsOf(LiveSlots))
    BY <2>3 DEF ExistsBijection
  <2> QED
    BY <2>4, <1>2, FS_Bijection
<1>4. Order!Full <=> LiveSlots = Slots
  <2>1. Cardinality(LiveSlots) >= MaxWindows <=> LiveSlots = Slots
    BY <1>1, <1>2, FS_Subset, SlotsAssumption
  <2> QED
    BY <2>1, <1>3, SameCount DEF Order!Full
<1>5. ASSUME LiveSlots # Slots PROVE FreeSlot(win) # {}
  <2>1. /\ Slots \ LiveSlots \subseteq Nat /\ Slots \ LiveSlots # {}
    <3>1. Slots \subseteq Nat
      BY SlotsAssumption DEF Slots
    <3> QED
      BY <3>1, <1>1, <1>5
  <2>2. PICK s \in Slots \ LiveSlots : \A t \in Slots \ LiveSlots : s <= t
    BY <2>1, LeastElement
  <2>3. \A t \in 1..(s - 1) : t \in Slots /\ t < s
    BY <2>2, SlotsAssumption DEF Slots
  <2>4. s \in FreeSlot(win)
    BY <2>2, <2>3, SlotsAssumption DEF FreeSlot, LiveSlots, Slots
  <2> QED
    BY <2>4
<1>6. ASSUME LiveSlots = Slots PROVE FreeSlot(win) = {}
  BY <1>6 DEF FreeSlot, LiveSlots
<1> QED
  BY <1>4, <1>5, <1>6 DEF RefusedWhenFull

\* When slot s went above the others, and those were live before and kept
\* their ids and their order, the abstract order has its id brought on top.
LEMMA RaisedBelow ==
    ASSUME IInv, IInv', NEW s \in LiveSlots',
           \A t \in LiveSlots' \ {s} : t \in LiveSlots /\ win'[t].id = win[t].id,
           \A t \in LiveSlots' \ {s} : win'[t].z < win'[s].z,
           \A t, u \in LiveSlots' \ {s} :
             win'[t].z < win'[u].z <=> win[t].z < win[u].z
    PROVE  Below' = Order!OnTop(win'[s].id, IdsOf(LiveSlots)')
<1> DEFINE x == win'[s].id
           L == IdsOf(LiveSlots)'
<1>1. /\ L \subseteq Ids /\ Below' \subseteq L \X L
      /\ \A t, u \in LiveSlots' : win'[t].id = win'[u].id => t = u
  BY SlotsAssumption DEF IdsOf, Below, LiveSlots, IInv, TableOK, Ids
<1>2. \A t, u \in LiveSlots' :
         <<win'[t].id, win'[u].id>> \in Below' <=> win'[t].z < win'[u].z
  BY SlotsAssumption DEF Below, LiveSlots, IInv, TableOK, Ids
<1>3. \A t, u \in LiveSlots :
         <<win[t].id, win[u].id>> \in Below <=> win[t].z < win[u].z
  BY BelowBySlot
<1>4. \A a \in L : \E t \in LiveSlots' : a = win'[t].id
  BY DEF IdsOf
<1>5. \A t \in LiveSlots' : win'[t].id \in L
  BY DEF IdsOf
<1>6. \A a, b \in L :
         <<a, b>> \in Below' <=>
           \/ a # x /\ b # x /\ <<a, b>> \in Below
           \/ a # x /\ b = x
  <2> SUFFICES ASSUME NEW a \in L, NEW b \in L
               PROVE  <<a, b>> \in Below' <=>
                        \/ a # x /\ b # x /\ <<a, b>> \in Below
                        \/ a # x /\ b = x
    OBVIOUS
  <2>1. PICK t \in LiveSlots', u \in LiveSlots' : a = win'[t].id /\ b = win'[u].id
    BY <1>4
  <2>2. (a = x <=> t = s) /\ (b = x <=> u = s)
    BY <1>1, <2>1
  <2>3. <<a, b>> \in Below' <=> win'[t].z < win'[u].z
    BY <1>2, <2>1
  <2>4. win'[t].z \in Nat /\ win'[u].z \in Nat /\ win'[s].z \in Nat
    BY DEF LiveSlots, IInv, TableOK, Window
  <2>5. CASE t = s
    BY <2>2, <2>3, <2>4, <2>5
  <2>6. CASE t # s /\ u = s
    BY <2>2, <2>3, <2>4, <2>6
  <2>7. CASE t # s /\ u # s
    <3>1. <<a, b>> \in Below <=> win[t].z < win[u].z
      BY <1>3, <2>1, <2>7
    <3> QED
      BY <2>2, <2>3, <2>7, <3>1
  <2> QED
    BY <2>5, <2>6, <2>7
<1>7. x \in L
  BY <1>5
<1>8. Below' = {p \in Below : p[1] \in L /\ p[2] \in L /\ p[1] # x /\ p[2] # x}
               \cup ((L \ {x}) \X {x})
  <2> DEFINE R == {p \in Below : p[1] \in L /\ p[2] \in L
                                 /\ p[1] # x /\ p[2] # x}
                  \cup ((L \ {x}) \X {x})
  <2>1. Below \subseteq Ids \X Ids
    BY DEF Below
  <2>2. ASSUME NEW p \in Below' PROVE p \in R
    <3>1. p \in L \X L
      BY <1>1, <2>2
    <3>2. p = <<p[1], p[2]>> /\ p[1] \in L /\ p[2] \in L
      BY <3>1
    <3> QED
      BY <1>6, <2>2, <3>2
  <2>3. ASSUME NEW p \in R PROVE p \in Below'
    <3>1. p = <<p[1], p[2]>> /\ p[1] \in L /\ p[2] \in L
      BY <1>7, <2>1, <2>3
    <3> QED
      BY <1>6, <2>3, <3>1
  <2> QED
    BY <2>2, <2>3
<1> QED
  BY <1>8 DEF Order!OnTop

\* When the live slots only shrank and every one left kept id and stacking
\* number, the abstract order is the old one on the ids that are left.
LEMMA KeptBelow ==
    ASSUME IInv, IInv', LiveSlots' \subseteq LiveSlots,
           \A t \in LiveSlots' : win'[t].id = win[t].id /\ win'[t].z = win[t].z
    PROVE  Below' = {p \in Below : p[1] \in IdsOf(LiveSlots)'
                                   /\ p[2] \in IdsOf(LiveSlots)'}
<1> DEFINE L == IdsOf(LiveSlots)'
<1>1. Below' \subseteq L \X L /\ Below \subseteq Ids \X Ids /\ L \subseteq Ids
  BY SlotsAssumption DEF IdsOf, Below, LiveSlots, IInv, TableOK, Ids
<1>2. \A t, u \in LiveSlots' :
         <<win'[t].id, win'[u].id>> \in Below' <=> win'[t].z < win'[u].z
  BY SlotsAssumption DEF Below, LiveSlots, IInv, TableOK, Ids
<1>3. \A t, u \in LiveSlots :
         <<win[t].id, win[u].id>> \in Below <=> win[t].z < win[u].z
  BY BelowBySlot
<1>4. \A a, b \in L : <<a, b>> \in Below' <=> <<a, b>> \in Below
  <2> SUFFICES ASSUME NEW a \in L, NEW b \in L
               PROVE  <<a, b>> \in Below' <=> <<a, b>> \in Below
    OBVIOUS
  <2>1. PICK t \in LiveSlots', u \in LiveSlots' : a = win'[t].id /\ b = win'[u].id
    BY DEF IdsOf
  <2> QED
    BY <2>1, <1>2, <1>3
<1>5. ASSUME NEW p \in Below'
      PROVE  p \in Below /\ p[1] \in L /\ p[2] \in L
  <2>1. p \in L \X L
    BY <1>1, <1>5
  <2>2. p = <<p[1], p[2]>> /\ p[1] \in L /\ p[2] \in L
    BY <2>1
  <2> QED
    BY <1>4, <1>5, <2>2
<1>6. ASSUME NEW p \in Below, p[1] \in L, p[2] \in L
      PROVE  p \in Below'
  <2>1. p = <<p[1], p[2]>>
    BY <1>1, <1>6
  <2> QED
    BY <1>4, <1>6, <2>1
<1> QED
  BY <1>5, <1>6

-----------------------------------------------------------------------------
(* One lemma per kind of step: the invariant, and the abstract action *)

LEMMA ShowsRefines ==
    ASSUME NoWrap, SInv, NEW id \in Ids, PutShown(id)
    PROVE  SInv' /\ Order!AbsRaise(id)
<1>1. IInv /\ IInv'
  BY PutStep DEF SInv
<1>2. PICK s \in Find(id), w \in Window, z \in {next_z, Inc(next_z)} :
         Replaces(w, win[s]) /\ w.state # "Minimized" /\ Put(s, w, z)
  BY DEF PutShown
<1> DEFINE ws == [win EXCEPT ![s] = w]
<1>3. s \in LiveSlots /\ s \in Slots /\ win[s].visible /\ win[s].id = id
  BY DEF Find, LiveSlots
<1>4. TableOK(win, next_id) /\ next_id \in Nat /\ next_z \in 0..(ZWord - 1)
  BY <1>1, SlotsAssumption DEF IInv
<1>5. TableOK(ws, next_id) /\ Visible(ws) = LiveSlots
  BY <1>2, <1>3, <1>4, ReplaceTable DEF Visible, LiveSlots
<1>6. ws[s] = w /\ \A t \in Slots \ {s} : ws[t] = win[t]
  BY <1>3, <1>4 DEF TableOK
<1>7. Raise(ws, s, z) /\ UNCHANGED <<count, next_id>>
  BY <1>2 DEF Put
<1>8. s \in Shown(ws)
  BY <1>2, <1>3, <1>6 DEF Shown, Replaces
<1>9. Stacked(ws, Visible(ws) \ {s}, next_z)
  BY <1>5, <1>6 DEF SInv, Stacked, LiveSlots
<1>10. \A t \in Slots : ws[t].id = win[t].id
  BY <1>2, <1>6 DEF Replaces
<1>11. \A t \in Slots \ {s} : ws[t].state = win[t].state /\ ws[t].z = win[t].z
  BY <1>6
<1> HIDE DEF ws
<1>12. /\ Stacked(win', LiveSlots', next_z')
       /\ FocusedIsTopmost'
       /\ LiveSlots' = LiveSlots
       /\ \A t \in Slots : win'[t].id = ws[t].id /\ win'[t].state = ws[t].state
       /\ \A t \in LiveSlots \ {s} : win'[t].z < win'[s].z
       /\ \A t, u \in LiveSlots \ {s} :
            win'[t].z < win'[u].z <=> ws[t].z < ws[u].z
  BY <1>4, <1>5, <1>7, <1>8, <1>9, RaiseStacks
<1>13. IdsOf(LiveSlots)' = IdsOf(LiveSlots)
  BY <1>10, <1>12 DEF IdsOf, LiveSlots
<1>14. IdsOf(HiddenSlots)' = IdsOf(HiddenSlots) \ {id}
  <2>1. HiddenSlots' = HiddenSlots \ {s}
    BY <1>6, <1>8, <1>11, <1>12 DEF HiddenSlots, LiveSlots, Shown
  <2>2. \A t \in LiveSlots : win[t].id = id => t = s
    BY <1>1, <1>3, IdsAreSlots
  <2> QED
    BY <2>1, <2>2, <1>3, <1>10, <1>12 DEF IdsOf, HiddenSlots, LiveSlots
<1>15. Below' = Order!OnTop(id, IdsOf(LiveSlots))
  <2>1. \A t \in LiveSlots' \ {s} : t \in LiveSlots /\ win'[t].id = win[t].id
    BY <1>10, <1>12 DEF LiveSlots
  <2>2. \A t, u \in LiveSlots' \ {s} :
           win'[t].z < win'[u].z <=> win[t].z < win[u].z
    BY <1>11, <1>12 DEF LiveSlots
  <2>3. s \in LiveSlots' /\ win'[s].id = id
    BY <1>3, <1>10, <1>12
  <2>4. Below' = Order!OnTop(win'[s].id, IdsOf(LiveSlots)')
    BY <1>1, <1>12, <2>1, <2>2, <2>3, RaisedBelow
  <2> QED
    BY <2>3, <2>4, <1>13
<1>16. focused' = id
  BY <1>3, <1>7, <1>10 DEF Raise
<1>17. id \in IdsOf(LiveSlots)
  BY <1>3 DEF IdsOf
<1>18. Order!AbsRaise(id)
  BY <1>7, <1>13, <1>14, <1>15, <1>16, <1>17 DEF Order!AbsRaise
<1> QED
  BY <1>1, <1>12, <1>18 DEF SInv

LEMMA OpenRefines ==
    ASSUME NoWrap, SInv, NEW width \in Extents, NEW height \in Extents,
           Open(width, height)
    PROVE  SInv' /\ Order!AbsOpen
<1>1. IInv /\ IInv'
  BY OpenStep DEF SInv
<1>2. PICK s \in FreeSlot(win), w \in NewWindows :
         /\ next_id <= MaxId
         /\ TableOK([win EXCEPT ![s] = w], next_id + 1)
         /\ Raise([win EXCEPT ![s] = w], s, next_z)
         /\ next_id' = next_id + 1
         /\ count' = count + 1
  BY <1>1, OpenShape
<1> DEFINE ws == [win EXCEPT ![s] = w]
<1>3. s \in Slots /\ ~win[s].visible /\ s \notin LiveSlots
  BY DEF FreeSlot, LiveSlots
<1>4. /\ win \in [Slots -> Window] /\ next_id \in Nat \ {0}
      /\ next_z \in 0..(ZWord - 1)
  BY <1>1, SlotsAssumption DEF IInv, TableOK
<1>5. ws[s] = w /\ \A t \in Slots \ {s} : ws[t] = win[t]
  BY <1>3, <1>4
<1>6. Visible(ws) = LiveSlots \cup {s} /\ s \in Shown(ws)
  BY <1>3, <1>5 DEF Visible, LiveSlots, Shown, NewWindows
<1>7. Visible(ws) \ {s} = LiveSlots
  BY <1>3, <1>6
<1>8. Stacked(ws, Visible(ws) \ {s}, next_z)
  BY <1>3, <1>5, <1>7 DEF SInv, Stacked, LiveSlots
<1>9. TableOK(ws, next_id + 1) /\ Raise(ws, s, next_z) /\ w.id = next_id
      /\ w.state = "Normal"
  BY <1>2 DEF NewWindows
<1> HIDE DEF ws
<1>10. /\ Stacked(win', LiveSlots', next_z')
       /\ FocusedIsTopmost'
       /\ LiveSlots' = LiveSlots \cup {s}
       /\ \A t \in Slots : win'[t].id = ws[t].id /\ win'[t].state = ws[t].state
       /\ \A t \in LiveSlots : win'[t].z < win'[s].z
       /\ \A t, u \in LiveSlots :
            win'[t].z < win'[u].z <=> ws[t].z < ws[u].z
  BY <1>4, <1>6, <1>7, <1>8, <1>9, RaiseStacks
<1>11. win'[s].id = next_id
       /\ \A t \in LiveSlots : win'[t].id = win[t].id
                               /\ win'[t].state = win[t].state
  BY <1>3, <1>5, <1>9, <1>10 DEF LiveSlots
<1>12. IdsOf(LiveSlots)' = IdsOf(LiveSlots) \cup {next_id}
  BY <1>10, <1>11 DEF IdsOf
<1>13. HiddenSlots' = HiddenSlots
  BY <1>3, <1>5, <1>9, <1>10, <1>11 DEF HiddenSlots
<1>14. IdsOf(HiddenSlots)' = IdsOf(HiddenSlots)
  BY <1>11, <1>13 DEF IdsOf, HiddenSlots
<1>15. Below' = Order!OnTop(next_id, IdsOf(LiveSlots)')
  <2>1. \A t \in LiveSlots' \ {s} : t \in LiveSlots /\ win'[t].id = win[t].id
    BY <1>10, <1>11
  <2>2. \A t \in LiveSlots' \ {s} : win'[t].z < win'[s].z
    BY <1>10
  <2>3. \A t, u \in LiveSlots' \ {s} :
           win'[t].z < win'[u].z <=> win[t].z < win[u].z
    BY <1>3, <1>5, <1>10 DEF LiveSlots
  <2>4. s \in LiveSlots'
    BY <1>10
  <2>5. Below' = Order!OnTop(win'[s].id, IdsOf(LiveSlots)')
    BY <1>1, <2>1, <2>2, <2>3, <2>4, RaisedBelow
  <2> QED
    BY <1>11, <2>5
<1>16. focused' = next_id
  BY <1>5, <1>9 DEF Raise
<1>17. ~Order!Full /\ next_id \in Ids /\ next_id' = next_id + 1
  BY <1>1, <1>2, <1>4, SlotsAssumption, FullWhenNoSlot
  DEF Ids, RefusedWhenFull
<1>18. Order!AbsOpen
  BY <1>12, <1>14, <1>15, <1>16, <1>17 DEF Order!AbsOpen
<1> QED
  BY <1>1, <1>10, <1>18 DEF SInv

\* Close and minimize move the focus and the order as the promise says.
LEMMA LeaveRefines ==
    ASSUME NoWrap, SInv, NEW s \in LiveSlots, NEW ws, Leaves(s, ws)
    PROVE  /\ SInv'
           /\ LiveSlots' = Visible(ws)
           /\ \A t \in Slots : win'[t].id = ws[t].id /\ win'[t].state = ws[t].state
           /\ Order!Refocus(win[s].id)
<1>1. /\ IInv' /\ TableOK(ws, next_id)
      /\ \A t \in Slots \ {s} : ws[t] = win[t]
      /\ s \notin Shown(ws)
      /\ ws[s].visible => ws[s].id = win[s].id /\ ws[s].z = win[s].z
      /\ IF focused = win[s].id
           THEN FocusTopmost(ws)
           ELSE win' = ws /\ UNCHANGED <<next_z, focused>>
  BY LeaveStep DEF SInv, LiveSlots, Leaves
<1>2. /\ IInv /\ TableOK(win, next_id) /\ next_id \in Nat
      /\ next_z \in 0..(ZWord - 1)
  BY SlotsAssumption DEF SInv, IInv
<1>3. /\ Visible(ws) \subseteq LiveSlots
      /\ \A t \in Visible(ws) : ws[t].id = win[t].id /\ ws[t].z = win[t].z
  BY <1>1 DEF Visible, LiveSlots
<1>4. Shown(ws) \subseteq Visible(ws) /\ Shown(ws) \subseteq Shown(win)
  BY <1>1 DEF Shown, Visible
<1>5. Stacked(ws, Visible(ws), next_z)
  BY <1>3 DEF Stacked, SInv
<1>6. IdsOf(LiveSlots)' = {win'[t].id : t \in LiveSlots'}
  BY DEF IdsOf
<1>7. IdsOf(LiveSlots)' \ IdsOf(HiddenSlots)' = {win'[t].id : t \in Shown(win')}
  <2>1. \A t, u \in LiveSlots' : win'[t].id = win'[u].id => t = u
    BY <1>1 DEF LiveSlots, IInv, TableOK
  <2>2. Shown(win') = LiveSlots' \ HiddenSlots' /\ HiddenSlots' \subseteq LiveSlots'
    BY DEF Shown, LiveSlots, HiddenSlots
  <2>3. IdsOf(HiddenSlots)' = {win'[t].id : t \in HiddenSlots'}
    BY DEF IdsOf
  <2> QED
    BY <1>6, <2>1, <2>2, <2>3
<1>8. CASE focused # win[s].id
  <2>1. win' = ws /\ next_z' = next_z /\ focused' = focused
    BY <1>1, <1>8
  <2>2. LiveSlots' = Visible(ws)
    BY <2>1 DEF LiveSlots, Visible
  <2>3. Stacked(win', LiveSlots', next_z')
    BY <1>5, <2>1, <2>2
  <2>4. FocusedIsTopmost'
    BY <1>3, <1>4, <2>1 DEF FocusedIsTopmost, SInv
  <2>5. Below' = {p \in Below : p[1] \in IdsOf(LiveSlots)'
                                /\ p[2] \in IdsOf(LiveSlots)'}
    BY <1>1, <1>2, <1>3, <2>1, <2>2, KeptBelow
  <2>6. Order!Refocus(win[s].id)
    BY <1>8, <2>1, <2>5 DEF Order!Refocus
  <2> QED
    BY <1>1, <2>1, <2>2, <2>3, <2>4, <2>6 DEF SInv
<1>9. CASE focused = win[s].id /\ \E t \in Topmost(ws) : Raise(ws, t, next_z)
  <2>1. PICK t \in Topmost(ws) : Raise(ws, t, next_z)
    BY <1>9
  <2>2. t \in Shown(ws) /\ \A u \in Shown(ws) : u # t => ws[u].z < ws[t].z
    <3>1. t \in Shown(ws)
          /\ \A u \in Shown(ws) : ws[u].z < ws[t].z \/ ws[u].z = ws[t].z
      BY DEF Topmost
    <3> QED
      BY <1>4, <1>5, <3>1 DEF Stacked
  <2>3. Stacked(ws, Visible(ws) \ {t}, next_z)
    BY <1>5 DEF Stacked
  <2>4. /\ Stacked(win', LiveSlots', next_z')
        /\ FocusedIsTopmost'
        /\ LiveSlots' = Visible(ws)
        /\ \A u \in Slots : win'[u].id = ws[u].id /\ win'[u].state = ws[u].state
        /\ \A u \in Visible(ws) \ {t} : win'[u].z < win'[t].z
        /\ \A u, v \in Visible(ws) \ {t} :
             win'[u].z < win'[v].z <=> ws[u].z < ws[v].z
    BY <1>1, <1>2, <2>1, <2>2, <2>3, RaiseStacks
  <2>5. \A u \in LiveSlots' : win'[u].id = win[u].id
    BY <1>3, <2>4 DEF Visible
  <2>6. Below' = Order!OnTop(win'[t].id, IdsOf(LiveSlots)')
    <3>1. \A u \in LiveSlots' \ {t} : u \in LiveSlots /\ win'[u].id = win[u].id
      BY <1>3, <2>4, <2>5
    <3>2. \A u, v \in LiveSlots' \ {t} :
             win'[u].z < win'[v].z <=> win[u].z < win[v].z
      BY <1>3, <2>4
    <3>3. t \in LiveSlots' /\ \A u \in LiveSlots' \ {t} : win'[u].z < win'[t].z
      BY <1>4, <2>2, <2>4
    <3> QED
      BY <1>1, <1>2, <3>1, <3>2, <3>3, RaisedBelow
  <2>7. focused' = win'[t].id
    BY <1>4, <2>1, <2>2, <2>4 DEF Raise, Shown
  <2>8. Shown(win') = Shown(ws)
    BY <1>4, <2>4 DEF Shown, Visible, LiveSlots
  <2>9. win'[t].id \in Order!Top
    <3>1. win'[t].id \in IdsOf(LiveSlots)' \ IdsOf(HiddenSlots)'
      BY <1>7, <2>2, <2>8
    <3>2. ASSUME NEW a \in IdsOf(LiveSlots)' \ IdsOf(HiddenSlots)',
                 a # win'[t].id
          PROVE  <<a, win'[t].id>> \in Below
      <4>1. PICK u \in Shown(ws) : a = win'[u].id
        BY <1>7, <2>8
      <4>2. u # t /\ ws[u].z < ws[t].z
        BY <2>2, <3>2, <4>1
      <4>3. u \in LiveSlots /\ t \in LiveSlots
            /\ win'[u].id = win[u].id /\ win'[t].id = win[t].id
            /\ win[u].z < win[t].z
        BY <1>3, <1>4, <2>2, <2>4, <2>5, <4>2
      <4> QED
        BY <1>2, <4>1, <4>3, BelowBySlot
    <3> QED
      BY <3>1, <3>2 DEF Order!Top
  <2>10. Order!Refocus(win[s].id)
    BY <1>9, <2>6, <2>7, <2>9 DEF Order!Refocus
  <2> QED
    BY <1>1, <2>4, <2>10 DEF SInv
<1>10. CASE /\ focused = win[s].id
           /\ Shown(ws) = {}
           /\ win' = [t \in Slots |-> [ws[t] EXCEPT !.focused = FALSE]]
           /\ focused' = 0
           /\ UNCHANGED next_z
  <2>1. \A t \in Slots :
           /\ win'[t].visible = ws[t].visible /\ win'[t].id = ws[t].id
           /\ win'[t].state = ws[t].state /\ win'[t].z = ws[t].z
    BY <1>1, <1>10 DEF TableOK, Window
  <2>2. LiveSlots' = Visible(ws) /\ Shown(win') = {}
    BY <1>10, <2>1 DEF LiveSlots, Visible, Shown
  <2>3. Stacked(win', LiveSlots', next_z')
    <3>1. \A t \in LiveSlots' : t \in Visible(ws) /\ win'[t].z = ws[t].z
      BY <2>1, <2>2 DEF Visible
    <3>2. next_z' = next_z
      BY <1>10
    <3> QED
      BY <1>5, <3>1, <3>2 DEF Stacked
  <2>4. FocusedIsTopmost'
    BY <2>2 DEF FocusedIsTopmost
  <2>5. Below' = {p \in Below : p[1] \in IdsOf(LiveSlots)'
                                /\ p[2] \in IdsOf(LiveSlots)'}
    BY <1>1, <1>2, <1>3, <2>1, <2>2, KeptBelow DEF Visible
  <2>6. IdsOf(LiveSlots)' \ IdsOf(HiddenSlots)' = {}
    BY <1>7, <2>2
  <2>7. Order!Refocus(win[s].id)
    BY <1>10, <2>5, <2>6 DEF Order!Refocus
  <2> QED
    BY <1>1, <2>1, <2>2, <2>3, <2>4, <2>7 DEF SInv
<1> QED
  BY <1>1, <1>8, <1>9, <1>10 DEF FocusTopmost

LEMMA CloseRefines ==
    ASSUME NoWrap, SInv, NEW id \in Ids, Close(id)
    PROVE  SInv' /\ Order!AbsClose(id)
<1>1. PICK s \in Find(id), ws \in [Slots -> Window] :
         Leaves(s, ws) /\ ~ws[s].visible
  BY CloseShape DEF SInv
<1>2. s \in LiveSlots /\ win[s].id = id
  BY DEF Find, LiveSlots
<1>3. /\ SInv'
      /\ LiveSlots' = Visible(ws)
      /\ \A t \in Slots : win'[t].id = ws[t].id /\ win'[t].state = ws[t].state
      /\ Order!Refocus(id)
  BY <1>1, <1>2, LeaveRefines
<1>4. \A t \in Slots \ {s} : ws[t] = win[t]
  BY <1>1 DEF Leaves
<1>5. LiveSlots' = LiveSlots \ {s} /\ HiddenSlots' = HiddenSlots \ {s}
  BY <1>1, <1>3, <1>4 DEF LiveSlots, HiddenSlots, Visible
<1>6. \A t \in LiveSlots : win[t].id = win[s].id => t = s
  BY <1>2, IdsAreSlots DEF SInv
<1>7. /\ IdsOf(LiveSlots)' = IdsOf(LiveSlots) \ {id}
      /\ IdsOf(HiddenSlots)' = IdsOf(HiddenSlots) \ {id}
  <2>1. \A t \in LiveSlots \ {s} : win'[t].id = win[t].id
    BY <1>3, <1>4 DEF LiveSlots
  <2>2. HiddenSlots \subseteq LiveSlots
    BY DEF HiddenSlots
  <2> QED
    BY <1>2, <1>5, <1>6, <2>1, <2>2 DEF IdsOf
<1>8. id \in IdsOf(LiveSlots)
  BY <1>2 DEF IdsOf
<1>9. UNCHANGED next_id
  BY DEF Close
<1> QED
  BY <1>3, <1>7, <1>8, <1>9 DEF Order!AbsClose

LEMMA MinimizeRefines ==
    ASSUME NoWrap, SInv, NEW id \in Ids, Minimize(id)
    PROVE  SInv' /\ Order!AbsHide(id)
<1>1. PICK s \in Find(id), ws \in [Slots -> Window] :
         Leaves(s, ws) /\ ws[s].visible
  BY MinimizeShape DEF SInv
<1>2. s \in LiveSlots /\ win[s].id = id /\ s \in Slots
  BY DEF Find, LiveSlots
<1>3. /\ SInv'
      /\ LiveSlots' = Visible(ws)
      /\ \A t \in Slots : win'[t].id = ws[t].id /\ win'[t].state = ws[t].state
      /\ Order!Refocus(id)
  BY <1>1, <1>2, LeaveRefines
<1>4. /\ \A t \in Slots \ {s} : ws[t] = win[t]
      /\ ws[s].id = id /\ ws[s].state = "Minimized"
  BY <1>1, <1>2 DEF Leaves, Shown
<1>5. LiveSlots' = LiveSlots /\ HiddenSlots' = HiddenSlots \cup {s}
  BY <1>1, <1>2, <1>3, <1>4 DEF LiveSlots, HiddenSlots, Visible
<1>6. \A t \in LiveSlots : win'[t].id = win[t].id
  BY <1>2, <1>3, <1>4 DEF LiveSlots
<1>7. /\ IdsOf(LiveSlots)' = IdsOf(LiveSlots)
      /\ IdsOf(HiddenSlots)' = IdsOf(HiddenSlots) \cup {id}
  <2>1. HiddenSlots \subseteq LiveSlots
    BY DEF HiddenSlots
  <2> QED
    BY <1>2, <1>5, <1>6, <2>1 DEF IdsOf
<1>8. id \in IdsOf(LiveSlots)
  BY <1>2 DEF IdsOf
<1>9. UNCHANGED next_id
  BY DEF Minimize
<1> QED
  BY <1>3, <1>7, <1>8, <1>9 DEF Order!AbsHide

LEMMA InitRefines == Init => SInv /\ Order!AbsInit
<1> SUFFICES ASSUME Init PROVE SInv /\ Order!AbsInit
  OBVIOUS
<1>1. IInv
  BY InitIInv
<1>2. LiveSlots = {} /\ HiddenSlots = {} /\ Shown(win) = {}
  BY DEF Init, Blank, LiveSlots, HiddenSlots, Shown
<1>3. IdsOf(LiveSlots) = {} /\ IdsOf(HiddenSlots) = {} /\ Below = {}
  BY <1>2 DEF IdsOf, Below
<1>4. SInv
  BY <1>1, <1>2 DEF SInv, Stacked, FocusedIsTopmost
<1> QED
  BY <1>3, <1>4 DEF Order!AbsInit, Init

LEMMA NextRefines ==
    NoWrap /\ SInv /\ [Next]_vars => SInv' /\ [Order!AbsNext]_(Order!absvars)
<1> SUFFICES ASSUME NoWrap, SInv, [Next]_vars
             PROVE  SInv' /\ [Order!AbsNext]_(Order!absvars)
  OBVIOUS
<1>1. CASE UNCHANGED vars
  <2>1. SInv'
    <3>1. IInv'
      BY <1>1, NextIInv DEF SInv
    <3> QED
      BY <1>1, <3>1 DEF SInv, vars, Stacked, LiveSlots, FocusedIsTopmost, Shown
  <2>2. UNCHANGED Order!absvars
    BY <1>1 DEF vars, Order!absvars, IdsOf, LiveSlots, HiddenSlots, Below
  <2> QED
    BY <2>1, <2>2
<1>2. CASE \E width, height \in Extents : Open(width, height)
  BY <1>2, OpenRefines DEF Order!AbsNext
<1>3. ASSUME NEW id \in Ids, Close(id)
      PROVE  SInv' /\ Order!AbsNext
  BY <1>3, CloseRefines DEF Order!AbsNext
<1>4. ASSUME NEW id \in Ids, Minimize(id)
      PROVE  SInv' /\ Order!AbsNext
  BY <1>4, MinimizeRefines DEF Order!AbsNext
<1>5. ASSUME NEW id \in Ids, Shows(id)
      PROVE  SInv' /\ Order!AbsNext
  <2>1. PutShown(id)
    BY <1>5, ShowsShape DEF SInv
  <2> QED
    BY <2>1, ShowsRefines DEF Order!AbsNext
<1> QED
  BY <1>1, <1>2, <1>3, <1>4, <1>5 DEF Next, Shows

-----------------------------------------------------------------------------
(* Theorems *)

\* As long as the stacking counter does not wrap, the window that takes the
\* input is the one drawn on top, after every sequence of calls.
THEOREM FocusOnTop == NoWrap => (Spec => []FocusedIsTopmost)
<1> SUFFICES ASSUME NoWrap PROVE Spec => []FocusedIsTopmost
  OBVIOUS
<1>1. Init => SInv
  BY InitRefines
<1>2. SInv /\ [Next]_vars => SInv'
  BY NextRefines
<1>3. SInv => FocusedIsTopmost
  BY DEF SInv
<1> QED
  BY <1>1, <1>2, <1>3, PTL DEF Spec

\* open() finds a slot as long as there are fewer windows than slots, after
\* every sequence of calls, wrapped or not.
THEOREM OpensWhileRoom == Spec => []RefusedWhenFull
BY SpecIInv, FullWhenNoSlot, PTL

\* As long as the stacking counter does not wrap, the window manager
\* implements FocusOrder: the focus goes to the window last raised among those
\* still shown, no call disturbs the order of the others, and a window is
\* refused only when there is no room for it.
THEOREM KeepsFocusOrder == NoWrap => (Spec => FocusOrderKept)
<1> SUFFICES ASSUME NoWrap PROVE Spec => FocusOrderKept
  OBVIOUS
<1>1. Init => SInv /\ Order!AbsInit
  BY InitRefines
<1>2. SInv /\ [Next]_vars => SInv' /\ [Order!AbsNext]_(Order!absvars)
  BY NextRefines
<1>3. Spec => Order!AbsSpec
  BY <1>1, <1>2, PTL DEF Spec, Order!AbsSpec
<1> QED
  BY <1>3, OpensWhileRoom, PTL DEF FocusOrderKept
=============================================================================
