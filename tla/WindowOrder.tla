---------------------------- MODULE WindowOrder ----------------------------
(***************************************************************************)
(* The window manager seen as a FocusOrder: a window is its id, the hidden *)
(* windows are the minimised ones, and a window is below another when its  *)
(* stacking number is smaller.                                             *)
(***************************************************************************)
EXTENDS WindowManager

IdsOf(slots) == {win[s].id : s \in slots}
LiveSlots == {s \in Slots : win[s].visible}
HiddenSlots == {s \in LiveSlots : win[s].state = "Minimized"}
Below == {p \in Ids \X Ids :
            \E s, t \in LiveSlots :
                p = <<win[s].id, win[t].id>> /\ win[s].z < win[t].z}

Order == INSTANCE FocusOrder WITH
    Win <- Ids, NoWin <- 0, Room <- MaxWindows, next <- next_id,
    live <- IdsOf(LiveSlots), hidden <- IdsOf(HiddenSlots),
    below <- Below, focus <- focused

\* open() is refused, by the loop that finds no free slot, exactly when the
\* order has no room: a closed window always gives its slot back.
RefusedWhenFull == FreeSlot(win) = {} <=> Order!Full

\* The window manager keeps the focus promise: every call opens, raises,
\* hides or closes one window of the order and moves the focus as promised,
\* or changes nothing a caller can see of it; and of those that change nothing,
\* open() is one only when the order has no room.  It needs the stacking
\* counter not to wrap (MaxZ < ZWord).
FocusOrderKept == Order!AbsSpec /\ []RefusedWhenFull
=============================================================================
