--------------------------- MODULE KernelTablesMC ---------------------------
(***************************************************************************)
(* Instances for TLC: two names of more than 63 characters that begin with *)
(* the same 63, which are a name too, and three screens, the first with    *)
(* room to spare, the second with none for a window beside the first, the  *)
(* third smaller than any window may be.                                   *)
(***************************************************************************)
EXTENDS KernelTables

CutNames == [name \in LongNames |-> "x63"]

SomeScreens == {[width |-> 1024, height |-> 768],
                [width |-> 680, height |-> 500],
                [width |-> 200, height |-> 100]}
=============================================================================
