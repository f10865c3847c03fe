---------------------------- MODULE KernelTables ----------------------------
(***************************************************************************)
(* The tables the kernel keeps for its own use, for TLC: processes,        *)
(* threads, the bootstrap heap, the file system's nodes and the desktop's  *)
(* windows.  They share no variable and no function calls two of them, so  *)
(* a behaviour of one is seen best while the others rest: each behaviour   *)
(* uses one of them, chosen at the start.                                  *)
(***************************************************************************)
EXTENDS ProcessTable, ThreadTable, Heap, Vfs, Desktop

VARIABLE used           \* the table that is used

desktop_vars == <<screen, desk>>

Init ==
    /\ used \in {"processes", "threads", "heap", "files", "desktop"}
    /\ PInit /\ ThreadInit /\ HeapInit /\ VfsInit /\ DesktopInit
    /\ used # "desktop" => screen = CHOOSE s \in Screens : TRUE

Next ==
    /\ UNCHANGED used
    /\ \/ /\ used = "processes" /\ PNext
          /\ UNCHANGED <<thread_vars, heap_vars, vfs_vars, desktop_vars>>
       \/ /\ used = "threads" /\ ThreadNext
          /\ UNCHANGED <<table, heap_vars, vfs_vars, desktop_vars>>
       \/ /\ used = "heap" /\ HeapNext
          /\ UNCHANGED <<table, thread_vars, vfs_vars, desktop_vars>>
       \/ /\ used = "files" /\ VfsNext
          /\ UNCHANGED <<table, thread_vars, heap_vars, desktop_vars>>
       \/ /\ used = "desktop" /\ DesktopNext
          /\ UNCHANGED <<table, thread_vars, heap_vars, vfs_vars>>

vars == <<used, table, thread_vars, heap_vars, vfs_vars, desktop_vars>>

Spec == Init /\ [][Next]_vars
=============================================================================
