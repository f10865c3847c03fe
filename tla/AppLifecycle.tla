---------------------------- MODULE AppLifecycle ----------------------------
(***************************************************************************)
(* An application's life through the four registries of the kernel that    *)
(* each keep their own table of it: app_manager (kernel/app_manager.cpp)   *)
(* calls app_runtime (kernel/app_runtime.cpp) and the window manager, and  *)
(* app_runtime calls the process table (ProcessTable) and app_ui           *)
(* (kernel/app_ui.cpp).  A handler's calls all happen in its one step.     *)
(*                                                                         *)
(* Of the window manager only its promise is used, FocusOrder, which the   *)
(* module WindowOrder shows it to keep.                                    *)
(***************************************************************************)
EXTENDS ProcessTable, Sequences

CONSTANTS
    Apps,           \* applications of the registry, all bundled
    NetApps,        \* those of them with requires_network
    MaxRunning,     \* kMaxRunning of app_manager
    MaxRuntime,     \* kMaxProcesses of app_runtime
    MaxSurfaces,    \* kMaxSurfaces of app_ui
    MaxWindows,     \* kMaxWindows of the window manager
    MaxWindowId     \* bound: window ids handed out

ASSUME AppAssumption ==
    /\ NetApps \subseteq Apps
    /\ {MaxRunning, MaxRuntime, MaxSurfaces, MaxWindows, MaxWindowId} \subseteq Nat

VARIABLES
    runtime,        \* app_runtime's g_processes, first g_count entries
    surfaces,       \* app_ui's g_surfaces, first g_count entries
    running,        \* app_manager's g_running entries in use
    run_count,      \* app_manager's g_count
    status,         \* app_manager's g_status
    link,           \* drivers::network::available()
    next_window,    \* the window manager's next id
    live, hidden, below, focus,     \* the windows, see FocusOrder
    strayed         \* history: a window was opened or closed, or a surface
                    \* closed, past app_manager

WindowIds == 1..MaxWindowId
Windows == INSTANCE FocusOrder WITH Win <- WindowIds, NoWin <- 0,
    Room <- MaxWindows, next <- next_window
winvars == <<next_window, live, hidden, below, focus>>
vars == <<table, runtime, surfaces, running, run_count, status, link,
          next_window, live, hidden, below, focus, strayed>>

Entry == [app : Apps, kernel_pid : Nat, state : {"Running", "Suspended"}]
Surface == [id : Apps, focused : BOOLEAN]
Managed == [id : Apps, window : WindowIds]
Statuses == {"ready", "focused", "limit", "network", "refused", "no_window",
             "launched", "closed", "not_running"}

AppsOf(rt) == {rt[i].app : i \in 1..Len(rt)}
SurfaceIds(ss) == {ss[i].id : i \in 1..Len(ss)}
FocusedIds(ss) == {ss[i].id : i \in {j \in 1..Len(ss) : ss[j].focused}}
RunningIds == {r.id : r \in running}

-----------------------------------------------------------------------------
\* Fault for ManagerAgreesWithRuntime: the last entry is not moved.
RemoveLast(seq, i) == SubSeq(seq, 1, Len(seq) - 1)

\* Both registries delete by moving the last entry into the hole.
SwapRemove(seq, i) ==
    SubSeq([seq EXCEPT ![i] = seq[Len(seq)]], 1, Len(seq) - 1)

\* Fault for SurfaceFocusKept: the new surface loses the focus with the others.
SurfaceOpenedUnfocused(ss, app) ==
    IF app \in SurfaceIds(ss) \/ Len(ss) >= MaxSurfaces THEN ss
    ELSE Append([i \in DOMAIN ss |-> [ss[i] EXCEPT !.focused = FALSE]],
                [id |-> app, focused |-> FALSE])

\* app_ui::open(), whose result start() does not look at, and close(), which
\* gives the focus to nobody.  Nothing clears a surface's dirty flag, and its
\* view and bounds stay what open() makes them.
SurfaceOpened(ss, app) ==
    IF app \in SurfaceIds(ss) \/ Len(ss) >= MaxSurfaces THEN ss
    ELSE Append([i \in DOMAIN ss |-> [ss[i] EXCEPT !.focused = FALSE]],
                [id |-> app, focused |-> TRUE])

\* Fault for RegistriesCoupled and FailureLeavesNothing: never closed.
SurfaceKept(ss, app) == ss

SurfaceClosed(ss, app) ==
    IF app \notin SurfaceIds(ss) THEN ss
    ELSE SwapRemove(ss, CHOOSE i \in DOMAIN ss : ss[i].id = app)
SurfaceFocused(ss, app) ==
    [i \in DOMAIN ss |-> [ss[i] EXCEPT !.focused = (ss[i].id = app)]]

\* app_runtime::start(), by what it answers, and what it leaves of the three
\* tables below it when it answers Ok.
StartResult(app) ==
    IF app \in AppsOf(runtime)         THEN "AlreadyRunning"
    ELSE IF app \in NetApps /\ ~link   THEN "NetworkRequired"
    ELSE IF Len(runtime) >= MaxRuntime THEN "LimitReached"
    ELSE IF CreatedId(table) = 0       THEN "ProcessCreateFailed"
    ELSE "Ok"

Here == [table |-> table, runtime |-> runtime, surfaces |-> surfaces]

Started(k, app) ==
    [table    |-> Created(k.table),
     runtime  |-> Append(k.runtime, [app |-> app, state |-> "Running",
                                     kernel_pid |-> CreatedId(k.table)]),
     surfaces |-> SurfaceOpened(k.surfaces, app)]

\* Fault for NoProcessLeak: stop() does not terminate the process.
StoppedAlive(k, app) ==
    IF app \notin AppsOf(k.runtime) THEN k
    ELSE LET i == CHOOSE i \in DOMAIN k.runtime : k.runtime[i].app = app
         IN  [k EXCEPT !.runtime = SwapRemove(@, i),
                       !.surfaces = SurfaceClosed(@, app)]

\* app_runtime::stop(), of an application it has no entry of: nothing.
Stopped(k, app) ==
    IF app \notin AppsOf(k.runtime) THEN k
    ELSE LET i == CHOOSE i \in DOMAIN k.runtime : k.runtime[i].app = app
         IN  [table    |-> Terminated(k.table, k.runtime[i].kernel_pid),
              runtime  |-> SwapRemove(k.runtime, i),
              surfaces |-> SurfaceClosed(k.surfaces, app)]

Becomes(k) ==
    /\ table' = k.table
    /\ runtime' = k.runtime
    /\ surfaces' = k.surfaces

-----------------------------------------------------------------------------
Init ==
    /\ PInit
    /\ runtime = <<>> /\ surfaces = <<>>
    /\ running = {} /\ run_count = 0 /\ status = "ready"
    /\ link \in BOOLEAN
    /\ Windows!AbsInit
    /\ strayed = FALSE

\* Fault for SuccessIsVisible: the running application is not focused.
LaunchUnfocused(app) ==
    /\ app \in RunningIds
    /\ status' = "focused"
    /\ UNCHANGED <<table, runtime, surfaces, running, run_count, link,
                   winvars, strayed>>

\* launch() of an application that is running; focus() of a window that is
\* gone does nothing, and launch() does not look at its result.
LaunchAgain(app) ==
    \E r \in running :
        /\ r.id = app
        /\ \/ r.window \in live /\ Windows!AbsRaise(r.window)
           \/ r.window \notin live /\ UNCHANGED winvars
        /\ status' = "focused"
        /\ UNCHANGED <<table, runtime, surfaces, running, run_count, link,
                       strayed>>

LaunchRefused(app) ==
    /\ app \notin RunningIds
    /\ \/ run_count >= MaxRunning /\ status' = "limit"
       \/ /\ run_count < MaxRunning
          /\ StartResult(app) # "Ok"
          /\ status' = IF StartResult(app) = "NetworkRequired"
                         THEN "network" ELSE "refused"
    /\ UNCHANGED <<table, runtime, surfaces, running, run_count, link,
                   winvars, strayed>>

\* The two outcomes of launch() after a start: with a window, or, with the
\* window table full, the start undone.  A free slot of g_running is there
\* because run_count < MaxRunning.
LaunchStarts(app) ==
    /\ app \notin RunningIds
    /\ run_count < MaxRunning
    /\ StartResult(app) = "Ok"
    /\ table.next_id <= MaxId
    /\ UNCHANGED <<link, strayed>>
    /\ \/ /\ Windows!AbsOpen
          /\ running' = running \cup {[id |-> app, window |-> next_window]}
          /\ run_count' = run_count + 1
          /\ Becomes(Started(Here, app))
          /\ status' = "launched"
       \/ /\ Windows!Full
          /\ Becomes(Stopped(Started(Here, app), app))
          /\ status' = "no_window"
          /\ UNCHANGED <<running, run_count, winvars>>

Launch(app) == LaunchAgain(app) \/ LaunchRefused(app) \/ LaunchStarts(app)

\* Fault for CloseTakesOwnWindow: close() takes the focused window.
CloseFocused(app) ==
    \E r \in running :
        /\ r.id = app
        /\ \/ focus # 0 /\ Windows!AbsClose(focus)
           \/ focus = 0 /\ UNCHANGED winvars
        /\ Becomes(Stopped(Here, app))
        /\ running' = running \ {r}
        /\ run_count' = IF run_count > 0 THEN run_count - 1 ELSE run_count
        /\ status' = "closed"
        /\ UNCHANGED <<link, strayed>>

Close(app) ==
    \E r \in running :
        /\ r.id = app
        /\ \/ r.window \in live /\ Windows!AbsClose(r.window)
           \/ r.window \notin live /\ UNCHANGED winvars
        /\ Becomes(Stopped(Here, app))
        /\ running' = running \ {r}
        /\ run_count' = IF run_count > 0 THEN run_count - 1 ELSE run_count
        /\ status' = "closed"
        /\ UNCHANGED <<link, strayed>>

CloseNotRunning(app) ==
    /\ app \notin RunningIds
    /\ status' = "not_running"
    /\ UNCHANGED <<table, runtime, surfaces, running, run_count, link,
                   winvars, strayed>>

\* suspend() and resume() change the runtime entry; the kernel process stays
\* runnable.
SetState(app, from, to) ==
    \E i \in DOMAIN runtime :
        /\ runtime[i].app = app /\ runtime[i].state = from
        /\ runtime' = [runtime EXCEPT ![i].state = to]
        /\ UNCHANGED <<table, surfaces, running, run_count, status, link,
                       winvars, strayed>>

Suspend(app) == SetState(app, "Running", "Suspended")
Resume(app) == SetState(app, "Suspended", "Running")

\* app_runtime::tick() of one tick; more are as many of them.  The tick counts
\* of the entries and the surfaces' dirty flags, which follow, are left out.
Tick ==
    /\ ScheduleTick
    /\ UNCHANGED <<runtime, surfaces, running, run_count, status, link,
                   winvars, strayed>>

\* app_ui::focus(), and dispatch() of a pointer press on the surface.
SurfaceFocus(app) ==
    /\ app \in SurfaceIds(surfaces)
    /\ surfaces' = SurfaceFocused(surfaces, app)
    /\ UNCHANGED <<table, runtime, running, run_count, status, link,
                   winvars, strayed>>

\* The link of a network interface comes or goes.
LinkChange ==
    /\ link' = ~link
    /\ UNCHANGED <<table, runtime, surfaces, running, run_count, status,
                   winvars, strayed>>

\* Window calls that bypass app_manager.
WindowCall ==
    /\ UNCHANGED <<table, runtime, surfaces, running, run_count, status, link>>
    /\ \/ /\ \E x \in live : Windows!AbsHide(x) \/ Windows!AbsRaise(x)
          /\ UNCHANGED strayed
       \/ /\ Windows!AbsOpen \/ \E x \in live : Windows!AbsClose(x)
          /\ strayed' = TRUE

\* app_ui::dispatch() of a Close event.
SurfaceClose(app) ==
    /\ app \in SurfaceIds(surfaces)
    /\ surfaces' = SurfaceClosed(surfaces, app)
    /\ strayed' = TRUE
    /\ UNCHANGED <<table, runtime, running, run_count, status, link,
                   winvars>>

Next ==
    \/ \E app \in Apps :
        \/ LaunchAgain(app)
        \/ LaunchRefused(app)
        \/ LaunchStarts(app)
        \/ Close(app)
        \/ CloseNotRunning(app)
        \/ Suspend(app)
        \/ Resume(app)
        \/ SurfaceFocus(app)
        \/ SurfaceClose(app)
    \/ Tick
    \/ LinkChange
    \/ WindowCall

Spec == Init /\ [][Next]_vars

-----------------------------------------------------------------------------
(* Properties *)

TypeOK ==
    /\ PTypeOK
    /\ runtime \in Seq(Entry) /\ Len(runtime) <= MaxRuntime
    /\ surfaces \in Seq(Surface) /\ Len(surfaces) <= MaxSurfaces
    /\ running \subseteq Managed
    /\ run_count \in 0..MaxRunning
    /\ status \in Statuses /\ link \in BOOLEAN
    /\ next_window \in 1..(MaxWindowId + 1)
    /\ strayed \in BOOLEAN
    /\ live \subseteq WindowIds /\ hidden \subseteq live
    /\ focus \in WindowIds \cup {0}

\* No kernel process is leaked or shared: the live processes are exactly
\* those of the runtime's entries, one each, through failed launches too.
NoProcessLeak ==
    /\ {table.procs[s].id : s \in Alive(table)} =
         {runtime[i].kernel_pid : i \in 1..Len(runtime)}
    /\ Cardinality(Alive(table)) = Len(runtime)

\* app_manager and app_runtime list the same applications, each once, and
\* app_manager's counter is their number.
ManagerAgreesWithRuntime ==
    /\ RunningIds = AppsOf(runtime)
    /\ Cardinality(running) = Len(runtime)
    /\ run_count = Cardinality(running)

\* Only a running application has a surface, whatever a Close event took away.
\* With every call going through app_manager, the registries describe the
\* same set of applications: each running one has its surface and a window of
\* its own, and there is no other surface or window.
RegistriesCoupled ==
    /\ TypeOK
    /\ SurfaceIds(surfaces) \subseteq RunningIds
    /\ ~strayed =>
        /\ SurfaceIds(surfaces) = RunningIds /\ Len(surfaces) = Cardinality(running)
        /\ {r.window : r \in running} = live
        /\ Cardinality(live) = Cardinality(running)

\* launch() that reports success leaves the window of the application shown
\* and focused.  The one exception is an application that runs and whose
\* window was closed past app_manager: the stale id it keeps must then not
\* show, raise or focus the window of another.
SuccessIsVisible ==
    [][\A app \in Apps :
         Launch(app) /\ status' \in {"launched", "focused"} =>
           \E r \in running' :
             /\ r.id = app
             /\ \/ focus' = r.window /\ r.window \in live' \ hidden'
                \/ /\ strayed /\ r \in running /\ r.window \notin live
                   /\ UNCHANGED winvars]_vars

\* launch() that reports failure leaves every registry with the entries it
\* had, so a failed launch can be retried for ever without using anything up.
FailureLeavesNothing ==
    [][\A app \in Apps :
         Launch(app) /\ status' \notin {"launched", "focused"} =>
           /\ UNCHANGED <<runtime, running, run_count, winvars>>
           /\ Alive(table') = Alive(table) /\ table'.count = table.count
           /\ SurfaceIds(surfaces') = SurfaceIds(surfaces)]_vars

\* At most one surface has the focus, so that a key has one reader, and it is
\* taken from a surface only to give it to another one, with the surface, or
\* by a launch that is taken back for want of a window: that one leaves no
\* surface focused.
SurfaceFocusKept ==
    [][/\ Cardinality(FocusedIds(surfaces')) <= 1
       /\ \A app \in FocusedIds(surfaces) :
            \/ FocusedIds(surfaces') # {}
            \/ app \notin SurfaceIds(surfaces')
            \/ status' = "no_window" /\ Windows!Full]_vars

\* close() takes the application's own window with it and no other one, also
\* when that window was closed before behind app_manager's back.
CloseTakesOwnWindow ==
    [][\A app \in Apps :
         Close(app) =>
           /\ \A x \in live \ live' : [id |-> app, window |-> x] \in running
           /\ \A r \in running \ running' : r.id = app /\ r.window \notin live']_vars
=============================================================================
