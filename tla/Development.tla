---------------------------- MODULE Development ----------------------------
(***************************************************************************)
(* The build targets of the Development application                        *)
(* (apps/development/development.cpp): a Mac over USB-C, an isolated       *)
(* Android workspace, a Windows toolchain, the native one, and one status  *)
(* line that all the operations share.  A status is what the line is       *)
(* about; its wording is left out.                                         *)
(***************************************************************************)
EXTENDS Naturals

Targets == {"PeaOS", "Windows", "Android", "MacOS"}
MacStates == {"RequiresMac", "WaitingForXcode", "Ready", "Disconnected", "BuildRunning"}
AndroidStates == {"Unavailable", "LocalIsolatedReady", "BuildRunning"}
Toolchains == {"Unavailable", "MSVC", "LLVMClang", "MinGW"}

VARIABLES
    mac,        \* g_mac, without the count of files that is always 0
    android,    \* g_android
    windows,    \* g_windows
    native,     \* g_toolchain_ready[PeaOS]
    status      \* g_status

vars == <<mac, android, windows, native, status>>

\* init()
Init ==
    /\ mac = [state |-> "RequiresMac", connected |-> FALSE, xcode |-> FALSE]
    /\ android = [state |-> "LocalIsolatedReady", virtualized |-> TRUE,
                  visible |-> TRUE, shared |-> FALSE]
    /\ windows = [toolchain |-> "Unavailable", official |-> FALSE, installed |-> FALSE]
    /\ native = TRUE
    /\ status = "select"

-----------------------------------------------------------------------------
\* target_available()
Available(target) ==
    CASE target = "MacOS" -> mac.connected /\ mac.xcode /\ mac.state = "Ready"
      [] target = "Windows" -> windows.installed /\ windows.official
      [] target = "Android" -> android.virtualized /\ android.visible /\ ~android.shared
      [] OTHER -> native

\* A project is only returned; what is kept of the call is the status.  The
\* further test of the Android workspace is part of Available("Android").
CreateProject(target, named) ==
    /\ status' = CASE ~named -> "no_name"
                   [] named /\ ~Available(target) -> "no_toolchain"
                   [] OTHER -> "created"
    /\ UNCHANGED <<mac, android, windows, native>>

\* The other targets have calls of their own and are refused.
SetToolchainReady(target, ready) ==
    /\ target = "PeaOS"
    /\ native' = ready
    /\ status' = IF ready THEN "native_ready" ELSE "native_missing"
    /\ UNCHANGED <<mac, android, windows>>

SetWindowsToolchain(toolchain, installed) ==
    /\ windows' = [toolchain |-> toolchain, installed |-> installed,
                   official |-> installed /\ toolchain # "Unavailable"]
    /\ status' = IF windows'.official THEN "windows_ready" ELSE "windows_missing"
    /\ UNCHANGED <<mac, android, native>>

SetAndroidWorkspace(ready, visible) ==
    /\ android' = [virtualized |-> ready, visible |-> visible, shared |-> FALSE,
                   state |-> IF ready /\ visible THEN "LocalIsolatedReady"
                             ELSE "Unavailable"]
    /\ status' = IF ready /\ visible THEN "android_ready" ELSE "android_missing"
    /\ UNCHANGED <<mac, windows, native>>

\* Fault for BuildHasHost: a build that runs survives the loss of its Mac.
MacStateKept(connected, xcode) ==
    CASE mac.state = "BuildRunning" -> "BuildRunning"
      [] ~connected -> "Disconnected"
      [] connected /\ ~xcode -> "WaitingForXcode"
      [] OTHER -> "Ready"

MacState(connected, xcode) ==
    CASE ~connected -> "Disconnected"
      [] connected /\ ~xcode -> "WaitingForXcode"
      [] OTHER -> "Ready"

\* The link is reported again at any time, a running build or not.
SetMacConnection(connected, xcode) ==
    /\ mac' = [state |-> MacState(connected, xcode), connected |-> connected,
               xcode |-> xcode]
    /\ status' = CASE ~connected -> "mac_gone"
                   [] connected /\ ~xcode -> "mac_no_xcode"
                   [] OTHER -> "mac_ready"
    /\ UNCHANGED <<android, windows, native>>

BuildRefused(target) ==
    /\ ~Available(target)
    /\ status' = "no_build"
    /\ UNCHANGED <<mac, android, windows, native>>

\* What a build order does to the Mac and to the Android workspace.
MacBuilds == [mac EXCEPT !.state = "BuildRunning"]

AndroidBuilds == [android EXCEPT !.state = "BuildRunning"]

RequestBuild(target) ==
    /\ Available(target)
    /\ mac' = IF target = "MacOS" THEN MacBuilds ELSE mac
    /\ android' = IF target = "Android" THEN AndroidBuilds ELSE android
    /\ status' = CASE target = "MacOS" -> "mac_building"
                   [] target = "Android" -> "android_building"
                   [] OTHER -> "building"
    /\ UNCHANGED <<windows, native>>

Next ==
    \/ \E target \in Targets :
         \/ \E named \in BOOLEAN : CreateProject(target, named)
         \/ \E ready \in BOOLEAN : SetToolchainReady(target, ready)
         \/ BuildRefused(target)
         \/ RequestBuild(target)
    \/ \E toolchain \in Toolchains, installed \in BOOLEAN :
         SetWindowsToolchain(toolchain, installed)
    \/ \E one, two \in BOOLEAN :
         SetAndroidWorkspace(one, two) \/ SetMacConnection(one, two)

Spec == Init /\ [][Next]_vars

-----------------------------------------------------------------------------
(* Properties *)

\* The links have their types, and an Android workspace is shown as ready or
\* building exactly when it can be used.
TypeOK ==
    /\ mac.state \in MacStates
    /\ windows.toolchain \in Toolchains
    /\ android.state \in AndroidStates
    /\ android.state # "Unavailable" <=> Available("Android")

\* A build that is shown as running has its host: the Mac that runs it is
\* connected with Xcode open, the workspace is isolated and visible, however
\* the links have come and gone since the order.
BuildHasHost ==
    /\ mac.state \in {"BuildRunning", "Ready"} <=> mac.connected /\ mac.xcode
    /\ android.state = "BuildRunning" => Available("Android")
=============================================================================
