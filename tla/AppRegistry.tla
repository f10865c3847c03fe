---------------------------- MODULE AppRegistry ----------------------------
(***************************************************************************)
(* The tables of the bundled applications: the registry (app_registry.cpp) *)
(* and the frames of the system applications (app_interfaces.cpp).  A      *)
(* caller that holds the number of an application uses it as a place in    *)
(* the frames and as a number of the desktop's enum: the three lists have  *)
(* to stay in one order, and the two tables have to say the same of an     *)
(* application.                                                            *)
(***************************************************************************)
EXTENDS Naturals, Sequences, FiniteSets

\* AppId, numbered in this order.
AppIds == <<
    "Settings", "Files", "SoftwareCenter", "Terminal", "TaskManager",
    "SystemMonitor", "TextEditor", "MediaPlayer", "Photos", "ImageViewer",
    "Viewer", "Browser", "Notes", "Calendar", "Clock", "NetworkManager",
    "Bluetooth", "Audio", "Display", "UsersAccounts", "SecurityCenter",
    "Permissions", "Notifications", "About", "Help", "PeaCloud", "MangaReader",
    "Development", "VisualStudioCode", "SandboxInterface", "X90FusionManager",
    "TimeMachineManager", "MorphManager", "CertificateYourApp",
    "WebDistribution" >>

\* desktop::App, which app_manager::launch() casts an AppId to.
DesktopApps == <<
    "Settings", "Files", "SoftwareCenter", "Terminal", "TaskManager",
    "SystemMonitor", "TextEditor", "MediaPlayer", "Photos", "ImageViewer",
    "Viewer", "Browser", "Notes", "Calendar", "Clock", "NetworkManager",
    "Bluetooth", "Audio", "Display", "UsersAccounts", "SecurityCenter",
    "Permissions", "Notifications", "About", "Help", "PeaCloud", "MangaReader",
    "Development", "VisualStudioCode", "SandboxInterface", "X90FusionManager",
    "TimeMachineManager", "MorphManager", "CertificateYourApp",
    "WebDistribution" >>

\* The order of kFrames, which settings(), files() and so on index by AppId.
FrameOrder == <<
    "Settings", "Files", "SoftwareCenter", "Terminal", "TaskManager",
    "SystemMonitor", "TextEditor", "MediaPlayer", "Photos", "ImageViewer",
    "Viewer", "Browser", "Notes", "Calendar", "Clock", "NetworkManager",
    "Bluetooth", "Audio", "Display", "UsersAccounts", "SecurityCenter",
    "Permissions", "Notifications", "About", "Help", "PeaCloud", "MangaReader",
    "Development", "VisualStudioCode", "SandboxInterface", "X90FusionManager",
    "TimeMachineManager", "MorphManager", "CertificateYourApp",
    "WebDistribution" >>

Ids == {AppIds[i] : i \in DOMAIN AppIds}
Flags == [bundled : BOOLEAN, network : BOOLEAN, guarded : BOOLEAN]

\* kApps: what find() finds of an application; guarded is its isolated.
Online == {"SoftwareCenter", "Browser", "NetworkManager", "SecurityCenter",
           "PeaCloud", "MangaReader", "CertificateYourApp", "WebDistribution"}
Unisolated == {"Settings", "Files", "TextEditor", "Photos", "ImageViewer",
               "Viewer", "Notes", "Calendar", "Clock", "Display", "About",
               "Help", "MorphManager"}
Registry == [id \in Ids |-> [bundled |-> TRUE, network |-> id \in Online,
                             guarded |-> id \notin Unisolated]]

RequiresNetwork(id) == id \in Ids /\ Registry[id].network
Installed(id) == id \in Ids /\ Registry[id].bundled

\* kFrames: the same of each frame; guarded is its privileged.
FramesOnline == {"SoftwareCenter", "Browser", "NetworkManager", "PeaCloud",
                 "SecurityCenter", "MangaReader", "CertificateYourApp",
                 "WebDistribution"}
FramesPrivileged == {
    "SoftwareCenter", "Terminal", "TaskManager", "SystemMonitor", "MediaPlayer",
    "Browser", "NetworkManager", "Bluetooth", "Audio", "UsersAccounts",
    "SecurityCenter", "Permissions", "Notifications", "PeaCloud", "MangaReader",
    "Development", "VisualStudioCode", "SandboxInterface", "X90FusionManager",
    "TimeMachineManager", "CertificateYourApp", "WebDistribution"}

\* The frame a WRAP function returns for an application: the one at its place.
FrameOf(id) ==
    LET f == FrameOrder[CHOOSE i \in DOMAIN AppIds : AppIds[i] = id]
    IN  [id |-> f, network |-> f \in FramesOnline,
         guarded |-> f \in FramesPrivileged]

\* Every application is listed once, gets its own frame, which says of network
\* and isolation what the registry says, and keeps its name when its number is
\* taken for one of the desktop's.
ASSUME RegistryAgrees ==
    /\ Registry \in [Ids -> Flags]
    /\ Cardinality(Ids) = Len(AppIds)
    /\ DesktopApps = AppIds
    /\ \A id \in Ids :
         FrameOf(id) = [id |-> id, network |-> Registry[id].network,
                        guarded |-> Registry[id].guarded]
=============================================================================
