--------------------------- MODULE AppLifecycleMC ---------------------------
(***************************************************************************)
(* Three applications of the registry for TLC.  Files and Notes need no    *)
(* network, the browser does, says the registry; so the first two are      *)
(* alike: nothing orders them.                                             *)
(***************************************************************************)
EXTENDS AppLifecycle, AppRegistry, TLC

CONSTANTS files, notes, browser

IdOf == files :> "Files" @@ notes :> "Notes" @@ browser :> "Browser"

SomeApps == {app \in {files, notes, browser} : Installed(IdOf[app])}
OnlineApps == {app \in SomeApps : RequiresNetwork(IdOf[app])}
Alike == Permutations({files, notes})
=============================================================================
