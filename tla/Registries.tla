----------------------------- MODULE Registries -----------------------------
(***************************************************************************)
(* The two programs that write certificate registries, for TLC: the        *)
(* service that publishes into the official one (CertService) and the      *)
(* workflow that copies it (RegistrySync).  What passes between them is    *)
(* the registry's version and whether it is valid, which RegistrySync      *)
(* leaves open, so each behaviour runs one of them.                        *)
(***************************************************************************)
EXTENDS CertService, RegistrySync

VARIABLE used           \* the program that runs

BothInit ==
    /\ used \in {"service", "workflow"}
    /\ Init /\ SyncInit
    /\ used = "service" => valid = {} /\ main = Blank

ServiceNext == used = "service" /\ Next /\ UNCHANGED <<used, sync_vars>>
WorkflowNext == used = "workflow" /\ SyncNext /\ UNCHANGED <<used, vars>>

BothSpec ==
    /\ BothInit
    /\ [][ServiceNext \/ WorkflowNext]_<<used, vars, sync_vars>>
    /\ Fairness
    /\ WF_sync_vars(used = "workflow" /\ StartRun)
    /\ WF_sync_vars(used = "workflow" /\ RunStep)
    /\ WF_sync_vars(used = "workflow" /\ Refresh)
=============================================================================
