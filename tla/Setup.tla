------------------------------- MODULE Setup -------------------------------
(***************************************************************************)
(* First boot: the activation record (kernel/activation.cpp) and the       *)
(* stages of the initial setup (kernel/initial_setup.cpp), whose fifth one *)
(* is the activation.  Nothing in the kernel ties the two together.        *)
(***************************************************************************)
EXTENDS Naturals, Sequences

States == {"Unactivated", "Activating", "Active", "OfflineGrace", "Revoked", "Failed"}

Stages == <<"Language", "Region", "Network", "Hardware", "Activation",
            "Security", "Complete">>

Reasons == {"", "reason", "default"}    \* what failure_reason() can be

VARIABLES
    state,      \* activation: g_state
    record,     \* activation: g_record.state
    stage,      \* initial_setup: g_stage, a place in Stages
    failure     \* initial_setup: g_failure

vars == <<state, record, stage, failure>>

Init ==
    /\ state = "Unactivated" /\ record = "Unactivated"
    /\ stage = 1 /\ failure = ""

-----------------------------------------------------------------------------
\* Fault for FailClosed: a malformed request is not noted in the record.
BeginUnrecorded(sound) ==
    /\ state' = (IF sound THEN "Activating" ELSE "Failed")
    /\ record' = (IF sound THEN "Activating" ELSE record)
    /\ UNCHANGED <<stage, failure>>

\* sound: the token, the server's key and the time are there.
BeginOnlineActivation(sound) ==
    /\ state' = (IF sound THEN "Activating" ELSE "Failed")
    /\ record' = state'
    /\ UNCHANGED <<stage, failure>>

\* Whatever the state and the time, no activation is granted yet, and none is
\* marked as failed.
VerifyOnline(now) == UNCHANGED vars

RevokeActivation ==
    /\ state' = "Revoked" /\ record' = "Revoked"
    /\ UNCHANGED <<stage, failure>>

Completed == Stages[stage] = "Complete" /\ failure = ""

Advance ==
    /\ failure = "" /\ ~Completed
    /\ stage' = stage + 1
    /\ UNCHANGED <<state, record, failure>>

\* A null reason stands for the default text; an empty one is no failure.
Fail(reason) ==
    /\ failure' = reason
    /\ UNCHANGED <<state, record, stage>>

Next ==
    \/ \E sound \in BOOLEAN : BeginOnlineActivation(sound)
    \/ \E now \in {0, 1} : VerifyOnline(now)
    \/ RevokeActivation
    \/ Advance
    \/ \E reason \in Reasons : Fail(reason)

Spec == Init /\ [][Next]_vars

-----------------------------------------------------------------------------
(* Properties *)

\* The two records and the stage have their types.
TypeOK ==
    /\ state \in States /\ record \in States
    /\ stage \in 1..Len(Stages)
    /\ failure \in Reasons

\* No sequence of local calls makes the installation active, or gives it a
\* grace period: only a server's answer may, and none is read yet.  The record
\* it will keep says what the kernel shows, after failed requests too.
FailClosed == state = record /\ state \notin {"Active", "OfflineGrace"}
=============================================================================
