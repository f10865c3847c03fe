----------------------------- MODULE Libraries -----------------------------
(***************************************************************************)
(* The parts of the system that keep a state and that nothing in the       *)
(* kernel calls yet, for TLC: the application reader, the certificate that *)
(* is trusted, activation with the initial setup, and the development      *)
(* targets.  They share nothing, so each behaviour uses one of them,       *)
(* chosen at the start, and the others stay as they were initialised.      *)
(***************************************************************************)
EXTENDS ManifestReader

CONSTANTS Certs, NoCert, Validity, MaxTime      \* see CertificateTrust

VARIABLES
    used,                                       \* the one that is used
    current, now, result, confirmed,            \* CertificateTrust
    state, record, stage, failure,              \* Setup
    mac, android, windows, native, status       \* Development

trust == <<current, now, result, confirmed>>
setup == <<state, record, stage, failure>>
build == <<mac, android, windows, native, status>>
lvars == <<used, vars, trust, setup, build>>

Trust == INSTANCE CertificateTrust
Install == INSTANCE Setup
Build == INSTANCE Development

ASSUME CertAssumption ==
    /\ Certs \subseteq Trust!Certificate
    /\ NoCert \notin Certs
    /\ Validity \in Nat /\ MaxTime \in Nat \ {0}

LInit ==
    /\ \/ used = "reader" /\ Init
       \/ used \in {"trust", "setup", "build"} /\ disk = {} /\ Fresh
    /\ Trust!Init /\ Install!Init /\ Build!Init

LNext ==
    /\ UNCHANGED used
    /\ \/ used = "reader" /\ Next /\ UNCHANGED <<trust, setup, build>>
       \/ used = "trust" /\ Trust!Next /\ UNCHANGED <<vars, setup, build>>
       \/ used = "setup" /\ Install!Next /\ UNCHANGED <<vars, trust, build>>
       \/ used = "build" /\ Build!Next /\ UNCHANGED <<vars, trust, setup>>

LSpec == LInit /\ [][LNext]_lvars

-----------------------------------------------------------------------------
(* Properties *)

\* A trusted certificate passed every local check at the time it was issued,
\* and the server's last answer about it was good (apply_server_validation()).
TrustedIsSound == Trust!TrustedIsSound

\* A caller that is told of a success has the certificate it asked for
\* trusted, although install() may have refused what the server accepted.
ResultIsTold == [][\A c \in Certs : Trust!Succeeds(c) => current' = c]_lvars

\* No sequence of local calls makes the installation active, and the record
\* of the activation says what the kernel shows.
FailClosed == Install!FailClosed

\* A build that is shown as running has its host: the Mac that runs it is
\* connected with Xcode open, the workspace is isolated and visible, however
\* the links have come and gone since the order (request_build()).
BuildHasHost == Build!BuildHasHost
=============================================================================
