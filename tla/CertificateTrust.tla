-------------------------- MODULE CertificateTrust --------------------------
(***************************************************************************)
(* The certificate the operating system trusts: kernel/certificate.cpp,    *)
(* which keeps it, and apps/certificate-your-app, whose                    *)
(* apply_server_validation() is the only caller that installs one.  The    *)
(* server's answer is an input: the transport that will fetch it is not    *)
(* written.  Keys, digests and ids are checked for being present only, so  *)
(* a certificate is its two times and whether those checks pass.           *)
(***************************************************************************)
EXTENDS Integers, FiniteSets

CONSTANTS
    Certs,          \* the certificates there are
    NoCert,         \* a null pointer
    Validity,       \* certificate::kValiditySeconds, 365 days
    MaxTime         \* bound: the clock stops there

Certificate ==
    [header : BOOLEAN,      \* magic and version are right
     body : BOOLEAN,        \* type, serial, ids, key, digest and signature
     issued : 0..MaxTime, expires : 0..MaxTime]

Answer == [reachable : BOOLEAN, active : BOOLEAN, revoked : BOOLEAN,
           signature_valid : BOOLEAN, issuer_valid : BOOLEAN,
           digest_valid : BOOLEAN]

VARIABLES
    current,        \* g_current, or NoCert while g_active is false
    now,            \* the time
    result,         \* history: what apply_server_validation() last returned
    confirmed       \* history: certificates whose last answer was Valid

vars == <<current, now, result, confirmed>>

-----------------------------------------------------------------------------
\* expired(), true of a window that is empty or longer than Validity too.
Expired(c, t) ==
    \/ ~c.header \/ t = 0
    \/ c.expires <= c.issued \/ c.expires - c.issued > Validity
    \/ t < c.issued \/ t >= c.expires

\* validate() = Status::Valid
ValidAt(c, t) == c.header /\ c.body /\ ~Expired(c, t)

\* validate_server()
ServerStatus(c, a) ==
    CASE c = NoCert \/ (c # NoCert /\ ~c.header) -> "Invalid"
      [] ~a.reachable -> "ServerUnavailable"
      [] a.revoked \/ ~a.active -> "NotActiveOnServer"
      [] ~a.signature_valid -> "SignatureInvalid"
      [] ~a.issuer_valid -> "IssuerMismatch"
      [] ~a.digest_valid -> "DigestMismatch"
      [] OTHER -> "Valid"

NoResult == [success |-> FALSE, status |-> "None", cert |-> NoCert]

-----------------------------------------------------------------------------
Init ==
    /\ current = NoCert
    /\ now = 1
    /\ result = NoResult
    /\ confirmed = {}

\* Fault for TrustedIsSound: a bad answer leaves what is installed.
RefusedKept(c) == current

\* What a bad answer leaves: certificate::invalidate().
Refused(c) == NoCert

\* Fault for ResultIsTold: a failed install() does not undo the success.
InstallOutcomeTrue(c) == [success |-> TRUE, status |-> "Valid", cert |-> c]

\* What is returned for a good answer: install() validates the certificate
\* at the time it was issued.
InstallOutcome(c) ==
    IF ValidAt(c, c.issued)
    THEN [success |-> TRUE, status |-> "Valid", cert |-> c]
    ELSE [success |-> FALSE, status |-> "Invalid", cert |-> c]

Installed(c) == IF ValidAt(c, c.issued) THEN c ELSE current

ApplyServerValidation(c, a) ==
    LET status == ServerStatus(c, a)
    IN  IF status = "Valid"
        THEN /\ result' = InstallOutcome(c)
             /\ current' = Installed(c)
             /\ confirmed' = confirmed \cup {c}
             /\ UNCHANGED now
        ELSE /\ result' = [success |-> FALSE, status |-> status, cert |-> c]
             /\ current' = Refused(c)
             /\ confirmed' = confirmed \ {c}
             /\ UNCHANGED now

\* remove_invalid_certificate()
RemoveInvalidCertificate ==
    /\ current' = NoCert
    /\ UNCHANGED <<now, result, confirmed>>

\* renew_manually() changes nothing: no server can be reached yet.
RenewManually(c) ==
    /\ result' = [success |-> FALSE, status |-> "ServerUnavailable", cert |-> c]
    /\ UNCHANGED <<current, now, confirmed>>

Tick == now < MaxTime /\ now' = now + 1 /\ UNCHANGED <<current, result, confirmed>>

Next ==
    \/ \E c \in Certs \cup {NoCert}, a \in Answer : ApplyServerValidation(c, a)
    \/ RemoveInvalidCertificate
    \/ \E c \in Certs : RenewManually(c)
    \/ Tick

Spec == Init /\ [][Next]_vars

-----------------------------------------------------------------------------
(* Properties *)

Statuses == {"None", "Valid", "Invalid", "ServerUnavailable", "NotActiveOnServer",
             "SignatureInvalid", "IssuerMismatch", "DigestMismatch"}

\* The state has its types, and a result reports success with the status that
\* says so and with no other.
TypeOK ==
    /\ current \in Certs \cup {NoCert}
    /\ now \in 1..MaxTime
    /\ result.success \in BOOLEAN /\ result.status \in Statuses
    /\ result.success <=> result.status = "Valid"
    /\ result.cert \in Certs \cup {NoCert}
    /\ confirmed \subseteq Certs

\* A trusted certificate passed every local check at the time it was issued,
\* and the server's last answer about it was good: a revocation, a bad
\* signature or an unreachable server ends the trust, whichever certificate
\* the answer was about.
TrustedIsSound ==
    current # NoCert =>
        /\ current.header /\ current.body
        /\ current.issued < current.expires
        /\ current.expires - current.issued <= Validity
        /\ current \in confirmed

\* A step after which the caller of c is told of a success.
Succeeds(c) ==
    /\ result' = [success |-> TRUE, status |-> "Valid", cert |-> c]
    /\ result' # result
=============================================================================
