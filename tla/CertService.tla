---------------------------- MODULE CertService ----------------------------
(***************************************************************************)
(* The signing-certificate service (web-distribution/certificate-service,  *)
(* server.mjs): requests to issue a certificate publish it in a registry   *)
(* file on GitHub, which is rewritten whole and guarded by its blob sha,   *)
(* then as a file of its own, and only then enter it in the service's      *)
(* memory and in its database file.  Node runs one handler at a time       *)
(* between two awaits, so each action is the code from one await to the    *)
(* next, taken when GitHub has handled the call awaited.                   *)
(*                                                                         *)
(* A certificate is its id, which is random and never drawn twice; its     *)
(* contents, the keys and the clock are left out.                          *)
(***************************************************************************)
EXTENDS Integers

CONSTANTS
    Requests,       \* handlers of the issue endpoint that run at one time
    Attempts,       \* tries of publishCertificate() to write the registry
    MaxCerts        \* bound: certificates ever asked for

ASSUME ServiceAssumption == Attempts \in Nat \ {0} /\ MaxCerts \in Nat

VARIABLES
    up,             \* the service runs
    known,          \* keys of its Map state
    revoked,        \* those of them whose record has revoked = true
    database,       \* DATA_FILE: what persist() left there
    registry,       \* registry.json on GitHub: the ids, and a mark that
                    \* stands for all else somebody may edit in it
    files,          \* ids with a file of their own on GitHub
    req,            \* what each handler is doing
    next_cert,      \* the next id to be drawn
    answer,         \* what the caller was told of a certificate
    told_revoked,   \* certificates a caller was told are revoked
    lost,           \* a database that does not parse was loaded
    doubled         \* the network has delivered a PUT twice

server == <<up, known, revoked, database>>
github == <<registry, files>>
answers == <<answer, told_revoked, lost, doubled>>
vars == <<server, github, req, next_cert, answers>>

Certs == 1..MaxCerts
Database == [whole : BOOLEAN, known : SUBSET Certs, revoked : SUBSET Certs]
Registry == [ids : SUBSET Certs, mark : BOOLEAN]

\* get, put, file: a call to GitHub is under way; store: the last one is
\* answered.  waiting: the handler still runs, else only the call does.
Request == [phase : {"idle", "get", "put", "file", "store"},
            cert : Certs \cup {0}, read : Registry,
            attempt : 0..(Attempts - 1), waiting : BOOLEAN]

Saved(ks, rs) == [whole |-> TRUE, known |-> ks, revoked |-> rs]
Torn == [whole |-> FALSE, known |-> {}, revoked |-> {}]
NoIds == [ids |-> {}, mark |-> FALSE]
Idle == [phase |-> "idle", cert |-> 0, read |-> NoIds, attempt |-> 0,
         waiting |-> FALSE]

-----------------------------------------------------------------------------
Init ==
    /\ up = TRUE
    /\ known = {} /\ revoked = {} /\ database = Saved({}, {})
    /\ registry = NoIds /\ files = {}
    /\ req = [r \in Requests |-> Idle]
    /\ next_cert = 1
    /\ answer = [c \in Certs |-> "none"]
    /\ told_revoked = {}
    /\ lost = FALSE /\ doubled = FALSE

\* The status publishCertificate() gives every record of the registry, and
\* those the workflow that copies it accepts.
RegistryStatus == "Active"
SyncStatuses == {"active", "revoked", "expired", "invalid", "server-unavailable"}

In(r, phase) == req[r].phase = phase
Runs(r) == up /\ req[r].waiting

\* The handler answers 502 or 201 and ends.
Answered(r, what) == answer' = [answer EXCEPT ![req[r].cert] = what]

\* POST /v1/certificates/issue by the administrator: issue(), then the GET of
\* the registry is sent.
Start(r) ==
    /\ up /\ In(r, "idle") /\ next_cert <= MaxCerts
    /\ next_cert' = next_cert + 1
    /\ req' = [req EXCEPT ![r] = [Idle EXCEPT !.phase = "get", !.waiting = TRUE,
                                              !.cert = next_cert]]
    /\ UNCHANGED <<server, github, answers>>

\* readRegistry() has its answer.  A certificate that is in it already is not
\* published again.
Get(r) ==
    /\ Runs(r) /\ In(r, "get")
    /\ req' = [req EXCEPT ![r] =
                 [@ EXCEPT !.read = registry,
                           !.phase = IF req[r].cert \in registry.ids
                                       THEN "store" ELSE "put"]]
    /\ UNCHANGED <<server, github, next_cert, answers>>

\* Faults for IssuedIsPublished and RequestEnds: a conflict taken for success,
\* attempts that are not counted.
ConflictIgnored(r) == req' = [req EXCEPT ![r].phase = "store"] /\ UNCHANGED answer
ConflictForever(r) == req' = [req EXCEPT ![r].phase = "get"] /\ UNCHANGED answer

\* What the handler does when GitHub says the sha does not match: read again,
\* or give up after the last attempt.
Conflict(r) ==
    IF req[r].attempt = Attempts - 1
      THEN req' = [req EXCEPT ![r] = Idle] /\ Answered(r, "refused")
      ELSE /\ req' = [req EXCEPT ![r] = [req[r] EXCEPT !.phase = "get",
                                                       !.attempt = @ + 1]]
           /\ UNCHANGED answer

\* The sha the PUT carries: that of the blob readRegistry() saw, for which the
\* contents stand.  Fault for RegistryKeepsAll: a sha asked for anew.
FreshSha(r) == registry
Sha(r) == req[r].read

\* GitHub takes the PUT only if its sha is that of the present blob.
Matches(r) == Sha(r) = registry

\* A PUT that is delivered twice takes effect, and is answered as a conflict.
PutRegistry(r) ==
    /\ In(r, "put") /\ Matches(r)
    /\ registry' = [req[r].read EXCEPT !.ids = @ \cup {req[r].cert}]
    /\ \/ /\ Runs(r)
          /\ req' = [req EXCEPT ![r].phase = "file"]
          /\ UNCHANGED <<answer, doubled>>
       \/ /\ Runs(r)
          /\ Conflict(r)
          /\ doubled' = TRUE
       \/ /\ ~Runs(r)
          /\ req' = [req EXCEPT ![r] = Idle]
          /\ UNCHANGED <<answer, doubled>>
    /\ UNCHANGED <<server, files, next_cert, told_revoked, lost>>

PutRefused(r) ==
    /\ In(r, "put") /\ ~Matches(r)
    /\ \/ Runs(r) /\ Conflict(r)
       \/ /\ ~Runs(r)
          /\ req' = [req EXCEPT ![r] = Idle]
          /\ UNCHANGED answer
    /\ UNCHANGED <<server, github, next_cert, told_revoked, lost, doubled>>

PutFile(r) ==
    /\ In(r, "file")
    /\ files' = files \cup {req[r].cert}
    /\ req' = [req EXCEPT ![r] = IF Runs(r) THEN [@ EXCEPT !.phase = "store"]
                                            ELSE Idle]
    /\ UNCHANGED <<server, registry, next_cert, answers>>

\* A call fails for the handler: refused, or no answer in time.  A PUT may
\* still be on its way then.
GiveUp(r) ==
    /\ Runs(r) /\ req[r].phase \in {"get", "put", "file"}
    /\ Answered(r, "refused")
    /\ req' = [req EXCEPT ![r] = IF In(r, "get") THEN Idle
                                 ELSE [@ EXCEPT !.waiting = FALSE]]
    /\ UNCHANGED <<server, github, next_cert, told_revoked, lost, doubled>>

\* A call nobody waits for never arrives.
Drop(r) ==
    /\ ~In(r, "idle") /\ ~req[r].waiting
    /\ req' = [req EXCEPT ![r] = Idle]
    /\ UNCHANGED <<server, github, next_cert, answers>>

\* state.set(), persist() and the answer, all in one turn.  When persist()
\* throws the record stays in memory and the caller is told of a failure.
Store(r) ==
    /\ Runs(r) /\ In(r, "store")
    /\ known' = known \cup {req[r].cert}
    /\ req' = [req EXCEPT ![r] = Idle]
    /\ \/ /\ database' = Saved(known', revoked)
          /\ Answered(r, "issued")
       \/ /\ database' \in {database, Torn}
          /\ Answered(r, "refused")
    /\ UNCHANGED <<up, revoked, github, next_cert, told_revoked, lost, doubled>>

\* Fault for RevocationStands: the revocation is not saved.
RevokeUnsaved(c) ==
    /\ up /\ c \in known
    /\ revoked' = revoked \cup {c}
    /\ told_revoked' = told_revoked \cup {c}
    /\ UNCHANGED <<up, known, database, github, req, next_cert, answer, lost,
                   doubled>>

Revoke(c) ==
    /\ up /\ c \in known
    /\ revoked' = revoked \cup {c}
    /\ database' = Saved(known, revoked')
    /\ told_revoked' = told_revoked \cup {c}
    /\ UNCHANGED <<up, known, github, req, next_cert, answer, lost, doubled>>

\* What a crash inside persist() can leave: the file as it was, cut off, or
\* whole; persist() runs for a certificate to store or to revoke.  A
\* persist() that throws in the revoke handler is such a crash too: nothing
\* catches it there.
Interrupted ==
    {Saved(known \cup {req[r].cert}, revoked) :
        r \in {q \in Requests : In(q, "store")}}
    \cup {Saved(known, revoked \cup {c}) : c \in known}
CrashLeaves ==
    {database} \cup Interrupted
        \cup (IF Interrupted # {} THEN {Torn} ELSE {})

Crash ==
    /\ up
    /\ up' = FALSE
    /\ known' = {} /\ revoked' = {}
    /\ database' \in CrashLeaves
    /\ req' = [r \in Requests |->
                 IF req[r].phase \in {"put", "file"}
                   THEN [req[r] EXCEPT !.waiting = FALSE] ELSE Idle]
    /\ UNCHANGED <<github, next_cert, answers>>

\* The service reads its database; one that does not parse counts as empty.
Restart ==
    /\ ~up
    /\ up' = TRUE
    /\ known' = database.known /\ revoked' = database.revoked
    /\ lost' = (lost \/ ~database.whole)
    /\ UNCHANGED <<database, github, req, next_cert, answer, told_revoked,
                   doubled>>

\* Somebody else commits to registry.json.
RegistryEdit ==
    /\ registry' = [registry EXCEPT !.mark = ~@]
    /\ UNCHANGED <<server, files, req, next_cert, answers>>

Handle(r) ==
    Get(r) \/ PutRegistry(r) \/ PutRefused(r) \/ PutFile(r) \/ GiveUp(r) \/ Store(r)

Next ==
    \/ \E r \in Requests : Start(r) \/ Handle(r) \/ Drop(r)
    \/ \E c \in Certs : Revoke(c)
    \/ Crash
    \/ Restart
    \/ RegistryEdit

\* Every call to GitHub is answered or fails, and a handler that has its
\* answer runs on.
Fairness == \A r \in Requests : WF_vars(Handle(r))

Spec == Init /\ [][Next]_vars /\ Fairness

-----------------------------------------------------------------------------
(* Properties *)

TypeOK ==
    /\ up \in BOOLEAN /\ lost \in BOOLEAN /\ doubled \in BOOLEAN
    /\ known \subseteq Certs /\ revoked \subseteq known
    /\ database \in Database
    /\ registry \in Registry /\ files \subseteq registry.ids
    /\ req \in [Requests -> Request]
    /\ next_cert \in 1..(MaxCerts + 1)
    /\ answer \in [Certs -> {"none", "issued", "refused"}]
    /\ told_revoked \subseteq Certs

\* What GET /v1/certificates/:id answers within the certificate's year.
Active(c) == up /\ c \in known \ revoked

\* No publication overwrites another: an id that is in the registry stays
\* there, whatever handlers read and write it at the same time, and whatever
\* late PUTs of dead handlers still arrive (the sha of writeFile()).
RegistryKeepsAll == [][registry.ids \subseteq registry'.ids]_vars

\* A caller who was given a certificate finds it in the registry and, unless
\* a cut-off database was loaded, in the service whenever it runs.  It has its
\* own file on GitHub too, which is where the operating system looks for it
\* (system_provision.cpp:7), unless a PUT was doubled: then the handler finds
\* its certificate in the registry already and leaves the file out.
IssuedIsPublished ==
    \A c \in Certs :
        answer[c] = "issued" =>
            /\ c \in registry.ids
            /\ up /\ ~lost => c \in known
            /\ ~doubled => c \in files

\* A certificate a caller was told is revoked is never reported active again,
\* through crashes, cut-off databases and restarts.
RevocationStands == \A c \in told_revoked : ~Active(c)

\* The registry as the service writes it passes the check of the workflow
\* that synchronizes it (sync-certificates.yml:50).
SyncAccepts == registry.ids # {} => RegistryStatus \in SyncStatuses

\* Every request is answered, or dies with the service: conflicts with other
\* writers cannot keep a handler going for ever.
RequestEnds == \A r \in Requests : req[r].waiting ~> ~req[r].waiting
=============================================================================
