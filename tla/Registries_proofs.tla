-------------------------- MODULE Registries_proofs --------------------------
(***************************************************************************)
(* Proofs about the two programs that write certificate registries.  The   *)
(* service, for any number of handlers, attempts and certificates, with    *)
(* every crash, failed save and late or doubled PUT of the model; the      *)
(* workflow, for any number of registries published and commits made.      *)
(***************************************************************************)
EXTENDS Registries, TLAPS

-----------------------------------------------------------------------------
(* The inductive invariant *)

Drawn == 1..(next_cert - 1)

Typed ==
    /\ up \in BOOLEAN /\ lost \in BOOLEAN /\ doubled \in BOOLEAN
    /\ known \subseteq Certs /\ revoked \subseteq Certs /\ files \subseteq Certs
    /\ database \in Database
    /\ registry \in Registry
    /\ req \in [Requests -> Request]
    /\ next_cert \in 1..(MaxCerts + 1)
    /\ answer \in [Certs -> {"none", "issued", "refused"}]
    /\ told_revoked \subseteq Certs

\* Whatever is known of certificates is known of ids that were drawn.
OnlyDrawn ==
    /\ known \subseteq Drawn /\ database.known \subseteq Drawn
    /\ told_revoked \subseteq Drawn /\ registry.ids \subseteq Drawn
    /\ \A c \in Certs : answer[c] = "issued" => c \in Drawn

\* Nothing was stored, told or answered of a certificate that is being issued.
Unsettled(c) ==
    /\ c \notin known /\ c \notin database.known /\ c \notin told_revoked
    /\ answer[c] # "issued"

Busy(r) == req[r].phase # "idle"

HandlersApart ==
    \A r \in Requests : Busy(r) =>
        /\ req[r].cert \in Drawn
        /\ Unsettled(req[r].cert)
        /\ \A q \in Requests : Busy(q) /\ q # r => req[q].cert # req[r].cert

\* Memory and database agree with what callers were told of revocations.
ToldIsKept ==
    \A c \in told_revoked :
        /\ c \in known => c \in revoked
        /\ c \in database.known => c \in database.revoked

\* How far a handler has come is what GitHub has of its certificate.
Published(r) ==
    /\ req[r].phase \in {"file", "store"} => req[r].cert \in registry.ids
    /\ ~doubled /\ req[r].phase \in {"get", "put"} => req[r].cert \notin registry.ids
    /\ ~doubled /\ req[r].phase = "store" => req[r].cert \in files

PublishedSoFar == \A r \in Requests : Published(r)

IssuedIsKept ==
    \A c \in Certs : answer[c] = "issued" =>
        /\ c \in registry.ids
        /\ ~doubled => c \in files
        /\ ~lost => /\ up => c \in known
                    /\ database.whole => c \in database.known

IInv ==
    /\ Typed /\ OnlyDrawn /\ HandlersApart /\ ToldIsKept /\ PublishedSoFar
    /\ IssuedIsKept

-----------------------------------------------------------------------------
(* The steps of a handler *)

\* A step of handler r leaves the others alone, and it goes on with its
\* certificate or ends.
Steps(r) ==
    /\ req' \in [Requests -> Request]
    /\ \A q \in Requests : q # r => req'[q] = req[q]
    /\ Busy(r)
    /\ req'[r].phase # "idle" => req'[r].cert = req[r].cert

LEMMA IdleTyped == Idle \in Request /\ Idle.phase = "idle"
  BY ServiceAssumption, SMT DEF Idle, Request, Registry, NoIds

LEMMA SavedTyped ==
  /\ Torn \in Database
  /\ \A ks, rs \in SUBSET Certs : Saved(ks, rs) \in Database
  BY DEF Database, Saved, Torn

\* What a conflict does.
LEMMA ConflictSteps ==
  ASSUME Typed, NEW r \in Requests, Busy(r), In(r, "put"), Conflict(r)
  PROVE  /\ Steps(r)
         /\ req'[r].phase \in {"idle", "get"}
         /\ answer' \in [Certs -> {"none", "issued", "refused"}]
         /\ \A c \in Certs : answer'[c] = "issued" => answer[c] = "issued"
<1>1. CASE req[r].attempt = Attempts - 1
  <2>1. req' = [req EXCEPT ![r] = Idle]
        /\ answer' = [answer EXCEPT ![req[r].cert] = "refused"]
    BY <1>1 DEF Conflict, Answered
  <2> QED
    BY <2>1, IdleTyped DEF Steps, Typed
<1>2. CASE req[r].attempt # Attempts - 1
  <2>1. req' = [req EXCEPT ![r] = [req[r] EXCEPT !.phase = "get", !.attempt = @ + 1]]
        /\ answer' = answer
    BY <1>2 DEF Conflict
  <2>2. req[r].attempt + 1 \in 0..(Attempts - 1)
    BY <1>2, ServiceAssumption DEF Typed, Request
  <2>3. [req[r] EXCEPT !.phase = "get", !.attempt = @ + 1] \in Request
    BY <2>2 DEF Typed, Request
  <2>4. /\ req' \in [Requests -> Request]
        /\ \A q \in Requests : q # r => req'[q] = req[q]
        /\ req'[r] = [req[r] EXCEPT !.phase = "get", !.attempt = @ + 1]
    BY <2>1, <2>3 DEF Typed
  <2>5. req[r] \in Request
    BY DEF Typed
  <2>6. req'[r].phase = "get" /\ req'[r].cert = req[r].cert
    BY <2>4, <2>5 DEF Request
  <2> QED
    BY <2>1, <2>4, <2>6 DEF Steps, Typed
<1> QED
  BY <1>1, <1>2

\* A step of handler r before its last: the service keeps nothing of it, and
\* GitHub keeps at most its certificate.
Quiet(r) ==
    /\ Steps(r)
    /\ UNCHANGED <<server, next_cert, told_revoked, lost>>
    /\ answer' \in [Certs -> {"none", "issued", "refused"}]
    /\ \A c \in Certs : answer'[c] = "issued" => answer[c] = "issued"
    /\ registry' \in Registry /\ files' \subseteq Certs /\ doubled' \in BOOLEAN
    /\ registry.ids \subseteq registry'.ids
    /\ registry'.ids \subseteq registry.ids \cup {req[r].cert}
    /\ files \subseteq files' /\ (doubled => doubled')

LEMMA QuietKeeps ==
  ASSUME IInv, NEW r \in Requests, Quiet(r)
  PROVE  Typed' /\ OnlyDrawn' /\ HandlersApart' /\ ToldIsKept' /\ IssuedIsKept'
<1>1. /\ known' = known /\ revoked' = revoked /\ database' = database /\ up' = up
      /\ next_cert' = next_cert /\ told_revoked' = told_revoked /\ lost' = lost
  BY DEF Quiet, server
<1>2. Typed'
  BY <1>1 DEF Quiet, Steps, IInv, Typed
<1>3. Drawn' = Drawn /\ req[r].cert \in Drawn
  BY <1>1 DEF Drawn, Quiet, Steps, IInv, HandlersApart
<1>4. OnlyDrawn'
  BY <1>1, <1>3 DEF OnlyDrawn, Quiet, IInv
<1>5. HandlersApart'
  <2> SUFFICES ASSUME NEW q \in Requests, Busy(q)'
               PROVE  /\ req'[q].cert \in Drawn
                      /\ Unsettled(req[q].cert)'
                      /\ \A p \in Requests : Busy(p)' /\ p # q =>
                           req'[p].cert # req'[q].cert
    BY <1>3 DEF HandlersApart
  <2>1. \A p \in Requests : Busy(p)' => Busy(p) /\ req'[p].cert = req[p].cert
    BY DEF Quiet, Steps, Busy
  <2>2. req'[q].cert = req[q].cert /\ Unsettled(req[q].cert) /\ req[q].cert \in Drawn
    BY <2>1 DEF IInv, HandlersApart
  <2>3. req[q].cert \in Certs
    BY <2>2, ServiceAssumption DEF Drawn, Certs, IInv, Typed
  <2>4. Unsettled(req[q].cert)'
    BY <1>1, <2>2, <2>3 DEF Unsettled, Quiet
  <2> QED
    BY <2>1, <2>2, <2>4 DEF IInv, HandlersApart
<1>6. ToldIsKept'
  BY <1>1 DEF ToldIsKept, IInv
<1>7. IssuedIsKept'
  BY <1>1 DEF IssuedIsKept, IInv, Quiet
<1> QED
  BY <1>2, <1>4, <1>5, <1>6, <1>7

\* The other handlers' certificates are where they were.
LEMMA QuietForOthers ==
  ASSUME IInv, NEW r \in Requests, Quiet(r), NEW q \in Requests, q # r
  PROVE  Published(q)'
<1>1. req'[q] = req[q]
  BY DEF Quiet, Steps
<1>2. Published(q)
  BY DEF IInv, PublishedSoFar
<1>3. Busy(q) => req[q].cert # req[r].cert
  BY DEF IInv, HandlersApart, Quiet, Steps
<1> QED
  BY <1>1, <1>2, <1>3 DEF Published, Quiet, Busy

LEMMA QuietStep ==
  ASSUME IInv, NEW r \in Requests, Quiet(r), Published(r)'
  PROVE  IInv'
<1>1. PublishedSoFar'
  BY QuietForOthers DEF PublishedSoFar
<1> QED
  BY <1>1, QuietKeeps DEF IInv

-----------------------------------------------------------------------------
(* The actions *)

LEMMA GetKeeps ==
  ASSUME IInv, NEW r \in Requests, Get(r)
  PROVE  IInv'
<1>1. /\ req[r].phase = "get" /\ req[r] \in Request /\ registry \in Registry
      /\ UNCHANGED <<server, github, next_cert, answers>>
  BY DEF Get, In, IInv, Typed
<1> DEFINE phase == IF req[r].cert \in registry.ids THEN "store" ELSE "put"
<1>2. req' = [req EXCEPT ![r] = [req[r] EXCEPT !.read = registry, !.phase = phase]]
  BY DEF Get
<1>3. [req[r] EXCEPT !.read = registry, !.phase = phase] \in Request
  BY <1>1 DEF Request
<1>4. /\ req' \in [Requests -> Request]
      /\ \A q \in Requests : q # r => req'[q] = req[q]
      /\ req'[r] = [req[r] EXCEPT !.read = registry, !.phase = phase]
  BY <1>2, <1>3 DEF IInv, Typed
<1>5. req'[r].phase = phase /\ req'[r].cert = req[r].cert
  BY <1>1, <1>4 DEF Request
<1>6. Quiet(r)
  <2>1. Steps(r)
    BY <1>1, <1>4, <1>5 DEF Steps, Busy
  <2> QED
    BY <1>1, <2>1 DEF Quiet, github, answers, IInv, Typed
<1>7. Published(r)'
  <2>1. Published(r)
    BY DEF IInv, PublishedSoFar
  <2> QED
    BY <1>1, <1>5, <2>1 DEF Published, github, answers
<1> QED
  BY <1>6, <1>7, QuietStep

\* A handler that ends, its call answered or not, without an answer of 201.
LEMMA EndKeeps ==
  ASSUME IInv, NEW r \in Requests, Busy(r), req' = [req EXCEPT ![r] = Idle],
         UNCHANGED <<server, github, next_cert, answers>>
  PROVE  IInv'
<1>1. /\ req' \in [Requests -> Request]
      /\ \A q \in Requests : q # r => req'[q] = req[q]
      /\ req'[r] = Idle /\ req'[r].phase = "idle"
  BY IdleTyped DEF IInv, Typed
<1>2. Quiet(r)
  BY <1>1 DEF Quiet, Steps, github, answers, IInv, Typed
<1>3. Published(r)'
  BY <1>1 DEF Published
<1> QED
  BY <1>2, <1>3, QuietStep

LEMMA PutRegistryKeeps ==
  ASSUME IInv, NEW r \in Requests, PutRegistry(r)
  PROVE  IInv'
<1>1. /\ req[r].phase = "put" /\ req[r] \in Request /\ req[r].read = registry
      /\ UNCHANGED <<server, files, next_cert, told_revoked, lost>>
      /\ Typed /\ Busy(r) /\ In(r, "put")
  BY DEF PutRegistry, In, Matches, Sha, IInv, Typed, Busy
<1>2. registry' = [registry EXCEPT !.ids = @ \cup {req[r].cert}]
  BY <1>1 DEF PutRegistry
<1>3. req[r].cert \in Certs
  BY <1>1, ServiceAssumption DEF IInv, HandlersApart, Drawn, Typed, Certs
<1>4. registry' \in Registry /\ registry'.ids = registry.ids \cup {req[r].cert}
  BY <1>2, <1>3 DEF IInv, Typed, Registry
<1>5. CASE req' = [req EXCEPT ![r].phase = "file"] /\ UNCHANGED <<answer, doubled>>
  <2>1. [req[r] EXCEPT !.phase = "file"] \in Request
    BY <1>1 DEF Request
  <2>2. /\ req' \in [Requests -> Request]
        /\ \A q \in Requests : q # r => req'[q] = req[q]
        /\ req'[r] = [req[r] EXCEPT !.phase = "file"]
    BY <1>5, <2>1, <1>1 DEF Typed
  <2>3. req'[r].phase = "file" /\ req'[r].cert = req[r].cert
    BY <1>1, <2>2 DEF Request
  <2>4. Steps(r)
    BY <1>1, <2>2, <2>3 DEF Steps
  <2>5. Quiet(r)
    BY <1>1, <1>4, <1>5, <2>4 DEF Quiet, Typed
  <2>6. Published(r)'
    BY <1>4, <2>3 DEF Published
  <2> QED
    BY <2>5, <2>6, QuietStep
<1>6. CASE Conflict(r) /\ doubled' = TRUE
  <2>1. Quiet(r)
    BY <1>1, <1>4, <1>6, ConflictSteps DEF Quiet, Typed
  <2>2. Published(r)'
    BY <1>1, <1>6, ConflictSteps DEF Published
  <2> QED
    BY <2>1, <2>2, QuietStep
<1>7. CASE req' = [req EXCEPT ![r] = Idle] /\ UNCHANGED <<answer, doubled>>
  <2>1. /\ req' \in [Requests -> Request]
        /\ \A q \in Requests : q # r => req'[q] = req[q]
        /\ req'[r].phase = "idle"
    BY <1>1, <1>7, IdleTyped DEF Typed
  <2>2. Quiet(r)
    BY <1>1, <1>4, <1>7, <2>1 DEF Quiet, Steps, Typed
  <2>3. Published(r)'
    BY <2>1 DEF Published
  <2> QED
    BY <2>2, <2>3, QuietStep
<1> QED
  BY <1>5, <1>6, <1>7 DEF PutRegistry

LEMMA PutRefusedKeeps ==
  ASSUME IInv, NEW r \in Requests, PutRefused(r)
  PROVE  IInv'
<1>1. /\ UNCHANGED <<server, github, next_cert, told_revoked, lost, doubled>>
      /\ Typed /\ Busy(r) /\ In(r, "put") /\ Published(r)
  BY DEF PutRefused, In, IInv, Busy, PublishedSoFar
<1>2. CASE Conflict(r)
  <2>1. Quiet(r)
    BY <1>1, <1>2, ConflictSteps DEF Quiet, Typed, github
  <2>2. req'[r].phase \in {"idle", "get"}
    BY <1>1, <1>2, ConflictSteps
  <2>3. Published(r)'
    BY <1>1, <2>1, <2>2 DEF Published, github, In, Quiet, Steps
  <2> QED
    BY <2>1, <2>3, QuietStep
<1>3. CASE req' = [req EXCEPT ![r] = Idle] /\ UNCHANGED answer
  BY <1>1, <1>3, EndKeeps DEF answers
<1> QED
  BY <1>2, <1>3 DEF PutRefused

LEMMA DropKeeps ==
  ASSUME IInv, NEW r \in Requests, Drop(r)
  PROVE  IInv'
  BY EndKeeps DEF Drop, In, Busy

LEMMA PutFileKeeps ==
  ASSUME IInv, NEW r \in Requests, PutFile(r)
  PROVE  IInv'
<1>1. /\ req[r].phase = "file" /\ req[r] \in Request /\ Busy(r)
      /\ files' = files \cup {req[r].cert}
      /\ UNCHANGED <<server, registry, next_cert, answers>>
      /\ Typed /\ Published(r)
  BY DEF PutFile, In, IInv, Typed, Busy, PublishedSoFar
<1>2. req[r].cert \in Certs
  BY <1>1, ServiceAssumption DEF IInv, HandlersApart, Drawn, Typed, Certs
<1>3. [req[r] EXCEPT !.phase = "store"] \in Request
  BY <1>1 DEF Request
<1>4. /\ req' \in [Requests -> Request]
      /\ \A q \in Requests : q # r => req'[q] = req[q]
      /\ req'[r] = [req[r] EXCEPT !.phase = "store"] \/ req'[r] = Idle
  BY <1>1, <1>3, IdleTyped DEF PutFile, Typed
<1>5. \/ req'[r].phase = "store" /\ req'[r].cert = req[r].cert
      \/ req'[r].phase = "idle"
  BY <1>1, <1>4, IdleTyped DEF Request
<1>6. Quiet(r)
  BY <1>1, <1>2, <1>4, <1>5 DEF Quiet, Steps, Typed, answers
<1>7. Published(r)'
  BY <1>1, <1>5 DEF Published
<1> QED
  BY <1>6, <1>7, QuietStep

LEMMA GiveUpKeeps ==
  ASSUME IInv, NEW r \in Requests, GiveUp(r)
  PROVE  IInv'
<1>1. /\ req[r].phase \in {"get", "put", "file"} /\ req[r] \in Request /\ Busy(r)
      /\ UNCHANGED <<server, github, next_cert, told_revoked, lost, doubled>>
      /\ answer' = [answer EXCEPT ![req[r].cert] = "refused"]
      /\ Typed /\ Published(r)
  BY DEF GiveUp, Answered, In, IInv, Typed, Busy, PublishedSoFar
<1>2. [req[r] EXCEPT !.waiting = FALSE] \in Request
  BY <1>1 DEF Request
<1>3. /\ req' \in [Requests -> Request]
      /\ \A q \in Requests : q # r => req'[q] = req[q]
      /\ req'[r] = [req[r] EXCEPT !.waiting = FALSE] \/ req'[r] = Idle
  BY <1>1, <1>2, IdleTyped DEF GiveUp, Typed
<1>4. \/ req'[r].phase = req[r].phase /\ req'[r].cert = req[r].cert
      \/ req'[r].phase = "idle"
  BY <1>1, <1>3, IdleTyped DEF Request
<1>5. Quiet(r)
  BY <1>1, <1>3, <1>4 DEF Quiet, Steps, Typed, github
<1>6. Published(r)'
  BY <1>1, <1>4 DEF Published, github
<1> QED
  BY <1>5, <1>6, QuietStep

\* The certificate is settled: memory, and the database unless the write
\* failed, have it, and no handler is busy with it any more.
LEMMA StoreKeeps ==
  ASSUME IInv, NEW r \in Requests, Store(r)
  PROVE  IInv'
<1> DEFINE c == req[r].cert
<1>1. /\ up = TRUE /\ req[r].phase = "store" /\ Busy(r)
      /\ known' = known \cup {c}
      /\ req' = [req EXCEPT ![r] = Idle]
      /\ UNCHANGED <<up, revoked, github, next_cert, told_revoked, lost, doubled>>
      /\ Typed /\ Published(r)
  BY DEF Store, Runs, In, IInv, Typed, Busy, PublishedSoFar
<1>2. /\ c \in Drawn /\ Unsettled(c)
      /\ \A q \in Requests : Busy(q) /\ q # r => req[q].cert # c
  BY <1>1 DEF IInv, HandlersApart
<1>3. c \in Certs
  BY <1>1, <1>2, ServiceAssumption DEF Drawn, Typed, Certs
<1>4. /\ req' \in [Requests -> Request]
      /\ \A q \in Requests : Busy(q)' => q # r /\ Busy(q) /\ req'[q] = req[q]
  BY <1>1, IdleTyped DEF Typed, Busy
<1>5. \/ /\ database' = Saved(known', revoked)
         /\ answer' = [answer EXCEPT ![c] = "issued"]
      \/ /\ database' \in {database, Torn}
         /\ answer' = [answer EXCEPT ![c] = "refused"]
  BY DEF Store, Answered
<1>6. /\ answer' \in [Certs -> {"none", "issued", "refused"}]
      /\ \A d \in Certs : answer'[d] = "issued" =>
           \/ answer[d] = "issued"
           \/ d = c /\ database' = Saved(known', revoked)
  BY <1>1, <1>3, <1>5 DEF Typed
<1>7. database' \in Database
  <2>1. known' \in SUBSET Certs /\ revoked \in SUBSET Certs /\ database \in Database
    BY <1>1, <1>3 DEF Typed
  <2> QED
    BY <1>5, <2>1, SavedTyped
<1>8. /\ database'.known \subseteq database.known \cup known \cup {c}
      /\ database'.whole => \/ database' = database
                             \/ database'.known = known \cup {c}
      /\ \A d \in told_revoked : d \in database'.known => d \in database'.revoked
  BY <1>1, <1>2, <1>5 DEF Saved, Torn, Unsettled, IInv, ToldIsKept
<1>9. Typed'
  BY <1>1, <1>3, <1>4, <1>6, <1>7 DEF Typed, github
<1>10. Drawn' = Drawn
  BY <1>1 DEF Drawn
<1>11. OnlyDrawn'
  BY <1>1, <1>2, <1>6, <1>8, <1>10 DEF OnlyDrawn, IInv, github
<1>12. HandlersApart'
  <2> SUFFICES ASSUME NEW q \in Requests, Busy(q)'
               PROVE  /\ req'[q].cert \in Drawn
                      /\ Unsettled(req[q].cert)'
                      /\ \A p \in Requests : Busy(p)' /\ p # q =>
                           req'[p].cert # req'[q].cert
    BY <1>10 DEF HandlersApart
  <2>1. q # r /\ Busy(q) /\ req'[q] = req[q]
    BY <1>4
  <2>2. /\ req[q].cert \in Drawn /\ Unsettled(req[q].cert) /\ req[q].cert # c
        /\ \A p \in Requests : Busy(p) /\ p # q => req[p].cert # req[q].cert
    BY <1>2, <2>1 DEF IInv, HandlersApart
  <2>3. req[q].cert \in Certs
    BY <1>1, <2>2, ServiceAssumption DEF Drawn, Typed, Certs
  <2>4. Unsettled(req[q].cert)'
    BY <1>1, <1>6, <1>8, <2>1, <2>2, <2>3 DEF Unsettled
  <2> QED
    BY <1>4, <2>1, <2>2, <2>4
<1>13. ToldIsKept'
  BY <1>1, <1>2, <1>8 DEF ToldIsKept, IInv, Unsettled
<1>14. PublishedSoFar'
  <2> SUFFICES ASSUME NEW q \in Requests PROVE Published(q)'
    BY DEF PublishedSoFar
  <2>1. CASE Busy(q)'
    BY <1>1, <1>4, <2>1 DEF Published, PublishedSoFar, IInv, github
  <2>2. CASE ~Busy(q)'
    BY <2>2 DEF Published, Busy
  <2> QED
    BY <2>1, <2>2
<1>15. IssuedIsKept'
  <2> SUFFICES ASSUME NEW d \in Certs, answer'[d] = "issued"
               PROVE  /\ d \in registry.ids
                      /\ ~doubled => d \in files
                      /\ ~lost => /\ d \in known'
                                  /\ database'.whole => d \in database'.known
    BY <1>1 DEF IssuedIsKept, github
  <2>1. CASE answer[d] = "issued"
    BY <1>1, <1>8, <2>1 DEF IInv, IssuedIsKept
  <2>2. CASE d = c /\ database' = Saved(known', revoked)
    BY <1>1, <2>2 DEF Published, Saved
  <2> QED
    BY <1>6, <2>1, <2>2
<1> QED
  BY <1>9, <1>11, <1>12, <1>13, <1>14, <1>15 DEF IInv

\* A new certificate has an id nothing knows.
LEMMA StartKeeps ==
  ASSUME IInv, NEW r \in Requests, Start(r)
  PROVE  IInv'
<1> DEFINE n == next_cert
<1>1. /\ req[r].phase = "idle" /\ n <= MaxCerts /\ next_cert' = n + 1
      /\ req' = [req EXCEPT ![r] = [Idle EXCEPT !.phase = "get", !.waiting = TRUE,
                                               !.cert = n]]
      /\ UNCHANGED <<server, github, answers>> /\ Typed
  BY DEF Start, In, IInv
<1>2. n \in Certs /\ n \notin Drawn /\ Drawn' = Drawn \cup {n}
  BY <1>1, ServiceAssumption DEF Typed, Certs, Drawn
<1>3. [Idle EXCEPT !.phase = "get", !.waiting = TRUE, !.cert = n] \in Request
  BY <1>2, IdleTyped DEF Request
<1>4. /\ req' \in [Requests -> Request]
      /\ \A q \in Requests : q # r => req'[q] = req[q]
      /\ req'[r].phase = "get" /\ req'[r].cert = n
  BY <1>1, <1>3, IdleTyped DEF Typed, Idle
<1>5. Typed'
  BY <1>1, <1>4, ServiceAssumption DEF Typed, server, github, answers
<1>6. OnlyDrawn'
  BY <1>1, <1>2 DEF OnlyDrawn, IInv, server, github, answers
<1>7. Unsettled(n) /\ n \notin registry.ids
  BY <1>2 DEF Unsettled, IInv, OnlyDrawn
<1>8. HandlersApart'
  <2>1. \A q \in Requests : Busy(q) => q # r /\ req[q].cert # n
    BY <1>1, <1>2 DEF IInv, HandlersApart, Busy
  <2>2. \A q \in Requests : Busy(q)' => q = r \/ Busy(q)
    BY <1>4 DEF Busy
  <2>3. \A q \in Requests : Busy(q) => Unsettled(req[q].cert) /\ req[q].cert \in Drawn
    BY DEF IInv, HandlersApart
  <2>4. \A q \in Requests : Busy(q)' =>
          req'[q].cert \in Drawn' /\ Unsettled(req[q].cert)'
    BY <1>1, <1>2, <1>4, <1>7, <2>1, <2>2, <2>3 DEF Unsettled, server, answers
  <2>5. \A q, p \in Requests : Busy(q)' /\ Busy(p)' /\ p # q =>
          req'[p].cert # req'[q].cert
    BY <1>4, <2>1, <2>2 DEF IInv, HandlersApart
  <2> QED
    BY <2>4, <2>5 DEF HandlersApart
<1>9. ToldIsKept' /\ IssuedIsKept'
  BY <1>1 DEF ToldIsKept, IssuedIsKept, IInv, server, github, answers
<1>10. PublishedSoFar'
  BY <1>1, <1>4, <1>7 DEF PublishedSoFar, Published, IInv, github, answers
<1> QED
  BY <1>5, <1>6, <1>8, <1>9, <1>10 DEF IInv

-----------------------------------------------------------------------------
(* Revocations, crashes and other writers *)

LEMMA RevokeKeeps ==
  ASSUME IInv, NEW c \in Certs, Revoke(c)
  PROVE  IInv'
<1>1. /\ up = TRUE /\ c \in known
      /\ revoked' = revoked \cup {c}
      /\ told_revoked' = told_revoked \cup {c}
      /\ UNCHANGED <<up, known, github, req, next_cert, answer, lost, doubled>>
      /\ database'.whole = TRUE /\ database'.known = known
      /\ database'.revoked = revoked \cup {c}
      /\ database' \in Database
  BY DEF Revoke, Saved, Database, IInv, Typed
<1>2. Typed' /\ Drawn' = Drawn
  BY <1>1 DEF IInv, Typed, github, Drawn
<1>3. OnlyDrawn'
  BY <1>1, <1>2 DEF IInv, OnlyDrawn, github
<1>4. HandlersApart'
  <2>1. \A q \in Requests : Unsettled(req[q].cert) => Unsettled(req[q].cert)'
    BY <1>1 DEF Unsettled
  <2> QED
    BY <1>1, <1>2, <2>1 DEF IInv, HandlersApart, Busy
<1>5. ToldIsKept'
  BY <1>1 DEF IInv, ToldIsKept
<1>6. PublishedSoFar' /\ IssuedIsKept'
  BY <1>1 DEF IInv, PublishedSoFar, Published, IssuedIsKept, github
<1> QED
  BY <1>2, <1>3, <1>4, <1>5, <1>6 DEF IInv

\* What a crash leaves has what memory had, but for the certificate of a
\* handler that was storing, or nothing.
LEMMA CrashLeavesSound ==
  ASSUME IInv, up, NEW d \in CrashLeaves
  PROVE  /\ d \in Database
         /\ \/ d = database \/ d = Torn
            \/ \E r \in Requests : /\ req[r].phase = "store"
                                    /\ d = Saved(known \cup {req[r].cert}, revoked)
            \/ \E c \in known : d = Saved(known, revoked \cup {c})
<1>1. \/ d = database \/ d = Torn
      \/ \E r \in Requests : /\ req[r].phase = "store"
                              /\ d = Saved(known \cup {req[r].cert}, revoked)
      \/ \E c \in known : d = Saved(known, revoked \cup {c})
  BY DEF CrashLeaves, Interrupted, In
<1>2. \A r \in Requests : req[r].phase = "store" => req[r].cert \in Certs
  BY ServiceAssumption DEF IInv, HandlersApart, Busy, Drawn, Typed, Certs
<1>3. /\ \A r \in Requests : req[r].phase = "store" =>
           known \cup {req[r].cert} \in SUBSET Certs
      /\ \A c \in known : revoked \cup {c} \in SUBSET Certs
      /\ known \in SUBSET Certs /\ revoked \in SUBSET Certs /\ database \in Database
  BY <1>2 DEF IInv, Typed
<1>4. d \in Database
  BY <1>1, <1>3, SavedTyped
<1> QED
  BY <1>1, <1>4

LEMMA CrashKeeps ==
  ASSUME IInv, Crash
  PROVE  IInv'
<1>1. /\ up = TRUE /\ up' = FALSE /\ known' = {} /\ revoked' = {}
      /\ database' \in CrashLeaves
      /\ UNCHANGED <<github, next_cert, answers>> /\ Typed
  BY DEF Crash, IInv, Typed
<1>2. /\ req' \in [Requests -> Request]
      /\ \A q \in Requests : Busy(q)' =>
           /\ req[q].phase \in {"put", "file"} /\ req'[q].phase = req[q].phase
           /\ req'[q].cert = req[q].cert
  <2>1. \A q \in Requests : req[q] \in Request
    BY <1>1 DEF Typed
  <2>2. \A q \in Requests : [req[q] EXCEPT !.waiting = FALSE] \in Request
    BY <2>1 DEF Request
  <2>3. \A q \in Requests :
          /\ req[q].phase \in {"put", "file"} =>
               req'[q] = [req[q] EXCEPT !.waiting = FALSE]
          /\ req[q].phase \notin {"put", "file"} => req'[q] = Idle
    BY DEF Crash
  <2>4. req' \in [Requests -> Request]
    BY <2>2, IdleTyped DEF Crash
  <2>5. \A q \in Requests : req[q].phase \in {"put", "file"} =>
          req'[q].phase = req[q].phase /\ req'[q].cert = req[q].cert
    BY <2>1, <2>3 DEF Request
  <2> QED
    BY <2>3, <2>4, <2>5, IdleTyped DEF Busy
<1>3. /\ database' \in Database
      /\ \/ database' = database \/ database' = Torn
         \/ \E r \in Requests : /\ req[r].phase = "store"
                                 /\ database' = Saved(known \cup {req[r].cert}, revoked)
         \/ \E c \in known : database' = Saved(known, revoked \cup {c})
  BY <1>1, CrashLeavesSound
<1>4. Typed' /\ Drawn' = Drawn
  BY <1>1, <1>2, <1>3 DEF Typed, Drawn, github, answers
<1>5. OnlyDrawn'
  <2>1. \A r \in Requests : req[r].phase = "store" => req[r].cert \in Drawn
    BY DEF IInv, HandlersApart, Busy
  <2>2. database'.known \subseteq Drawn
    BY <1>3, <2>1 DEF IInv, OnlyDrawn, Saved, Torn
  <2> QED
    BY <1>1, <1>4, <2>2 DEF IInv, OnlyDrawn, github, answers
<1>6. HandlersApart'
  <2>1. \A q \in Requests : Busy(q)' => Busy(q)
    BY <1>2 DEF Busy
  <2>2. \A q \in Requests : Busy(q)' =>
          \A r \in Requests : req[r].phase = "store" => req[r].cert # req[q].cert
    BY <1>2, <2>1 DEF IInv, HandlersApart, Busy
  <2>3. \A q \in Requests : Busy(q)' => req[q].cert \notin database'.known
    BY <1>3, <2>1, <2>2 DEF IInv, HandlersApart, Unsettled, Saved, Torn
  <2>4. \A q \in Requests : Busy(q)' => Unsettled(req[q].cert)'
    BY <1>1, <1>2, <2>1, <2>3 DEF IInv, HandlersApart, Unsettled, answers
  <2> QED
    BY <1>2, <1>4, <2>1, <2>4 DEF IInv, HandlersApart
<1>7. ToldIsKept'
  <2>1. \A r \in Requests : req[r].phase = "store" => req[r].cert \notin told_revoked
    BY DEF IInv, HandlersApart, Unsettled, Busy
  <2>2. \A c \in told_revoked : c \in database'.known => c \in database'.revoked
    BY <1>3, <2>1 DEF IInv, ToldIsKept, Saved, Torn
  <2> QED
    BY <1>1, <2>2 DEF ToldIsKept, answers
<1>8. PublishedSoFar'
  BY <1>1, <1>2 DEF PublishedSoFar, Published, IInv, Busy, github, answers
<1>9. IssuedIsKept'
  <2>1. \A c \in Certs : answer[c] = "issued" /\ ~lost /\ database'.whole =>
          c \in database'.known
    BY <1>1, <1>3 DEF IInv, IssuedIsKept, Saved, Torn
  <2> QED
    BY <1>1, <2>1 DEF IInv, IssuedIsKept, github, answers
<1> QED
  BY <1>4, <1>5, <1>6, <1>7, <1>8, <1>9 DEF IInv

LEMMA RestartKeeps ==
  ASSUME IInv, Restart
  PROVE  IInv'
<1>1. /\ up = FALSE /\ up' = TRUE
      /\ known' = database.known /\ revoked' = database.revoked
      /\ lost' = (lost \/ ~database.whole)
      /\ UNCHANGED <<database, github, req, next_cert, answer, told_revoked, doubled>>
      /\ Typed
  BY DEF Restart, IInv, Typed
<1>2. /\ database.known \subseteq Certs /\ database.revoked \subseteq Certs
      /\ database.whole \in BOOLEAN
  BY <1>1 DEF Typed, Database
<1>3. Typed' /\ Drawn' = Drawn
  BY <1>1, <1>2 DEF Typed, github, Drawn
<1>4. OnlyDrawn'
  BY <1>1, <1>3 DEF IInv, OnlyDrawn, github
<1>5. HandlersApart'
  <2>1. \A q \in Requests : Unsettled(req[q].cert) => Unsettled(req[q].cert)'
    BY <1>1 DEF Unsettled
  <2> QED
    BY <1>1, <1>3, <2>1 DEF IInv, HandlersApart, Busy
<1>6. ToldIsKept' /\ PublishedSoFar' /\ IssuedIsKept'
  BY <1>1 DEF IInv, ToldIsKept, PublishedSoFar, Published, IssuedIsKept, github
<1> QED
  BY <1>3, <1>4, <1>5, <1>6 DEF IInv

LEMMA EditKeeps ==
  ASSUME IInv, RegistryEdit
  PROVE  IInv'
<1>1. /\ UNCHANGED <<server, files, req, next_cert, answers>> /\ Typed
      /\ registry' \in Registry /\ registry'.ids = registry.ids
  BY DEF RegistryEdit, Registry, IInv, Typed
<1>2. Typed' /\ Drawn' = Drawn
  BY <1>1 DEF Typed, server, answers, Drawn
<1>3. OnlyDrawn' /\ ToldIsKept' /\ PublishedSoFar' /\ IssuedIsKept'
  BY <1>1, <1>2 DEF IInv, OnlyDrawn, ToldIsKept, PublishedSoFar, Published,
                    IssuedIsKept, server, answers
<1>4. HandlersApart'
  BY <1>1, <1>2 DEF IInv, HandlersApart, Unsettled, Busy, server, answers
<1> QED
  BY <1>2, <1>3, <1>4 DEF IInv

LEMMA StutterKeeps ==
  ASSUME IInv, UNCHANGED vars
  PROVE  IInv'
<1>1. /\ UNCHANGED <<up, known, revoked, database, registry, files, req, next_cert>>
      /\ UNCHANGED <<answer, told_revoked, lost, doubled>>
  BY DEF vars, server, github, answers
<1>2. Typed' /\ Drawn' = Drawn
  BY <1>1 DEF IInv, Typed, Drawn
<1>3. OnlyDrawn' /\ ToldIsKept' /\ PublishedSoFar' /\ IssuedIsKept'
  BY <1>1, <1>2 DEF IInv, OnlyDrawn, ToldIsKept, PublishedSoFar, Published,
                    IssuedIsKept
<1>4. HandlersApart'
  BY <1>1, <1>2 DEF IInv, HandlersApart, Unsettled, Busy
<1> QED
  BY <1>2, <1>3, <1>4 DEF IInv

-----------------------------------------------------------------------------
LEMMA InitHolds == Init => IInv
<1> SUFFICES ASSUME Init PROVE IInv
  OBVIOUS
<1>1. Typed
  <2>1. Saved({}, {}) \in Database /\ NoIds \in Registry
    BY SavedTyped DEF NoIds, Registry
  <2>2. next_cert \in 1..(MaxCerts + 1)
    BY ServiceAssumption DEF Init
  <2>3. req \in [Requests -> Request]
    BY IdleTyped DEF Init
  <2> QED
    BY <2>1, <2>2, <2>3 DEF Init, Typed
<1>2. OnlyDrawn /\ ToldIsKept /\ IssuedIsKept
  BY DEF Init, OnlyDrawn, ToldIsKept, IssuedIsKept, Saved, NoIds
<1>3. HandlersApart /\ PublishedSoFar
  BY IdleTyped DEF Init, HandlersApart, PublishedSoFar, Published, Busy
<1> QED
  BY <1>1, <1>2, <1>3 DEF IInv

LEMMA NextHolds == IInv /\ [Next]_vars => IInv'
<1> SUFFICES ASSUME IInv, [Next]_vars PROVE IInv'
  OBVIOUS
<1>1. ASSUME NEW r \in Requests, Start(r) \/ Handle(r) \/ Drop(r)
      PROVE  IInv'
  BY <1>1, StartKeeps, GetKeeps, PutRegistryKeeps, PutRefusedKeeps, PutFileKeeps,
     GiveUpKeeps, StoreKeeps, DropKeeps DEF Handle
<1>2. ASSUME NEW c \in Certs, Revoke(c)
      PROVE  IInv'
  BY <1>2, RevokeKeeps
<1> QED
  BY <1>1, <1>2, CrashKeeps, RestartKeeps, EditKeeps, StutterKeeps DEF Next

\* A certificate a caller was told is revoked is never reported active again,
\* whatever crashes, failed saves and cut-off databases lie between.
THEOREM RevocationsStand == Spec => []RevocationStands
<1>1. IInv => RevocationStands
  BY DEF IInv, ToldIsKept, RevocationStands, Active
<1> QED
  BY <1>1, InitHolds, NextHolds, PTL DEF Spec

\* A certificate that was handed out is in the registry, in the service and
\* has its file, with the exceptions the property names: a cut-off database
\* that was loaded, and a PUT that the network doubled.
THEOREM IssuedCertificatesPublished == Spec => []IssuedIsPublished
<1>1. IInv => IssuedIsPublished
  BY DEF IInv, IssuedIsKept, IssuedIsPublished
<1> QED
  BY <1>1, InitHolds, NextHolds, PTL DEF Spec

-----------------------------------------------------------------------------
(* The service keeps its types *)

\* A record is known before it is revoked, in memory and in the database, and
\* a certificate's file is written after its entry in the registry.
RecordsInOrder ==
    /\ revoked \subseteq known
    /\ database.revoked \subseteq database.known
    /\ files \subseteq registry.ids

\* Whatever a crash leaves was written by persist(), or is cut off.
LEMMA CrashLeavesOrder ==
    ASSUME RecordsInOrder, NEW d \in CrashLeaves
    PROVE  d.revoked \subseteq d.known
<1>1. CASE d = database
  BY <1>1 DEF RecordsInOrder
<1>2. CASE d = Torn
  BY <1>2 DEF Torn
<1>3. ASSUME NEW r \in Requests, d = Saved(known \cup {req[r].cert}, revoked)
      PROVE  d.revoked \subseteq d.known
  BY <1>3 DEF Saved, RecordsInOrder
<1>4. ASSUME NEW c \in known, d = Saved(known, revoked \cup {c})
      PROVE  d.revoked \subseteq d.known
  BY <1>4 DEF Saved, RecordsInOrder
<1> QED
  BY <1>1, <1>2, <1>3, <1>4 DEF CrashLeaves, Interrupted

LEMMA RecordsStep ==
    ASSUME IInv, RecordsInOrder, [Next]_vars
    PROVE  RecordsInOrder'
<1>1. registry \in Registry /\ database \in Database
  BY DEF IInv, Typed
<1>2. ASSUME NEW r \in Requests,
             Start(r) \/ Get(r) \/ PutRefused(r) \/ GiveUp(r) \/ Drop(r)
      PROVE  RecordsInOrder'
  BY <1>2 DEF Start, Get, PutRefused, GiveUp, Drop, server, github, RecordsInOrder
<1>3. ASSUME NEW r \in Requests, PutRegistry(r)
      PROVE  RecordsInOrder'
  <2>1. req[r].read = registry
    BY <1>3 DEF PutRegistry, Matches, Sha
  <2>2. registry' = [registry EXCEPT !.ids = @ \cup {req[r].cert}]
        /\ UNCHANGED <<server, files>>
    BY <1>3, <2>1 DEF PutRegistry
  <2>3. registry.ids \subseteq registry'.ids
    BY <1>1, <2>2 DEF Registry
  <2> QED
    BY <2>2, <2>3 DEF server, RecordsInOrder
<1>4. ASSUME NEW r \in Requests, PutFile(r)
      PROVE  RecordsInOrder'
  <2>1. req[r].cert \in registry.ids
    BY <1>4 DEF PutFile, In, IInv, PublishedSoFar, Published
  <2> QED
    BY <1>4, <2>1 DEF PutFile, server, RecordsInOrder
<1>5. ASSUME NEW r \in Requests, Store(r)
      PROVE  RecordsInOrder'
  <2>1. database'.revoked \subseteq database'.known
    BY <1>5 DEF Store, Saved, Torn, RecordsInOrder
  <2> QED
    BY <1>5, <2>1 DEF Store, github, RecordsInOrder
<1>6. ASSUME NEW c \in Certs, Revoke(c)
      PROVE  RecordsInOrder'
  BY <1>6 DEF Revoke, Saved, github, RecordsInOrder
<1>7. CASE Crash
  <2>1. database'.revoked \subseteq database'.known
    BY <1>7, CrashLeavesOrder DEF Crash
  <2> QED
    BY <1>7, <2>1 DEF Crash, github, RecordsInOrder
<1>8. CASE Restart
  BY <1>8 DEF Restart, github, RecordsInOrder
<1>9. CASE RegistryEdit
  <2>1. registry'.ids = registry.ids
    BY <1>1, <1>9 DEF RegistryEdit, Registry
  <2> QED
    BY <1>9, <2>1 DEF RegistryEdit, server, RecordsInOrder
<1>10. CASE UNCHANGED vars
  BY <1>10 DEF vars, server, github, RecordsInOrder
<1> QED
  BY <1>2, <1>3, <1>4, <1>5, <1>6, <1>7, <1>8, <1>9, <1>10 DEF Next, Handle

\* Through crashes, failed saves and late PUTs the service keeps its types,
\* among them what relates two stores: only a known record is revoked, and a
\* certificate with a file on GitHub is in the registry.
THEOREM ServiceTypes == Spec => []TypeOK
<1>1. Init => IInv /\ RecordsInOrder
  BY InitHolds DEF Init, RecordsInOrder, Saved
<1>2. IInv /\ RecordsInOrder /\ [Next]_vars => IInv' /\ RecordsInOrder'
  BY NextHolds, RecordsStep
<1>3. IInv /\ RecordsInOrder => TypeOK
  BY DEF IInv, Typed, RecordsInOrder, TypeOK
<1> QED
  BY <1>1, <1>2, <1>3, PTL DEF Spec

-----------------------------------------------------------------------------
\* No step of any handler, late PUT or other writer takes an id out of the
\* registry: the sha ties what is written to what was read.
THEOREM RegistryOnlyGrows == Spec => RegistryKeepsAll
<1>1. ASSUME IInv, [Next]_vars
      PROVE  [registry.ids \subseteq registry'.ids]_vars
  <2>1. ASSUME NEW r \in Requests, PutRegistry(r)
        PROVE  registry.ids \subseteq registry'.ids
    <3>1. registry \in Registry /\ req[r].read = registry
      BY <1>1, <2>1 DEF PutRegistry, Matches, Sha, IInv, Typed
    <3>2. registry' = [registry EXCEPT !.ids = @ \cup {req[r].cert}]
      BY <2>1, <3>1 DEF PutRegistry
    <3> QED
      BY <3>1, <3>2 DEF Registry
  <2>2. RegistryEdit => registry.ids \subseteq registry'.ids
    BY <1>1 DEF RegistryEdit, IInv, Typed, Registry
  <2>3. ASSUME NEW r \in Requests,
               Start(r) \/ Get(r) \/ PutRefused(r) \/ PutFile(r) \/ GiveUp(r)
                 \/ Store(r) \/ Drop(r)
        PROVE  registry' = registry
    BY <2>3 DEF Start, Get, PutRefused, PutFile, GiveUp, Store, Drop, github
  <2>4. (\E c \in Certs : Revoke(c)) \/ Crash \/ Restart \/ UNCHANGED vars =>
          registry' = registry
    BY DEF Revoke, Crash, Restart, vars, github
  <2> QED
    BY <1>1, <2>1, <2>2, <2>3, <2>4 DEF Next, Handle
<1> QED
  BY <1>1, InitHolds, NextHolds, PTL DEF Spec, RegistryKeepsAll

-----------------------------------------------------------------------------
(* Handlers come to an end *)

\* How many answers handler r can still wait for: two for each attempt it has
\* left, and the two that follow the last one.
AnswersLeft(r) ==
    IF ~req[r].waiting THEN 0
    ELSE CASE In(r, "get") -> 2 * (Attempts - 1 - req[r].attempt) + 4
           [] In(r, "put") -> 2 * (Attempts - 1 - req[r].attempt) + 3
           [] In(r, "file") -> 2
           [] In(r, "store") -> 1
           [] OTHER -> 0

WaitingIsBusy == \A r \in Requests : req[r].waiting => Busy(r)

\* What a step may do to a handler that waits.
HandlerAdvances(r) ==
    req[r].waiting => req'[r] = req[r] \/ AnswersLeft(r)' < AnswersLeft(r)

LEMMA LeftTyped ==
    ASSUME Typed, NEW r \in Requests
    PROVE  /\ req[r] \in Request /\ req[r].attempt \in 0..(Attempts - 1)
           /\ Attempts \in Nat /\ AnswersLeft(r) \in 0..(2 * Attempts + 2)
           /\ req[r].waiting /\ Busy(r) => AnswersLeft(r) > 0
<1>1. /\ req[r] \in Request /\ req[r].attempt \in 0..(Attempts - 1)
      /\ req[r].phase \in {"idle", "get", "put", "file", "store"}
      /\ Attempts \in Nat \ {0}
  BY ServiceAssumption DEF Typed, Request
<1> QED
  BY <1>1 DEF AnswersLeft, In, Busy

\* A conflict costs an attempt, or ends the handler.
LEMMA ConflictAdvances ==
    ASSUME Typed, NEW r \in Requests, req[r].waiting, In(r, "put"), Conflict(r)
    PROVE  AnswersLeft(r)' < AnswersLeft(r) /\ (req'[r].waiting => Busy(r)')
<1>1. /\ req \in [Requests -> Request] /\ req[r] \in Request
      /\ req[r].attempt \in 0..(Attempts - 1) /\ Attempts \in Nat
  BY LeftTyped DEF Typed
<1>2. CASE req[r].attempt = Attempts - 1
  <2>1. req'[r] = Idle
    BY <1>1, <1>2 DEF Conflict
  <2> QED
    BY <1>1, <2>1 DEF AnswersLeft, In, Busy, Idle
<1>3. CASE req[r].attempt # Attempts - 1
  <2>1. req'[r] = [req[r] EXCEPT !.phase = "get", !.attempt = @ + 1]
    BY <1>1, <1>3 DEF Conflict
  <2>2. /\ req'[r].phase = "get" /\ req'[r].attempt = req[r].attempt + 1
        /\ req'[r].waiting
    BY <1>1, <2>1 DEF Request
  <2>3. /\ AnswersLeft(r)' = 2 * (Attempts - 1 - (req[r].attempt + 1)) + 4
        /\ AnswersLeft(r) = 2 * (Attempts - 1 - req[r].attempt) + 3
    BY <2>2 DEF AnswersLeft, In
  <2> QED
    BY <1>1, <2>2, <2>3 DEF Busy
<1> QED
  BY <1>2, <1>3

LEMMA OwnStepAdvances ==
    ASSUME Typed, WaitingIsBusy, NEW r \in Requests, Handle(r) \/ Drop(r)
    PROVE  /\ req[r].waiting => AnswersLeft(r)' < AnswersLeft(r)
           /\ req'[r].waiting => Busy(r)'
           /\ \A q \in Requests : q # r => req'[q] = req[q]
<1>1. /\ req \in [Requests -> Request] /\ req[r] \in Request
      /\ req[r].attempt \in 0..(Attempts - 1) /\ Attempts \in Nat
  BY LeftTyped DEF Typed
<1>2. req[r].waiting => AnswersLeft(r) > 0
  BY LeftTyped DEF WaitingIsBusy
<1>3. \A q \in Requests : q # r => req'[q] = req[q]
  <2>1. Conflict(r) => \A q \in Requests : q # r => req'[q] = req[q]
    BY <1>1 DEF Conflict
  <2>2. Get(r) \/ PutFile(r) \/ GiveUp(r) \/ Store(r) \/ Drop(r)
          => \A q \in Requests : q # r => req'[q] = req[q]
    BY <1>1 DEF Get, PutFile, GiveUp, Store, Drop
  <2>3. PutRegistry(r) \/ PutRefused(r)
          => \A q \in Requests : q # r => req'[q] = req[q]
    BY <1>1, <2>1 DEF PutRegistry, PutRefused
  <2> QED
    BY <2>2, <2>3 DEF Handle
<1>4. ASSUME ~req'[r].waiting
      PROVE  req[r].waiting => AnswersLeft(r)' < AnswersLeft(r)
  <2>1. AnswersLeft(r)' = 0
    BY <1>4 DEF AnswersLeft
  <2> QED
    BY <1>2, <2>1
<1>5. CASE Get(r)
  <2>1. /\ req[r].phase = "get" /\ req'[r].phase \in {"store", "put"}
        /\ req'[r].attempt = req[r].attempt /\ req'[r].waiting = req[r].waiting
    BY <1>1, <1>5 DEF Get, In, Request
  <2> QED
    BY <1>1, <1>3, <1>4, <2>1 DEF AnswersLeft, In, Busy
<1>6. CASE PutRegistry(r) \/ PutRefused(r)
  <2>1. req[r].phase = "put"
    BY <1>6 DEF PutRegistry, PutRefused, In
  <2>2. CASE Runs(r) /\ Conflict(r)
    BY <1>3, <2>1, <2>2, ConflictAdvances DEF Runs, In
  <2>3. CASE Runs(r) /\ req' = [req EXCEPT ![r].phase = "file"]
    <3>1. /\ req'[r].phase = "file" /\ req'[r].attempt = req[r].attempt
          /\ req'[r].waiting = req[r].waiting
      BY <1>1, <2>3 DEF Request
    <3> QED
      BY <1>1, <1>3, <1>4, <2>1, <3>1 DEF AnswersLeft, In, Busy
  <2>4. CASE req' = [req EXCEPT ![r] = Idle]
    BY <1>1, <1>3, <1>4, <2>4 DEF Idle
  <2> QED
    BY <1>6, <2>2, <2>3, <2>4 DEF PutRegistry, PutRefused
<1>7. CASE PutFile(r)
  <2>1. /\ req[r].phase = "file"
        /\ \/ req'[r] = [req[r] EXCEPT !.phase = "store"]
           \/ req'[r] = Idle
    BY <1>1, <1>7 DEF PutFile, In
  <2>2. CASE req'[r] = Idle
    BY <1>3, <1>4, <2>2 DEF Idle
  <2>3. CASE req'[r] = [req[r] EXCEPT !.phase = "store"]
    <3>1. req'[r].phase = "store" /\ req'[r].waiting = req[r].waiting
      BY <1>1, <2>3 DEF Request
    <3> QED
      BY <1>3, <1>4, <2>1, <3>1 DEF AnswersLeft, In, Busy
  <2> QED
    BY <2>1, <2>2, <2>3
<1>8. CASE GiveUp(r) \/ Store(r) \/ Drop(r)
  <2>1. ~req'[r].waiting
    BY <1>1, <1>8 DEF GiveUp, Store, Drop, Idle, Request
  <2> QED
    BY <1>3, <1>4, <2>1
<1> QED
  BY <1>5, <1>6, <1>7, <1>8 DEF Handle

LEMMA HandlerStep ==
    ASSUME IInv, WaitingIsBusy, [Next]_vars
    PROVE  WaitingIsBusy' /\ \A r \in Requests : HandlerAdvances(r)
<1>1. Typed /\ req \in [Requests -> Request]
  BY DEF IInv, Typed
<1>2. ASSUME UNCHANGED req
      PROVE  WaitingIsBusy' /\ \A r \in Requests : HandlerAdvances(r)
  BY <1>2 DEF WaitingIsBusy, Busy, HandlerAdvances
<1>3. ASSUME NEW r \in Requests, Start(r)
      PROVE  WaitingIsBusy' /\ \A q \in Requests : HandlerAdvances(q)
  <2>1. /\ ~Busy(r) /\ req'[r].phase = "get"
        /\ \A q \in Requests : q # r => req'[q] = req[q]
    BY <1>1, <1>3 DEF Start, In, Busy, Idle
  <2> QED
    BY <2>1 DEF WaitingIsBusy, Busy, HandlerAdvances
<1>4. ASSUME NEW r \in Requests, Handle(r) \/ Drop(r)
      PROVE  WaitingIsBusy' /\ \A q \in Requests : HandlerAdvances(q)
  <2>1. /\ req[r].waiting => AnswersLeft(r)' < AnswersLeft(r)
        /\ req'[r].waiting => Busy(r)'
        /\ \A q \in Requests : q # r => req'[q] = req[q]
    BY <1>1, <1>4, OwnStepAdvances
  <2> QED
    BY <2>1 DEF WaitingIsBusy, Busy, HandlerAdvances
<1>5. CASE Crash
  <2>1. \A r \in Requests : ~req'[r].waiting
    BY <1>1, <1>5 DEF Crash, Idle, Request
  <2>2. \A r \in Requests : AnswersLeft(r)' = 0
    BY <2>1 DEF AnswersLeft
  <2>3. \A r \in Requests : req[r].waiting => AnswersLeft(r) > 0
    BY <1>1, LeftTyped DEF WaitingIsBusy
  <2> QED
    BY <2>1, <2>2, <2>3 DEF WaitingIsBusy, HandlerAdvances
<1>6. (\E c \in Certs : Revoke(c)) \/ Restart \/ RegistryEdit \/ UNCHANGED vars
        => UNCHANGED req
  BY DEF Revoke, Restart, RegistryEdit, vars
<1> QED
  BY <1>2, <1>3, <1>4, <1>5, <1>6 DEF Next

\* No conflict with other writers keeps a handler going for ever: whatever the
\* others do, a step leaves a handler that waits as it is or takes at least one
\* off the answers it can still wait for, which are two for each attempt and two
\* more at most.  It is the half of RequestEnds that needs no fairness.
THEOREM HandlersAdvance ==
    Spec => /\ [](\A r \in Requests : AnswersLeft(r) \in 0..(2 * Attempts + 2))
            /\ [][\A r \in Requests : HandlerAdvances(r)]_vars
<1>1. Init => WaitingIsBusy
  BY DEF Init, WaitingIsBusy, Idle
<1>2. IInv /\ WaitingIsBusy /\ [Next]_vars
        => WaitingIsBusy' /\ [\A r \in Requests : HandlerAdvances(r)]_vars
  BY HandlerStep
<1>3. IInv => \A r \in Requests : AnswersLeft(r) \in 0..(2 * Attempts + 2)
  BY LeftTyped DEF IInv
<1> QED
  BY <1>1, <1>2, <1>3, InitHolds, NextHolds, PTL DEF Spec

-----------------------------------------------------------------------------
(***************************************************************************)
(* The workflow only ever adds a validated registry to the branch.         *)
(***************************************************************************)

TreeIsSound(tree) ==
    /\ tree.copy \in valid
    /\ tree.place => tree.section = tree.copy

\* The inductive invariant: the tree a run works on lies on the commit it
\* checked out, and is validated once it is to be pushed.
SyncInv ==
    /\ SyncKeepsMain
    /\ published \in Versions /\ served \in 1..published
    /\ hands \in 0..MaxHands
    /\ run.phase \in {"fetch", "validate", "push"} =>
         run.tree.below = run.from.below
    /\ run.phase = "push" => TreeIsSound(run.tree) /\ run.tree.by = "workflow"

LEMMA NoRunTyped ==
    ASSUME MaxVersion \in Nat \ {0}, MaxHands \in Nat
    PROVE  NoRun \in Run /\ NewRun \in Run /\ Blank \in Tree
<1>1. Blank \in Tree
  BY DEF Blank, Tree, Edited
<1> QED
  BY <1>1 DEF NoRun, NewRun, Run, Phases

\* A run that begins or ends leaves the branch alone.
LEMMA RunBounds ==
    ASSUME MaxVersion \in Nat \ {0}, MaxHands \in Nat, SyncInv,
           run' \in {NoRun, NewRun},
           UNCHANGED <<published, valid, served, main, hands>>
    PROVE  SyncInv'
<1>1. run' \in Run /\ run'.phase \in {"none", "checkout"}
  BY NoRunTyped DEF NoRun, NewRun, Run
<1> QED
  BY <1>1 DEF SyncInv, SyncKeepsMain

LEMMA CheckoutKeeps ==
    ASSUME SyncInv, Checkout
    PROVE  SyncInv'
<1>1. run' = [phase |-> "fetch", tree |-> main, from |-> main]
      /\ UNCHANGED <<published, valid, served, main, hands>>
  BY DEF Checkout
<1>2. run' \in Run
  BY <1>1 DEF SyncInv, SyncKeepsMain, Run, Phases
<1> QED
  BY <1>1, <1>2 DEF SyncInv, SyncKeepsMain

LEMMA FetchKeeps ==
    ASSUME MaxVersion \in Nat \ {0}, SyncInv, Fetch
    PROVE  SyncInv'
<1>1. PICK v \in served..published :
        run' = [run EXCEPT !.phase = "validate", !.tree.copy = v]
  BY DEF Fetch
<1>2. UNCHANGED <<published, valid, served, main, hands>> /\ run.phase = "fetch"
  BY DEF Fetch
<1>3. v \in 0..MaxVersion
  BY <1>1 DEF SyncInv, Versions
<1>4. run.tree \in Tree /\ run.from \in Tree /\ run \in Run
  BY DEF SyncInv, SyncKeepsMain, Run
<1>5. [run.tree EXCEPT !.copy = v] \in Tree
  BY <1>3, <1>4 DEF Tree
<1>6. run' = [phase |-> "validate", from |-> run.from,
              tree |-> [run.tree EXCEPT !.copy = v]]
  BY <1>1, <1>4 DEF Run
<1>7. run' \in Run /\ run'.tree.below = run'.from.below /\ run'.phase = "validate"
  BY <1>2, <1>4, <1>5, <1>6 DEF Run, Phases, Tree, SyncInv
<1> QED
  BY <1>2, <1>7 DEF SyncInv, SyncKeepsMain

\* What is to be pushed is valid and shown as it is copied.
LEMMA ValidateKeeps ==
    ASSUME MaxVersion \in Nat \ {0}, MaxHands \in Nat, SyncInv, Validate
    PROVE  SyncInv'
<1> DEFINE tree == Shown(run.tree)
           new == [run EXCEPT !.phase = "push",
                              !.tree = [tree EXCEPT !.by = "workflow"]]
<1>1. UNCHANGED <<published, valid, served, main, hands>>
      /\ run.phase = "validate"
  BY DEF Validate
<1>2. CASE run' = NoRun
  BY <1>1, <1>2, RunBounds
<1>3. CASE run' = new /\ run.tree.copy \in valid
  <2>1. run.tree \in Tree /\ run.from \in Tree /\ run \in Run
    BY DEF SyncInv, SyncKeepsMain, Run
  <2>2. /\ tree \in Tree
        /\ tree.copy = run.tree.copy /\ tree.below = run.tree.below
        /\ tree.place => tree.section = tree.copy
    BY <2>1 DEF Shown, Tree
  <2> HIDE DEF tree
  <2>3. /\ [tree EXCEPT !.by = "workflow"] \in Tree
        /\ TreeIsSound([tree EXCEPT !.by = "workflow"])
        /\ [tree EXCEPT !.by = "workflow"].by = "workflow"
        /\ [tree EXCEPT !.by = "workflow"].below = run.from.below
    BY <1>1, <1>3, <2>2 DEF Tree, TreeIsSound, SyncInv
  <2>4. run' = [phase |-> "push", from |-> run.from,
                tree |-> [tree EXCEPT !.by = "workflow"]]
    BY <1>3, <2>1 DEF Run
  <2>5. run' \in Run
    BY <2>1, <2>3, <2>4 DEF Run, Phases
  <2>6. /\ run'.tree.below = run'.from.below
        /\ run'.tree.copy \in valid' /\ run'.tree.by = "workflow"
        /\ run'.tree.place => run'.tree.section = run'.tree.copy
    BY <1>1, <2>3, <2>4 DEF TreeIsSound
  <2> QED
    BY <1>1, <2>5, <2>6 DEF SyncInv, SyncKeepsMain, TreeIsSound
<1> QED
  BY <1>2, <1>3 DEF Validate

\* A push lands on the commit it was made from, or nowhere.
LEMMA PushKeeps ==
    ASSUME MaxVersion \in Nat \ {0}, MaxHands \in Nat, SyncInv, Push
    PROVE  SyncInv'
<1>1. CASE ~FastForward
  BY <1>1, RunBounds DEF Push
<1>2. CASE FastForward
  <2>1. /\ main' = run.tree /\ run' = NoRun
        /\ UNCHANGED <<published, valid, served, hands>>
    BY <1>2 DEF Push
  <2>2. run.tree \in Tree /\ TreeIsSound(run.tree) /\ run.tree.below = hands
    BY <1>2 DEF Push, FastForward, SyncInv, SyncKeepsMain, Run
  <2>3. run' \in Run /\ run'.phase = "none"
    BY <2>1, NoRunTyped DEF NoRun
  <2> QED
    BY <2>1, <2>2, <2>3 DEF SyncInv, SyncKeepsMain, TreeIsSound
<1> QED
  BY <1>1, <1>2

LEMMA HandCommitKeeps ==
    ASSUME MaxVersion \in Nat \ {0}, MaxHands \in Nat, SyncInv, HandCommit
    PROVE  SyncInv'
<1>1. PICK copy \in {main.copy, Edited}, section \in {main.section, Edited},
           place \in BOOLEAN :
        main' = [copy |-> copy, section |-> section, place |-> place,
                 below |-> main.below + 1, by |-> "hand"]
  BY DEF HandCommit
<1>2. /\ hands' = hands + 1 /\ hands < MaxHands
      /\ UNCHANGED <<published, valid, served, run>>
  BY DEF HandCommit
<1>3. main \in Tree /\ main.below = hands /\ hands \in 0..MaxHands
  BY DEF SyncInv, SyncKeepsMain
<1>4. main'.below = hands' /\ main'.by = "hand"
  BY <1>1, <1>2, <1>3
<1>5. main' \in Tree /\ hands' \in 0..MaxHands
  BY <1>1, <1>2, <1>3 DEF Tree, Edited
<1> QED
  BY <1>2, <1>4, <1>5 DEF SyncInv, SyncKeepsMain, TreeIsSound

\* Publishing adds a registry, and takes none of the valid ones away.
LEMMA PublishKeeps ==
    ASSUME MaxVersion \in Nat \ {0}, SyncInv, Publish \/ Refresh
    PROVE  SyncInv'
<1>1. /\ valid \subseteq valid'
      /\ published' \in Versions /\ served' \in 1..published'
      /\ UNCHANGED <<main, run, hands>>
  BY DEF Publish, Refresh, SyncInv, Versions
<1> QED
  BY <1>1 DEF SyncInv, SyncKeepsMain, TreeIsSound

-----------------------------------------------------------------------------
(* Theorems *)

LEMMA SyncInvariant == SyncSpec => []SyncInv
<1> USE SyncAssumption
<1>1. SyncInit => SyncInv
  <2> SUFFICES ASSUME SyncInit PROVE SyncInv
    OBVIOUS
  <2>1. PICK copy \in {Edited, 1}, place \in BOOLEAN :
          main = [Blank EXCEPT !.copy = copy, !.place = place]
    BY DEF SyncInit
  <2>2. main \in Tree /\ main.below = 0 /\ main.by = "hand"
    <3>1. main = [copy |-> copy, section |-> 0, place |-> place, below |-> 0,
                  by |-> "hand"]
      BY <2>1 DEF Blank, Edited
    <3>2. copy \in 0..MaxVersion
      BY DEF Edited
    <3> QED
      BY <3>1, <3>2 DEF Tree
  <2>3. run \in Run /\ run.phase = "none"
    BY NoRunTyped DEF SyncInit, NoRun
  <2>4. published \in Versions /\ served \in 1..published /\ hands \in 0..MaxHands
    BY DEF SyncInit, Versions
  <2>5. main.below = hands
    BY <2>2 DEF SyncInit
  <2> QED
    BY <2>2, <2>3, <2>4, <2>5 DEF SyncInv, SyncKeepsMain
<1>2. SyncInv /\ [SyncNext]_sync_vars => SyncInv'
  <2> SUFFICES ASSUME SyncInv, [SyncNext]_sync_vars PROVE SyncInv'
    OBVIOUS
  <2>1. CASE StartRun \/ Cancel \/ Fail
    BY <2>1, RunBounds DEF StartRun, Cancel, Fail
  <2>2. CASE RunStep
    BY <2>2, CheckoutKeeps, FetchKeeps, ValidateKeeps, PushKeeps DEF RunStep
  <2>3. CASE Publish \/ Refresh
    BY <2>3, PublishKeeps
  <2>4. CASE HandCommit
    BY <2>4, HandCommitKeeps
  <2>5. CASE UNCHANGED sync_vars
    BY <2>5 DEF sync_vars, SyncInv, SyncKeepsMain, TreeIsSound
  <2> QED
    BY <2>1, <2>2, <2>3, <2>4, <2>5 DEF SyncNext, Disturbance
<1> QED
  BY <1>1, <1>2, PTL DEF SyncSpec

\* Whatever is published, committed and cancelled between the steps of a run,
\* a commit of the workflow holds a validated registry, the same in
\* registry.json and README.md, and lies on every commit made by hand.
THEOREM SyncAddsValidated == SyncSpec => []SyncKeepsMain
<1>1. SyncInv => SyncKeepsMain
  BY DEF SyncInv
<1> QED
  BY <1>1, SyncInvariant, PTL

-----------------------------------------------------------------------------
(* A run catches up *)

\* Every download answers with the newest registry, and the workflow accepts it.
NewestServed == served = published /\ published \in valid

\* A run that works on what is on the branch, with the newest registry once it
\* has fetched one.
OnCourse ==
    /\ NewestServed
    /\ run.phase \in {"fetch", "validate", "push"} /\ run.from = main
    /\ run.phase = "fetch" => run.tree = main
    /\ run.phase \in {"validate", "push"} =>
         run.tree.copy = published /\ run.tree.place = main.place

CaughtUp ==
    /\ NewestServed
    /\ main.copy = published /\ (main.place => main.section = published)
    /\ run.phase \in {"validate", "push"} => run.tree.copy = published

CatchesUp ==
    /\ NewestServed /\ Checkout => OnCourse'
    /\ OnCourse /\ RunStep => OnCourse' \/ CaughtUp'
    /\ CaughtUp => CaughtUp' \/ Publish \/ HandCommit

LEMMA RunParts ==
    ASSUME SyncInv
    PROVE  /\ run \in Run /\ run.tree \in Tree /\ run.from \in Tree /\ main \in Tree
           /\ main.below = hands
           /\ run.phase = "push" =>
                (run.tree.place => run.tree.section = run.tree.copy)
BY DEF SyncInv, SyncKeepsMain, Run, TreeIsSound

LEMMA FetchedTree ==
    ASSUME SyncInv, NewestServed, Fetch
    PROVE  /\ run'.phase = "validate" /\ run'.from = run.from
           /\ run'.tree.copy = published /\ run'.tree.place = run.tree.place
           /\ UNCHANGED <<published, valid, served, main>>
<1>1. PICK v \in served..published :
        run' = [run EXCEPT !.phase = "validate", !.tree.copy = v]
  BY DEF Fetch
<1>2. published \in Nat /\ v = published
  BY DEF NewestServed, SyncInv, Versions
<1>3. run \in Run /\ run.tree \in Tree
  BY RunParts
<1> QED
  BY <1>1, <1>2, <1>3 DEF Fetch, Run, Tree

LEMMA CourseKept ==
    ASSUME SyncInv, OnCourse, RunStep
    PROVE  OnCourse' \/ CaughtUp'
<1>1. /\ run \in Run /\ run.tree \in Tree /\ main \in Tree
      /\ run.phase = "push" => (run.tree.place => run.tree.section = run.tree.copy)
  BY RunParts
<1>2. ~Checkout
  BY DEF OnCourse, Checkout
<1>3. CASE Fetch
  <2>1. run.tree = main
    BY <1>3 DEF Fetch, OnCourse
  <2> QED
    BY <1>3, <2>1, FetchedTree DEF OnCourse, NewestServed
<1>4. CASE Validate
  <2> DEFINE tree == Shown(run.tree)
  <2>1. /\ run.tree.copy = published /\ run.tree.place = main.place /\ run.from = main
        /\ published \in valid
        /\ UNCHANGED <<published, valid, served, main, hands>>
    BY <1>4 DEF Validate, OnCourse, NewestServed
  <2>2. /\ tree \in Tree /\ tree.copy = run.tree.copy /\ tree.place = run.tree.place
        /\ tree.place => tree.section = tree.copy
    BY <1>1 DEF Shown, Tree
  <2>3. CASE SameFiles(tree, run.from)
    <3>1. run' = NoRun
      BY <1>4, <2>3 DEF Validate
    <3>2. main.copy = published /\ (main.place => main.section = published)
      BY <2>1, <2>2, <2>3 DEF SameFiles
    <3> QED
      BY <2>1, <3>1, <3>2 DEF CaughtUp, OnCourse, NewestServed, NoRun
  <2>4. CASE ~SameFiles(tree, run.from)
    <3>1. run' = [run EXCEPT !.phase = "push",
                             !.tree = [tree EXCEPT !.by = "workflow"]]
      BY <1>4, <2>1, <2>4 DEF Validate
    <3> HIDE DEF tree
    <3>2. /\ run'.phase = "push" /\ run'.from = run.from
          /\ run'.tree.copy = tree.copy /\ run'.tree.place = tree.place
      BY <1>1, <2>2, <3>1 DEF Run, Tree
    <3> QED
      BY <2>1, <2>2, <3>2 DEF OnCourse, NewestServed
  <2> QED
    BY <2>3, <2>4
<1>5. CASE Push
  <2>1. run.phase = "push" /\ run.from = main /\ run.tree.copy = published
    BY <1>5 DEF Push, OnCourse
  <2>2. main' = run.tree /\ run' = NoRun /\ UNCHANGED <<published, valid, served>>
    BY <1>5, <2>1 DEF Push, FastForward
  <2> QED
    BY <1>1, <2>1, <2>2 DEF CaughtUp, OnCourse, NewestServed, NoRun
<1> QED
  BY <1>2, <1>3, <1>4, <1>5 DEF RunStep

LEMMA CaughtUpStays ==
    ASSUME SyncInv, CaughtUp, SyncNext, ~Publish, ~HandCommit
    PROVE  CaughtUp'
<1>1. /\ run \in Run /\ run.tree \in Tree /\ published \in Nat
      /\ run.phase = "push" => (run.tree.place => run.tree.section = run.tree.copy)
  BY RunParts DEF SyncInv, Versions
<1>2. CASE StartRun \/ Cancel \/ Fail
  BY <1>2 DEF StartRun, Cancel, Fail, NewRun, NoRun, CaughtUp, NewestServed
<1>3. CASE Checkout
  BY <1>3 DEF Checkout, CaughtUp, NewestServed
<1>4. CASE Fetch
  BY <1>4, FetchedTree DEF CaughtUp, NewestServed
<1>5. CASE Validate
  <2> DEFINE tree == Shown(run.tree)
  <2>1. tree \in Tree /\ tree.copy = run.tree.copy
    BY <1>1 DEF Shown, Tree
  <2>2. \/ run' = NoRun
        \/ run' = [run EXCEPT !.phase = "push",
                              !.tree = [tree EXCEPT !.by = "workflow"]]
    BY <1>5 DEF Validate
  <2> HIDE DEF tree
  <2>3. run'.phase \in {"validate", "push"} => run'.tree.copy = run.tree.copy
    <3>1. run' = NoRun => run'.phase = "none"
      BY DEF NoRun
    <3>2. run' = [run EXCEPT !.phase = "push",
                             !.tree = [tree EXCEPT !.by = "workflow"]]
            => run'.tree.copy = tree.copy
      BY <1>1, <2>1 DEF Run, Tree
    <3> QED
      BY <2>1, <2>2, <3>1, <3>2
  <2>4. run.tree.copy = published /\ UNCHANGED <<published, valid, served, main>>
    BY <1>5 DEF Validate, CaughtUp
  <2> QED
    BY <2>3, <2>4 DEF CaughtUp, NewestServed
<1>6. CASE Push
  <2>1. /\ run.tree.copy = published /\ run.phase = "push"
        /\ main' \in {main, run.tree} /\ run' = NoRun
        /\ UNCHANGED <<published, valid, served>>
    BY <1>6 DEF Push, CaughtUp
  <2> QED
    BY <1>1, <2>1 DEF CaughtUp, NewestServed, NoRun
<1>7. ~Refresh
  BY <1>1 DEF Refresh, CaughtUp, NewestServed
<1> QED
  BY <1>2, <1>3, <1>4, <1>5, <1>6, <1>7 DEF SyncNext, RunStep, Disturbance

\* Once the newest registry is what every download answers with, and is valid, a
\* run that checks the branch out and is not disturbed brings both files up to
\* it, step by step; and then only a new registry or a commit by hand can part
\* them from it.  It is the half of CopyCatchesUp that needs no fairness.
THEOREM RunCatchesUp == SyncSpec => [][CatchesUp]_sync_vars
<1>1. ASSUME SyncInv, [SyncNext]_sync_vars
      PROVE  [CatchesUp]_sync_vars
  <2> SUFFICES ASSUME SyncNext PROVE CatchesUp
    BY <1>1
  <2>1. NewestServed /\ Checkout => OnCourse'
    BY DEF Checkout, OnCourse, NewestServed
  <2>2. OnCourse /\ RunStep => OnCourse' \/ CaughtUp'
    BY <1>1, CourseKept
  <2>3. CaughtUp => CaughtUp' \/ Publish \/ HandCommit
    BY <1>1, CaughtUpStays
  <2> QED
    BY <2>1, <2>2, <2>3 DEF CatchesUp
<1> QED
  BY <1>1, SyncInvariant, PTL DEF SyncSpec

-----------------------------------------------------------------------------
(* The composition *)

\* A behaviour of the two programs side by side is one of each: which of them
\* runs is chosen at the start, and the other rests.  Of the workflow's fairness
\* nothing is said, and none of its theorems needs it.
THEOREM ProgramsAreThemselves ==
    BothSpec => /\ Spec
                /\ SyncInit /\ [][SyncNext]_sync_vars
<1>1. BothInit => Init /\ SyncInit
  BY DEF BothInit
<1>2. [ServiceNext \/ WorkflowNext]_<<used, vars, sync_vars>>
        => [Next]_vars /\ [SyncNext]_sync_vars
  BY DEF ServiceNext, WorkflowNext
<1> QED
  BY <1>1, <1>2, PTL DEF BothSpec, Spec
=============================================================================
