--------------------------- MODULE Libraries_proofs ---------------------------
(***************************************************************************)
(* Proofs about the parts nothing in the kernel calls yet: the certificate *)
(* that is trusted, activation, the development targets and what a caller  *)
(* of the application reader keeps.  Only one of them takes steps, and the *)
(* others stay as they were initialised.                                   *)
(***************************************************************************)
EXTENDS Libraries, Induction, FiniteSetTheorems, SequenceTheorems

-----------------------------------------------------------------------------
(* The trusted certificate *)

\* The server accepts a certificate only when there is one.
LEMMA ServerAccepts ==
    ASSUME NEW c, NEW a, Trust!ServerStatus(c, a) = "Valid"
    PROVE  c # NoCert
BY DEF Trust!ServerStatus

LEMMA TrustStep ==
    ASSUME TrustedIsSound, Trust!Next
    PROVE  TrustedIsSound'
<1> USE DEF TrustedIsSound, Trust!TrustedIsSound
<1>1. ASSUME NEW c \in Certs \cup {NoCert}, NEW a \in Trust!Answer,
             Trust!ApplyServerValidation(c, a)
      PROVE  TrustedIsSound'
  <2>1. CASE Trust!ServerStatus(c, a) = "Valid"
    <3>1. c # NoCert /\ current' = Trust!Installed(c)
          /\ confirmed' = confirmed \cup {c}
      BY <1>1, <2>1, ServerAccepts DEF Trust!ApplyServerValidation
    <3>2. CASE Trust!ValidAt(c, c.issued)
      <4>1. current' = c
        BY <3>1, <3>2 DEF Trust!Installed
      <4>2. /\ c.header /\ c.body /\ c.issued \in Int /\ c.expires \in Int
            /\ ~(c.expires <= c.issued) /\ ~(c.expires - c.issued > Validity)
        BY <1>1, <3>1, <3>2, CertAssumption
           DEF Trust!ValidAt, Trust!Expired, Trust!Certificate
      <4>3. c.issued < c.expires /\ c.expires - c.issued <= Validity
        BY <4>2, CertAssumption
      <4> QED
        BY <3>1, <4>1, <4>2, <4>3
    <3>3. CASE ~Trust!ValidAt(c, c.issued)
      BY <3>1, <3>3 DEF Trust!Installed
    <3> QED
      BY <3>2, <3>3
  <2>2. CASE Trust!ServerStatus(c, a) # "Valid"
    BY <1>1, <2>2 DEF Trust!ApplyServerValidation, Trust!Refused
  <2> QED
    BY <2>1, <2>2
<1>2. CASE Trust!RemoveInvalidCertificate
  BY <1>2 DEF Trust!RemoveInvalidCertificate
<1>3. ASSUME NEW c \in Certs, Trust!RenewManually(c)
      PROVE  TrustedIsSound'
  BY <1>3 DEF Trust!RenewManually
<1>4. CASE Trust!Tick
  BY <1>4 DEF Trust!Tick
<1> QED
  BY <1>1, <1>2, <1>3, <1>4 DEF Trust!Next

\* The trusted certificate is sound: it passed every local check, and the
\* server's last answer about it was good, for any certificates and clock.
THEOREM TrustSound == LSpec => []TrustedIsSound
<1>1. LInit => TrustedIsSound
  BY DEF LInit, Trust!Init, TrustedIsSound, Trust!TrustedIsSound
<1>2. TrustedIsSound /\ [LNext]_lvars => TrustedIsSound'
  <2> SUFFICES ASSUME TrustedIsSound, [LNext]_lvars PROVE TrustedIsSound'
    OBVIOUS
  <2>1. CASE Trust!Next
    BY <2>1, TrustStep
  <2>2. CASE UNCHANGED trust
    BY <2>2 DEF trust, TrustedIsSound, Trust!TrustedIsSound
  <2> QED
    BY <2>1, <2>2 DEF LNext, lvars
<1> QED
  BY <1>1, <1>2, PTL DEF LSpec

LEMMA SuccessStep ==
    ASSUME Trust!Next, NEW c \in Certs, Trust!Succeeds(c)
    PROVE  current' = c
<1>1. result' = [success |-> TRUE, status |-> "Valid", cert |-> c]
      /\ result' # result
  BY DEF Trust!Succeeds
<1>2. result'.success = TRUE /\ result'.cert = c
  BY <1>1
<1>3. ASSUME NEW d \in Certs \cup {NoCert}, NEW a \in Trust!Answer,
             Trust!ApplyServerValidation(d, a)
      PROVE  current' = c
  <2>1. Trust!ServerStatus(d, a) = "Valid"
    BY <1>2, <1>3 DEF Trust!ApplyServerValidation
  <2>2. result' = Trust!InstallOutcome(d) /\ current' = Trust!Installed(d)
    BY <1>3, <2>1 DEF Trust!ApplyServerValidation
  <2>3. Trust!ValidAt(d, d.issued) /\ d = c
    BY <1>2, <2>2 DEF Trust!InstallOutcome
  <2> QED
    BY <2>2, <2>3 DEF Trust!Installed
<1>4. ~Trust!RemoveInvalidCertificate /\ ~Trust!Tick
  BY <1>1 DEF Trust!RemoveInvalidCertificate, Trust!Tick
<1>5. ASSUME NEW d \in Certs, Trust!RenewManually(d) PROVE FALSE
  BY <1>2, <1>5 DEF Trust!RenewManually
<1> QED
  BY <1>3, <1>4, <1>5 DEF Trust!Next

\* A caller that is told of a success has its certificate trusted, also when
\* install() refuses what the server accepted.
THEOREM SuccessIsTrusted == LSpec => ResultIsTold
<1>1. [LNext]_lvars
        => [\A c \in Certs : Trust!Succeeds(c) => current' = c]_lvars
  <2> SUFFICES ASSUME LNext, NEW c \in Certs, Trust!Succeeds(c)
               PROVE  current' = c
    OBVIOUS
  <2>1. CASE Trust!Next
    BY <2>1, SuccessStep
  <2>2. CASE UNCHANGED trust
    BY <2>2 DEF trust, Trust!Succeeds
  <2> QED
    BY <2>1, <2>2 DEF LNext
<1> QED
  BY <1>1, PTL DEF LSpec, ResultIsTold

-----------------------------------------------------------------------------
(* Activation *)

\* No sequence of local calls activates the installation, and the record says
\* what the kernel shows.
THEOREM NothingActivates == LSpec => []FailClosed
<1> USE DEF FailClosed, Install!FailClosed
<1>1. LInit => FailClosed
  BY DEF LInit, Install!Init
<1>2. FailClosed /\ [LNext]_lvars => FailClosed'
  <2> SUFFICES ASSUME FailClosed, [LNext]_lvars PROVE FailClosed'
    OBVIOUS
  <2>1. CASE Install!Next
    BY <2>1 DEF Install!Next, Install!BeginOnlineActivation,
                Install!VerifyOnline, Install!RevokeActivation,
                Install!Advance, Install!Fail, Install!vars
  <2>2. CASE UNCHANGED setup
    BY <2>2 DEF setup
  <2> QED
    BY <2>1, <2>2 DEF LNext, lvars
<1> QED
  BY <1>1, <1>2, PTL DEF LSpec

-----------------------------------------------------------------------------
(* The development targets *)

\* The links have their fields, and a build has its host.
Hosts ==
    /\ mac \in [state : Build!MacStates, connected : BOOLEAN, xcode : BOOLEAN]
    /\ android \in [state : Build!AndroidStates, virtualized : BOOLEAN,
                    visible : BOOLEAN, shared : BOOLEAN]
    /\ BuildHasHost

LEMMA BuildStep ==
    ASSUME Hosts, Build!Next
    PROVE  Hosts'
<1> USE DEF Hosts, BuildHasHost, Build!BuildHasHost, Build!Available,
            Build!MacStates, Build!AndroidStates
<1>1. ASSUME NEW target \in Build!Targets, NEW named \in BOOLEAN,
             Build!CreateProject(target, named)
      PROVE  Hosts'
  BY <1>1 DEF Build!CreateProject
<1>2. ASSUME NEW target \in Build!Targets, NEW ready \in BOOLEAN,
             Build!SetToolchainReady(target, ready)
      PROVE  Hosts'
  BY <1>2 DEF Build!SetToolchainReady
<1>3. ASSUME NEW target \in Build!Targets, Build!BuildRefused(target)
      PROVE  Hosts'
  BY <1>3 DEF Build!BuildRefused
<1>4. ASSUME NEW target \in Build!Targets, Build!RequestBuild(target)
      PROVE  Hosts'
  <2>1. CASE target = "MacOS"
    BY <1>4, <2>1 DEF Build!RequestBuild, Build!MacBuilds
  <2>2. CASE target = "Android"
    BY <1>4, <2>2 DEF Build!RequestBuild, Build!AndroidBuilds
  <2>3. CASE target \notin {"MacOS", "Android"}
    BY <1>4, <2>3 DEF Build!RequestBuild
  <2> QED
    BY <2>1, <2>2, <2>3
<1>5. ASSUME NEW toolchain \in Build!Toolchains, NEW installed \in BOOLEAN,
             Build!SetWindowsToolchain(toolchain, installed)
      PROVE  Hosts'
  BY <1>5 DEF Build!SetWindowsToolchain
<1>6. ASSUME NEW ready \in BOOLEAN, NEW visible \in BOOLEAN,
             Build!SetAndroidWorkspace(ready, visible)
      PROVE  Hosts'
  BY <1>6 DEF Build!SetAndroidWorkspace
<1>7. ASSUME NEW connected \in BOOLEAN, NEW xcode \in BOOLEAN,
             Build!SetMacConnection(connected, xcode)
      PROVE  Hosts'
  BY <1>7 DEF Build!SetMacConnection, Build!MacState
<1> QED
  BY <1>1, <1>2, <1>3, <1>4, <1>5, <1>6, <1>7 DEF Build!Next

\* A build that is shown as running has its host, however the links come and
\* go.
THEOREM BuildsHaveHosts == LSpec => []BuildHasHost
<1>1. LInit => Hosts
  BY DEF LInit, Build!Init, Hosts, BuildHasHost, Build!BuildHasHost,
         Build!Available, Build!MacStates, Build!AndroidStates
<1>2. Hosts /\ [LNext]_lvars => Hosts'
  <2> SUFFICES ASSUME Hosts, [LNext]_lvars PROVE Hosts'
    OBVIOUS
  <2>1. CASE Build!Next
    BY <2>1, BuildStep
  <2>2. CASE UNCHANGED build
    BY <2>2 DEF build, Hosts, BuildHasHost, Build!BuildHasHost, Build!Available
  <2> QED
    BY <2>1, <2>2 DEF LNext, lvars
<1>3. Hosts => BuildHasHost
  BY DEF Hosts
<1> QED
  BY <1>1, <1>2, <1>3, PTL DEF LSpec

-----------------------------------------------------------------------------
(* The manifest a caller keeps *)

LEMMA ReaderStep ==
    ASSUME HeldIsFlagsOfOne, Next
    PROVE  HeldIsFlagsOfOne'
<1>1. ASSUME NEW m \in disk, Parse(m) PROVE HeldIsFlagsOfOne'
  BY <1>1 DEF Parse, HeldIsFlagsOfOne
<1>2. ASSUME NEW m \in disk, ReadManifest(m) PROVE HeldIsFlagsOfOne'
  <2>1. CASE Readable(m)
    <3>1. text' = Strings(m) /\ read' = m /\ held' \in {held, Out(m)}
      BY <1>2, <2>1 DEF ReadManifest, TextAfter, ReadAfter
    <3>2. Out(m).of = m
      BY DEF Out
    <3> QED
      BY <3>1, <3>2 DEF HeldIsFlagsOfOne
  <2>2. CASE ~Readable(m)
    <3>1. text' = text /\ read' = read /\ held' = held
      BY <1>2, <2>2 DEF ReadManifest, TextAfter, ReadAfter
    <3> QED
      BY <3>1 DEF HeldIsFlagsOfOne
  <2> QED
    BY <2>1, <2>2
<1>3. ASSUME NEW m \in disk, NEW path \in Paths, ValidatePackage(path, m)
      PROVE  HeldIsFlagsOfOne'
  <2>1. held' = held /\ text' = TextAfter(m) /\ read' = ReadAfter(m)
    BY <1>3 DEF ValidatePackage
  <2> QED
    BY <2>1 DEF TextAfter, ReadAfter, HeldIsFlagsOfOne
<1> QED
  BY <1>1, <1>2, <1>3 DEF Next

\* What a caller has kept shows the strings of the manifest that was accepted
\* last beside the flags of its own, for every set of manifests.
THEOREM KeptIsOfOne == LSpec => []HeldIsFlagsOfOne
<1>1. LInit => HeldIsFlagsOfOne
  BY DEF LInit, Init, Fresh, HeldIsFlagsOfOne
<1>2. HeldIsFlagsOfOne /\ [LNext]_lvars => HeldIsFlagsOfOne'
  <2> SUFFICES ASSUME HeldIsFlagsOfOne, [LNext]_lvars
               PROVE  HeldIsFlagsOfOne'
    OBVIOUS
  <2>1. CASE Next
    BY <2>1, ReaderStep
  <2>2. CASE UNCHANGED vars
    BY <2>2 DEF vars, HeldIsFlagsOfOne
  <2> QED
    BY <2>1, <2>2 DEF LNext, lvars
<1> QED
  BY <1>1, <1>2, PTL DEF LSpec

-----------------------------------------------------------------------------
(* The two readers of a manifest *)

Runtimes == {"X90Fusion", "WebSandbox", "Native"}
Kinds == [name : Keys, runtime : Runtimes, native : BOOLEAN, supported : BOOLEAN]

\* The lines among the first n ones that become an entry.
ListedUpTo(m, n) == {i \in 1..n : Listed(m[i])}

\* The table es is what the first n lines of m make: it has an entry for each
\* that is listed, and the first entry of a name is that of its first line.
Follows(es, m, n) ==
    /\ es \in Seq(Kinds)
    /\ Len(es) = Cardinality(ListedUpTo(m, n))
    /\ \A k \in Keys :
         /\ (\E j \in 1..Len(es) : es[j].name = k)
              <=> \E i \in ListedUpTo(m, n) : m[i].key = k
         /\ \A j \in 1..Len(es), i \in ListedUpTo(m, n) :
              /\ es[j].name = k /\ \A h \in 1..(j - 1) : es[h].name # k
              /\ m[i].key = k /\ \A h \in ListedUpTo(m, i - 1) : m[h].key # k
              => es[j] = Entry(m[i])

LEMMA EntryTypes ==
    ASSUME NEW l, Listed(l)
    PROVE  Entry(l) \in Kinds /\ Entry(l).name = l.key
<1>1. RuntimeFrom(l.value) \in Runtimes
  <2>1. CASE l.value \in {"x90", "fusion", "x90-fusion"}
    BY <2>1 DEF RuntimeFrom, Runtimes
  <2>2. CASE l.value \in {"web", "web-sandbox"}
    BY <2>2 DEF RuntimeFrom, Runtimes
  <2>3. CASE l.value \notin {"x90", "fusion", "x90-fusion", "web", "web-sandbox"}
    BY <2>3 DEF RuntimeFrom, Runtimes
  <2> QED
    BY <2>1, <2>2, <2>3
<1>2. IsNative(l.value) \in BOOLEAN /\ IsSupported(l.value) \in BOOLEAN
  BY DEF IsNative, IsSupported
<1> QED
  BY <1>1, <1>2 DEF Entry, Listed, Kinds

LEMMA ListedCounted ==
    ASSUME NEW m, NEW n \in Nat
    PROVE  /\ IsFiniteSet(ListedUpTo(m, n)) /\ Cardinality(ListedUpTo(m, n)) \in Nat
           /\ IF Listed(m[n + 1])
              THEN /\ ListedUpTo(m, n + 1) = ListedUpTo(m, n) \cup {n + 1}
                   /\ Cardinality(ListedUpTo(m, n + 1))
                        = Cardinality(ListedUpTo(m, n)) + 1
              ELSE ListedUpTo(m, n + 1) = ListedUpTo(m, n)
<1>1. ListedUpTo(m, n) \subseteq 1..n /\ IsFiniteSet(1..n)
  BY FS_Interval DEF ListedUpTo
<1>2. IsFiniteSet(ListedUpTo(m, n)) /\ Cardinality(ListedUpTo(m, n)) \in Nat
  BY <1>1, FS_Subset, FS_CardinalityType
<1>3. 1..(n + 1) = 1..n \cup {n + 1} /\ n + 1 \notin ListedUpTo(m, n)
  BY DEF ListedUpTo
<1>4. CASE Listed(m[n + 1])
  <2>1. ListedUpTo(m, n + 1) = ListedUpTo(m, n) \cup {n + 1}
    BY <1>3, <1>4 DEF ListedUpTo
  <2> QED
    BY <1>2, <1>3, <1>4, <2>1, FS_AddElement
<1>5. CASE ~Listed(m[n + 1])
  BY <1>2, <1>3, <1>5 DEF ListedUpTo
<1> QED
  BY <1>4, <1>5

\* One turn of the loop, while the table holds every line that is listed.
LEMMA OneTaken ==
    ASSUME NEW m, NEW n \in Nat, NEW es, Follows(es, m, n),
           Cardinality(ListedUpTo(m, n + 1)) <= MaxEntries
    PROVE  Follows(Taken(es, m[n + 1]), m, n + 1)
<1> DEFINE l == m[n + 1]
<1>1. es \in Seq(Kinds) /\ Len(es) = Cardinality(ListedUpTo(m, n)) /\ Len(es) \in Nat
  BY DEF Follows
<1>2. ListedUpTo(m, n) \subseteq 1..n
  BY DEF ListedUpTo
<1>3. CASE ~Listed(l)
  <2>1. Taken(es, l) = es
    BY <1>3 DEF Taken
  <2>2. ListedUpTo(m, n + 1) = ListedUpTo(m, n)
    BY <1>3, ListedCounted
  <2> QED
    BY <2>1, <2>2 DEF Follows
<1>4. CASE Listed(l)
  <2> DEFINE longer == Append(es, Entry(l))
  <2>1. /\ ListedUpTo(m, n + 1) = ListedUpTo(m, n) \cup {n + 1}
        /\ Cardinality(ListedUpTo(m, n + 1)) = Len(es) + 1
    BY <1>1, <1>4, ListedCounted
  <2>2. Entry(l) \in Kinds /\ Entry(l).name = l.key
    BY <1>4, EntryTypes
  <2>3. Len(es) < MaxEntries
    BY <1>1, <2>1, ReaderAssumption
  <2>4. Taken(es, l) = longer
    BY <1>4, <2>3 DEF Taken
  <2>5. /\ longer \in Seq(Kinds) /\ Len(longer) = Len(es) + 1
        /\ \A j \in 1..Len(es) : longer[j] = es[j]
        /\ longer[Len(es) + 1] = Entry(l)
    BY <1>1, <2>2, AppendProperties
  <2> HIDE DEF longer, l
  <2>6. ASSUME NEW k \in Keys
        PROVE  (\E j \in 1..Len(longer) : longer[j].name = k)
                 <=> \E i \in ListedUpTo(m, n + 1) : m[i].key = k
    <3>1. (\E j \in 1..Len(es) : es[j].name = k)
            <=> \E i \in ListedUpTo(m, n) : m[i].key = k
      BY DEF Follows
    <3>2. (\E j \in 1..Len(longer) : longer[j].name = k)
            <=> (\E j \in 1..Len(es) : es[j].name = k) \/ l.key = k
      BY <1>1, <2>2, <2>5
    <3> QED
      BY <2>1, <3>1, <3>2 DEF l
  <2>7. ASSUME NEW k \in Keys, NEW j \in 1..Len(longer),
               NEW i \in ListedUpTo(m, n + 1),
               longer[j].name = k, \A h \in 1..(j - 1) : longer[h].name # k,
               m[i].key = k, \A h \in ListedUpTo(m, i - 1) : m[h].key # k
        PROVE  longer[j] = Entry(m[i])
    <3>1. (\E h \in 1..Len(es) : es[h].name = k)
            <=> \E h \in ListedUpTo(m, n) : m[h].key = k
      BY DEF Follows
    <3>2. CASE i = n + 1
      <4>1. i - 1 = n
        BY <3>2
      <4>2. ~ \E h \in ListedUpTo(m, n) : m[h].key = k
        BY <2>7, <4>1
      <4>3. j = Len(es) + 1
        BY <1>1, <2>5, <2>7, <3>1, <4>2
      <4> QED
        BY <2>5, <3>2, <4>3 DEF l
    <3>3. CASE i \in ListedUpTo(m, n)
      <4>1. PICK h \in 1..Len(es) : es[h].name = k
        BY <2>7, <3>1, <3>3
      <4>2. longer[h].name = k /\ h \in 1..Len(longer)
        BY <1>1, <2>5, <4>1
      <4>3. j <= h
        BY <1>1, <2>5, <2>7, <4>1, <4>2
      <4>4. j \in 1..Len(es) /\ longer[j] = es[j]
        BY <1>1, <2>5, <4>1, <4>3
      <4>5. \A g \in 1..(j - 1) : es[g].name # k
        BY <1>1, <2>5, <2>7, <4>4
      <4> QED
        BY <2>7, <3>3, <4>4, <4>5 DEF Follows
    <3> QED
      BY <2>1, <3>2, <3>3
  <2>8. Follows(longer, m, n + 1)
    BY <2>1, <2>5, <2>6, <2>7 DEF Follows
  <2> QED
    BY <2>4, <2>8 DEF l
<1> QED
  BY <1>3, <1>4

LEMMA TakenTypes ==
    ASSUME NEW es \in Seq(Kinds), NEW l
    PROVE  Taken(es, l) \in Seq(Kinds)
<1>1. CASE Listed(l) /\ Len(es) < MaxEntries
  BY <1>1, EntryTypes DEF Taken
<1>2. CASE ~(Listed(l) /\ Len(es) < MaxEntries)
  BY <1>2 DEF Taken
<1> QED
  BY <1>1, <1>2

\* parse() takes the lines of a manifest it reads one after the other.
LEMMA ParsedTurns ==
    ASSUME NEW m, Len(m) \in Nat, Len(m) <= MaxText
    PROVE  \E after :
             /\ Parsed(m) = after[Len(m)] /\ after[0] = <<>>
             /\ \A n \in 1..Len(m) : after[n] = Taken(after[n - 1], m[n])
<1> DEFINE N == Len(m)
           Tables == Seq(Kinds)
           turn == [n \in 1..N |-> [es \in Tables |-> Taken(es, m[n])]]
           Loop(f) == [n \in 0..N |->
                         IF n = 0 THEN <<>> ELSE Taken(f[n - 1], m[n])]
           after == CHOOSE f : f = Loop(f)
<1>1. N \in Nat
  OBVIOUS
<1>2. turn \in Turns(N, Tables)
  BY TakenTypes DEF Turns
<1>3. <<>> \in Tables
  OBVIOUS
<1>4. PICK f : f \in LoopRuns(N, Tables, <<>>, turn)
  <2> HIDE DEF N, Tables, turn, Loop, after
  <2> QED
    BY <1>1, <1>2, <1>3, LoopDefined
<1>5. Parsed(m) = after[N]
  <2>1. ~(Len(m) > MaxText)
    BY ReaderAssumption
  <2> QED
    BY <2>1 DEF Parsed
<1> HIDE DEF N
<1>6. f = Loop(f)
  <2>1. ASSUME NEW n \in 0..N
        PROVE  f[n] = IF n = 0 THEN <<>> ELSE Taken(f[n - 1], m[n])
    <3>1. CASE n = 0
      BY <1>4, <3>1 DEF LoopRuns
    <3>2. CASE n # 0
      <4>1. n \in 1..N /\ n - 1 \in 0..N
        BY <1>1, <3>2
      <4>2. f[n - 1] \in Tables /\ f[n] = turn[n][f[n - 1]]
        BY <1>4, <4>1 DEF LoopRuns
      <4> HIDE DEF Tables
      <4> QED
        BY <3>2, <4>1, <4>2
    <3> QED
      BY <3>1, <3>2
  <2> QED
    BY <1>4, <2>1 DEF LoopRuns
<1>7. after = Loop(after)
  <2> HIDE DEF Loop
  <2> QED
    BY <1>6
<1> HIDE DEF after
<1>8. after[0] = <<>> /\ \A n \in 1..N : after[n] = Taken(after[n - 1], m[n])
  BY <1>1, <1>7
<1> QED
  BY <1>5, <1>8 DEF N

\* Whatever the manifest, the table is one of entries, and no longer than the
\* array that holds it.
LEMMA ParsedFits ==
    ASSUME NEW m, Len(m) \in Nat
    PROVE  Parsed(m) \in Seq(Kinds) /\ Len(Parsed(m)) <= MaxEntries
<1>1. CASE Len(m) > MaxText
  BY <1>1, ReaderAssumption DEF Parsed
<1>2. CASE Len(m) <= MaxText
  <2> DEFINE N == Len(m)
  <2>1. PICK after :
          /\ Parsed(m) = after[N] /\ after[0] = <<>>
          /\ \A n \in 1..N : after[n] = Taken(after[n - 1], m[n])
    BY <1>2, ParsedTurns
  <2>2. N \in Nat
    OBVIOUS
  <2> HIDE DEF N
  <2> DEFINE Good(es) == es \in Seq(Kinds) /\ Len(es) <= MaxEntries
             Fit == {n \in 0..N : Good(after[n])}
  <2>3. 0 \in Fit
    <3>1. Good(<<>>)
      BY ReaderAssumption
    <3> HIDE DEF Good
    <3> QED
      BY <2>1, <2>2, <3>1
  <2>4. ASSUME NEW n \in 0..(N - 1), n \in Fit PROVE n + 1 \in Fit
    <3>1. n + 1 \in 1..N /\ (n + 1) - 1 = n
      BY <2>2
    <3>2. after[n + 1] = Taken(after[n], m[n + 1])
      BY <2>1, <3>1
    <3>3. after[n] \in Seq(Kinds) /\ Len(after[n]) <= MaxEntries
      BY <2>4
    <3>4. Taken(after[n], m[n + 1]) \in Seq(Kinds)
      BY <3>3, TakenTypes
    <3>5. Len(Taken(after[n], m[n + 1])) <= MaxEntries
      BY <3>3, EntryTypes, ReaderAssumption DEF Taken
    <3> QED
      BY <3>1, <3>2, <3>4, <3>5
  <2>5. N \in Fit
    <3> HIDE DEF Fit
    <3>1. 0..N \subseteq Fit
      BY <2>2, <2>3, <2>4, InductionUpTo
    <3> QED
      BY <2>2, <3>1
  <2> QED
    BY <2>1, <2>5
<1> QED
  BY <1>1, <1>2, ReaderAssumption

\* What parse() leaves when the table is long enough.
LEMMA ParseFollows ==
    ASSUME NEW m, Len(m) \in Nat, Len(m) <= MaxText,
           Cardinality(ListedUpTo(m, Len(m))) <= MaxEntries
    PROVE  Follows(Parsed(m), m, Len(m))
<1> DEFINE N == Len(m)
<1>1. N \in Nat
  OBVIOUS
<1>2. PICK after :
        /\ Parsed(m) = after[N] /\ after[0] = <<>>
        /\ \A n \in 1..N : after[n] = Taken(after[n - 1], m[n])
  BY ParsedTurns
<1> HIDE DEF N
<1>3. ASSUME NEW n \in 0..N
      PROVE  Cardinality(ListedUpTo(m, n)) <= MaxEntries
  <2>1. ListedUpTo(m, n) \subseteq ListedUpTo(m, N)
    BY <1>1 DEF ListedUpTo
  <2>2. /\ IsFiniteSet(ListedUpTo(m, N)) /\ Cardinality(ListedUpTo(m, N)) \in Nat
        /\ Cardinality(ListedUpTo(m, n)) \in Nat
    BY <1>1, ListedCounted
  <2>3. Cardinality(ListedUpTo(m, n)) <= Cardinality(ListedUpTo(m, N))
    BY <2>1, <2>2, FS_Subset
  <2> QED
    BY <2>2, <2>3, ReaderAssumption DEF N
<1> DEFINE Kept == {n \in 0..N : Follows(after[n], m, n)}
<1>4. 0 \in Kept
  <2>1. after[0] = <<>>
    BY <1>2
  <2>2. ListedUpTo(m, 0) = {}
    BY DEF ListedUpTo
  <2>3. Cardinality(ListedUpTo(m, 0)) = 0
    BY <2>2, FS_EmptySet
  <2>4. Follows(<<>>, m, 0)
    BY <2>2, <2>3 DEF Follows
  <2> QED
    BY <1>1, <2>1, <2>4
<1>5. ASSUME NEW n \in 0..(N - 1), n \in Kept PROVE n + 1 \in Kept
  <2>1. n \in Nat /\ n + 1 \in 1..N /\ (n + 1) - 1 = n
    BY <1>1
  <2>2. after[n + 1] = Taken(after[n], m[n + 1])
    BY <1>2, <2>1
  <2>3. Cardinality(ListedUpTo(m, n + 1)) <= MaxEntries
    BY <1>3, <2>1
  <2>4. Follows(after[n], m, n)
    BY <1>5
  <2> QED
    BY <2>1, <2>2, <2>3, <2>4, OneTaken
<1>6. N \in Kept
  <2> HIDE DEF Kept
  <2>1. 0..N \subseteq Kept
    BY <1>1, <1>4, <1>5, InductionUpTo
  <2> QED
    BY <1>1, <2>1
<1> QED
  BY <1>2, <1>6 DEF N

\* The first of the numbers 1 to n that a set holds.
LEMMA FirstOf ==
    ASSUME NEW n \in Nat, NEW S, S \subseteq 1..n, S # {}
    PROVE  \E i \in S : \A h \in 1..(i - 1) : h \notin S
<1>1. S \subseteq Nat
  OBVIOUS
<1>2. PICK i \in S : \A h \in S : i <= h
  BY <1>1, LeastElement
<1> QED
  BY <1>2

\* value() takes the first line that has the key, if one does.
LEMMA ValueIsFirst ==
    ASSUME NEW m, Len(m) \in Nat, NEW k
    PROVE  /\ (\E i \in 1..Len(m) : Has(m[i], k)) <=> Value(m, k) # Empty
           /\ (\E i \in 1..Len(m) : Has(m[i], k))
                => \E i \in 1..Len(m) :
                     /\ Has(m[i], k) /\ \A h \in 1..(i - 1) : ~Has(m[h], k)
                     /\ Value(m, k) = m[i].value
<1> DEFINE S == {i \in 1..Len(m) : Has(m[i], k)}
           First(i) == Has(m[i], k) /\ \A j \in 1..(i - 1) : ~Has(m[j], k)
<1>1. CASE S = {}
  BY <1>1 DEF Value
<1>2. CASE S # {}
  <2>1. PICK i \in S : \A h \in 1..(i - 1) : h \notin S
    <3> HIDE DEF S
    <3>1. S \subseteq 1..Len(m)
      BY DEF S
    <3> QED
      BY <1>2, <3>1, FirstOf
  <2>2. First(i) /\ i \in 1..Len(m)
    BY <2>1
  <2> DEFINE c == CHOOSE j \in 1..Len(m) : First(j)
  <2>3. c \in 1..Len(m) /\ First(c)
    BY <2>2
  <2>4. Value(m, k) = m[c].value
    BY <1>2 DEF Value
  <2> HIDE DEF c
  <2>5. Has(m[c], k) /\ m[c].value # Empty
    BY <2>3 DEF Has
  <2> QED
    BY <2>3, <2>4, <2>5
<1> QED
  BY <1>1, <1>2

\* find() returns an entry when there is one of the name, and then the first.
LEMMA FoundIsFirst ==
    ASSUME NEW es, Len(es) \in Nat, NEW k
    PROVE  /\ Found(es, k) # {} <=> \E j \in 1..Len(es) : es[j].name = k
           /\ \A e \in Found(es, k) : \E j \in 1..Len(es) :
                /\ e = es[j] /\ es[j].name = k
                /\ \A h \in 1..(j - 1) : es[h].name # k
<1> DEFINE S == {j \in 1..Len(es) : es[j].name = k}
<1>1. ASSUME S # {} PROVE Found(es, k) # {}
  <2>1. PICK j \in S : \A h \in 1..(j - 1) : h \notin S
    <3> HIDE DEF S
    <3>1. S \subseteq 1..Len(es)
      BY DEF S
    <3> QED
      BY <1>1, <3>1, FirstOf
  <2>2. j \in {i \in 1..Len(es) :
                 es[i].name = k /\ \A h \in 1..(i - 1) : es[h].name # k}
    BY <2>1
  <2> QED
    BY <2>2 DEF Found
<1>2. \A e \in Found(es, k) : \E j \in 1..Len(es) :
        /\ e = es[j] /\ es[j].name = k
        /\ \A h \in 1..(j - 1) : es[h].name # k
  BY DEF Found
<1> QED
  BY <1>1, <1>2

\* For a plain manifest, what parse() leaves is what value() takes.
LEMMA ReadersAgree ==
    ASSUME NEW m, Len(m) \in Nat, Plain(m), NEW k \in Fields
    PROVE  /\ Value(m, k) # Empty <=> Found(Parsed(m), k) # {}
           /\ \A e \in Found(Parsed(m), k) :
                e = Entry([key |-> k, spaced |-> FALSE, value |-> Value(m, k)])
<1> DEFINE es == Parsed(m)
           all == ListedUpTo(m, Len(m))
<1>1. k \in Keys
  BY DEF Fields, Required, Keys
<1>2. Follows(es, m, Len(m))
  BY ParseFollows DEF Plain, ListedUpTo
<1>3. Len(es) \in Nat
  BY <1>2 DEF Follows
<1>4. \A i \in 1..Len(m) : Has(m[i], k) <=> i \in all /\ m[i].key = k
  BY <1>1 DEF Has, ListedUpTo, Listed, Plain
<1>5. (\E i \in 1..Len(m) : Has(m[i], k)) <=> \E j \in 1..Len(es) : es[j].name = k
  BY <1>1, <1>2, <1>4 DEF Follows, ListedUpTo
<1> HIDE DEF es
<1>6. Value(m, k) # Empty <=> Found(es, k) # {}
  <2>1. (\E i \in 1..Len(m) : Has(m[i], k)) <=> Value(m, k) # Empty
    BY ValueIsFirst
  <2>2. Found(es, k) # {} <=> \E j \in 1..Len(es) : es[j].name = k
    BY <1>3, FoundIsFirst
  <2> QED
    BY <1>5, <2>1, <2>2
<1>7. ASSUME NEW e \in Found(es, k)
      PROVE  e = Entry([key |-> k, spaced |-> FALSE, value |-> Value(m, k)])
  <2>1. PICK j \in 1..Len(es) :
          e = es[j] /\ es[j].name = k /\ \A h \in 1..(j - 1) : es[h].name # k
    BY <1>3, FoundIsFirst
  <2>2. PICK i \in 1..Len(m) :
          /\ Has(m[i], k) /\ \A h \in 1..(i - 1) : ~Has(m[h], k)
          /\ Value(m, k) = m[i].value
    <3>1. \E i \in 1..Len(m) : Has(m[i], k)
      BY <1>5, <2>1
    <3> QED
      BY <3>1, ValueIsFirst
  <2>3. i \in all /\ m[i].key = k
    BY <1>4, <2>2
  <2>4. \A h \in ListedUpTo(m, i - 1) : m[h].key # k
    <3> SUFFICES ASSUME NEW h \in ListedUpTo(m, i - 1) PROVE m[h].key # k
      OBVIOUS
    <3>1. h \in 1..(i - 1) /\ Listed(m[h])
      BY DEF ListedUpTo
    <3>2. h \in 1..Len(m)
      BY <3>1
    <3>3. h \in all
      BY <3>1, <3>2 DEF ListedUpTo
    <3> QED
      BY <1>4, <2>2, <3>1, <3>2, <3>3
  <2>5. e = Entry(m[i])
    BY <1>1, <1>2, <2>1, <2>3, <2>4 DEF Follows
  <2> QED
    BY <2>2, <2>3, <2>5 DEF Entry
<1> QED
  BY <1>6, <1>7 DEF es

\* The disks hold sequences of lines.  The table is what parse() made of the
\* manifest it was last called with, and a package that was accepted passed
\* the checks of its manifest.
ReaderInv ==
    /\ \A m \in disk : Len(m) \in Nat
    /\ Len(parsed) \in Nat
    /\ entries = Parsed(parsed)
    /\ accepted # Nothing =>
         IsSupported(accepted[1]) /\ Validates(accepted[1], accepted[2])

LEMMA ReaderInvStep ==
    ASSUME ReaderInv, Next
    PROVE  ReaderInv'
<1>1. ASSUME NEW m \in disk, Parse(m) PROVE ReaderInv'
  BY <1>1 DEF Parse, ReaderInv
<1>2. ASSUME NEW m \in disk, ReadManifest(m) PROVE ReaderInv'
  BY <1>2 DEF ReadManifest, ReaderInv
<1>3. ASSUME NEW m \in disk, NEW path \in Paths, ValidatePackage(path, m)
      PROVE  ReaderInv'
  <2>1. CASE Validates(path, m)
    <3>1. accepted' = <<path, m>> /\ IsSupported(path)
          /\ UNCHANGED <<disk, entries, parsed>>
      BY <1>3, <2>1 DEF ValidatePackage
    <3>2. accepted'[1] = path /\ accepted'[2] = m
      BY <3>1
    <3> QED
      BY <2>1, <3>1, <3>2 DEF ReaderInv
  <2>2. CASE ~Validates(path, m)
    BY <1>3, <2>2 DEF ValidatePackage, ReaderInv
  <2> QED
    BY <2>1, <2>2
<1> QED
  BY <1>1, <1>2, <1>3 DEF Next

LEMMA ReaderInvAgrees == ReaderInv => AgreesWithParser
<1> SUFFICES ASSUME ReaderInv, Plain(parsed)
             PROVE  /\ \A k \in Fields :
                         Value(parsed, k) # Empty <=> Found(entries, k) # {}
                    /\ \A k \in Fields : \A e \in Found(entries, k) :
                         e = Entry([key |-> k, spaced |-> FALSE,
                                    value |-> Value(parsed, k)])
                    /\ accepted # Nothing /\ accepted[2] = parsed
                         => AcceptedAsListed
  BY DEF AgreesWithParser
<1>1. /\ \A k \in Fields :
           Value(parsed, k) # Empty <=> Found(entries, k) # {}
      /\ \A k \in Fields : \A e \in Found(entries, k) :
           e = Entry([key |-> k, spaced |-> FALSE, value |-> Value(parsed, k)])
  BY ReadersAgree DEF ReaderInv
<1>2. ASSUME accepted # Nothing, accepted[2] = parsed
      PROVE  AcceptedAsListed
  <2>1. /\ IsSupported(accepted[1])
        /\ SameKind(accepted[1], Value(parsed, "package"))
        /\ ~(IsNative(accepted[1])
               /\ RuntimeFrom(Value(parsed, "runtime")) = "WebSandbox")
    BY <1>2 DEF ReaderInv, Validates
  <2>2. "package" \in Fields /\ "runtime" \in Fields
    BY DEF Fields, Required
  <2>3. \A e \in Found(entries, "package") :
          /\ e.native = IsNative(Value(parsed, "package"))
          /\ e.supported = IsSupported(Value(parsed, "package"))
    BY <1>1, <2>2 DEF Entry
  <2>4. \A e \in Found(entries, "runtime") :
          e.runtime = RuntimeFrom(Value(parsed, "runtime"))
    BY <1>1, <2>2 DEF Entry
  <2> QED
    BY <2>1, <2>3, <2>4 DEF AcceptedAsListed, SameKind, IsNative, IsSupported
<1> QED
  BY <1>1, <1>2

\* The two readers agree on every plain manifest, and a package that was
\* accepted is of the kind the entries say, whatever manifests there are.
THEOREM ReadersAlwaysAgree == LSpec => []AgreesWithParser
<1>1. LInit => ReaderInv
  <2> SUFFICES ASSUME LInit PROVE ReaderInv
    OBVIOUS
  <2>1. Fresh /\ (disk = {} \/ disk \in Disks)
    BY DEF LInit, Init
  <2>2. \A m \in disk : Len(m) \in Nat
    BY <2>1, ReaderAssumption
  <2>3. ListedUpTo(<<>>, 0) = {}
    BY DEF ListedUpTo
  <2>4. Cardinality(ListedUpTo(<<>>, 0)) = 0
    BY <2>3, FS_EmptySet
  <2>5. Follows(Parsed(<<>>), <<>>, 0)
    BY <2>4, ParseFollows, ReaderAssumption
  <2>6. Parsed(<<>>) = <<>>
    BY <2>4, <2>5 DEF Follows
  <2> QED
    BY <2>1, <2>2, <2>6 DEF Fresh, ReaderInv, Nothing
<1>2. ReaderInv /\ [LNext]_lvars => ReaderInv'
  <2> SUFFICES ASSUME ReaderInv, [LNext]_lvars PROVE ReaderInv'
    OBVIOUS
  <2>1. CASE Next
    BY <2>1, ReaderInvStep
  <2>2. CASE UNCHANGED vars
    BY <2>2 DEF vars, ReaderInv
  <2> QED
    BY <2>1, <2>2 DEF LNext, lvars
<1> QED
  BY <1>1, <1>2, ReaderInvAgrees, PTL DEF LSpec

-----------------------------------------------------------------------------
(* Each of the four keeps its types *)

LEMMA TrustTypes ==
    ASSUME Trust!TypeOK, Trust!Next
    PROVE  Trust!TypeOK'
<1>1. ASSUME NEW c \in Certs \cup {NoCert}, NEW a \in Trust!Answer,
             Trust!ApplyServerValidation(c, a)
      PROVE  Trust!TypeOK'
  <2> DEFINE answer == Trust!ServerStatus(c, a)
  <2>1. answer \in Trust!Statuses
    BY DEF Trust!ServerStatus, Trust!Statuses
  <2>2. CASE answer = "Valid"
    <3>1. c \in Certs
      BY <2>2, ServerAccepts
    <3>2. current' \in {c, current} /\ confirmed' = confirmed \cup {c}
          /\ now' = now
      BY <1>1, <2>2 DEF Trust!ApplyServerValidation, Trust!Installed
    <3>3. result' = Trust!InstallOutcome(c)
      BY <1>1, <2>2 DEF Trust!ApplyServerValidation
    <3>4. /\ result'.success \in BOOLEAN /\ result'.status \in {"Valid", "Invalid"}
          /\ result'.success <=> result'.status = "Valid"
          /\ result'.cert = c
      BY <3>3 DEF Trust!InstallOutcome
    <3> QED
      BY <3>1, <3>2, <3>4 DEF Trust!TypeOK, Trust!Statuses
  <2>3. CASE answer # "Valid"
    <3>1. current' = NoCert /\ confirmed' = confirmed \ {c} /\ now' = now
          /\ result' = [success |-> FALSE, status |-> answer, cert |-> c]
      BY <1>1, <2>3 DEF Trust!ApplyServerValidation, Trust!Refused
    <3> HIDE DEF answer
    <3> QED
      BY <2>1, <2>3, <3>1 DEF Trust!TypeOK
  <2> QED
    BY <2>2, <2>3
<1>2. CASE Trust!RemoveInvalidCertificate
  BY <1>2 DEF Trust!RemoveInvalidCertificate, Trust!TypeOK
<1>3. ASSUME NEW c \in Certs, Trust!RenewManually(c)
      PROVE  Trust!TypeOK'
  BY <1>3 DEF Trust!RenewManually, Trust!TypeOK, Trust!Statuses
<1>4. CASE Trust!Tick
  BY <1>4, CertAssumption DEF Trust!Tick, Trust!TypeOK
<1> QED
  BY <1>1, <1>2, <1>3, <1>4 DEF Trust!Next

\* The stages end with the one advance() does not leave.
LEMMA LastStage ==
    /\ \A n : n \in 1..Len(Install!Stages) <=> n \in 1..7
    /\ Install!Stages[7] = "Complete"
    /\ \A n \in 1..7 : n # 7 => n + 1 \in 1..7
BY DEF Install!Stages

LEMMA SetupTypes ==
    ASSUME Install!TypeOK, Install!Next
    PROVE  Install!TypeOK'
<1> USE DEF Install!TypeOK, Install!States, Install!Reasons
<1>1. ASSUME NEW sound \in BOOLEAN, Install!BeginOnlineActivation(sound)
      PROVE  Install!TypeOK'
  BY <1>1 DEF Install!BeginOnlineActivation
<1>2. ASSUME NEW now_ \in {0, 1}, Install!VerifyOnline(now_)
      PROVE  Install!TypeOK'
  BY <1>2 DEF Install!VerifyOnline, Install!vars
<1>3. CASE Install!RevokeActivation
  BY <1>3 DEF Install!RevokeActivation
<1>4. CASE Install!Advance
  <2>1. stage \in 1..7
    BY LastStage
  <2>2. stage # 7 /\ stage' = stage + 1
    BY <1>4, LastStage DEF Install!Advance, Install!Completed
  <2>3. stage' \in 1..7
    BY <2>1, <2>2, LastStage
  <2> QED
    BY <1>4, <2>3, LastStage DEF Install!Advance
<1>5. ASSUME NEW reason \in Install!Reasons, Install!Fail(reason)
      PROVE  Install!TypeOK'
  BY <1>5 DEF Install!Fail
<1> QED
  BY <1>1, <1>2, <1>3, <1>4, <1>5 DEF Install!Next

\* An Android workspace is usable exactly when it is not shown as unavailable.
LEMMA BuildTypes ==
    ASSUME Hosts, Build!TypeOK, Build!Next
    PROVE  Build!TypeOK'
<1> USE DEF Hosts, Build!TypeOK, Build!Available, Build!MacStates,
            Build!AndroidStates, Build!Toolchains
<1>1. ASSUME NEW target \in Build!Targets,
             \/ \E named \in BOOLEAN : Build!CreateProject(target, named)
             \/ \E ready \in BOOLEAN : Build!SetToolchainReady(target, ready)
             \/ Build!BuildRefused(target)
      PROVE  Build!TypeOK'
  BY <1>1 DEF Build!CreateProject, Build!SetToolchainReady, Build!BuildRefused
<1>2. ASSUME NEW target \in Build!Targets, Build!RequestBuild(target)
      PROVE  Build!TypeOK'
  <2>1. CASE target = "MacOS"
    BY <1>2, <2>1 DEF Build!RequestBuild, Build!MacBuilds
  <2>2. CASE target = "Android"
    BY <1>2, <2>2 DEF Build!RequestBuild, Build!AndroidBuilds
  <2>3. CASE target \notin {"MacOS", "Android"}
    BY <1>2, <2>3 DEF Build!RequestBuild
  <2> QED
    BY <2>1, <2>2, <2>3
<1>3. ASSUME NEW toolchain \in Build!Toolchains, NEW installed \in BOOLEAN,
             Build!SetWindowsToolchain(toolchain, installed)
      PROVE  Build!TypeOK'
  BY <1>3 DEF Build!SetWindowsToolchain
<1>4. ASSUME NEW ready \in BOOLEAN, NEW visible \in BOOLEAN,
             Build!SetAndroidWorkspace(ready, visible)
      PROVE  Build!TypeOK'
  BY <1>4 DEF Build!SetAndroidWorkspace
<1>5. ASSUME NEW connected \in BOOLEAN, NEW xcode \in BOOLEAN,
             Build!SetMacConnection(connected, xcode)
      PROVE  Build!TypeOK'
  BY <1>5 DEF Build!SetMacConnection, Build!MacState
<1> QED
  BY <1>1, <1>2, <1>3, <1>4, <1>5 DEF Build!Next

\* value() finds a value of a line, or none.
LEMMA ValueTypes ==
    ASSUME NEW m \in Seq(Lines), NEW k
    PROVE  Value(m, k) \in Values \cup {Empty}
<1>1. CASE \E i \in 1..Len(m) : Has(m[i], k)
  <2>1. PICK i \in 1..Len(m) : Value(m, k) = m[i].value
    BY <1>1, ValueIsFirst
  <2>2. m[i] \in Line
    BY ReaderAssumption
  <2> QED
    BY <2>1, <2>2 DEF Line
<1>2. CASE ~\E i \in 1..Len(m) : Has(m[i], k)
  BY <1>2 DEF Value
<1> QED
  BY <1>1, <1>2

LEMMA NameTypes ==
    ASSUME NEW es \in Seq(Kinds), NEW i \in 1..Len(es)
    PROVE  es[i].name \in Keys
<1>1. es[i] \in Kinds
  OBVIOUS
<1> QED
  BY <1>1 DEF Kinds

ReaderTypes == TypeOK /\ disk \subseteq Seq(Lines)

LEMMA ReaderTypesStep ==
    ASSUME ReaderTypes, Next
    PROVE  ReaderTypes'
<1>1. PICK m \in disk :
        \/ Parse(m)
        \/ ReadManifest(m)
        \/ \E path \in Paths : ValidatePackage(path, m)
  BY DEF Next
<1>2. m \in Seq(Lines) /\ Len(m) \in Nat
  BY DEF ReaderTypes
<1>3. TextAfter(m) \in [Fields -> Values \cup {Empty}]
  <2>1. Strings(m) \in [Fields -> Values \cup {Empty}]
    BY <1>2, ValueTypes DEF Strings
  <2> QED
    BY <2>1 DEF TextAfter, ReaderTypes, TypeOK
<1>4. ReadAfter(m) \in disk \cup {Nothing} /\ Out(m).of = m
  BY DEF ReadAfter, Out, ReaderTypes, TypeOK
<1>5. CASE Parse(m)
  <2>1. Parsed(m) \in Seq(Kinds) /\ Len(Parsed(m)) <= MaxEntries
    BY <1>2, ParsedFits
  <2>2. \A i \in 1..Len(Parsed(m)) : Parsed(m)[i].name \in Keys
    BY <2>1, NameTypes
  <2> QED
    BY <1>5, <2>1, <2>2 DEF Parse, ReaderTypes, TypeOK
<1>6. CASE ReadManifest(m)
  <2>1. held'.of \in {held.of, m}
    BY <1>4, <1>6 DEF ReadManifest
  <2> QED
    BY <1>3, <1>4, <1>6, <2>1 DEF ReadManifest, ReaderTypes, TypeOK
<1>7. ASSUME NEW path \in Paths, ValidatePackage(path, m)
      PROVE  ReaderTypes'
  <2>1. accepted' \in {<<path, m>>, accepted}
    BY <1>7 DEF ValidatePackage
  <2> QED
    BY <1>3, <1>4, <1>7, <2>1 DEF ValidatePackage, ReaderTypes, TypeOK
<1> QED
  BY <1>1, <1>5, <1>6, <1>7

\* The four parts keep their types, for every manifest, certificate and clock:
\* among them that no manifest makes the reader's table longer than its array,
\* that the setup never leaves its stages, and that a result says "success"
\* with the status for it and with no other.
THEOREM LibraryTypes ==
    LSpec => [](TypeOK /\ Trust!TypeOK /\ Install!TypeOK /\ Build!TypeOK)
<1> DEFINE Types == /\ ReaderTypes /\ Trust!TypeOK /\ Install!TypeOK
                    /\ Hosts /\ Build!TypeOK
<1>1. LInit => Types
  <2> SUFFICES ASSUME LInit PROVE Types
    OBVIOUS
  <2>1. ReaderTypes
    <3>1. disk \subseteq Seq(Lines)
      BY ReaderAssumption DEF LInit, Init
    <3> QED
      BY <3>1, ReaderAssumption
         DEF LInit, Init, Fresh, ReaderTypes, TypeOK, NoStrings, NoManifest, Nothing
  <2>2. Trust!TypeOK
    BY CertAssumption DEF LInit, Trust!Init, Trust!TypeOK, Trust!NoResult, Trust!Statuses
  <2>3. Install!TypeOK
    <3>1. 1 \in 1..7
      OBVIOUS
    <3> QED
      BY <3>1, LastStage DEF LInit, Install!Init, Install!TypeOK, Install!States,
                       Install!Reasons
  <2>4. Hosts /\ Build!TypeOK
    BY DEF LInit, Build!Init, Hosts, BuildHasHost, Build!BuildHasHost, Build!TypeOK,
           Build!Available, Build!MacStates, Build!AndroidStates, Build!Toolchains
  <2> QED
    BY <2>1, <2>2, <2>3, <2>4
<1>2. Types /\ [LNext]_lvars => Types'
  <2> SUFFICES ASSUME Types, [LNext]_lvars PROVE Types'
    OBVIOUS
  <2>1. Next \/ UNCHANGED vars
    BY DEF LNext, lvars
  <2>2. ReaderTypes'
    BY <2>1, ReaderTypesStep DEF ReaderTypes, TypeOK, vars
  <2>3. Trust!TypeOK'
    BY TrustTypes DEF LNext, lvars, trust, Trust!TypeOK
  <2>4. Install!TypeOK'
    BY SetupTypes DEF LNext, lvars, setup, Install!TypeOK
  <2>5. Hosts' /\ Build!TypeOK'
    <3>1. CASE Build!Next
      BY <3>1, BuildStep, BuildTypes
    <3>2. CASE UNCHANGED build
      BY <3>2 DEF build, Hosts, BuildHasHost, Build!BuildHasHost, Build!TypeOK,
                  Build!Available
    <3> QED
      BY <3>1, <3>2 DEF LNext, lvars
  <2> QED
    BY <2>2, <2>3, <2>4, <2>5
<1>3. Types => TypeOK /\ Trust!TypeOK /\ Install!TypeOK /\ Build!TypeOK
  BY DEF ReaderTypes
<1> QED
  BY <1>1, <1>2, <1>3, PTL DEF LSpec
=============================================================================
