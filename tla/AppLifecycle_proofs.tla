------------------------ MODULE AppLifecycle_proofs ------------------------
(***************************************************************************)
(* Proofs that the registries of an application's life agree, for every    *)
(* number of applications, slots and windows.  They begin with the process *)
(* table, which the others are built on.                                   *)
(***************************************************************************)
EXTENDS AppLifecycle, Induction, FiniteSetTheorems, SequenceTheorems, TLAPS

-----------------------------------------------------------------------------
(***************************************************************************)
(* The process table, for every number of slots and width of the counters. *)
(***************************************************************************)

\* A table as every sequence of calls leaves it.
Sound(t) ==
    /\ t \in Tables
    /\ t.count = Cardinality(Alive(t))
    /\ \A s \in PSlots : t.procs[s].alive <=> t.procs[s].runnable
    /\ t.cursor # 0 => t.procs[t.cursor].alive

-----------------------------------------------------------------------------
(* Scans *)

\* A scan over slots or offsets stops somewhere unless it finds nothing.
LEMMA LowestExists ==
    ASSUME NEW S, S \subseteq Nat, S # {}
    PROVE  \E s \in S : s \in Lowest(S)
BY LeastElement DEF Lowest

LEMMA LowestChosen ==
    ASSUME NEW S, S \subseteq Nat, S # {}
    PROVE  (CHOOSE s \in Lowest(S) : TRUE) \in S
<1>1. \E s \in Lowest(S) : TRUE
  BY LowestExists
<1>2. (CHOOSE s \in Lowest(S) : TRUE) \in Lowest(S)
  BY <1>1
<1> QED
  BY <1>2 DEF Lowest

LEMMA SlotsAreNat ==
    /\ PSlots \subseteq Nat /\ 0 \in PSlots
    /\ IsFiniteSet(PSlots) /\ Cardinality(PSlots) = MaxProcesses
<1>1. 0 \in Int /\ MaxProcesses - 1 \in Int
  BY TableAssumption
<1> QED
  BY <1>1, FS_Interval, TableAssumption DEF PSlots

LEMMA AliveFinite ==
    ASSUME NEW t
    PROVE  IsFiniteSet(Alive(t)) /\ Cardinality(Alive(t)) \in 0..MaxProcesses
<1>1. Alive(t) \in SUBSET PSlots
  BY DEF Alive
<1>2. IsFiniteSet(Alive(t)) /\ Cardinality(Alive(t)) <= MaxProcesses
  BY <1>1, SlotsAreNat, FS_Subset
<1> QED
  BY <1>2, FS_CardinalityType, TableAssumption

-----------------------------------------------------------------------------
(* The three functions that change the table keep it sound *)

\* create() fills a free slot, if there is one.
LEMMA CreatedSlot ==
    ASSUME NEW t \in Tables, Alive(t) # PSlots
    PROVE  \E s \in PSlots \ Alive(t) :
             Created(t) = [t EXCEPT !.procs[s] = NewProcess(t.next_id),
                                    !.count = t.count + 1,
                                    !.next_id = NextId(t.next_id)]
<1> DEFINE s == CHOOSE s \in Lowest(PSlots \ Alive(t)) : TRUE
<1>1. PSlots \ Alive(t) \subseteq Nat /\ PSlots \ Alive(t) # {}
  BY SlotsAreNat DEF Alive
<1>2. s \in PSlots \ Alive(t)
  BY <1>1, LowestChosen
<1>3. Created(t) = [t EXCEPT !.procs[s] = NewProcess(t.next_id),
                             !.count = t.count + 1,
                             !.next_id = NextId(t.next_id)]
  BY DEF Created
<1> HIDE DEF s
<1> QED
  BY <1>2, <1>3

LEMMA CreatedSound ==
    ASSUME NEW t, Sound(t)
    PROVE  Sound(Created(t))
<1>1. CASE Alive(t) = PSlots
  BY <1>1 DEF Created
<1>2. CASE Alive(t) # PSlots
  <2>1. t \in Tables
    BY DEF Sound
  <2>2. PICK s \in PSlots \ Alive(t) :
           Created(t) = [t EXCEPT !.procs[s] = NewProcess(t.next_id),
                                  !.count = t.count + 1,
                                  !.next_id = NextId(t.next_id)]
    BY <1>2, <2>1, CreatedSlot
  <2> DEFINE u == Created(t)
  <2>3. NewProcess(t.next_id) \in Process /\ NextId(t.next_id) \in 1..(IdWord - 1)
    BY <2>1, TableAssumption DEF NewProcess, Process, NextId, Tables
  <2>4. /\ u.procs = [t.procs EXCEPT ![s] = NewProcess(t.next_id)]
        /\ u.count = t.count + 1 /\ u.cursor = t.cursor
        /\ u.next_id = NextId(t.next_id)
        /\ u = [procs |-> u.procs, count |-> u.count,
                cursor |-> u.cursor, next_id |-> u.next_id]
    BY <2>1, <2>2 DEF Tables
  <2> HIDE DEF u
  <2>5. /\ u \in Tables
        /\ u.procs[s] = NewProcess(t.next_id)
        /\ \A v \in PSlots \ {s} : u.procs[v] = t.procs[v]
        /\ u.count = t.count + 1 /\ u.cursor = t.cursor
    BY <2>1, <2>3, <2>4 DEF Tables
  <2>6. Alive(u) = Alive(t) \cup {s}
    BY <2>5 DEF Alive, NewProcess
  <2>7. u.count = Cardinality(Alive(u))
    <3>1. IsFiniteSet(Alive(t)) /\ s \notin Alive(t)
      BY AliveFinite
    <3>2. Cardinality(Alive(t) \cup {s}) = Cardinality(Alive(t)) + 1
      BY <3>1, FS_AddElement
    <3>3. t.count = Cardinality(Alive(t))
      BY DEF Sound
    <3> QED
      BY <2>5, <2>6, <3>2, <3>3
  <2>8. \A v \in PSlots : u.procs[v].alive <=> u.procs[v].runnable
    BY <2>5 DEF Sound, NewProcess
  <2>9. u.cursor # 0 => u.procs[u.cursor].alive
    BY <2>5 DEF Sound, NewProcess, Tables
  <2>10. Sound(u)
    BY <2>5, <2>7, <2>8, <2>9 DEF Sound
  <2> QED
    BY <2>10 DEF u
<1> QED
  BY <1>1, <1>2

\* terminate() ends one live process with the id, if there is one.
LEMMA TerminatedSlot ==
    ASSUME NEW t \in Tables, NEW id, WithId(t, id) # {}
    PROVE  \E s \in WithId(t, id) :
             Terminated(t, id) =
               [t EXCEPT !.procs[s] = [t.procs[s] EXCEPT !.alive = FALSE,
                                                         !.runnable = FALSE],
                         !.count = IF t.count > 0 THEN t.count - 1 ELSE t.count,
                         !.cursor = IF t.cursor = s THEN 0 ELSE t.cursor]
<1> DEFINE s == CHOOSE s \in Lowest(WithId(t, id)) : TRUE
<1>1. WithId(t, id) \subseteq Nat
  BY SlotsAreNat DEF WithId, Alive
<1>2. s \in WithId(t, id)
  BY <1>1, LowestChosen
<1>3. Terminated(t, id) =
        [t EXCEPT !.procs[s] = [t.procs[s] EXCEPT !.alive = FALSE,
                                                  !.runnable = FALSE],
                  !.count = IF t.count > 0 THEN t.count - 1 ELSE t.count,
                  !.cursor = IF t.cursor = s THEN 0 ELSE t.cursor]
  BY DEF Terminated
<1> HIDE DEF s
<1> QED
  BY <1>2, <1>3

LEMMA TerminatedSound ==
    ASSUME NEW t, Sound(t), NEW id
    PROVE  Sound(Terminated(t, id))
<1>1. CASE WithId(t, id) = {}
  BY <1>1 DEF Terminated
<1>2. CASE WithId(t, id) # {}
  <2>1. t \in Tables
    BY DEF Sound
  <2>2. PICK s \in WithId(t, id) :
           Terminated(t, id) =
             [t EXCEPT !.procs[s] = [t.procs[s] EXCEPT !.alive = FALSE,
                                                       !.runnable = FALSE],
                       !.count = IF t.count > 0 THEN t.count - 1 ELSE t.count,
                       !.cursor = IF t.cursor = s THEN 0 ELSE t.cursor]
    BY <1>2, <2>1, TerminatedSlot
  <2> DEFINE u == Terminated(t, id)
  <2>3. s \in PSlots /\ s \in Alive(t)
    BY DEF WithId, Alive
  <2>4. Cardinality(Alive(t) \ {s}) = Cardinality(Alive(t)) - 1
        /\ Cardinality(Alive(t) \ {s}) \in Nat
    BY <2>3, AliveFinite, FS_RemoveElement, FS_CardinalityType
  <2>5. t.count > 0 /\ t.count \in Nat /\ t.count - 1 \in Nat
    BY <2>4, AliveFinite DEF Sound
  <2>6. /\ u.procs = [t.procs EXCEPT ![s] = [t.procs[s] EXCEPT
                                               !.alive = FALSE,
                                               !.runnable = FALSE]]
        /\ u.count = t.count - 1
        /\ u.cursor = IF t.cursor = s THEN 0 ELSE t.cursor
        /\ u.next_id = t.next_id
        /\ u = [procs |-> u.procs, count |-> u.count,
                cursor |-> u.cursor, next_id |-> u.next_id]
    BY <2>1, <2>2, <2>3, <2>5 DEF Tables, Process
  <2> HIDE DEF u
  <2>7. [t.procs[s] EXCEPT !.alive = FALSE, !.runnable = FALSE] \in Process
    BY <2>1, <2>3 DEF Tables, Process
  <2>8. /\ u.procs \in [PSlots -> Process]
        /\ ~u.procs[s].alive /\ ~u.procs[s].runnable
        /\ \A v \in PSlots \ {s} : u.procs[v] = t.procs[v]
    BY <2>1, <2>3, <2>6, <2>7 DEF Tables, Process
  <2>9. u \in Tables
    BY <2>1, <2>5, <2>6, <2>8, SlotsAreNat DEF Tables
  <2>10. Alive(u) = Alive(t) \ {s}
    BY <2>8 DEF Alive
  <2>11. u.count = Cardinality(Alive(u))
    BY <2>4, <2>6, <2>10 DEF Sound
  <2>12. \A v \in PSlots : u.procs[v].alive <=> u.procs[v].runnable
    BY <2>8 DEF Sound
  <2>13. u.cursor # 0 => u.procs[u.cursor].alive
    BY <2>1, <2>6, <2>8 DEF Sound, Tables
  <2>14. Sound(u)
    BY <2>9, <2>11, <2>12, <2>13 DEF Sound
  <2> QED
    BY <2>14 DEF u
<1> QED
  BY <1>1, <1>2

\* schedule_tick() gives the cursor and a tick to a live process, if any.
LEMMA TickedSlot ==
    ASSUME NEW t \in Tables, t.count # 0, ReadyOffsets(t) # {}
    PROVE  \E s \in Alive(t) :
             Ticked(t) = [t EXCEPT !.cursor = s,
                                   !.procs[s].ticks = (@ + 1) % TickWord]
<1> DEFINE o == CHOOSE o \in Lowest(ReadyOffsets(t)) : TRUE
           s == After(t, o)
<1>1. ReadyOffsets(t) \subseteq Nat
  BY DEF ReadyOffsets
<1>2. o \in ReadyOffsets(t)
  BY <1>1, LowestChosen
<1> HIDE DEF o
<1>3. s \in PSlots
  <2>1. o \in Nat /\ t.cursor \in Nat
    BY <1>1, <1>2, SlotsAreNat DEF Tables
  <2>2. t.cursor + o \in Nat
    BY <2>1
  <2>3. \A n \in Nat, m \in Nat \ {0} : n % m \in 0..(m - 1)
    OBVIOUS
  <2> QED
    BY <2>2, <2>3, TableAssumption DEF After, PSlots
<1>4. s \in Alive(t)
  BY <1>2, <1>3 DEF ReadyOffsets, Alive
<1>5. Ticked(t) = [t EXCEPT !.cursor = s,
                            !.procs[s].ticks = (@ + 1) % TickWord]
  BY DEF Ticked, o
<1> HIDE DEF s
<1> QED
  BY <1>4, <1>5

LEMMA TickedSound ==
    ASSUME NEW t, Sound(t)
    PROVE  Sound(Ticked(t))
<1>1. CASE t.count = 0 \/ ReadyOffsets(t) = {}
  BY <1>1 DEF Ticked
<1>2. CASE t.count # 0 /\ ReadyOffsets(t) # {}
  <2>1. t \in Tables
    BY DEF Sound
  <2>2. PICK s \in Alive(t) :
           Ticked(t) = [t EXCEPT !.cursor = s,
                                 !.procs[s].ticks = (@ + 1) % TickWord]
    BY <1>2, <2>1, TickedSlot
  <2> DEFINE u == Ticked(t)
             p == [t.procs[s] EXCEPT !.ticks = (@ + 1) % TickWord]
  <2>3. s \in PSlots /\ t.procs[s].alive
    BY DEF Alive
  <2>4. (t.procs[s].ticks + 1) % TickWord \in 0..(TickWord - 1)
    BY <2>1, <2>3, TableAssumption DEF Tables, Process
  <2>5. p \in Process /\ p.alive /\ (p.runnable <=> t.procs[s].runnable)
    BY <2>1, <2>3, <2>4 DEF Tables, Process
  <2>6. /\ u.procs = [t.procs EXCEPT ![s] = p]
        /\ u.count = t.count /\ u.cursor = s /\ u.next_id = t.next_id
        /\ u = [procs |-> u.procs, count |-> u.count,
                cursor |-> u.cursor, next_id |-> u.next_id]
    BY <2>1, <2>2, <2>3 DEF Tables, Process
  <2> HIDE DEF u, p
  <2>7. /\ u.procs \in [PSlots -> Process] /\ u.procs[s] = p
        /\ \A v \in PSlots \ {s} : u.procs[v] = t.procs[v]
    BY <2>1, <2>3, <2>5, <2>6 DEF Tables
  <2>8. u \in Tables
    BY <2>1, <2>3, <2>6, <2>7 DEF Tables
  <2>9. Alive(u) = Alive(t)
    BY <2>3, <2>5, <2>7 DEF Alive
  <2>10. \A v \in PSlots : u.procs[v].alive <=> u.procs[v].runnable
    BY <2>3, <2>5, <2>7 DEF Sound
  <2>11. Sound(u)
    BY <2>5, <2>6, <2>7, <2>8, <2>9, <2>10 DEF Sound
  <2> QED
    BY <2>11 DEF u
<1> QED
  BY <1>1, <1>2

-----------------------------------------------------------------------------
(* Theorems *)

LEMMA EmptySound == Sound(EmptyTable)
<1>1. NoProcess \in Process
  BY TableAssumption DEF NoProcess, Process
<1>2. EmptyTable \in Tables
  BY <1>1, SlotsAreNat, TableAssumption DEF EmptyTable, Tables
<1>3. Alive(EmptyTable) = {}
  BY DEF Alive, EmptyTable, NoProcess
<1>4. EmptyTable.count = Cardinality(Alive(EmptyTable))
  BY <1>3, FS_EmptySet DEF EmptyTable
<1> QED
  BY <1>2, <1>4 DEF Sound, EmptyTable, NoProcess

LEMMA SpecSound == PSpec => []Sound(table)
<1>1. PInit => Sound(table)
  BY EmptySound DEF PInit
<1>2. Sound(table) /\ [PNext]_table => Sound(table')
  BY CreatedSound, TerminatedSound, TickedSound
     DEF PNext, Create, Terminate, ScheduleTick
<1>3. Sound(table') <=> Sound(table)'
  BY DEF Sound, Tables, Alive
<1> QED
  BY <1>1, <1>2, <1>3, PTL DEF PSpec

\* Every reachable table is typed, for every number of slots, also after the
\* id counter has wrapped.
THEOREM ProcessTypes == PSpec => []PTypeOK
<1>1. Sound(table) => PTypeOK
  BY DEF Sound, PTypeOK
<1> QED
  BY <1>1, SpecSound, PTL

\* process::count() is the number of live processes after every sequence of
\* calls, so create() and schedule_tick() never return early by mistake.
THEOREM ProcessCount == PSpec => []CountExact
<1>1. Sound(table) => CountExact
  BY DEF Sound, CountExact
<1> QED
  BY <1>1, SpecSound, PTL

\* The cursor is on a live process unless it is parked on slot 0.
THEOREM CursorNeverDead == PSpec => []CursorLive
<1>1. Sound(table) => CursorLive
  BY DEF Sound, CursorLive
<1> QED
  BY <1>1, SpecSound, PTL

\* Both at once: the process table is sound after every sequence of calls, for
\* every number of slots, also after the id counter has wrapped.
THEOREM ProcessTableCorrect == PSpec => []ProcessTableSound
<1>1. Sound(table) => ProcessTableSound
  BY DEF Sound, ProcessTableSound, CountExact, CursorLive
<1> QED
  BY <1>1, SpecSound, PTL

-----------------------------------------------------------------------------
(* Round robin *)

\* The places from the cursor to slot s, around the end of the table.
Away(t, s) ==
    IF t.cursor < s THEN s - t.cursor ELSE s - t.cursor + MaxProcesses

\* schedule_tick() gives slot s its turn, or brings the cursor nearer to it.
Turn(t, u, s) ==
    u.cursor = s /\ u.procs[s].ticks = (t.procs[s].ticks + 1) % TickWord

LEMMA Wrapped ==
    ASSUME NEW n \in Nat, NEW m \in Nat \ {0}, n < 2 * m
    PROVE  n % m = IF n < m THEN n ELSE n - m
<1>1. n % m \in 0..(m - 1) /\ n \div m \in Nat /\ n = (m * (n \div m)) + (n % m)
  OBVIOUS
<1> DEFINE q == n \div m
           r == n % m
<1>2. q \in {0, 1}
  <2>1. SUFFICES ASSUME q >= 2 PROVE FALSE
    BY <1>1
  <2>2. PICK e \in Nat : q = e + 2
    BY <1>1, <2>1
  <2>3. m * (e + 2) = m * e + 2 * m /\ m * e \in Nat
    OBVIOUS
  <2> HIDE DEF q
  <2> QED
    BY <1>1, <2>2, <2>3 DEF q
<1>3. n = (m * q) + r /\ r \in 0..(m - 1)
  BY <1>1
<1> HIDE DEF q, r
<1>4. CASE q = 0
  BY <1>3, <1>4 DEF r
<1>5. CASE q = 1
  BY <1>3, <1>5 DEF r
<1> QED
  BY <1>2, <1>4, <1>5

LEMMA TickComesNearer ==
    ASSUME NEW t, Sound(t), NEW s \in Alive(t)
    PROVE  Turn(t, Ticked(t), s) \/ Away(Ticked(t), s) < Away(t, s)
<1> DEFINE c == t.cursor
           d == Away(t, s)
           M == MaxProcesses
<1>1. /\ t \in Tables /\ M \in Nat \ {0}
      /\ c \in Nat /\ c < M /\ s \in PSlots /\ s \in Nat /\ s < M
  BY SlotsAreNat, TableAssumption DEF Sound, Tables, Alive, PSlots
<1>2. d \in 1..M /\ d = IF c < s THEN s - c ELSE s - c + M
  BY <1>1 DEF Away
<1>3. \A k \in 1..M : After(t, k) = IF c + k < M THEN c + k ELSE c + k - M
  <2> SUFFICES ASSUME NEW k \in 1..M
               PROVE  After(t, k) = IF c + k < M THEN c + k ELSE c + k - M
    OBVIOUS
  <2>1. c + k \in Nat /\ c + k < 2 * M
    BY <1>1
  <2>2. (c + k) % M = IF c + k < M THEN c + k ELSE (c + k) - M
    BY <1>1, <2>1, Wrapped
  <2>3. After(t, k) = (c + k) % M
    BY DEF After
  <2>4. (c + k) - M = c + k - M
    BY <1>1
  <2> HIDE DEF c, M
  <2> QED
    BY <2>2, <2>3, <2>4
<1>4. d \in ReadyOffsets(t)
  <2>1. After(t, d) = s
    BY <1>1, <1>2, <1>3
  <2> QED
    BY <1>2, <2>1 DEF ReadyOffsets, Alive, Sound
<1>5. t.count # 0
  BY AliveFinite, FS_EmptySet DEF Sound
<1> DEFINE o == CHOOSE o \in Lowest(ReadyOffsets(t)) : TRUE
           v == After(t, o)
<1>6. o \in 1..M /\ o <= d
  <2>1. ReadyOffsets(t) \subseteq Nat /\ ReadyOffsets(t) \subseteq 1..M
    BY DEF ReadyOffsets
  <2>2. \E k \in ReadyOffsets(t) : k \in Lowest(ReadyOffsets(t))
    BY <1>4, <2>1, LowestExists
  <2>3. o \in Lowest(ReadyOffsets(t))
    BY <2>2
  <2> HIDE DEF o, d
  <2> QED
    BY <1>4, <2>1, <2>3 DEF Lowest
<1>7. Ticked(t) = [t EXCEPT !.cursor = v, !.procs[v].ticks = (@ + 1) % TickWord]
  BY <1>4, <1>5 DEF Ticked
<1> HIDE DEF o, d
<1>8. v = IF c + o < M THEN c + o ELSE c + o - M
  BY <1>3, <1>6
<1> HIDE DEF v
<1>9. CASE o = d
  <2>1. v = s
    BY <1>1, <1>2, <1>8, <1>9
  <2> QED
    BY <1>1, <1>7, <2>1 DEF Turn, Tables, Process
<1>10. CASE o # d
  <2>1. Ticked(t).cursor = v
    BY <1>1, <1>7 DEF Tables
  <2>2. (IF v < s THEN s - v ELSE s - v + M) < d
    BY <1>1, <1>2, <1>6, <1>8, <1>10
  <2> QED
    BY <2>1, <2>2 DEF Away, d
<1> QED
  BY <1>9, <1>10

\* The other calls leave the cursor where it is, unless they end the process
\* that has it.
ComesNearer(s) ==
    table.procs[s].alive /\ ~EndsCurrent =>
        IF ScheduleTick
        THEN Turn(table, table', s) \/ Away(table', s) < Away(table, s)
        ELSE Away(table', s) = Away(table, s)

\* Every live process has its turn after as many ticks as the table has slots,
\* at most: a tick that does not go to it brings the cursor nearer to it, and no
\* creation or termination takes the cursor away again, that of the running
\* process excepted.  It is the half of EachIsTicked that needs no fairness.
THEOREM TurnsComeNearer ==
    PSpec => /\ [](\A s \in PSlots : Away(table, s) \in 1..MaxProcesses)
             /\ [][\A s \in PSlots : ComesNearer(s)]_table
<1>1. Sound(table) => \A s \in PSlots : Away(table, s) \in 1..MaxProcesses
  <2> SUFFICES ASSUME Sound(table), NEW s \in PSlots
               PROVE  Away(table, s) \in 1..MaxProcesses
    OBVIOUS
  <2>1. table.cursor \in PSlots
    BY DEF Sound, Tables
  <2> QED
    BY <2>1, TableAssumption DEF Away, PSlots
<1>2. ASSUME Sound(table), [PNext]_table
      PROVE  [\A s \in PSlots : ComesNearer(s)]_table
  <2> SUFFICES ASSUME PNext, NEW s \in PSlots, table.procs[s].alive, ~EndsCurrent
               PROVE  IF ScheduleTick
                      THEN Turn(table, table', s) \/ Away(table', s) < Away(table, s)
                      ELSE Away(table', s) = Away(table, s)
    BY <1>2 DEF ComesNearer
  <2>1. CASE ScheduleTick
    <3>1. table' = Ticked(table) /\ s \in Alive(table)
      BY <2>1 DEF ScheduleTick, Alive
    <3> QED
      BY <1>2, <2>1, <3>1, TickComesNearer
  <2>2. CASE ~ScheduleTick
    <3>1. CASE Create
      <4>1. PICK v \in PSlots :
              table' = [table EXCEPT !.procs[v] = NewProcess(table.next_id),
                                     !.count = table.count + 1,
                                     !.next_id = NextId(table.next_id)]
        BY <1>2, <3>1, CreatedSlot DEF Create, Sound
      <4>2. table'.cursor = table.cursor
        BY <1>2, <4>1 DEF Sound, Tables
      <4> QED
        BY <2>2, <4>2 DEF Away
    <3>2. ASSUME NEW id, Terminate(id)
          PROVE  table'.cursor = table.cursor
      <4>1. table \in Tables /\ WithId(table, id) # {} /\ table' = Terminated(table, id)
        BY <1>2, <3>2 DEF Terminate, Sound
      <4>2. PICK v \in WithId(table, id) :
              Terminated(table, id) =
                [table EXCEPT !.procs[v] = [table.procs[v] EXCEPT !.alive = FALSE,
                                                                  !.runnable = FALSE],
                              !.count = IF table.count > 0 THEN table.count - 1
                                        ELSE table.count,
                              !.cursor = IF table.cursor = v THEN 0
                                         ELSE table.cursor]
        BY <4>1, TerminatedSlot
      <4>3. v \in PSlots /\ table.procs[v].alive
        BY DEF WithId, Alive
      <4>4. /\ ~table'.procs[v].alive
            /\ table'.cursor = IF table.cursor = v THEN 0 ELSE table.cursor
        BY <4>1, <4>2, <4>3 DEF Tables, Process
      <4> QED
        BY <4>3, <4>4 DEF EndsCurrent
    <3> QED
      BY <2>2, <3>1, <3>2 DEF PNext, Away
  <2> QED
    BY <2>1, <2>2
<1> QED
  BY <1>1, <1>2, SpecSound, PTL DEF PSpec

-----------------------------------------------------------------------------
(* What the calls of the process table do to the live ids *)

LEMMA CreatedAlive ==
    ASSUME NEW t, Sound(t), Alive(t) # PSlots
    PROVE  \E s \in PSlots \ Alive(t) :
             /\ Alive(Created(t)) = Alive(t) \cup {s}
             /\ Created(t).procs[s].id = t.next_id
             /\ \A v \in Alive(t) : Created(t).procs[v] = t.procs[v]
             /\ Created(t).next_id = NextId(t.next_id)
             /\ Created(t).count = t.count + 1
<1>1. t \in Tables
  BY DEF Sound
<1>2. PICK s \in PSlots \ Alive(t) :
        Created(t) = [t EXCEPT !.procs[s] = NewProcess(t.next_id),
                               !.count = t.count + 1,
                               !.next_id = NextId(t.next_id)]
  BY <1>1, CreatedSlot
<1> DEFINE u == Created(t)
<1>3. /\ u.procs = [t.procs EXCEPT ![s] = NewProcess(t.next_id)]
      /\ u.count = t.count + 1 /\ u.next_id = NextId(t.next_id)
  BY <1>1, <1>2 DEF Tables
<1> HIDE DEF u
<1>4. /\ u.procs[s] = NewProcess(t.next_id)
      /\ \A v \in PSlots \ {s} : u.procs[v] = t.procs[v]
  BY <1>1, <1>3 DEF Tables
<1>5. Alive(u) = Alive(t) \cup {s}
  BY <1>4 DEF Alive, NewProcess
<1>6. \A v \in Alive(t) : u.procs[v] = t.procs[v]
  BY <1>4 DEF Alive
<1> QED
  BY <1>3, <1>4, <1>5, <1>6 DEF u, NewProcess

LEMMA TerminatedAlive ==
    ASSUME NEW t, Sound(t), NEW id, WithId(t, id) # {}
    PROVE  \E s \in WithId(t, id) :
             /\ Alive(Terminated(t, id)) = Alive(t) \ {s}
             /\ \A v \in PSlots : Terminated(t, id).procs[v].id = t.procs[v].id
             /\ Terminated(t, id).next_id = t.next_id
             /\ Terminated(t, id).count = t.count - 1
<1>1. t \in Tables
  BY DEF Sound
<1>2. PICK s \in WithId(t, id) :
        Terminated(t, id) =
          [t EXCEPT !.procs[s] = [t.procs[s] EXCEPT !.alive = FALSE,
                                                    !.runnable = FALSE],
                    !.count = IF t.count > 0 THEN t.count - 1 ELSE t.count,
                    !.cursor = IF t.cursor = s THEN 0 ELSE t.cursor]
  BY <1>1, TerminatedSlot
<1> DEFINE u == Terminated(t, id)
<1>3. s \in PSlots /\ s \in Alive(t)
  BY DEF WithId, Alive
<1>4. t.count # 0 /\ t.count \in Nat
  BY <1>1, <1>3, AliveFinite, FS_EmptySet DEF Sound, Tables
<1>5. /\ u.procs = [t.procs EXCEPT ![s] = [t.procs[s] EXCEPT
                                             !.alive = FALSE, !.runnable = FALSE]]
      /\ u.count = t.count - 1 /\ u.next_id = t.next_id
  BY <1>1, <1>2, <1>4 DEF Tables
<1> HIDE DEF u
<1>6. /\ ~u.procs[s].alive /\ u.procs[s].id = t.procs[s].id
      /\ \A v \in PSlots \ {s} : u.procs[v] = t.procs[v]
  BY <1>1, <1>3, <1>5 DEF Tables, Process
<1>7. Alive(u) = Alive(t) \ {s}
  BY <1>6 DEF Alive
<1> QED
  BY <1>5, <1>6, <1>7 DEF u

LEMMA TickedAlive ==
    ASSUME NEW t, Sound(t)
    PROVE  /\ Alive(Ticked(t)) = Alive(t)
           /\ \A v \in PSlots : Ticked(t).procs[v].id = t.procs[v].id
           /\ Ticked(t).next_id = t.next_id
<1>1. CASE t.count = 0 \/ ReadyOffsets(t) = {}
  BY <1>1 DEF Ticked
<1>2. CASE t.count # 0 /\ ReadyOffsets(t) # {}
  <2>1. t \in Tables
    BY DEF Sound
  <2>2. PICK s \in Alive(t) :
           Ticked(t) = [t EXCEPT !.cursor = s,
                                 !.procs[s].ticks = (@ + 1) % TickWord]
    BY <1>2, <2>1, TickedSlot
  <2> DEFINE u == Ticked(t)
             p == [t.procs[s] EXCEPT !.ticks = (@ + 1) % TickWord]
  <2>3. s \in PSlots /\ t.procs[s].alive
    BY DEF Alive
  <2>4. p.alive /\ p.id = t.procs[s].id
    BY <2>1, <2>3 DEF Tables, Process
  <2>5. u.procs = [t.procs EXCEPT ![s] = p] /\ u.next_id = t.next_id
    BY <2>1, <2>2, <2>3 DEF Tables
  <2> HIDE DEF u, p
  <2>6. u.procs[s] = p /\ \A v \in PSlots \ {s} : u.procs[v] = t.procs[v]
    BY <2>1, <2>3, <2>5 DEF Tables
  <2>7. Alive(u) = Alive(t)
    BY <2>3, <2>4, <2>6 DEF Alive
  <2> QED
    BY <2>4, <2>5, <2>6, <2>7 DEF u
<1> QED
  BY <1>1, <1>2

-----------------------------------------------------------------------------
(* Lists whose last entry is moved into the hole *)

\* Where the entry at j of the shortened list was before.
Before(n, i, j) == IF j = i THEN n ELSE j

LEMMA SwapRemoved ==
    ASSUME NEW S, NEW seq \in Seq(S), NEW i \in 1..Len(seq)
    PROVE  /\ SwapRemove(seq, i) \in Seq(S)
           /\ Len(SwapRemove(seq, i)) = Len(seq) - 1
           /\ \A j \in 1..(Len(seq) - 1) :
                SwapRemove(seq, i)[j] = seq[Before(Len(seq), i, j)]
<1> DEFINE n == Len(seq)
           moved == [seq EXCEPT ![i] = seq[n]]
<1>1. n \in Nat /\ n \in 1..n /\ n - 1 \in Nat
  BY LenProperties
<1>2. seq[n] \in S
  BY <1>1, ElementOfSeq
<1>3. /\ moved \in Seq(S) /\ Len(moved) = n
      /\ \A j \in 1..n : moved[j] = IF j = i THEN seq[n] ELSE seq[j]
  BY <1>2, ExceptSeq
<1> HIDE DEF moved
<1>4. \A j \in 1..(n - 1) : moved[j] \in S
  BY <1>1, <1>3, ElementOfSeq
<1>5. /\ SubSeq(moved, 1, n - 1) \in Seq(S)
      /\ Len(SubSeq(moved, 1, n - 1)) =
           IF 1 <= n - 1 THEN (n - 1) - 1 + 1 ELSE 0
      /\ \A j \in 1..((n - 1) - 1 + 1) :
           SubSeq(moved, 1, n - 1)[j] = moved[1 + j - 1]
  BY <1>1, <1>4, SubSeqProperties
<1>6. SwapRemove(seq, i) = SubSeq(moved, 1, n - 1)
  BY DEF SwapRemove, moved
<1> HIDE DEF n
<1>7. Len(SubSeq(moved, 1, n - 1)) = n - 1
  BY <1>1, <1>5
<1>8. ASSUME NEW j \in 1..(n - 1)
      PROVE  SubSeq(moved, 1, n - 1)[j] = seq[Before(n, i, j)]
  <2>1. j \in 1..((n - 1) - 1 + 1) /\ 1 + j - 1 = j /\ j \in 1..n
    BY <1>1
  <2>2. SubSeq(moved, 1, n - 1)[j] = moved[j]
    BY <1>5, <2>1
  <2> QED
    BY <1>3, <2>1, <2>2 DEF Before
<1> QED
  BY <1>5, <1>6, <1>7, <1>8 DEF n

\* The old places of the entries left are all places but the hole, each once.
LEMMA BeforeOnto ==
    ASSUME NEW n \in Nat, NEW i \in 1..n
    PROVE  /\ \A j \in 1..(n - 1) : Before(n, i, j) \in (1..n) \ {i}
           /\ \A j, k \in 1..(n - 1) : Before(n, i, j) = Before(n, i, k) => j = k
           /\ \A m \in (1..n) \ {i} : \E j \in 1..(n - 1) : Before(n, i, j) = m
<1>1. \A j \in 1..(n - 1) : Before(n, i, j) \in (1..n) \ {i}
  BY DEF Before
<1>2. \A j, k \in 1..(n - 1) : Before(n, i, j) = Before(n, i, k) => j = k
  BY DEF Before
<1>3. ASSUME NEW m \in (1..n) \ {i}
      PROVE  \E j \in 1..(n - 1) : Before(n, i, j) = m
  <2>1. CASE m = n
    <3>1. i \in 1..(n - 1) /\ Before(n, i, i) = m
      BY <2>1 DEF Before
    <3> QED
      BY <3>1
  <2>2. CASE m # n
    <3>1. m \in 1..(n - 1) /\ Before(n, i, m) = m
      BY <2>2 DEF Before
    <3> QED
      BY <3>1
  <2> QED
    BY <2>1, <2>2
<1> QED
  BY <1>1, <1>2, <1>3

-----------------------------------------------------------------------------
(* The runtime's entries and the process table *)

\* The id counter of the process table does not wrap.
NoIdWrap == MaxId + 1 < IdWord

\* The entries of a runtime's list, each of its application and its process,
\* are one to one with the live processes of a table.
RuntimeSound(t, rt) ==
    /\ Sound(t)
    /\ rt \in Seq(Entry)
    /\ \A i, j \in 1..Len(rt) : rt[i].app = rt[j].app => i = j
    /\ \A i, j \in 1..Len(rt) : rt[i].kernel_pid = rt[j].kernel_pid => i = j
    /\ \A s \in Alive(t) : t.procs[s].id \in 1..(t.next_id - 1)
    /\ \A s, v \in Alive(t) : t.procs[s].id = t.procs[v].id => s = v
    /\ \A s \in Alive(t) : \E i \in 1..Len(rt) : rt[i].kernel_pid = t.procs[s].id
    /\ \A i \in 1..Len(rt) : \E s \in Alive(t) : rt[i].kernel_pid = t.procs[s].id
    /\ Len(rt) = Cardinality(Alive(t))

\* start() adds one of each.
LEMMA StartSound ==
    ASSUME NoIdWrap, NEW t, NEW rt, RuntimeSound(t, rt),
           NEW app \in Apps, app \notin AppsOf(rt),
           CreatedId(t) # 0, t.next_id <= MaxId,
           NEW e, e = [app |-> app, state |-> "Running",
                       kernel_pid |-> CreatedId(t)]
    PROVE  /\ RuntimeSound(Created(t), Append(rt, e))
           /\ AppsOf(Append(rt, e)) = AppsOf(rt) \cup {app}
           /\ Len(Append(rt, e)) = Len(rt) + 1
           /\ \A i \in 1..Len(rt) : Append(rt, e)[i] = rt[i]
           /\ Append(rt, e)[Len(rt) + 1] = e
<1> DEFINE u == Created(t)
           new == Append(rt, e)
<1>1. Alive(t) # PSlots /\ CreatedId(t) = t.next_id
  BY DEF CreatedId
<1>2. PICK s \in PSlots \ Alive(t) :
        /\ Alive(u) = Alive(t) \cup {s}
        /\ u.procs[s].id = t.next_id
        /\ \A v \in Alive(t) : u.procs[v] = t.procs[v]
        /\ u.next_id = NextId(t.next_id)
  BY <1>1, CreatedAlive DEF RuntimeSound
<1>3. Sound(u)
  BY CreatedSound DEF RuntimeSound
<1>4. /\ t.next_id \in Nat /\ t.next_id >= 1
      /\ u.next_id = t.next_id + 1
  <2>1. t.next_id \in 1..(IdWord - 1)
    BY DEF RuntimeSound, Sound, Tables
  <2>2. t.next_id + 1 # IdWord
    BY <2>1, TableAssumption DEF NoIdWrap
  <2> QED
    BY <1>2, <2>1, <2>2, TableAssumption DEF NextId
<1>5. e \in Entry
  BY <1>1, <1>4 DEF Entry
<1>6. rt \in Seq(Entry) /\ Len(rt) \in Nat
  BY LenProperties DEF RuntimeSound
<1>7. /\ new \in Seq(Entry) /\ Len(new) = Len(rt) + 1
      /\ \A i \in 1..Len(rt) : new[i] = rt[i]
      /\ new[Len(rt) + 1] = e
  BY <1>5, <1>6, AppendProperties
<1> HIDE DEF u, new
<1>8. \A i \in 1..Len(new) : i \in 1..Len(rt) \/ i = Len(rt) + 1
  BY <1>6, <1>7
<1>9. e.app = app /\ e.kernel_pid = t.next_id
  BY <1>1
<1>10. \A i \in 1..Len(rt) : rt[i].app # app
  BY DEF AppsOf
<1>11. \A i \in 1..Len(rt) : rt[i].kernel_pid \in 1..(t.next_id - 1)
  BY DEF RuntimeSound
<1>12. \A i, j \in 1..Len(new) : new[i].app = new[j].app => i = j
  BY <1>7, <1>8, <1>9, <1>10 DEF RuntimeSound
<1>13. \A i \in 1..Len(rt) : rt[i].kernel_pid # t.next_id
  BY <1>4, <1>11
<1>14. \A i, j \in 1..Len(new) : new[i].kernel_pid = new[j].kernel_pid => i = j
  BY <1>7, <1>8, <1>9, <1>13 DEF RuntimeSound
<1>15. \A v \in Alive(t) : /\ u.procs[v].id = t.procs[v].id
                           /\ u.procs[v].id \in 1..(t.next_id - 1)
  BY <1>2 DEF RuntimeSound
<1>16. \A v \in Alive(u) : u.procs[v].id \in 1..(u.next_id - 1)
  BY <1>2, <1>4, <1>15
<1>17. \A v \in Alive(t) : u.procs[v].id # t.next_id
  BY <1>4, <1>15
<1>18. \A v, w \in Alive(u) : u.procs[v].id = u.procs[w].id => v = w
  BY <1>2, <1>15, <1>17 DEF RuntimeSound
<1>19. Len(rt) + 1 \in 1..Len(new) /\ \A i \in 1..Len(rt) : i \in 1..Len(new)
  BY <1>6, <1>7
<1>20. \A v \in Alive(u) :
         \E i \in 1..Len(new) : new[i].kernel_pid = u.procs[v].id
  BY <1>2, <1>7, <1>9, <1>15, <1>19 DEF RuntimeSound
<1>21. \A i \in 1..Len(new) :
         \E v \in Alive(u) : new[i].kernel_pid = u.procs[v].id
  BY <1>2, <1>7, <1>8, <1>9, <1>15 DEF RuntimeSound
<1>22. Len(new) = Cardinality(Alive(u))
  <2>1. Cardinality(Alive(t) \cup {s}) = Cardinality(Alive(t)) + 1
    BY AliveFinite, FS_AddElement
  <2> QED
    BY <1>2, <1>7, <2>1 DEF RuntimeSound
<1>23. RuntimeSound(u, new)
  BY <1>3, <1>7, <1>12, <1>14, <1>16, <1>18, <1>20, <1>21, <1>22
     DEF RuntimeSound
<1>24. AppsOf(new) = AppsOf(rt) \cup {app}
  BY <1>7, <1>8, <1>9, <1>19 DEF AppsOf
<1> QED
  BY <1>7, <1>23, <1>24 DEF u, new

\* stop() takes the one of each away that belong together.
LEMMA StopSound ==
    ASSUME NEW t, NEW rt, RuntimeSound(t, rt), NEW i \in 1..Len(rt)
    PROVE  /\ RuntimeSound(Terminated(t, rt[i].kernel_pid), SwapRemove(rt, i))
           /\ AppsOf(SwapRemove(rt, i)) = AppsOf(rt) \ {rt[i].app}
           /\ Len(SwapRemove(rt, i)) = Len(rt) - 1
           /\ Len(SwapRemove(rt, i)) \in Nat
<1> DEFINE n == Len(rt)
           pid == rt[i].kernel_pid
           u == Terminated(t, pid)
           left == SwapRemove(rt, i)
           was(j) == Before(n, i, j)
<1>1. PICK gone \in Alive(t) : t.procs[gone].id = pid
  BY DEF RuntimeSound
<1>2. WithId(t, pid) = {gone}
  BY <1>1 DEF WithId, RuntimeSound
<1>3. /\ Alive(u) = Alive(t) \ {gone}
      /\ \A v \in PSlots : u.procs[v].id = t.procs[v].id
      /\ u.next_id = t.next_id
  <2>1. Sound(t) /\ WithId(t, pid) # {}
    BY <1>2 DEF RuntimeSound
  <2>2. PICK s \in WithId(t, pid) :
          /\ Alive(u) = Alive(t) \ {s}
          /\ \A v \in PSlots : u.procs[v].id = t.procs[v].id
          /\ u.next_id = t.next_id
    BY <2>1, TerminatedAlive
  <2>3. s = gone
    BY <1>2
  <2> QED
    BY <2>2, <2>3
<1>4. Sound(u)
  BY TerminatedSound DEF RuntimeSound
<1>5. rt \in Seq(Entry) /\ n \in Nat
  BY LenProperties DEF RuntimeSound
<1>6. /\ left \in Seq(Entry) /\ Len(left) = n - 1
      /\ \A j \in 1..(n - 1) : left[j] = rt[was(j)]
  BY <1>5, SwapRemoved
<1>7. /\ \A j \in 1..(n - 1) : was(j) \in (1..n) \ {i}
      /\ \A j, k \in 1..(n - 1) : was(j) = was(k) => j = k
      /\ \A m \in (1..n) \ {i} : \E j \in 1..(n - 1) : was(j) = m
  BY <1>5, BeforeOnto
<1> HIDE DEF n, u, left, was
<1>8. /\ \A j, k \in 1..n : rt[j].app = rt[k].app => j = k
      /\ \A j, k \in 1..n : rt[j].kernel_pid = rt[k].kernel_pid => j = k
      /\ i \in 1..n
  BY DEF RuntimeSound, n
<1>9. \A j, k \in 1..Len(left) : left[j].app = left[k].app => j = k
  BY <1>6, <1>7, <1>8
<1>10. \A j, k \in 1..Len(left) : left[j].kernel_pid = left[k].kernel_pid => j = k
  BY <1>6, <1>7, <1>8
<1>11. \A v \in Alive(t) : v \in PSlots
  BY DEF Alive
<1>12. /\ \A v \in Alive(u) : u.procs[v].id \in 1..(u.next_id - 1)
       /\ \A v, w \in Alive(u) : u.procs[v].id = u.procs[w].id => v = w
  BY <1>3, <1>11 DEF RuntimeSound
<1>13. ASSUME NEW v \in Alive(u)
       PROVE  \E j \in 1..Len(left) : left[j].kernel_pid = u.procs[v].id
  <2>1. v \in Alive(t) /\ v # gone
    BY <1>3
  <2>2. PICK m \in 1..n : rt[m].kernel_pid = t.procs[v].id
    BY <2>1 DEF RuntimeSound, n
  <2>3. t.procs[v].id # pid
    BY <1>1, <2>1 DEF RuntimeSound
  <2>4. m \in (1..n) \ {i}
    BY <2>2, <2>3
  <2>5. PICK j \in 1..(n - 1) : was(j) = m
    BY <1>7, <2>4
  <2>6. left[j].kernel_pid = u.procs[v].id
    BY <1>3, <1>6, <1>11, <2>1, <2>2, <2>5
  <2> QED
    BY <1>6, <2>6
<1>14. ASSUME NEW j \in 1..Len(left)
       PROVE  \E v \in Alive(u) : left[j].kernel_pid = u.procs[v].id
  <2>1. was(j) \in (1..n) \ {i} /\ left[j] = rt[was(j)]
    BY <1>6, <1>7
  <2>2. PICK v \in Alive(t) : rt[was(j)].kernel_pid = t.procs[v].id
    BY <2>1 DEF RuntimeSound, n
  <2>3. rt[was(j)].kernel_pid # pid
    BY <1>8, <2>1
  <2>4. v # gone
    BY <1>1, <2>2, <2>3
  <2> QED
    BY <1>3, <1>11, <2>1, <2>2, <2>4
<1>15. n - 1 = Cardinality(Alive(u)) /\ n - 1 \in Nat
  <2>1. Cardinality(Alive(t) \ {gone}) = Cardinality(Alive(t)) - 1
    BY <1>1, AliveFinite, FS_RemoveElement
  <2>2. n = Cardinality(Alive(t))
    BY DEF RuntimeSound, n
  <2> QED
    BY <1>3, <1>5, <1>8, <2>1, <2>2
<1>16. RuntimeSound(u, left)
  BY <1>4, <1>6, <1>9, <1>10, <1>12, <1>13, <1>14, <1>15 DEF RuntimeSound
<1>17. AppsOf(left) = AppsOf(rt) \ {rt[i].app}
  <2>1. ASSUME NEW app \in AppsOf(left) PROVE app \in AppsOf(rt) \ {rt[i].app}
    <3>1. PICK j \in 1..(n - 1) : app = rt[was(j)].app
      BY <1>6 DEF AppsOf
    <3> QED
      BY <1>7, <1>8, <3>1 DEF AppsOf, n
  <2>2. ASSUME NEW app \in AppsOf(rt) \ {rt[i].app} PROVE app \in AppsOf(left)
    <3>1. PICK m \in 1..n : app = rt[m].app
      BY DEF AppsOf, n
    <3>2. m \in (1..n) \ {i}
      BY <3>1
    <3>3. PICK j \in 1..(n - 1) : was(j) = m
      BY <1>7, <3>2
    <3> QED
      BY <1>6, <3>1, <3>3 DEF AppsOf
  <2> QED
    BY <2>1, <2>2
<1> QED
  BY <1>6, <1>15, <1>16, <1>17 DEF u, left, n

\* A tick moves only the cursor.
LEMMA TickSound ==
    ASSUME NEW t, NEW rt, RuntimeSound(t, rt)
    PROVE  RuntimeSound(Ticked(t), rt)
<1>1. Sound(Ticked(t))
  BY TickedSound DEF RuntimeSound
<1>2. /\ Alive(Ticked(t)) = Alive(t) /\ Ticked(t).next_id = t.next_id
      /\ \A v \in PSlots : Ticked(t).procs[v].id = t.procs[v].id
  BY TickedAlive DEF RuntimeSound
<1>3. \A v \in Alive(t) : v \in PSlots
  BY DEF Alive
<1> QED
  BY <1>1, <1>2, <1>3 DEF RuntimeSound

-----------------------------------------------------------------------------
(* The surfaces *)

\* A list of surfaces, one for each application at most, of which one at most
\* has the focus; none is of an application outside apps.
SurfacesSound(ss, apps) ==
    /\ ss \in Seq(Surface) /\ Len(ss) <= MaxSurfaces
    /\ \A i, j \in 1..Len(ss) : ss[i].id = ss[j].id => i = j
    /\ \A i, j \in 1..Len(ss) : ss[i].focused /\ ss[j].focused => i = j
    /\ SurfaceIds(ss) \subseteq apps

LEMMA FunctionIsSeq ==
    ASSUME NEW S, NEW n \in Nat, NEW f \in [1..n -> S]
    PROVE  f \in Seq(S) /\ Len(f) = n
<1>1. f \in Seq(S)
  BY SeqDef
<1>2. Len(f) \in Nat /\ 1..Len(f) = 1..n
  BY <1>1, LenProperties
<1>3. \A m \in Nat, k \in Nat : 1..m = 1..k => m = k
  <2> SUFFICES ASSUME NEW m \in Nat, NEW k \in Nat, 1..m = 1..k PROVE m = k
    OBVIOUS
  <2>1. (m > 0 => m \in 1..k) /\ (k > 0 => k \in 1..m)
    OBVIOUS
  <2> QED
    BY <2>1
<1> QED
  BY <1>1, <1>2, <1>3

LEMMA OneFocused ==
    ASSUME NEW ss, NEW apps, SurfacesSound(ss, apps)
    PROVE  Cardinality(FocusedIds(ss)) <= 1
<1>1. CASE FocusedIds(ss) = {}
  BY <1>1, FS_EmptySet
<1>2. CASE FocusedIds(ss) # {}
  <2>1. PICK i \in 1..Len(ss) : ss[i].focused
    BY <1>2 DEF FocusedIds
  <2>2. FocusedIds(ss) = {ss[i].id}
    BY <2>1 DEF FocusedIds, SurfacesSound
  <2>3. Cardinality({ss[i].id}) = 1
    BY FS_Singleton
  <2> QED
    BY <2>2, <2>3
<1> QED
  BY <1>1, <1>2

\* open() adds a surface when there is room, and focuses it.
LEMMA OpenedSound ==
    ASSUME NEW ss, NEW apps, SurfacesSound(ss, apps), MaxSurfaces \in Nat,
           NEW app \in Apps, app \notin apps
    PROVE  LET new == SurfaceOpened(ss, app)
           IN  /\ SurfacesSound(new, apps \cup {app})
               /\ IF Len(ss) >= MaxSurfaces THEN new = ss
                  ELSE /\ SurfaceIds(new) = SurfaceIds(ss) \cup {app}
                       /\ Len(new) = Len(ss) + 1
                       /\ app \in FocusedIds(new)
<1> DEFINE n == Len(ss)
           dim == [i \in DOMAIN ss |-> [ss[i] EXCEPT !.focused = FALSE]]
           e == [id |-> app, focused |-> TRUE]
           new == Append(dim, e)
<1>1. app \notin SurfaceIds(ss)
  BY DEF SurfacesSound
<1>2. CASE n >= MaxSurfaces
  BY <1>2 DEF SurfaceOpened, SurfacesSound
<1>3. CASE ~(n >= MaxSurfaces)
  <2>1. /\ n \in Nat /\ DOMAIN ss = 1..n /\ ss \in [1..n -> Surface]
        /\ n + 1 <= MaxSurfaces
    BY <1>3, LenProperties DEF SurfacesSound
  <2>2. \A i \in 1..n : /\ dim[i] \in Surface
                        /\ dim[i].id = ss[i].id /\ ~dim[i].focused
    BY <2>1 DEF Surface
  <2>3. dim \in [1..n -> Surface]
    BY <2>1, <2>2
  <2>4. dim \in Seq(Surface) /\ Len(dim) = n
    BY <2>1, <2>3, FunctionIsSeq
  <2> HIDE DEF dim
  <2>5. e \in Surface
    BY DEF Surface
  <2>6. /\ new \in Seq(Surface) /\ Len(new) = n + 1
        /\ \A i \in 1..n : new[i] = dim[i]
        /\ new[n + 1] = e
    BY <2>4, <2>5, AppendProperties
  <2>7. SurfaceOpened(ss, app) = new
    BY <1>1, <1>3 DEF SurfaceOpened, dim
  <2>8. e.id = app /\ e.focused
    OBVIOUS
  <2> HIDE DEF new, n, e
  <2>9. /\ \A i \in 1..(n + 1) : i \in 1..n \/ i = n + 1
        /\ n + 1 \in 1..(n + 1) /\ \A i \in 1..n : i \in 1..(n + 1)
    BY <2>1
  <2>10. \A i \in 1..n : new[i].id = ss[i].id /\ ~new[i].focused
    BY <2>2, <2>6
  <2>11. \A i \in 1..n : ss[i].id # app
    BY <1>1 DEF SurfaceIds, n
  <2>12. \A i, j \in 1..n : ss[i].id = ss[j].id => i = j
    BY DEF SurfacesSound, n
  <2>13. \A i, j \in 1..(n + 1) : new[i].id = new[j].id => i = j
    BY <2>6, <2>8, <2>9, <2>10, <2>11, <2>12
  <2>14. \A i, j \in 1..(n + 1) : new[i].focused /\ new[j].focused => i = j
    BY <2>9, <2>10
  <2>15. SurfaceIds(new) = SurfaceIds(ss) \cup {app}
    BY <2>6, <2>8, <2>9, <2>10 DEF SurfaceIds, n
  <2>16. SurfacesSound(new, apps \cup {app})
    BY <2>1, <2>6, <2>13, <2>14, <2>15 DEF SurfacesSound
  <2>17. app \in FocusedIds(new)
    BY <2>6, <2>8, <2>9 DEF FocusedIds
  <2> QED
    BY <1>3, <2>6, <2>7, <2>15, <2>16, <2>17 DEF n
<1> QED
  BY <1>2, <1>3

\* close() takes the surface of an application away, and no other focus.
LEMMA ClosedSound ==
    ASSUME NEW ss, NEW apps, SurfacesSound(ss, apps), NEW app
    PROVE  LET left == SurfaceClosed(ss, app)
           IN  /\ SurfacesSound(left, apps \ {app})
               /\ SurfaceIds(left) = SurfaceIds(ss) \ {app}
               /\ FocusedIds(left) = FocusedIds(ss) \ {app}
               /\ Len(left) = IF app \in SurfaceIds(ss)
                                THEN Len(ss) - 1 ELSE Len(ss)
<1> DEFINE n == Len(ss)
<1>1. CASE app \notin SurfaceIds(ss)
  <2>1. SurfaceClosed(ss, app) = ss
    BY <1>1 DEF SurfaceClosed
  <2>2. FocusedIds(ss) \subseteq SurfaceIds(ss)
    BY DEF FocusedIds, SurfaceIds
  <2> QED
    BY <1>1, <2>1, <2>2 DEF SurfacesSound
<1>2. CASE app \in SurfaceIds(ss)
  <2> DEFINE i == CHOOSE i \in DOMAIN ss : ss[i].id = app
             left == SwapRemove(ss, i)
             was(j) == Before(n, i, j)
  <2>1. /\ n \in Nat /\ DOMAIN ss = 1..n /\ ss \in Seq(Surface)
        /\ n <= MaxSurfaces
    BY LenProperties DEF SurfacesSound
  <2>2. i \in 1..n /\ ss[i].id = app
    BY <1>2, <2>1 DEF SurfaceIds
  <2>3. SurfaceClosed(ss, app) = left
    BY <1>2 DEF SurfaceClosed
  <2> HIDE DEF i
  <2>4. /\ left \in Seq(Surface) /\ Len(left) = n - 1
        /\ \A j \in 1..(n - 1) : left[j] = ss[was(j)]
    BY <2>1, <2>2, SwapRemoved
  <2>5. /\ \A j \in 1..(n - 1) : was(j) \in (1..n) \ {i}
        /\ \A j, k \in 1..(n - 1) : was(j) = was(k) => j = k
        /\ \A m \in (1..n) \ {i} : \E j \in 1..(n - 1) : was(j) = m
    BY <2>1, <2>2, BeforeOnto
  <2> HIDE DEF n, left, was
  <2>6. /\ \A j, k \in 1..n : ss[j].id = ss[k].id => j = k
        /\ \A j, k \in 1..n : ss[j].focused /\ ss[k].focused => j = k
    BY DEF SurfacesSound, n
  <2>7. /\ \A j, k \in 1..Len(left) : left[j].id = left[k].id => j = k
        /\ \A j, k \in 1..Len(left) : left[j].focused /\ left[k].focused => j = k
    BY <2>4, <2>5, <2>6
  <2>8. ASSUME NEW j \in 1..(n - 1)
        PROVE  /\ left[j].id # app
               /\ \E m \in 1..n : left[j] = ss[m]
    <3>1. was(j) \in (1..n) \ {i} /\ left[j] = ss[was(j)]
      BY <2>4, <2>5
    <3> QED
      BY <2>2, <2>6, <3>1
  <2>9. ASSUME NEW m \in 1..n, ss[m].id # app
        PROVE  \E j \in 1..(n - 1) : left[j] = ss[m]
    <3>1. m \in (1..n) \ {i}
      BY <2>2, <2>9
    <3>2. PICK j \in 1..(n - 1) : was(j) = m
      BY <2>5, <3>1
    <3> QED
      BY <2>4, <3>2
  <2>10. SurfaceIds(left) = SurfaceIds(ss) \ {app}
    <3>1. SurfaceIds(left) = {left[j].id : j \in 1..(n - 1)}
      BY <2>4 DEF SurfaceIds
    <3>2. SurfaceIds(ss) = {ss[m].id : m \in 1..n}
      BY DEF SurfaceIds, n
    <3>3. ASSUME NEW x \in SurfaceIds(left) PROVE x \in SurfaceIds(ss) \ {app}
      BY <2>8, <3>1, <3>2
    <3>4. ASSUME NEW x \in SurfaceIds(ss) \ {app} PROVE x \in SurfaceIds(left)
      BY <2>9, <3>1, <3>2
    <3> QED
      BY <3>3, <3>4
  <2>11. FocusedIds(left) = FocusedIds(ss) \ {app}
    <3>1. ASSUME NEW x \in FocusedIds(left) PROVE x \in FocusedIds(ss) \ {app}
      <4>1. PICK j \in 1..(n - 1) : left[j].focused /\ x = left[j].id
        BY <2>4 DEF FocusedIds
      <4>2. PICK m \in 1..n : left[j] = ss[m]
        BY <2>8
      <4> QED
        BY <2>8, <4>1, <4>2 DEF FocusedIds, n
    <3>2. ASSUME NEW x \in FocusedIds(ss) \ {app} PROVE x \in FocusedIds(left)
      <4>1. PICK m \in 1..n : ss[m].focused /\ x = ss[m].id
        BY DEF FocusedIds, n
      <4>2. PICK j \in 1..(n - 1) : left[j] = ss[m]
        BY <2>9, <4>1
      <4> QED
        BY <2>4, <4>1, <4>2 DEF FocusedIds
    <3> QED
      BY <3>1, <3>2
  <2>12. SurfacesSound(left, apps \ {app})
    <3>1. n - 1 <= MaxSurfaces
      <4>1. Len(left) \in Nat /\ n \in Nat /\ n <= MaxSurfaces
        BY <2>1, <2>4, LenProperties DEF n
      <4>2. CASE MaxSurfaces \in Int
        BY <4>1, <4>2
      <4> QED
        BY <4>1, <4>2, AppAssumption
    <3> QED
      BY <2>4, <2>7, <2>10, <3>1 DEF SurfacesSound
  <2> QED
    BY <1>2, <2>3, <2>4, <2>10, <2>11, <2>12 DEF n
<1> QED
  BY <1>1, <1>2

\* focus() moves the focus to the surface of the application.
LEMMA FocusedSound ==
    ASSUME NEW ss, NEW apps, SurfacesSound(ss, apps),
           NEW app \in SurfaceIds(ss)
    PROVE  LET new == SurfaceFocused(ss, app)
           IN  /\ SurfacesSound(new, apps)
               /\ SurfaceIds(new) = SurfaceIds(ss) /\ Len(new) = Len(ss)
               /\ app \in FocusedIds(new)
<1> DEFINE n == Len(ss)
           new == SurfaceFocused(ss, app)
<1>1. n \in Nat /\ DOMAIN ss = 1..n /\ ss \in [1..n -> Surface]
  BY LenProperties DEF SurfacesSound
<1>2. \A i \in 1..n : /\ new[i] \in Surface /\ new[i].id = ss[i].id
                      /\ new[i].focused <=> ss[i].id = app
  BY <1>1 DEF SurfaceFocused, Surface
<1>3. new \in [1..n -> Surface]
  BY <1>1, <1>2 DEF SurfaceFocused
<1>4. new \in Seq(Surface) /\ Len(new) = n
  BY <1>1, <1>3, FunctionIsSeq
<1> HIDE DEF new
<1>5. SurfaceIds(new) = SurfaceIds(ss)
  BY <1>2, <1>4 DEF SurfaceIds
<1>6. app \in FocusedIds(new)
  BY <1>2, <1>4 DEF SurfaceIds, FocusedIds
<1>7. SurfacesSound(new, apps)
  BY <1>2, <1>4, <1>5 DEF SurfacesSound
<1> QED
  BY <1>4, <1>5, <1>6, <1>7 DEF new

-----------------------------------------------------------------------------
(* The whole of a start and of a stop *)

\* stop(), of an application there is an entry of.
LEMMA StoppedIs ==
    ASSUME NEW k, k.runtime \in Seq(Entry), NEW app \in AppsOf(k.runtime)
    PROVE  \E i \in 1..Len(k.runtime) :
             /\ k.runtime[i].app = app
             /\ Stopped(k, app) =
                  [table    |-> Terminated(k.table, k.runtime[i].kernel_pid),
                   runtime  |-> SwapRemove(k.runtime, i),
                   surfaces |-> SurfaceClosed(k.surfaces, app)]
<1> DEFINE i == CHOOSE i \in DOMAIN k.runtime : k.runtime[i].app = app
<1>1. DOMAIN k.runtime = 1..Len(k.runtime)
  BY LenProperties
<1>2. i \in 1..Len(k.runtime) /\ k.runtime[i].app = app
  BY <1>1 DEF AppsOf
<1>3. Stopped(k, app) =
        [table    |-> Terminated(k.table, k.runtime[i].kernel_pid),
         runtime  |-> SwapRemove(k.runtime, i),
         surfaces |-> SurfaceClosed(k.surfaces, app)]
  BY DEF Stopped
<1> HIDE DEF i
<1> QED
  BY <1>2, <1>3

\* A start that is taken back leaves no trace but the slot's old id.
LEMMA RolledBack ==
    ASSUME NoIdWrap, NEW t, NEW rt, NEW ss, RuntimeSound(t, rt),
           SurfacesSound(ss, AppsOf(rt)), MaxSurfaces \in Nat,
           NEW app \in Apps, app \notin AppsOf(rt),
           CreatedId(t) # 0, t.next_id <= MaxId,
           NEW k, k = [table |-> t, runtime |-> rt, surfaces |-> ss],
           NEW u, u = Stopped(Started(k, app), app)
    PROVE  /\ u.runtime = rt
           /\ RuntimeSound(u.table, rt)
           /\ Alive(u.table) = Alive(t) /\ u.table.count = t.count
           /\ SurfacesSound(u.surfaces, AppsOf(rt))
           /\ SurfaceIds(u.surfaces) = SurfaceIds(ss)
           /\ Len(u.surfaces) = Len(ss)
<1> DEFINE e == [app |-> app, state |-> "Running",
                 kernel_pid |-> CreatedId(t)]
           n == Len(rt)
           c == Created(t)
           rt2 == Append(rt, e)
           ss2 == SurfaceOpened(ss, app)
<1>1. Started(k, app) = [table |-> c, runtime |-> rt2, surfaces |-> ss2]
  BY DEF Started
<1>2. /\ RuntimeSound(c, rt2)
      /\ AppsOf(rt2) = AppsOf(rt) \cup {app}
      /\ Len(rt2) = n + 1
      /\ \A i \in 1..n : rt2[i] = rt[i]
      /\ rt2[n + 1] = e
  BY StartSound
<1>3. /\ SurfacesSound(ss2, AppsOf(rt) \cup {app})
      /\ IF Len(ss) >= MaxSurfaces THEN ss2 = ss
         ELSE /\ SurfaceIds(ss2) = SurfaceIds(ss) \cup {app}
              /\ Len(ss2) = Len(ss) + 1
  BY OpenedSound
<1>4. e.app = app /\ e.kernel_pid = CreatedId(t)
  OBVIOUS
<1>5. rt \in Seq(Entry) /\ n \in Nat /\ rt2 \in Seq(Entry)
  BY <1>2, LenProperties DEF RuntimeSound
<1> HIDE DEF e, n, c, rt2, ss2
<1>6. PICK i \in 1..Len(rt2) :
        /\ rt2[i].app = app
        /\ u = [table    |-> Terminated(c, rt2[i].kernel_pid),
                runtime  |-> SwapRemove(rt2, i),
                surfaces |-> SurfaceClosed(ss2, app)]
  <2> DEFINE q == Started(k, app)
  <2>1. q.table = c /\ q.runtime = rt2 /\ q.surfaces = ss2
    BY <1>1
  <2>2. app \in AppsOf(q.runtime) /\ q.runtime \in Seq(Entry)
    BY <1>2, <1>5, <2>1
  <2> HIDE DEF q
  <2>3. PICK i \in 1..Len(q.runtime) :
          /\ q.runtime[i].app = app
          /\ Stopped(q, app) =
               [table    |-> Terminated(q.table, q.runtime[i].kernel_pid),
                runtime  |-> SwapRemove(q.runtime, i),
                surfaces |-> SurfaceClosed(q.surfaces, app)]
    BY <2>2, StoppedIs
  <2> QED
    BY <2>1, <2>3 DEF q
<1>7. i = n + 1
  <2>1. n + 1 \in 1..Len(rt2) /\ rt2[n + 1].app = app
    BY <1>2, <1>4, <1>5
  <2> QED
    BY <1>2, <1>6, <2>1 DEF RuntimeSound
<1> DEFINE pid == CreatedId(t)
           d == Terminated(c, pid)
           left == SwapRemove(rt2, n + 1)
           closed == SurfaceClosed(ss2, app)
<1>8. u.table = d /\ u.runtime = left /\ u.surfaces = closed
  BY <1>2, <1>4, <1>6, <1>7
<1>9. left = rt
  <2>1. /\ left \in Seq(Entry) /\ Len(left) = n
        /\ \A j \in 1..n : left[j] = rt2[Before(n + 1, n + 1, j)]
    <3>1. n + 1 \in 1..Len(rt2) /\ Len(rt2) - 1 = n
      BY <1>2, <1>5
    <3>2. /\ left \in Seq(Entry) /\ Len(left) = Len(rt2) - 1
          /\ \A j \in 1..(Len(rt2) - 1) :
               left[j] = rt2[Before(Len(rt2), n + 1, j)]
      BY <1>5, <3>1, SwapRemoved
    <3> HIDE DEF left
    <3> QED
      BY <1>2, <3>1, <3>2
  <2>2. \A j \in 1..n : Before(n + 1, n + 1, j) = j
    BY <1>5 DEF Before
  <2>3. \A j \in 1..n : left[j] = rt[j]
    BY <1>2, <2>1, <2>2
  <2> HIDE DEF left
  <2> QED
    BY <1>5, <2>1, <2>3, SeqEqual DEF n
<1>10. RuntimeSound(d, rt)
  <2>1. RuntimeSound(Terminated(c, rt2[n + 1].kernel_pid), left)
    BY <1>2, <1>6, <1>7, StopSound
  <2> QED
    BY <1>2, <1>4, <1>9, <2>1
<1>11. Alive(d) = Alive(t) /\ d.count = t.count
  <2>1. Sound(t) /\ Alive(t) # PSlots /\ pid = t.next_id
    BY DEF RuntimeSound, CreatedId
  <2>2. PICK s \in PSlots \ Alive(t) :
          /\ Alive(c) = Alive(t) \cup {s}
          /\ c.procs[s].id = t.next_id
          /\ c.count = t.count + 1
    BY <2>1, CreatedAlive DEF c
  <2>3. Sound(c) /\ s \in WithId(c, pid)
    BY <1>2, <2>1, <2>2 DEF RuntimeSound, WithId
  <2>4. PICK v \in WithId(c, pid) :
          Alive(d) = Alive(c) \ {v} /\ d.count = c.count - 1
    BY <2>3, TerminatedAlive
  <2>5. v = s
    BY <1>2, <2>1, <2>2 DEF RuntimeSound, WithId
  <2>6. t.count \in Nat
    BY <2>1 DEF Sound, Tables
  <2> QED
    BY <2>2, <2>4, <2>5, <2>6
<1>12. /\ SurfacesSound(closed, AppsOf(rt))
       /\ SurfaceIds(closed) = SurfaceIds(ss)
       /\ Len(closed) = Len(ss)
  <2>1. app \notin SurfaceIds(ss)
    BY DEF SurfacesSound
  <2>2. /\ SurfacesSound(closed, (AppsOf(rt) \cup {app}) \ {app})
        /\ SurfaceIds(closed) = SurfaceIds(ss2) \ {app}
        /\ Len(closed) = IF app \in SurfaceIds(ss2)
                           THEN Len(ss2) - 1 ELSE Len(ss2)
    BY <1>3, ClosedSound
  <2>3. (AppsOf(rt) \cup {app}) \ {app} = AppsOf(rt)
    OBVIOUS
  <2>4. Len(ss) \in Nat
    BY LenProperties DEF SurfacesSound
  <2> HIDE DEF closed
  <2>5. SurfaceIds(closed) = SurfaceIds(ss)
    BY <1>3, <2>1, <2>2
  <2>6. Len(closed) = Len(ss)
    BY <1>3, <2>1, <2>2, <2>4
  <2> QED
    BY <2>2, <2>3, <2>5, <2>6
<1> HIDE DEF d, left, closed
<1> QED
  BY <1>8, <1>9, <1>10, <1>11, <1>12

-----------------------------------------------------------------------------
(* The windows, through what FocusOrder promises *)

\* Every window there is has an id that was handed out.
WindowsSound ==
    /\ next_window \in 1..(MaxWindowId + 1)
    /\ live \subseteq 1..(next_window - 1)
    /\ hidden \subseteq live
    /\ focus \in WindowIds \cup {0}

LEMMA OpenSound ==
    ASSUME WindowsSound, MaxWindowId \in Nat, Windows!AbsOpen
    PROVE  /\ WindowsSound'
           /\ live' = live \cup {next_window} /\ next_window \notin live
           /\ focus' = next_window /\ next_window \in live' \ hidden'
<1>1. next_window \notin live
  BY DEF WindowsSound
<1>2. /\ live' = live \cup {next_window} /\ hidden' = hidden
      /\ focus' = next_window /\ next_window' = next_window + 1
      /\ next_window \in WindowIds
  BY DEF Windows!AbsOpen
<1>3. next_window' - 1 = next_window /\ next_window \in 1..next_window
  BY <1>2 DEF WindowsSound
<1>4. live' \subseteq 1..(next_window' - 1)
  BY <1>2, <1>3 DEF WindowsSound
<1> QED
  BY <1>1, <1>2, <1>3, <1>4 DEF WindowsSound, WindowIds

LEMMA RaiseSound ==
    ASSUME WindowsSound, MaxWindowId \in Nat, NEW x, Windows!AbsRaise(x)
    PROVE  /\ WindowsSound' /\ live' = live
           /\ focus' = x /\ x \in live' \ hidden'
<1>1. /\ x \in live /\ live' = live /\ hidden' = hidden \ {x} /\ focus' = x
      /\ next_window' = next_window
  BY DEF Windows!AbsRaise
<1>2. x \in WindowIds
  BY <1>1 DEF WindowsSound, WindowIds
<1> QED
  BY <1>1, <1>2 DEF WindowsSound

\* The focus falls to a window there is, or to none.
LEMMA RefocusSound ==
    ASSUME NEW x, Windows!Refocus(x)
    PROVE  focus' \in live' \cup {focus, 0}
BY DEF Windows!Refocus, Windows!Top

LEMMA HideSound ==
    ASSUME WindowsSound, MaxWindowId \in Nat, NEW x, Windows!AbsHide(x)
    PROVE  WindowsSound' /\ live' = live
<1>1. /\ x \in live /\ live' = live /\ hidden' = hidden \cup {x}
      /\ next_window' = next_window /\ Windows!Refocus(x)
  BY DEF Windows!AbsHide
<1>2. focus' \in live' \cup {focus, 0}
  BY <1>1, RefocusSound
<1>3. live \subseteq WindowIds
  BY DEF WindowsSound, WindowIds
<1> QED
  BY <1>1, <1>2, <1>3 DEF WindowsSound

LEMMA WindowCloseSound ==
    ASSUME WindowsSound, MaxWindowId \in Nat, NEW x, Windows!AbsClose(x)
    PROVE  WindowsSound' /\ x \in live /\ live' = live \ {x}
<1>1. /\ x \in live /\ live' = live \ {x} /\ hidden' = hidden \ {x}
      /\ next_window' = next_window /\ Windows!Refocus(x)
  BY DEF Windows!AbsClose
<1>2. focus' \in live' \cup {focus, 0}
  BY <1>1, RefocusSound
<1>3. live \subseteq WindowIds
  BY DEF WindowsSound, WindowIds
<1> QED
  BY <1>1, <1>2, <1>3 DEF WindowsSound

-----------------------------------------------------------------------------
(* The inductive invariant *)

\* app_manager lists what the runtime lists, and each entry has a window id of
\* its own that was handed out, whether the window is still there or not.
RunningSound ==
    /\ running \subseteq Managed /\ IsFiniteSet(running)
    /\ \A r, q \in running : r.id = q.id \/ r.window = q.window => r = q
    /\ \A r \in running : r.window < next_window
    /\ ManagerAgreesWithRuntime
    /\ run_count <= MaxRunning

\* What holds as long as every call goes through app_manager; of the surfaces
\* only if there is room for one for each entry of the runtime.
Coupled ==
    ~strayed =>
      /\ {r.window : r \in running} = live
      /\ Cardinality(live) = Cardinality(running)
      /\ MaxRuntime <= MaxSurfaces =>
           /\ SurfaceIds(surfaces) = RunningIds
           /\ Len(surfaces) = Cardinality(running)

AInv ==
    /\ RuntimeSound(table, runtime) /\ Len(runtime) <= MaxRuntime
    /\ SurfacesSound(surfaces, AppsOf(runtime))
    /\ RunningSound
    /\ WindowsSound
    /\ Coupled
    /\ status \in Statuses /\ link \in BOOLEAN /\ strayed \in BOOLEAN

LEMMA Bounds ==
    {MaxRunning, MaxRuntime, MaxSurfaces, MaxWindows, MaxWindowId} \subseteq Nat
BY AppAssumption

LEMMA InitAgrees == Init => AInv
<1> SUFFICES ASSUME Init PROVE AInv
  OBVIOUS
<1>1. Sound(table) /\ Alive(table) = {}
  BY EmptySound DEF Init, PInit, EmptyTable, Alive, NoProcess
<1>2. /\ Len(runtime) = 0 /\ runtime \in Seq(Entry) /\ AppsOf(runtime) = {}
      /\ Len(surfaces) = 0 /\ surfaces \in Seq(Surface)
      /\ SurfaceIds(surfaces) = {}
  BY EmptySeq DEF Init, AppsOf, SurfaceIds
<1>3. Cardinality({}) = 0 /\ IsFiniteSet({})
  BY FS_EmptySet
<1>4. RuntimeSound(table, runtime)
  BY <1>1, <1>2, <1>3 DEF RuntimeSound
<1>5. SurfacesSound(surfaces, AppsOf(runtime))
  BY <1>2, Bounds DEF SurfacesSound
<1>6. running = {} /\ run_count = 0 /\ live = {} /\ hidden = {} /\ focus = 0
      /\ next_window = 1 /\ RunningIds = {}
  BY DEF Init, Windows!AbsInit, RunningIds
<1>7. RunningSound
  BY <1>2, <1>3, <1>6, Bounds DEF RunningSound, ManagerAgreesWithRuntime
<1>8. WindowsSound
  BY <1>6, Bounds DEF WindowsSound
<1>9. Coupled
  BY <1>2, <1>3, <1>6 DEF Coupled
<1>10. Len(runtime) <= MaxRuntime
  BY <1>2, Bounds
<1>11. status \in Statuses /\ link \in BOOLEAN /\ strayed \in BOOLEAN
  BY DEF Init, Statuses
<1> QED
  BY <1>4, <1>5, <1>7, <1>8, <1>9, <1>10, <1>11 DEF AInv

-----------------------------------------------------------------------------
(* The steps that leave the entries of app_manager and runtime alone *)

LEMMA StutterAgrees ==
    ASSUME AInv, UNCHANGED vars
    PROVE  AInv'
BY DEF AInv, vars, winvars, RunningSound, ManagerAgreesWithRuntime, RunningIds,
       WindowsSound, Coupled

LEMMA StatusAgrees ==
    ASSUME AInv, status' \in Statuses, link' \in BOOLEAN,
           UNCHANGED <<table, runtime, surfaces, running, run_count,
                       winvars, strayed>>
    PROVE  AInv'
BY DEF AInv, winvars, RunningSound, ManagerAgreesWithRuntime, RunningIds,
       WindowsSound, Coupled

LEMMA TickAgrees ==
    ASSUME AInv, Tick
    PROVE  AInv'
<1>1. RuntimeSound(table', runtime)
  BY TickSound DEF AInv, Tick, ScheduleTick
<1> QED
  BY <1>1 DEF AInv, Tick, winvars, RunningSound, ManagerAgreesWithRuntime,
              RunningIds, WindowsSound, Coupled

\* suspend() and resume() change an entry's state, and nothing that matters.
LEMMA SetStateAgrees ==
    ASSUME AInv, NEW app, NEW from, NEW to \in {"Running", "Suspended"},
           SetState(app, from, to)
    PROVE  AInv'
<1> DEFINE n == Len(runtime)
<1>1. PICK i \in DOMAIN runtime :
        runtime' = [runtime EXCEPT ![i].state = to]
  BY DEF SetState
<1>2. /\ runtime \in Seq(Entry) /\ n \in Nat /\ DOMAIN runtime = 1..n
      /\ runtime[i] \in Entry
  BY <1>1, LenProperties, ElementOfSeq DEF AInv, RuntimeSound
<1> DEFINE e == [runtime[i] EXCEPT !.state = to]
<1>3. /\ e \in Entry /\ e.app = runtime[i].app
      /\ e.kernel_pid = runtime[i].kernel_pid
  BY <1>2 DEF Entry
<1>4. runtime' = [runtime EXCEPT ![i] = e]
  BY <1>1, <1>2
<1> HIDE DEF e
<1>5. /\ runtime' \in Seq(Entry) /\ Len(runtime') = n
      /\ \A j \in 1..n : runtime'[j] = IF j = i THEN e ELSE runtime[j]
  BY <1>2, <1>3, <1>4, ExceptSeq
<1>6. \A j \in 1..n : /\ runtime'[j].app = runtime[j].app
                      /\ runtime'[j].kernel_pid = runtime[j].kernel_pid
  BY <1>3, <1>5
<1>7. RuntimeSound(table, runtime')
  BY <1>5, <1>6 DEF AInv, RuntimeSound
<1>8. AppsOf(runtime') = AppsOf(runtime)
  BY <1>5, <1>6 DEF AppsOf
<1>9. UNCHANGED <<table, surfaces, running, run_count, status, link,
                  winvars, strayed>>
  BY DEF SetState
<1> QED
  BY <1>5, <1>7, <1>8, <1>9
     DEF AInv, winvars, RunningSound, ManagerAgreesWithRuntime, RunningIds,
         WindowsSound, Coupled

LEMMA SurfaceFocusAgrees ==
    ASSUME AInv, NEW app, SurfaceFocus(app)
    PROVE  AInv'
<1>1. /\ app \in SurfaceIds(surfaces)
      /\ surfaces' = SurfaceFocused(surfaces, app)
      /\ UNCHANGED <<table, runtime, running, run_count, status, link,
                     winvars, strayed>>
  BY DEF SurfaceFocus
<1>2. /\ SurfacesSound(surfaces', AppsOf(runtime))
      /\ SurfaceIds(surfaces') = SurfaceIds(surfaces)
      /\ Len(surfaces') = Len(surfaces)
  BY <1>1, FocusedSound DEF AInv
<1> QED
  BY <1>1, <1>2
     DEF AInv, winvars, RunningSound, ManagerAgreesWithRuntime, RunningIds,
         WindowsSound, Coupled

LEMMA SurfaceCloseAgrees ==
    ASSUME AInv, NEW app, SurfaceClose(app)
    PROVE  AInv'
<1>1. /\ surfaces' = SurfaceClosed(surfaces, app) /\ strayed' = TRUE
      /\ UNCHANGED <<table, runtime, running, run_count, status, link,
                     winvars>>
  BY DEF SurfaceClose
<1>2. SurfacesSound(surfaces', AppsOf(runtime) \ {app})
  BY <1>1, ClosedSound DEF AInv
<1>3. SurfacesSound(surfaces', AppsOf(runtime))
  BY <1>2 DEF SurfacesSound
<1> QED
  BY <1>1, <1>3
     DEF AInv, winvars, RunningSound, ManagerAgreesWithRuntime, RunningIds,
         WindowsSound, Coupled

LEMMA WindowCallAgrees ==
    ASSUME AInv, WindowCall
    PROVE  AInv'
<1>1. UNCHANGED <<table, runtime, surfaces, running, run_count, status, link>>
  BY DEF WindowCall
<1>2. MaxWindowId \in Nat /\ WindowsSound
  BY Bounds DEF AInv
<1>3. \A n \in Int : n <= n + 1 /\ \A m \in Int : m < n => m < n + 1
  OBVIOUS
<1>4. ASSUME WindowsSound',
             \/ next_window' = next_window /\ live' = live /\ strayed' = strayed
             \/ next_window' \in {next_window, next_window + 1} /\ strayed' = TRUE
      PROVE  AInv'
  <2>1. \A r \in running : r.window \in Int
    BY DEF AInv, RunningSound, Managed, WindowIds
  <2>2. \A r \in running : r.window < next_window'
    BY <1>2, <1>3, <1>4, <2>1 DEF AInv, RunningSound, WindowsSound
  <2>3. Coupled' /\ strayed' \in BOOLEAN
    <3>1. CASE live' = live /\ strayed' = strayed
      BY <1>1, <3>1 DEF AInv, Coupled, RunningIds
    <3>2. CASE strayed' = TRUE
      BY <3>2 DEF Coupled
    <3> QED
      BY <1>4, <3>1, <3>2
  <2> QED
    BY <1>1, <1>4, <2>2, <2>3
       DEF AInv, RunningSound, ManagerAgreesWithRuntime, RunningIds
<1>5. CASE UNCHANGED strayed
           /\ \E x \in live : Windows!AbsHide(x) \/ Windows!AbsRaise(x)
  BY <1>2, <1>4, <1>5, HideSound, RaiseSound DEF Windows!AbsHide, Windows!AbsRaise
<1>6. CASE Windows!AbsOpen /\ strayed' = TRUE
  BY <1>2, <1>4, <1>6, OpenSound DEF Windows!AbsOpen
<1>7. CASE (\E x \in live : Windows!AbsClose(x)) /\ strayed' = TRUE
  BY <1>2, <1>4, <1>7, WindowCloseSound DEF Windows!AbsClose
<1> QED
  BY <1>5, <1>6, <1>7 DEF WindowCall

-----------------------------------------------------------------------------
(* launch() *)

LEMMA LaunchAgainAgrees ==
    ASSUME AInv, NEW app, LaunchAgain(app)
    PROVE  AInv'
<1>1. PICK r \in running :
        /\ \/ r.window \in live /\ Windows!AbsRaise(r.window)
           \/ r.window \notin live /\ UNCHANGED winvars
        /\ status' = "focused"
        /\ UNCHANGED <<table, runtime, surfaces, running, run_count, link, strayed>>
  BY DEF LaunchAgain
<1>2. WindowsSound' /\ live' = live /\ next_window' = next_window
  <2>1. MaxWindowId \in Nat /\ WindowsSound
    BY Bounds DEF AInv
  <2>2. CASE Windows!AbsRaise(r.window)
    BY <1>1, <2>1, <2>2, RaiseSound DEF Windows!AbsRaise
  <2>3. CASE UNCHANGED winvars
    BY <1>1, <2>1, <2>3 DEF WindowsSound, winvars
  <2> QED
    BY <1>1, <2>2, <2>3
<1> QED
  BY <1>1, <1>2
     DEF AInv, RunningSound, ManagerAgreesWithRuntime, RunningIds, Coupled,
         Statuses

LEMMA LaunchRefusedAgrees ==
    ASSUME AInv, NEW app, LaunchRefused(app)
    PROVE  AInv'
<1>1. status' \in Statuses
  BY DEF LaunchRefused, Statuses
<1>2. link' \in BOOLEAN
  BY DEF LaunchRefused, AInv
<1> QED
  BY <1>1, <1>2, StatusAgrees DEF LaunchRefused

\* What the guards of a launch that starts say of the runtime.
LEMMA StartAllowed ==
    ASSUME NEW app, StartResult(app) = "Ok"
    PROVE  /\ app \notin AppsOf(runtime) /\ ~(Len(runtime) >= MaxRuntime)
           /\ CreatedId(table) # 0
BY DEF StartResult

\* A launch that finds no room for a window leaves all registries as they are.
LEMMA NoWindowAgrees ==
    ASSUME AInv, NoIdWrap, NEW app \in Apps, StartResult(app) = "Ok",
           table.next_id <= MaxId, Becomes(Stopped(Started(Here, app), app)),
           status' = "no_window",
           UNCHANGED <<running, run_count, link, winvars, strayed>>
    PROVE  /\ AInv'
           /\ runtime' = runtime /\ SurfaceIds(surfaces') = SurfaceIds(surfaces)
           /\ Alive(table') = Alive(table) /\ table'.count = table.count
<1>1. /\ RuntimeSound(table, runtime)
      /\ SurfacesSound(surfaces, AppsOf(runtime)) /\ MaxSurfaces \in Nat
  BY Bounds DEF AInv
<1> DEFINE k == Here
           u == Stopped(Started(k, app), app)
<1>2. k = [table |-> table, runtime |-> runtime, surfaces |-> surfaces]
  BY DEF Here
<1>3. table' = u.table /\ runtime' = u.runtime /\ surfaces' = u.surfaces
  BY DEF Becomes
<1> HIDE DEF k
<1>4. /\ u.runtime = runtime
      /\ RuntimeSound(u.table, runtime)
      /\ Alive(u.table) = Alive(table) /\ u.table.count = table.count
      /\ SurfacesSound(u.surfaces, AppsOf(runtime))
      /\ SurfaceIds(u.surfaces) = SurfaceIds(surfaces)
      /\ Len(u.surfaces) = Len(surfaces)
  BY <1>1, <1>2, StartAllowed, RolledBack
<1> HIDE DEF u
<1>5. AInv'
  BY <1>3, <1>4
     DEF AInv, winvars, RunningSound, ManagerAgreesWithRuntime, RunningIds,
         WindowsSound, Coupled, Statuses
<1> QED
  BY <1>3, <1>4, <1>5

\* A launch that succeeds adds one entry, process, surface and window.
LEMMA LaunchedAgrees ==
    ASSUME AInv, NoIdWrap, NEW app \in Apps, app \notin RunningIds,
           run_count < MaxRunning, StartResult(app) = "Ok",
           table.next_id <= MaxId, Windows!AbsOpen,
           running' = running \cup {[id |-> app, window |-> next_window]},
           run_count' = run_count + 1, Becomes(Started(Here, app)),
           status' = "launched", UNCHANGED <<link, strayed>>
    PROVE  AInv'
<1> DEFINE e == [app |-> app, state |-> "Running",
                 kernel_pid |-> CreatedId(table)]
           r == [id |-> app, window |-> next_window]
<1>1. /\ table' = Created(table) /\ runtime' = Append(runtime, e)
      /\ surfaces' = SurfaceOpened(surfaces, app)
  BY DEF Becomes, Started, Here
<1>2. /\ app \notin AppsOf(runtime) /\ ~(Len(runtime) >= MaxRuntime)
      /\ CreatedId(table) # 0
  BY StartAllowed
<1>3. /\ MaxRuntime \in Nat /\ MaxSurfaces \in Nat /\ MaxWindowId \in Nat
      /\ MaxRunning \in Nat /\ Len(runtime) \in Nat
  BY Bounds, LenProperties DEF AInv, RuntimeSound
<1>4. /\ RuntimeSound(table', runtime')
      /\ AppsOf(runtime') = AppsOf(runtime) \cup {app}
      /\ Len(runtime') = Len(runtime) + 1
  BY <1>1, <1>2, StartSound DEF AInv
<1>5. Len(runtime') <= MaxRuntime
  BY <1>2, <1>3, <1>4
<1>6. /\ SurfacesSound(surfaces', AppsOf(runtime'))
      /\ IF Len(surfaces) >= MaxSurfaces THEN surfaces' = surfaces
         ELSE /\ SurfaceIds(surfaces') = SurfaceIds(surfaces) \cup {app}
              /\ Len(surfaces') = Len(surfaces) + 1
  BY <1>1, <1>2, <1>3, <1>4, OpenedSound DEF AInv
<1>7. /\ WindowsSound' /\ focus' = next_window
      /\ live' = live \cup {next_window} /\ next_window \notin live
      /\ next_window \in WindowIds /\ next_window' = next_window + 1
  <2>1. next_window \in WindowIds /\ next_window' = next_window + 1
    BY DEF Windows!AbsOpen
  <2> QED
    BY <1>3, <2>1, OpenSound DEF AInv
<1>8. r \in Managed /\ r.id = app /\ r.window = next_window
  BY <1>7 DEF Managed
<1> HIDE DEF e, r
<1>9. running' = running \cup {r}
  BY DEF r
<1>10. \A q \in running : q.id # app /\ q.window # next_window
                          /\ q.window \in Nat /\ q.window < next_window
  BY DEF AInv, RunningSound, Managed, WindowIds, RunningIds
<1>11. r \notin running
  BY <1>8, <1>10
<1>12. /\ IsFiniteSet(running') /\ Cardinality(running) \in Nat
       /\ Cardinality(running') = Cardinality(running) + 1
  BY <1>9, <1>11, FS_AddElement, FS_CardinalityType DEF AInv, RunningSound
<1>13. RunningIds' = RunningIds \cup {app}
  BY <1>8, <1>9 DEF RunningIds
<1>14. RunningSound'
  <2>1. running' \subseteq Managed
    BY <1>8, <1>9 DEF AInv, RunningSound
  <2>2. \A q, p \in running' : q.id = p.id \/ q.window = p.window => q = p
    BY <1>8, <1>9, <1>10 DEF AInv, RunningSound
  <2>3. \A q \in running' : q.window < next_window'
    BY <1>7, <1>8, <1>9, <1>10 DEF AInv, WindowsSound
  <2>4. ManagerAgreesWithRuntime'
    BY <1>4, <1>12, <1>13 DEF AInv, RunningSound, ManagerAgreesWithRuntime
  <2>5. run_count' <= MaxRunning
    BY <1>3, <1>12 DEF AInv, RunningSound, ManagerAgreesWithRuntime
  <2> QED
    BY <1>12, <2>1, <2>2, <2>3, <2>4, <2>5 DEF RunningSound
<1>15. Coupled'
  <2> SUFFICES ASSUME ~strayed
               PROVE  /\ {q.window : q \in running'} = live'
                      /\ Cardinality(live') = Cardinality(running')
                      /\ MaxRuntime <= MaxSurfaces =>
                           /\ SurfaceIds(surfaces') = RunningIds'
                           /\ Len(surfaces') = Cardinality(running')
    BY DEF Coupled
  <2>1. {q.window : q \in running'} = live'
    <3>1. {q.window : q \in running} = live
      BY DEF AInv, Coupled
    <3> QED
      BY <1>7, <1>8, <1>9, <3>1
  <2>2. Cardinality(live') = Cardinality(running')
    <3>1. IsFiniteSet(live)
      <4>1. next_window - 1 \in Int /\ live \subseteq 1..(next_window - 1)
        BY DEF AInv, WindowsSound
      <4>2. IsFiniteSet(1..(next_window - 1))
        BY <4>1, FS_Interval
      <4> QED
        BY <4>1, <4>2, FS_Subset
    <3>2. Cardinality(live') = Cardinality(live) + 1
      BY <1>7, <3>1, FS_AddElement
    <3> QED
      BY <1>12, <3>2 DEF AInv, Coupled
  <2>3. ASSUME MaxRuntime <= MaxSurfaces
        PROVE  /\ SurfaceIds(surfaces') = RunningIds'
               /\ Len(surfaces') = Cardinality(running')
    <3>1. /\ SurfaceIds(surfaces) = RunningIds
          /\ Len(surfaces) = Cardinality(running)
      BY <2>3 DEF AInv, Coupled
    <3>2. ~(Len(surfaces) >= MaxSurfaces)
      BY <1>2, <1>3, <2>3, <3>1
         DEF AInv, RunningSound, ManagerAgreesWithRuntime
    <3> QED
      BY <1>6, <1>12, <1>13, <3>1, <3>2
  <2> QED
    BY <2>1, <2>2, <2>3
<1>16. status' \in Statuses /\ link' \in BOOLEAN /\ strayed' \in BOOLEAN
  BY DEF AInv, Statuses
<1> QED
  BY <1>4, <1>5, <1>6, <1>7, <1>14, <1>15, <1>16 DEF AInv

-----------------------------------------------------------------------------
(* close() *)

\* What close() does to the windows, given the entry it takes.
LEMMA CloseTakesWindow ==
    ASSUME WindowsSound, MaxWindowId \in Nat, NEW x,
           \/ x \in live /\ Windows!AbsClose(x)
           \/ x \notin live /\ UNCHANGED winvars
    PROVE  WindowsSound' /\ live' = live \ {x} /\ next_window' = next_window
<1>1. CASE Windows!AbsClose(x)
  BY <1>1, WindowCloseSound DEF Windows!AbsClose
<1>2. CASE x \notin live /\ UNCHANGED winvars
  BY <1>2 DEF WindowsSound, winvars
<1> QED
  BY <1>1, <1>2

LEMMA CloseAgrees ==
    ASSUME AInv, NEW app, Close(app)
    PROVE  AInv'
<1>1. PICK r \in running :
        /\ r.id = app
        /\ \/ r.window \in live /\ Windows!AbsClose(r.window)
           \/ r.window \notin live /\ UNCHANGED winvars
        /\ Becomes(Stopped(Here, app))
        /\ running' = running \ {r}
        /\ run_count' = IF run_count > 0 THEN run_count - 1 ELSE run_count
        /\ status' = "closed"
        /\ UNCHANGED <<link, strayed>>
  BY DEF Close
<1>2. /\ Len(runtime) \in Nat /\ MaxWindowId \in Nat /\ WindowsSound
      /\ MaxRuntime \in Nat /\ MaxRunning \in Nat
  BY Bounds, LenProperties DEF AInv, RuntimeSound
<1>3. app \in AppsOf(runtime) /\ app \in RunningIds
  BY <1>1 DEF AInv, RunningSound, ManagerAgreesWithRuntime, RunningIds
<1>4. PICK i \in 1..Len(runtime) :
        /\ runtime[i].app = app
        /\ table' = Terminated(table, runtime[i].kernel_pid)
        /\ runtime' = SwapRemove(runtime, i)
        /\ surfaces' = SurfaceClosed(surfaces, app)
  <2> DEFINE k == Here
  <2>1. /\ k.table = table /\ k.runtime = runtime /\ k.surfaces = surfaces
        /\ Becomes(Stopped(k, app))
    BY <1>1 DEF Here
  <2>2. k.runtime \in Seq(Entry) /\ app \in AppsOf(k.runtime)
    BY <1>3, <2>1 DEF AInv, RuntimeSound
  <2> HIDE DEF k
  <2>3. PICK i \in 1..Len(k.runtime) :
          /\ k.runtime[i].app = app
          /\ Stopped(k, app) =
               [table    |-> Terminated(k.table, k.runtime[i].kernel_pid),
                runtime  |-> SwapRemove(k.runtime, i),
                surfaces |-> SurfaceClosed(k.surfaces, app)]
    BY <2>2, StoppedIs
  <2> QED
    BY <2>1, <2>3 DEF Becomes
<1>5. /\ RuntimeSound(table', runtime')
      /\ AppsOf(runtime') = AppsOf(runtime) \ {app}
      /\ Len(runtime') = Len(runtime) - 1 /\ Len(runtime') \in Nat
  BY <1>4, StopSound DEF AInv
<1>6. Len(runtime') <= MaxRuntime
  BY <1>2, <1>5 DEF AInv
<1>7. /\ SurfacesSound(surfaces', AppsOf(runtime'))
      /\ SurfaceIds(surfaces') = SurfaceIds(surfaces) \ {app}
      /\ Len(surfaces') = IF app \in SurfaceIds(surfaces)
                            THEN Len(surfaces) - 1 ELSE Len(surfaces)
  BY <1>4, <1>5, ClosedSound DEF AInv
<1>8. WindowsSound' /\ live' = live \ {r.window} /\ next_window' = next_window
  BY <1>1, <1>2, CloseTakesWindow
<1>9. /\ IsFiniteSet(running) /\ IsFiniteSet(running')
      /\ Cardinality(running') = Cardinality(running) - 1
  BY <1>1, FS_RemoveElement DEF AInv, RunningSound
<1>10. RunningIds' = RunningIds \ {app}
  BY <1>1 DEF AInv, RunningSound, RunningIds
<1>11. RunningSound'
  <2>1. /\ running' \subseteq Managed
        /\ \A q, p \in running' : q.id = p.id \/ q.window = p.window => q = p
        /\ \A q \in running' : q.window < next_window'
    BY <1>1, <1>8 DEF AInv, RunningSound
  <2>2. run_count' = Cardinality(running') /\ run_count' <= MaxRunning
    <3>1. /\ run_count = Cardinality(running) /\ run_count <= MaxRunning
          /\ Cardinality(running) = Len(runtime)
      BY DEF AInv, RunningSound, ManagerAgreesWithRuntime
    <3>2. run_count > 0 /\ run_count \in Nat
      BY <1>2, <1>5, <3>1
    <3> QED
      BY <1>1, <1>2, <1>9, <3>1, <3>2
  <2>3. ManagerAgreesWithRuntime'
    BY <1>5, <1>9, <1>10, <2>2 DEF AInv, RunningSound, ManagerAgreesWithRuntime
  <2> QED
    BY <1>9, <2>1, <2>2, <2>3 DEF RunningSound
<1>12. Coupled'
  <2> SUFFICES ASSUME ~strayed
               PROVE  /\ {q.window : q \in running'} = live'
                      /\ Cardinality(live') = Cardinality(running')
                      /\ MaxRuntime <= MaxSurfaces =>
                           /\ SurfaceIds(surfaces') = RunningIds'
                           /\ Len(surfaces') = Cardinality(running')
    BY <1>1 DEF Coupled
  <2>1. {q.window : q \in running} = live
    BY DEF AInv, Coupled
  <2>2. {q.window : q \in running'} = live'
    BY <1>1, <1>8, <2>1 DEF AInv, RunningSound
  <2>3. Cardinality(live') = Cardinality(running')
    <3>1. IsFiniteSet(live)
      <4>1. next_window - 1 \in Int /\ live \subseteq 1..(next_window - 1)
        BY DEF AInv, WindowsSound
      <4>2. IsFiniteSet(1..(next_window - 1))
        BY <4>1, FS_Interval
      <4> QED
        BY <4>1, <4>2, FS_Subset
    <3>2. r.window \in live
      BY <2>1
    <3>3. Cardinality(live') = Cardinality(live) - 1
      BY <1>8, <3>1, <3>2, FS_RemoveElement
    <3> QED
      BY <1>9, <3>3 DEF AInv, Coupled
  <2>4. ASSUME MaxRuntime <= MaxSurfaces
        PROVE  /\ SurfaceIds(surfaces') = RunningIds'
               /\ Len(surfaces') = Cardinality(running')
    BY <1>3, <1>7, <1>9, <1>10, <2>4 DEF AInv, Coupled
  <2> QED
    BY <2>2, <2>3, <2>4
<1>13. status' \in Statuses /\ link' \in BOOLEAN /\ strayed' \in BOOLEAN
  BY <1>1 DEF AInv, Statuses
<1> QED
  BY <1>5, <1>6, <1>7, <1>8, <1>11, <1>12, <1>13 DEF AInv

-----------------------------------------------------------------------------
(* Every step *)

LEMMA LaunchStartsAgrees ==
    ASSUME AInv, NoIdWrap, NEW app \in Apps, LaunchStarts(app)
    PROVE  AInv'
<1>1. /\ app \notin RunningIds /\ run_count < MaxRunning
      /\ StartResult(app) = "Ok" /\ table.next_id <= MaxId
      /\ UNCHANGED <<link, strayed>>
  BY DEF LaunchStarts
<1>2. CASE /\ Windows!AbsOpen
           /\ running' = running \cup {[id |-> app, window |-> next_window]}
           /\ run_count' = run_count + 1
           /\ Becomes(Started(Here, app))
           /\ status' = "launched"
  BY <1>1, <1>2, LaunchedAgrees
<1>3. CASE /\ Becomes(Stopped(Started(Here, app), app))
           /\ status' = "no_window"
           /\ UNCHANGED <<running, run_count, winvars>>
  BY <1>1, <1>3, NoWindowAgrees
<1> QED
  BY <1>2, <1>3 DEF LaunchStarts

LEMMA NextAgrees == NoIdWrap /\ AInv /\ [Next]_vars => AInv'
<1> SUFFICES ASSUME NoIdWrap, AInv, [Next]_vars PROVE AInv'
  OBVIOUS
<1>1. ASSUME NEW app \in Apps, LaunchAgain(app) PROVE AInv'
  BY <1>1, LaunchAgainAgrees
<1>2. ASSUME NEW app \in Apps, LaunchRefused(app) PROVE AInv'
  BY <1>2, LaunchRefusedAgrees
<1>3. ASSUME NEW app \in Apps, LaunchStarts(app) PROVE AInv'
  BY <1>3, LaunchStartsAgrees
<1>4. ASSUME NEW app \in Apps, Close(app) PROVE AInv'
  BY <1>4, CloseAgrees
<1>5. ASSUME NEW app \in Apps, CloseNotRunning(app) PROVE AInv'
  <2>1. status' \in Statuses /\ link' \in BOOLEAN
    BY <1>5 DEF CloseNotRunning, Statuses, AInv
  <2> QED
    BY <1>5, <2>1, StatusAgrees DEF CloseNotRunning
<1>6. ASSUME NEW app \in Apps, Suspend(app) \/ Resume(app) PROVE AInv'
  BY <1>6, SetStateAgrees DEF Suspend, Resume
<1>7. ASSUME NEW app \in Apps, SurfaceFocus(app) PROVE AInv'
  BY <1>7, SurfaceFocusAgrees
<1>8. ASSUME NEW app \in Apps, SurfaceClose(app) PROVE AInv'
  BY <1>8, SurfaceCloseAgrees
<1>9. CASE Tick
  BY <1>9, TickAgrees
<1>10. CASE LinkChange
  <2>1. status' \in Statuses /\ link' \in BOOLEAN
    BY <1>10 DEF LinkChange, AInv
  <2> QED
    BY <1>10, <2>1, StatusAgrees DEF LinkChange
<1>11. CASE WindowCall
  BY <1>11, WindowCallAgrees
<1>12. CASE UNCHANGED vars
  BY <1>12, StutterAgrees
<1> QED
  BY <1>1, <1>2, <1>3, <1>4, <1>5, <1>6, <1>7, <1>8, <1>9, <1>10, <1>11, <1>12
     DEF Next

LEMMA SpecAgrees == NoIdWrap => (Spec => []AInv)
<1> SUFFICES ASSUME NoIdWrap PROVE Spec => []AInv
  OBVIOUS
<1>1. Init => AInv
  BY InitAgrees
<1>2. AInv /\ [Next]_vars => AInv'
  BY NextAgrees
<1> QED
  BY <1>1, <1>2, PTL DEF Spec

-----------------------------------------------------------------------------
(* Theorems: states *)

\* However launches, failures and closes follow each other, every live kernel
\* process belongs to one entry of the runtime and every entry has its own:
\* for every size of the tables, as long as the process ids do not wrap.
THEOREM NoProcessLeaked == NoIdWrap => (Spec => []NoProcessLeak)
<1> SUFFICES ASSUME NoIdWrap PROVE Spec => []NoProcessLeak
  OBVIOUS
<1>1. AInv => NoProcessLeak
  <2> SUFFICES ASSUME AInv PROVE NoProcessLeak
    OBVIOUS
  <2>1. RuntimeSound(table, runtime)
    BY DEF AInv
  <2>2. ASSUME NEW s \in Alive(table)
        PROVE  table.procs[s].id \in {runtime[i].kernel_pid : i \in 1..Len(runtime)}
    BY <2>1 DEF RuntimeSound
  <2>3. ASSUME NEW i \in 1..Len(runtime)
        PROVE  runtime[i].kernel_pid \in {table.procs[s].id : s \in Alive(table)}
    BY <2>1 DEF RuntimeSound
  <2>4. Cardinality(Alive(table)) = Len(runtime)
    BY <2>1 DEF RuntimeSound
  <2> QED
    BY <2>2, <2>3, <2>4 DEF NoProcessLeak
<1> QED
  BY <1>1, SpecAgrees, PTL

\* app_manager and app_runtime list the same applications, each once, whatever
\* is done to windows and surfaces past them.
THEOREM ManagerAndRuntimeAgree ==
    NoIdWrap => (Spec => []ManagerAgreesWithRuntime)
<1> SUFFICES ASSUME NoIdWrap PROVE Spec => []ManagerAgreesWithRuntime
  OBVIOUS
<1>1. AInv => ManagerAgreesWithRuntime
  BY DEF AInv, RunningSound
<1> QED
  BY <1>1, SpecAgrees, PTL

LEMMA AgreedTypes == AInv => TypeOK
<1> SUFFICES ASSUME AInv PROVE TypeOK
  OBVIOUS
<1>1. run_count \in 0..MaxRunning
  <2>1. run_count = Cardinality(running) /\ IsFiniteSet(running)
    BY DEF AInv, RunningSound, ManagerAgreesWithRuntime
  <2>2. run_count \in Nat /\ run_count <= MaxRunning
    BY <2>1, FS_CardinalityType DEF AInv, RunningSound
  <2> QED
    BY <2>2, Bounds
<1>2. live \subseteq WindowIds
  BY Bounds DEF AInv, WindowsSound, WindowIds
<1>3. PTypeOK
  BY DEF AInv, RuntimeSound, Sound, PTypeOK
<1> QED
  BY <1>1, <1>2, <1>3
     DEF AInv, TypeOK, RuntimeSound, SurfacesSound, RunningSound, WindowsSound

\* The four registries keep their types, whatever is done to windows and
\* surfaces past app_manager: none outgrows its table.
THEOREM RegistryTypes == NoIdWrap => (Spec => []TypeOK)
<1> SUFFICES ASSUME NoIdWrap PROVE Spec => []TypeOK
  OBVIOUS
<1> QED
  BY AgreedTypes, SpecAgrees, PTL

\* As long as every call goes through app_manager, each running application
\* has its surface and its window, and there are no others, if app_ui has room
\* for as many surfaces as app_runtime has for entries.  Whatever goes past it,
\* no surface outlives its application.
THEOREM RegistriesStayCoupled ==
    NoIdWrap /\ MaxRuntime <= MaxSurfaces => (Spec => []RegistriesCoupled)
<1> SUFFICES ASSUME NoIdWrap, MaxRuntime <= MaxSurfaces
             PROVE  Spec => []RegistriesCoupled
  OBVIOUS
<1>1. AInv => RegistriesCoupled
  BY AgreedTypes
     DEF AInv, Coupled, RegistriesCoupled, SurfacesSound, RunningSound,
         ManagerAgreesWithRuntime
<1> QED
  BY <1>1, SpecAgrees, PTL

-----------------------------------------------------------------------------
(* Theorems: steps *)

\* A launch that reports success leaves the application's window shown and
\* focused, or comes upon one that was closed past app_manager and then leaves
\* every window as it is.
THEOREM SuccessVisible == NoIdWrap => (Spec => SuccessIsVisible)
<1> SUFFICES ASSUME NoIdWrap PROVE Spec => SuccessIsVisible
  OBVIOUS
<1> DEFINE Shows(app) ==
             Launch(app) /\ status' \in {"launched", "focused"} =>
               \E r \in running' :
                 /\ r.id = app
                 /\ \/ focus' = r.window /\ r.window \in live' \ hidden'
                    \/ /\ strayed /\ r \in running /\ r.window \notin live
                       /\ UNCHANGED winvars
<1>1. AInv => \A app \in Apps : Shows(app)
  <2> SUFFICES ASSUME AInv, NEW app \in Apps, Launch(app),
                      status' \in {"launched", "focused"}
               PROVE  \E r \in running' :
                        /\ r.id = app
                        /\ \/ focus' = r.window /\ r.window \in live' \ hidden'
                           \/ /\ strayed /\ r \in running /\ r.window \notin live
                              /\ UNCHANGED winvars
    OBVIOUS
  <2>1. WindowsSound /\ MaxWindowId \in Nat
    BY Bounds DEF AInv
  <2>2. CASE LaunchAgain(app)
    <3>1. PICK r \in running :
            /\ r.id = app
            /\ \/ r.window \in live /\ Windows!AbsRaise(r.window)
               \/ r.window \notin live /\ UNCHANGED winvars
            /\ UNCHANGED running
      BY <2>2 DEF LaunchAgain
    <3>2. CASE r.window \in live
      <4>1. focus' = r.window /\ r.window \in live' \ hidden'
        BY <2>1, <3>1, <3>2, RaiseSound
      <4> QED
        BY <3>1, <4>1
    <3>3. CASE r.window \notin live
      <4>1. strayed
        BY <3>3 DEF AInv, Coupled
      <4> QED
        BY <3>1, <3>3, <4>1
    <3> QED
      BY <3>2, <3>3
  <2>3. CASE LaunchStarts(app)
    <3> DEFINE r == [id |-> app, window |-> next_window]
    <3>1. /\ Windows!AbsOpen
          /\ running' = running \cup {r}
      BY <2>3 DEF LaunchStarts
    <3>2. focus' = next_window /\ next_window \in live' \ hidden'
      BY <2>1, <3>1, OpenSound
    <3>3. r \in running' /\ r.id = app /\ r.window = next_window
      BY <3>1
    <3> QED
      BY <3>2, <3>3
  <2>4. ~LaunchRefused(app)
    BY DEF LaunchRefused
  <2> QED
    BY <2>2, <2>3, <2>4 DEF Launch
<1>2. AInv /\ [Next]_vars => [\A app \in Apps : Shows(app)]_vars
  BY <1>1
<1> QED
  BY <1>2, SpecAgrees, PTL DEF Spec, SuccessIsVisible

\* A launch that reports failure leaves every registry with what it had, so it
\* can be tried again for ever.
THEOREM FailureLeavesNothingBehind ==
    NoIdWrap => (Spec => FailureLeavesNothing)
<1> SUFFICES ASSUME NoIdWrap PROVE Spec => FailureLeavesNothing
  OBVIOUS
<1> DEFINE Leaves(app) ==
             Launch(app) /\ status' \notin {"launched", "focused"} =>
               /\ UNCHANGED <<runtime, running, run_count, winvars>>
               /\ Alive(table') = Alive(table) /\ table'.count = table.count
               /\ SurfaceIds(surfaces') = SurfaceIds(surfaces)
<1>1. AInv => \A app \in Apps : Leaves(app)
  <2> SUFFICES ASSUME AInv, NEW app \in Apps, Launch(app),
                      status' \notin {"launched", "focused"}
               PROVE  /\ UNCHANGED <<runtime, running, run_count, winvars>>
                      /\ Alive(table') = Alive(table)
                      /\ table'.count = table.count
                      /\ SurfaceIds(surfaces') = SurfaceIds(surfaces)
    OBVIOUS
  <2>1. CASE LaunchRefused(app)
    BY <2>1 DEF LaunchRefused
  <2>2. CASE LaunchStarts(app)
    <3>1. /\ StartResult(app) = "Ok" /\ table.next_id <= MaxId
          /\ Becomes(Stopped(Started(Here, app), app))
          /\ status' = "no_window"
          /\ UNCHANGED <<running, run_count, link, winvars, strayed>>
      BY <2>2 DEF LaunchStarts
    <3> QED
      BY <3>1, NoWindowAgrees
  <2>3. ~LaunchAgain(app)
    BY DEF LaunchAgain
  <2> QED
    BY <2>1, <2>2, <2>3 DEF Launch
<1>2. AInv /\ [Next]_vars => [\A app \in Apps : Leaves(app)]_vars
  BY <1>1
<1> QED
  BY <1>2, SpecAgrees, PTL DEF Spec, FailureLeavesNothing

\* close() takes the application's own window, if it is still there, and no
\* other one.
THEOREM CloseTakesItsOwn == NoIdWrap => (Spec => CloseTakesOwnWindow)
<1> SUFFICES ASSUME NoIdWrap PROVE Spec => CloseTakesOwnWindow
  OBVIOUS
<1> DEFINE Takes(app) ==
             Close(app) =>
               /\ \A x \in live \ live' : [id |-> app, window |-> x] \in running
               /\ \A r \in running \ running' :
                    r.id = app /\ r.window \notin live'
<1>1. AInv => \A app \in Apps : Takes(app)
  <2> SUFFICES ASSUME AInv, NEW app \in Apps, Close(app)
               PROVE  /\ \A x \in live \ live' :
                           [id |-> app, window |-> x] \in running
                      /\ \A r \in running \ running' :
                           r.id = app /\ r.window \notin live'
    OBVIOUS
  <2>1. PICK r \in running :
          /\ r.id = app
          /\ \/ r.window \in live /\ Windows!AbsClose(r.window)
             \/ r.window \notin live /\ UNCHANGED winvars
          /\ running' = running \ {r}
    BY DEF Close
  <2>2. live' = live \ {r.window}
    <3>1. MaxWindowId \in Nat /\ WindowsSound
      BY Bounds DEF AInv
    <3> QED
      BY <2>1, <3>1, CloseTakesWindow
  <2>3. r = [id |-> app, window |-> r.window]
    BY <2>1 DEF AInv, RunningSound, Managed
  <2> QED
    BY <2>1, <2>2, <2>3
<1>2. AInv /\ [Next]_vars => [\A app \in Apps : Takes(app)]_vars
  BY <1>1
<1> QED
  BY <1>2, SpecAgrees, PTL DEF Spec, CloseTakesOwnWindow

\* A key has one reader at most, and a surface loses the focus only to another
\* one, with itself, or to a launch that is taken back.
THEOREM SurfaceFocusIsKept == NoIdWrap => (Spec => SurfaceFocusKept)
<1> SUFFICES ASSUME NoIdWrap PROVE Spec => SurfaceFocusKept
  OBVIOUS
<1> DEFINE Loses(app) == \/ FocusedIds(surfaces') # {}
                         \/ app \notin SurfaceIds(surfaces')
                         \/ status' = "no_window" /\ Windows!Full
<1>1. ASSUME AInv, Next, NEW app \in FocusedIds(surfaces)
      PROVE  Loses(app)
  <2>1. SurfacesSound(surfaces, AppsOf(runtime)) /\ MaxSurfaces \in Nat
    BY <1>1, Bounds DEF AInv
  <2>2. CASE UNCHANGED surfaces
    BY <2>2
  <2>3. ASSUME NEW a, surfaces' = SurfaceClosed(surfaces, a)
        PROVE  Loses(app)
    <3>1. /\ SurfaceIds(surfaces') = SurfaceIds(surfaces) \ {a}
          /\ FocusedIds(surfaces') = FocusedIds(surfaces) \ {a}
      BY <2>1, <2>3, ClosedSound
    <3> QED
      BY <3>1
  <2>4. ASSUME NEW a \in Apps, Close(a) PROVE Loses(app)
    <3>1. surfaces' \in {surfaces, SurfaceClosed(surfaces, a)}
      BY <2>4 DEF Close, Becomes, Stopped, Here
    <3> QED
      BY <2>2, <2>3, <3>1
  <2>5. ASSUME NEW a \in Apps, LaunchStarts(a) PROVE Loses(app)
    <3>1. CASE status' = "no_window"
      BY <2>5, <3>1 DEF LaunchStarts
    <3>2. CASE surfaces' = SurfaceOpened(surfaces, a)
      <4>1. a \notin AppsOf(runtime)
        BY <2>5, StartAllowed DEF LaunchStarts
      <4>2. surfaces' = surfaces \/ a \in FocusedIds(surfaces')
        BY <2>1, <3>2, <4>1, OpenedSound
      <4> QED
        BY <2>2, <4>2
    <3> QED
      BY <2>5, <3>1, <3>2 DEF LaunchStarts, Becomes, Started, Here
  <2>6. ASSUME NEW a \in Apps, SurfaceFocus(a) PROVE Loses(app)
    BY <2>1, <2>6, FocusedSound DEF SurfaceFocus
  <2>7. ASSUME NEW a \in Apps, SurfaceClose(a) PROVE Loses(app)
    BY <2>3, <2>7 DEF SurfaceClose
  <2>8. ASSUME NEW a \in Apps,
               \/ LaunchAgain(a) \/ LaunchRefused(a) \/ CloseNotRunning(a)
               \/ Suspend(a) \/ Resume(a)
        PROVE  Loses(app)
    BY <2>2, <2>8 DEF LaunchAgain, LaunchRefused, CloseNotRunning, Suspend,
                      Resume, SetState
  <2>9. CASE Tick \/ LinkChange \/ WindowCall
    BY <2>2, <2>9 DEF Tick, LinkChange, WindowCall
  <2> HIDE DEF Loses
  <2> QED
    BY <1>1, <2>4, <2>5, <2>6, <2>7, <2>8, <2>9 DEF Next
<1>2. AInv' => Cardinality(FocusedIds(surfaces')) <= 1
  BY OneFocused DEF AInv
<1>3. AInv /\ [Next]_vars =>
        [/\ Cardinality(FocusedIds(surfaces')) <= 1
         /\ \A app \in FocusedIds(surfaces) : Loses(app)]_vars
  <2> HIDE DEF Loses
  <2> QED
    BY <1>1, <1>2, NextAgrees
<1> QED
  BY <1>3, SpecAgrees, PTL DEF Spec, SurfaceFocusKept

-----------------------------------------------------------------------------
(* The windows: what is assumed of them here is what FocusOrder says *)

\* Every step does to the windows one thing FocusOrder does, or nothing.
LEMMA WindowStep ==
    ASSUME WindowsSound, [Next]_vars
    PROVE  WindowsSound' /\ [Windows!AbsNext]_winvars
<1>1. MaxWindowId \in Nat /\ live \subseteq WindowIds
  BY Bounds DEF WindowsSound, WindowIds
<1>2. CASE UNCHANGED winvars
  BY <1>2 DEF winvars, WindowsSound
<1>3. CASE Windows!AbsOpen
  BY <1>1, <1>3, OpenSound DEF Windows!AbsNext
<1>4. ASSUME NEW x \in live,
             Windows!AbsRaise(x) \/ Windows!AbsHide(x) \/ Windows!AbsClose(x)
      PROVE  WindowsSound' /\ Windows!AbsNext
  BY <1>1, <1>4, RaiseSound, HideSound, WindowCloseSound DEF Windows!AbsNext
<1>5. CASE UNCHANGED vars
  BY <1>2, <1>5 DEF vars, winvars
<1>6. CASE WindowCall
  BY <1>3, <1>4, <1>6 DEF WindowCall
<1>7. ASSUME NEW app, LaunchAgain(app) \/ Close(app)
      PROVE  WindowsSound' /\ [Windows!AbsNext]_winvars
  BY <1>2, <1>4, <1>7 DEF LaunchAgain, Close
<1>8. ASSUME NEW app, LaunchStarts(app)
      PROVE  WindowsSound' /\ [Windows!AbsNext]_winvars
  BY <1>2, <1>3, <1>8 DEF LaunchStarts
<1>9. ASSUME NEW app,
             \/ LaunchRefused(app) \/ CloseNotRunning(app) \/ Suspend(app)
             \/ Resume(app) \/ SurfaceFocus(app) \/ SurfaceClose(app)
      PROVE  UNCHANGED winvars
  BY <1>9 DEF LaunchRefused, CloseNotRunning, Suspend, Resume, SetState,
              SurfaceFocus, SurfaceClose
<1>10. CASE Tick \/ LinkChange
  BY <1>2, <1>10 DEF Tick, LinkChange
<1> QED
  BY <1>2, <1>5, <1>6, <1>7, <1>8, <1>9, <1>10 DEF Next

\* Launches, closes and direct calls together do to the windows only what
\* FocusOrder allows, the specification the window manager refines
\* (WindowManager_proofs!KeepsFocusOrder).  There a call has one outcome, so
\* what a call does here is what the window manager does: the ids it hands out,
\* the room it has, the order it keeps and where it moves the focus.
THEOREM WindowsFollowOrder == Spec => Windows!AbsSpec
<1>1. Init => WindowsSound /\ Windows!AbsInit
  BY Bounds DEF Init, Windows!AbsInit, WindowsSound, WindowIds
<1>2. WindowsSound /\ [Next]_vars
        => WindowsSound' /\ [Windows!AbsNext]_(Windows!absvars)
  BY WindowStep DEF winvars, Windows!absvars
<1> QED
  BY <1>1, <1>2, PTL DEF Spec, Windows!AbsSpec
=============================================================================
