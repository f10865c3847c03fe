------------------------ MODULE KernelTables_proofs ------------------------
(***************************************************************************)
(* Proofs about the tables the kernel keeps for its own use, for every     *)
(* number of slots and every size: threads, the bootstrap heap, the        *)
(* desktop's windows and the file system.  The process table has its       *)
(* proofs in AppLifecycle_proofs, which is built on them.                  *)
(***************************************************************************)
EXTENDS KernelTables, FiniteSetTheorems, SequenceTheorems, Induction, TLAPS

-----------------------------------------------------------------------------
(* Threads *)

\* The inductive invariant: of stopped threads, too, every id lies below the
\* counter, so that the next one is new.
ThreadInv ==
    /\ ThreadTableSound
    /\ \A s \in TSlots : threads[s].id < next_thread

LEMMA RunnableFinite ==
    ASSUME MaxThreads \in Nat \ {0}
    PROVE  IsFiniteSet(Runnable) /\ Cardinality(Runnable) \in Nat
<1>1. IsFiniteSet(TSlots)
  BY FS_Interval DEF TSlots
<1>2. Runnable \in SUBSET TSlots
  BY DEF Runnable
<1> QED
  BY <1>1, <1>2, FS_Subset, FS_CardinalityType

\* create() gives a free slot a thread with an id no slot has.
LEMMA CreateKeeps ==
    ASSUME MaxThreads \in Nat \ {0}, MaxThreadId \in Nat, ThreadInv,
           CreateThread
    PROVE  ThreadInv'
<1>1. PICK s \in TSlots \ Runnable :
        threads' = [threads EXCEPT
                      ![s] = [id |-> next_thread, runnable |-> TRUE]]
  BY DEF CreateThread, LowestSlot, Free
<1>2. /\ next_thread \in 1..MaxThreadId /\ next_thread' = next_thread + 1
      /\ thread_count' = thread_count + 1 /\ thread_cursor' = thread_cursor
  BY
     DEF CreateThread, NextThread, ThreadInv, ThreadTableSound, ThreadCountExact
<1>3. threads' \in [TSlots -> Thread]
  BY <1>1, <1>2 DEF ThreadInv, ThreadTableSound, ThreadCountExact, Thread
<1>4. /\ threads'[s].id = next_thread /\ threads'[s].runnable
      /\ \A t \in TSlots \ {s} : threads'[t] = threads[t]
  BY <1>1 DEF ThreadInv, ThreadTableSound, ThreadCountExact
<1>5. Runnable' = Runnable \cup {s}
  BY <1>1, <1>4 DEF Runnable
<1>6. thread_count' = Cardinality(Runnable')
  BY <1>1, <1>2, <1>5, RunnableFinite, FS_AddElement
     DEF ThreadInv, ThreadTableSound, ThreadCountExact
<1>7. ThreadCountExact'
  BY <1>2, <1>3, <1>6 DEF ThreadInv, ThreadTableSound, ThreadCountExact
<1>8. \A t \in TSlots :
        threads'[t].id \in 0..MaxThreadId /\ threads'[t].id < next_thread'
  BY <1>2, <1>3, <1>4 DEF Thread, ThreadInv
<1>9. OneThreadPerId'
  <2>1. \A t \in Runnable' : threads'[t].id \in 1..(next_thread' - 1)
    BY <1>2, <1>4, <1>5
       DEF ThreadInv, ThreadTableSound, OneThreadPerId, Runnable
  <2>2. \A t, u \in TSlots :
          threads'[t].id = threads'[u].id /\ threads'[t].id # 0 => t = u
    BY <1>2, <1>4 DEF ThreadInv, ThreadTableSound, OneThreadPerId
  <2> QED
    BY <2>1, <2>2 DEF OneThreadPerId
<1>10. CursorRunnable'
  BY <1>2, <1>4
     DEF ThreadInv, ThreadTableSound, CursorRunnable, ThreadCountExact
<1> QED
  BY <1>7, <1>8, <1>9, <1>10 DEF ThreadInv, ThreadTableSound

\* stop() takes one runnable thread, and the cursor off it.
LEMMA StopKeeps ==
    ASSUME MaxThreads \in Nat \ {0}, MaxThreadId \in Nat, ThreadInv, NEW id,
           StopThread(id)
    PROVE  ThreadInv'
<1>1. PICK s \in Runnable :
        /\ threads' = [threads EXCEPT ![s].runnable = FALSE]
        /\ thread_count' = IF thread_count > 0 THEN thread_count - 1 ELSE 0
        /\ thread_cursor' = Parked(s)
        /\ next_thread' = next_thread
  BY DEF StopThread, LowestSlot, Stoppable
<1>2. s \in TSlots
  BY DEF Runnable
<1>3. threads' \in [TSlots -> Thread]
  BY <1>1, <1>2 DEF ThreadInv, ThreadTableSound, ThreadCountExact, Thread
<1>4. /\ threads'[s].id = threads[s].id /\ ~threads'[s].runnable
      /\ \A t \in TSlots \ {s} : threads'[t] = threads[t]
  BY <1>1, <1>2 DEF ThreadInv, ThreadTableSound, ThreadCountExact, Thread
<1>5. Runnable' = Runnable \ {s}
  BY <1>2, <1>4 DEF Runnable
<1>6. Cardinality(Runnable \ {s}) = Cardinality(Runnable) - 1
      /\ Cardinality(Runnable \ {s}) \in Nat
  BY RunnableFinite, FS_RemoveElement, FS_CardinalityType
<1>7. thread_count' = Cardinality(Runnable')
  BY <1>1, <1>5, <1>6, RunnableFinite
     DEF ThreadInv, ThreadTableSound, ThreadCountExact
<1>8. thread_cursor' \in TSlots
  BY <1>1 DEF Parked, TSlots, ThreadInv, ThreadTableSound, ThreadCountExact
<1>9. ThreadCountExact'
  BY <1>1, <1>3, <1>7, <1>8 DEF ThreadInv, ThreadTableSound, ThreadCountExact
<1>10. \A t \in TSlots : threads'[t].id = threads[t].id
  BY <1>4
<1>11. OneThreadPerId'
  BY <1>1, <1>5, <1>10
     DEF ThreadInv, ThreadTableSound, OneThreadPerId, Runnable
<1>12. CursorRunnable'
  BY <1>1, <1>4
     DEF Parked, ThreadInv, ThreadTableSound, CursorRunnable, ThreadCountExact
<1> QED
  BY <1>1, <1>9, <1>10, <1>11, <1>12 DEF ThreadInv, ThreadTableSound

\* schedule_tick() moves the cursor to a runnable thread, and nothing else.
LEMMA TickKeeps ==
    ASSUME ThreadInv, ScheduleThread
    PROVE  ThreadInv'
<1>1. PICK s \in Runnable : thread_cursor' = s
  BY DEF ScheduleThread, NextRunnable, LowestSlot
<1>2. UNCHANGED <<threads, thread_count, next_thread>>
  BY DEF ScheduleThread
<1>3. thread_cursor' \in TSlots /\ threads'[thread_cursor'].runnable
  BY <1>1, <1>2 DEF Runnable
<1> QED
  BY <1>2, <1>3
     DEF ThreadInv, ThreadTableSound, ThreadCountExact, OneThreadPerId,
                    CursorRunnable, Runnable

-----------------------------------------------------------------------------
(* Threads: the theorem *)

LEMMA ThreadInvariant == ThreadSpec => []ThreadInv
<1> USE ThreadAssumption
<1>1. ThreadInit => ThreadInv
  <2> SUFFICES ASSUME ThreadInit PROVE ThreadInv
    OBVIOUS
  <2>1. Runnable = {}
    BY DEF ThreadInit, Runnable
  <2>2. ThreadCountExact
    BY <2>1, FS_EmptySet DEF ThreadInit, ThreadCountExact, Thread, TSlots
  <2> QED
    BY <2>1, <2>2 DEF ThreadInit, ThreadInv, ThreadTableSound, OneThreadPerId,
                      CursorRunnable
<1>2. ThreadInv /\ [ThreadNext]_thread_vars => ThreadInv'
  <2> SUFFICES ASSUME ThreadInv, [ThreadNext]_thread_vars PROVE ThreadInv'
    OBVIOUS
  <2>1. CASE CreateThread
    BY <2>1, CreateKeeps
  <2>2. ASSUME NEW id \in 1..MaxThreadId, StopThread(id) PROVE ThreadInv'
    BY <2>2, StopKeeps
  <2>3. CASE ScheduleThread
    BY <2>3, TickKeeps
  <2>4. CASE UNCHANGED thread_vars
    BY <2>4
       DEF thread_vars, ThreadInv, ThreadTableSound, ThreadCountExact, OneThreadPerId,
                CursorRunnable, Runnable
  <2> QED
    BY <2>1, <2>2, <2>3, <2>4 DEF ThreadNext
<1> QED
  BY <1>1, <1>2, PTL DEF ThreadSpec

\* After every sequence of calls thread::count() is the number of runnable
\* threads, no two threads share an id, and current() is a runnable thread or
\* the one in slot 0, for every number of slots.
THEOREM ThreadTableCorrect == ThreadSpec => []ThreadTableSound
<1>1. ThreadInv => ThreadTableSound
  BY DEF ThreadInv
<1> QED
  BY <1>1, ThreadInvariant, PTL

-----------------------------------------------------------------------------
(* Threads: whose turn it is *)

\* Going round from slot s, slot r comes no later than slot c.
ComesBy(s, r, c) == IF s < c THEN s < r /\ r <= c ELSE s < r \/ r <= c

\* What the history says of the cursor: a waiting thread was passed by slots
\* between its own and the cursor only, so by each of them once.
TurnInv ==
    /\ passed \in [TSlots -> SUBSET TSlots]
    /\ passed[thread_cursor] = {}
    /\ \A s \in Runnable : \A r \in passed[s] : ComesBy(s, r, thread_cursor)

\* The scan goes past no runnable thread: whoever waits has the slot found
\* before or at its own, seen from the cursor.
LEMMA ScanPassesNone ==
    ASSUME thread_cursor \in Int, NEW c \in NextRunnable
    PROVE  /\ c \in Runnable
           /\ \A s \in Runnable \ {c} :
                \/ thread_cursor < c /\ (c < s \/ s <= thread_cursor)
                \/ c <= thread_cursor /\ c < s /\ s <= thread_cursor
<1> DEFINE ahead == {s \in Runnable : s > thread_cursor}
<1>1. Runnable \subseteq Int
  BY DEF Runnable, TSlots
<1>2. CASE ahead # {}
  <2>1. c \in ahead /\ \A t \in ahead : c <= t
    BY <1>2 DEF NextRunnable, LowestSlot
  <2> QED
    BY <1>1, <2>1
<1>3. CASE ahead = {}
  <2>1. c \in Runnable /\ \A t \in Runnable : c <= t /\ ~(t > thread_cursor)
    BY <1>3 DEF NextRunnable, LowestSlot
  <2> QED
    BY <1>1, <2>1
<1> QED
  BY <1>2, <1>3

\* create() takes a slot that nobody has passed yet.
LEMMA CreateKeepsTurns ==
    ASSUME ThreadInv, TurnInv, CreateThread
    PROVE  TurnInv'
<1>1. PICK s \in TSlots :
        /\ threads' = [threads EXCEPT
                         ![s] = [id |-> next_thread, runnable |-> TRUE]]
        /\ passed' = [passed EXCEPT ![s] = {}]
  BY DEF CreateThread, LowestSlot, Free
<1>2. thread_cursor' = thread_cursor
  BY DEF CreateThread
<1>3. Runnable' \subseteq Runnable \cup {s}
  BY <1>1 DEF Runnable, ThreadInv, ThreadTableSound, ThreadCountExact
<1>4. passed' \in [TSlots -> SUBSET TSlots] /\ passed'[s] = {}
      /\ \A t \in TSlots \ {s} : passed'[t] = passed[t]
  BY <1>1 DEF TurnInv
<1>5. passed'[thread_cursor'] = {}
  BY <1>2, <1>4 DEF TurnInv, ThreadInv, ThreadTableSound, ThreadCountExact
<1>6. \A t \in Runnable' : \A r \in passed'[t] : ComesBy(t, r, thread_cursor')
  BY <1>2, <1>3, <1>4 DEF TurnInv, Runnable
<1> QED
  BY <1>4, <1>5, <1>6 DEF TurnInv

\* stop() leaves the cursor, or all start anew from slot 0.
LEMMA StopKeepsTurns ==
    ASSUME ThreadInv, ThreadInv', TurnInv, NEW id, StopThread(id)
    PROVE  TurnInv'
<1>1. PICK s \in TSlots :
        /\ threads' = [threads EXCEPT ![s].runnable = FALSE]
        /\ thread_cursor' = Parked(s)
        /\ passed' = IF thread_cursor = s THEN [t \in TSlots |-> {}] ELSE passed
  BY DEF StopThread, LowestSlot, Stoppable, Runnable
<1>2. thread_cursor' \in TSlots
  BY DEF ThreadInv, ThreadTableSound, ThreadCountExact
<1>3. Runnable' \subseteq Runnable
  BY <1>1 DEF Runnable, ThreadInv, ThreadTableSound, ThreadCountExact
<1>4. CASE thread_cursor = s
  <2>1. Runnable' \subseteq TSlots
    BY DEF Runnable
  <2> QED
    BY <1>1, <1>2, <1>4, <2>1 DEF TurnInv
<1>5. CASE thread_cursor # s
  <2>1. passed' = passed /\ thread_cursor' = thread_cursor
    BY <1>1, <1>5 DEF Parked
  <2> QED
    BY <1>3, <2>1 DEF TurnInv
<1> QED
  BY <1>4, <1>5

\* schedule_tick() passes a waiting thread by a slot it has not passed it by
\* since the thread last ran.
LEMMA TickKeepsTurns ==
    ASSUME ThreadInv, TurnInv, ScheduleThread
    PROVE  TurnInv' /\ ~Overtaking
<1>1. PICK c \in NextRunnable :
        /\ thread_cursor' = c
        /\ passed' = [t \in TSlots |-> IF t = c THEN {} ELSE passed[t] \cup {c}]
  BY DEF ScheduleThread
<1>2. /\ c \in Runnable
      /\ \A s \in Runnable \ {c} :
           \/ thread_cursor < c /\ (c < s \/ s <= thread_cursor)
           \/ c <= thread_cursor /\ c < s /\ s <= thread_cursor
  BY <1>1, ScanPassesNone DEF ThreadInv, ThreadTableSound, ThreadCountExact, TSlots
<1>3. Runnable' = Runnable
  BY DEF ScheduleThread, Runnable
<1>4. Runnable \subseteq TSlots /\ TSlots \subseteq Int /\ thread_cursor \in TSlots
  BY DEF Runnable, TSlots, ThreadInv, ThreadTableSound, ThreadCountExact
<1>5. ASSUME NEW s \in Runnable \ {c}
      PROVE  /\ c \notin passed[s]
             /\ \A r \in passed[s] \cup {c} : ComesBy(s, r, c)
  <2>1. \/ thread_cursor < c /\ (c < s \/ s <= thread_cursor)
        \/ c <= thread_cursor /\ c < s /\ s <= thread_cursor
    BY <1>2
  <2>2. /\ s # thread_cursor \/ passed[s] = {}
        /\ passed[s] \subseteq TSlots
        /\ \A r \in passed[s] : ComesBy(s, r, thread_cursor)
    BY <1>4 DEF TurnInv
  <2>3. ComesBy(s, c, c)
    BY <1>2, <1>4 DEF ComesBy
  <2>4. ASSUME NEW r \in passed[s] PROVE r # c /\ ComesBy(s, r, c)
    <3>1. /\ {r, s, c, thread_cursor} \subseteq Int
          /\ s # thread_cursor
          /\ ComesBy(s, r, thread_cursor)
      BY <1>2, <1>4, <2>2
    <3>2. CASE s < thread_cursor
      BY <2>1, <3>1, <3>2 DEF ComesBy
    <3>3. CASE s > thread_cursor
      BY <2>1, <3>1, <3>3 DEF ComesBy
    <3> QED
      BY <3>1, <3>2, <3>3
  <2> QED
    BY <2>3, <2>4
<1>6. passed' \in [TSlots -> SUBSET TSlots] /\ passed'[c] = {}
      /\ \A t \in TSlots \ {c} : passed'[t] = passed[t] \cup {c}
  BY <1>1, <1>2, <1>4 DEF TurnInv
<1>7. TurnInv'
  BY <1>1, <1>3, <1>4, <1>5, <1>6 DEF TurnInv
<1>8. ~Overtaking
  BY <1>1, <1>4, <1>5 DEF Overtaking, Runnable
<1> QED
  BY <1>7, <1>8

\* Round robin of the threads: none runs twice, in a row or not, while a
\* runnable one waits, unless the running thread was stopped meanwhile, for every number of slots
\* and whatever is created and stopped between two ticks.
THEOREM TurnsAreTaken == ThreadSpec => NoOvertaking
<1> USE ThreadAssumption
<1>1. ThreadInit => TurnInv
  BY DEF ThreadInit, TurnInv, TSlots, Runnable
<1>2. ThreadInv /\ ThreadInv' /\ TurnInv /\ [ThreadNext]_thread_vars
        => TurnInv' /\ [~Overtaking]_thread_vars
  <2> SUFFICES ASSUME ThreadInv, ThreadInv', TurnInv, [ThreadNext]_thread_vars
               PROVE  TurnInv' /\ [~Overtaking]_thread_vars
    OBVIOUS
  <2>1. ASSUME CreateThread PROVE TurnInv' /\ ~Overtaking
    <3>1. PICK s \in TSlots :
            /\ ~threads[s].runnable
            /\ threads' = [threads EXCEPT
                             ![s] = [id |-> next_thread, runnable |-> TRUE]]
      BY <2>1 DEF CreateThread, LowestSlot, Free, Runnable
    <3>2. threads'[s].runnable = TRUE
      BY <3>1 DEF ThreadInv, ThreadTableSound, ThreadCountExact
    <3>3. threads' # threads
      BY <3>1, <3>2
    <3> QED
      BY <2>1, <3>3, CreateKeepsTurns DEF Overtaking
  <2>2. ASSUME NEW id \in 1..MaxThreadId, StopThread(id)
        PROVE  TurnInv' /\ ~Overtaking
    <3>1. threads' # threads
      <4>1. PICK s \in Runnable :
              threads' = [threads EXCEPT ![s] = [threads[s] EXCEPT !.runnable = FALSE]]
        BY <2>2 DEF StopThread, LowestSlot, Stoppable
      <4>2. s \in TSlots /\ threads[s] \in Thread /\ threads[s].runnable
        BY DEF Runnable, ThreadInv, ThreadTableSound, ThreadCountExact
      <4>3. threads'[s] = [threads[s] EXCEPT !.runnable = FALSE]
        BY <4>1, <4>2 DEF ThreadInv, ThreadTableSound, ThreadCountExact
      <4>4. threads'[s].runnable = FALSE
        BY <4>2, <4>3 DEF Thread
      <4> QED
        BY <4>2, <4>4
    <3> QED
      BY <2>2, <3>1, StopKeepsTurns DEF Overtaking
  <2>3. CASE ScheduleThread
    BY <2>3, TickKeepsTurns
  <2>4. CASE UNCHANGED thread_vars
    BY <2>4 DEF thread_vars, TurnInv, Runnable
  <2> QED
    BY <2>1, <2>2, <2>3, <2>4 DEF ThreadNext
<1>3. ThreadSpec => []ThreadInv
  BY ThreadInvariant
<1> QED
  BY <1>1, <1>2, <1>3, PTL DEF ThreadSpec, NoOvertaking

-----------------------------------------------------------------------------
(* The heap *)

\* The inductive invariant: every block ends at or before the cursor, so that
\* a new one, which starts behind the cursor, is apart from all of them.
HeapInv == blocks \subseteq Block /\ BlocksDisjoint

\* Rounding up does not wrap where the cursor can be, and gives a multiple of
\* Align at or behind the cursor.
LEMMA RoundsUp ==
    ASSUME NEW n \in 0..HeapSize
    PROVE  /\ AlignedUp(n) \in Nat /\ AlignedUp(n) >= n
           /\ AlignedUp(n) % Align = 0
<1>1. n + 15 \in Nat /\ n + 15 < HeapWord
  BY HeapAssumption DEF Align
<1>2. (n + 15) % HeapWord = n + 15
  BY <1>1, HeapAssumption
<1>3. AlignedUp(n) = (n + 15) - ((n + 15) % 16)
  BY <1>2 DEF AlignedUp, Align
<1>4. (n + 15) % 16 \in 0..15 /\ (n + 15) % 16 <= n + 15
  BY <1>1
<1>5. \A m \in Nat : (m - (m % 16)) % 16 = 0
  OBVIOUS
<1> QED
  BY <1>1, <1>3, <1>4, <1>5 DEF Align

LEMMA AllocateKeeps ==
    ASSUME HeapInv, NEW bytes \in Requests, Allocate(bytes)
    PROVE  HeapInv'
<1> DEFINE start == AlignedUp(heap_end)
           new == [start |-> start, size |-> bytes]
<1>1. start \in Nat /\ start >= heap_end /\ start % Align = 0
  BY RoundsUp DEF HeapInv, BlocksDisjoint
<1>2. bytes \in Nat /\ bytes > 0 /\ start + bytes <= HeapSize
  BY <1>1, HeapAssumption DEF Allocate, Fits
<1> HIDE DEF start
<1>3. (start + bytes) % HeapWord = start + bytes
  BY <1>1, <1>2, HeapAssumption DEF Align
<1>4. /\ blocks' = blocks \cup {new}
      /\ heap_end' = start + bytes
  BY <1>3 DEF Allocate, start
<1>5. \A b \in blocks : Apart(b, new) /\ Apart(new, b)
  BY <1>1, <1>2 DEF HeapInv, BlocksDisjoint, Block, Apart
<1>6. blocks' \subseteq Block
  BY <1>1, <1>2, <1>4 DEF HeapInv, Block
<1>7. \A b \in blocks' : /\ b.size > 0 /\ b.start % Align = 0
                         /\ b.start + b.size <= heap_end'
  BY <1>1, <1>2, <1>4 DEF HeapInv, BlocksDisjoint, Block
<1>8. heap_end' \in 0..HeapSize
  BY <1>1, <1>2, <1>4
<1>9. \A b, c \in blocks' : b # c => Apart(b, c)
  BY <1>4, <1>5 DEF HeapInv, BlocksDisjoint
<1> QED
  BY <1>6, <1>7, <1>8, <1>9 DEF HeapInv, BlocksDisjoint, Apart

-----------------------------------------------------------------------------
(* The heap: the theorem *)

\* Two blocks that allocate() handed out never share a byte, each lies inside
\* the heap on an aligned address: for every heap size whose rounding fits the
\* word, and every sequence of requests.
THEOREM BlocksNeverOverlap == HeapSpec => []BlocksDisjoint
<1>1. HeapInit => HeapInv
  BY HeapAssumption DEF HeapInit, HeapInv, BlocksDisjoint
<1>2. HeapInv /\ [HeapNext]_heap_vars => HeapInv'
  <2> SUFFICES ASSUME HeapInv, [HeapNext]_heap_vars PROVE HeapInv'
    OBVIOUS
  <2>1. ASSUME NEW bytes \in Requests, Allocate(bytes) PROVE HeapInv'
    BY <2>1, AllocateKeeps
  <2>2. CASE UNCHANGED heap_vars
    BY <2>2 DEF heap_vars, HeapInv, BlocksDisjoint, Apart
  <2> QED
    BY <2>1, <2>2 DEF HeapNext
<1>3. HeapInv => BlocksDisjoint
  BY DEF HeapInv
<1> QED
  BY <1>1, <1>2, <1>3, PTL DEF HeapSpec

-----------------------------------------------------------------------------
(* The desktop *)

Window == [id : Nat, x : Int, y : Int, width : Int, height : Int,
           visible : BOOLEAN, focused : BOOLEAN]
Windows == [DSlots -> Window]
Desk == [windows : Windows, count : Nat, next_id : Nat \ {0}]

-----------------------------------------------------------------------------
(* The inductive invariant, in parts about a table of windows *)

Shown(w) == {s \in DSlots : w[s].visible}

IdsSound(w, n) ==
    /\ \A s \in Shown(w) : w[s].id \in 1..(n - 1)
    /\ \A s, t \in Shown(w) : w[s].id = w[t].id => s = t

Inside(w) ==
    \A s \in Shown(w) :
        /\ w[s].x >= 0 /\ w[s].x + w[s].width <= screen.width
        /\ w[s].y >= 0 /\ w[s].y + w[s].height <= screen.height

\* f has the focus, alone.
FocusIs(w, f) == f \in Shown(w) /\ \A s \in DSlots : w[s].focused <=> s = f

Unfocused(w) == \A s \in DSlots : ~w[s].focused

FocusSound(w) == (\E f \in DSlots : FocusIs(w, f)) \/ (Shown(w) = {} /\ Unfocused(w))

DInv ==
    /\ screen \in [width : Nat \ {0}, height : Nat \ {0}]
    /\ desk \in Desk
    /\ desk.count = Cardinality(Shown(desk.windows))
    /\ IdsSound(desk.windows, desk.next_id)
    /\ Inside(desk.windows)
    /\ FocusSound(desk.windows)

-----------------------------------------------------------------------------
(* Slots *)

LEMMA SlotsFinite ==
  ASSUME NEW S, S \subseteq DSlots
  PROVE  IsFiniteSet(S) /\ Cardinality(S) \in Nat
<1>1. IsFiniteSet(DSlots)
  BY DesktopAssumption, FS_Interval DEF DSlots
<1> QED
  BY <1>1, FS_Subset, FS_CardinalityType

\* The scan for the first slot with a property finds one if there is one.
LEMMA FirstIsOne ==
  ASSUME NEW S, S \subseteq DSlots
  PROVE  /\ First(S) \subseteq S
         /\ S # {} => \E s \in S : First(S) = {s}
<1>1. First(S) \subseteq S
  BY DEF First
<1>2. ASSUME S # {} PROVE \E s \in S : First(S) = {s}
  <2>1. S \subseteq Nat
    BY DEF DSlots
  <2>2. PICK s \in S : \A t \in S : s <= t
    BY <1>2, <2>1, LeastElement
  <2>3. \A t \in First(S) : t \in S /\ t <= s
    BY DEF First
  <2>4. s \in First(S) /\ \A t \in First(S) : t = s
    <3>1. s \in First(S)
      BY <2>2 DEF First
    <3>2. \A t \in First(S) : t \in Nat /\ s \in Nat /\ s <= t /\ t <= s
      BY <2>1, <2>2, <2>3
    <3> QED
      BY <3>1, <3>2
  <2> QED
    BY <2>4
<1> QED
  BY <1>1, <1>2

-----------------------------------------------------------------------------
(* Moving the focus *)

LEMMA FocusOnMoves ==
  ASSUME NEW w \in Windows, NEW S
  PROVE  /\ FocusOn(w, S) \in Windows
         /\ \A s \in DSlots :
              /\ FocusOn(w, S)[s].id = w[s].id
              /\ FocusOn(w, S)[s].visible = w[s].visible
              /\ FocusOn(w, S)[s].x = w[s].x /\ FocusOn(w, S)[s].width = w[s].width
              /\ FocusOn(w, S)[s].y = w[s].y /\ FocusOn(w, S)[s].height = w[s].height
              /\ w[s].visible => (FocusOn(w, S)[s].focused <=> s \in S)
              /\ ~w[s].visible => (FocusOn(w, S)[s].focused <=> w[s].focused)
<1> SUFFICES ASSUME NEW s \in DSlots
             PROVE  /\ FocusOn(w, S)[s] \in Window
                    /\ FocusOn(w, S)[s].id = w[s].id
                    /\ FocusOn(w, S)[s].visible = w[s].visible
                    /\ FocusOn(w, S)[s].x = w[s].x
                    /\ FocusOn(w, S)[s].width = w[s].width
                    /\ FocusOn(w, S)[s].y = w[s].y
                    /\ FocusOn(w, S)[s].height = w[s].height
                    /\ w[s].visible => (FocusOn(w, S)[s].focused <=> s \in S)
                    /\ ~w[s].visible => (FocusOn(w, S)[s].focused <=> w[s].focused)
  BY DEF FocusOn, Windows
<1>1. w[s] \in Window
  BY DEF Windows
<1>2. CASE w[s].visible
  <2>1. FocusOn(w, S)[s] = [w[s] EXCEPT !.focused = (s \in S)]
    BY <1>2 DEF FocusOn
  <2>2. (s \in S) \in BOOLEAN
    OBVIOUS
  <2>3. FocusOn(w, S)[s] \in Window /\ (FocusOn(w, S)[s].focused <=> s \in S)
    BY <1>1, <2>1, <2>2 DEF Window
  <2>4. /\ FocusOn(w, S)[s].id = w[s].id
        /\ FocusOn(w, S)[s].visible = w[s].visible
        /\ FocusOn(w, S)[s].x = w[s].x
        /\ FocusOn(w, S)[s].width = w[s].width
        /\ FocusOn(w, S)[s].y = w[s].y
        /\ FocusOn(w, S)[s].height = w[s].height
    BY <1>1, <2>1 DEF Window
  <2> QED
    BY <1>2, <2>3, <2>4
<1>3. CASE ~w[s].visible
  BY <1>1, <1>3 DEF FocusOn
<1> QED
  BY <1>2, <1>3

\* The focus on one window shown is the focus on it alone.
LEMMA FocusOnOne ==
  ASSUME NEW w \in Windows, NEW f \in Shown(w),
         \A s \in DSlots : w[s].focused => w[s].visible
  PROVE  FocusSound(FocusOn(w, {f}))
<1>1. f \in Shown(FocusOn(w, {f}))
  BY FocusOnMoves DEF Shown
<1>2. \A s \in DSlots : FocusOn(w, {f})[s].focused <=> s = f
  BY FocusOnMoves DEF Shown
<1> QED
  BY <1>1, <1>2 DEF FocusSound, FocusIs, Shown

-----------------------------------------------------------------------------
(* The calls *)

\* clamp_window() puts the new window on the screen.
LEMMA PlacedInside ==
  ASSUME DInv, NEW id \in Nat, NEW n \in Nat
  PROVE  /\ Placed(id, n) \in Window
         /\ Placed(id, n).id = id /\ Placed(id, n).visible = TRUE
         /\ Placed(id, n).focused = FALSE
         /\ Placed(id, n).x >= 0
         /\ Placed(id, n).x + Placed(id, n).width <= screen.width
         /\ Placed(id, n).y >= 0
         /\ Placed(id, n).y + Placed(id, n).height <= screen.height
<1> DEFINE at == 32 + (n % Cascade) * 28
           w == Clamped(640, 240, screen.width)
           h == Clamped(480, 160, screen.height)
           x == Clamped(at, 0, screen.width - w)
           y == Clamped(at, 0, screen.height - h)
<1>1. screen.width \in Nat \ {0} /\ screen.height \in Nat \ {0}
  BY DEF DInv
<1>2. n % Cascade \in Int
  BY DesktopAssumption
<1>3. at \in Int
  BY <1>2
<1>4. w \in Int /\ w <= screen.width /\ h \in Int /\ h <= screen.height
  BY <1>1 DEF Clamped
<1>5. screen.width - w \in Nat /\ screen.height - h \in Nat
  BY <1>1, <1>4
<1> HIDE DEF at, w, h
<1>6. /\ x \in Int /\ x >= 0 /\ x + w <= screen.width
      /\ y \in Int /\ y >= 0 /\ y + h <= screen.height
  BY <1>1, <1>3, <1>4, <1>5 DEF Clamped
<1>7. Placed(id, n) = [id |-> id, width |-> w, height |-> h, visible |-> TRUE,
                       focused |-> FALSE, x |-> x, y |-> y]
  BY DEF Placed, at, w, h
<1> HIDE DEF x, y
<1> QED
  BY <1>4, <1>6, <1>7 DEF Window

LEMMA OnlyShownFocused ==
  ASSUME DInv
  PROVE  \A s \in DSlots : desk.windows[s].focused => desk.windows[s].visible
  BY DEF DInv, FocusSound, FocusIs, Unfocused, Shown

LEMMA OpenKeeps ==
  ASSUME DInv, Open
  PROVE  DInv'
<1>1. desk.windows \in Windows /\ desk.count \in Nat /\ desk.next_id \in Nat \ {0}
  BY DEF DInv, Desk
<1> DEFINE free == DSlots \ Visible(desk)
           new == Placed(desk.next_id, desk.count)
<1>2. PICK s \in First(free) :
        desk' = [windows |-> FocusOn([desk.windows EXCEPT ![s] = new], {s}),
                 count |-> desk.count + 1, next_id |-> desk.next_id + 1]
  BY DEF Open
<1>3. s \in DSlots /\ ~desk.windows[s].visible
  BY <1>2, FirstIsOne DEF Visible
<1>4. screen' = screen
  BY DEF Open
<1>5. /\ new \in Window /\ new.id = desk.next_id /\ new.visible = TRUE
      /\ new.focused = FALSE
      /\ new.x >= 0 /\ new.x + new.width <= screen.width
      /\ new.y >= 0 /\ new.y + new.height <= screen.height
  BY <1>1, PlacedInside
<1> HIDE DEF new
<1> DEFINE w == [desk.windows EXCEPT ![s] = new]
           f == FocusOn(w, {s})
<1>6. /\ w \in Windows /\ w[s] = new
      /\ \A t \in DSlots : t # s => w[t] = desk.windows[t]
  BY <1>1, <1>3, <1>5 DEF Windows
<1>7. desk'.windows = f /\ desk'.count = desk.count + 1 /\ desk'.next_id = desk.next_id + 1
  BY <1>2
<1> HIDE DEF w
<1>8. /\ f \in Windows
      /\ \A t \in DSlots :
           /\ f[t].id = w[t].id /\ f[t].visible = w[t].visible
           /\ f[t].x = w[t].x /\ f[t].width = w[t].width
           /\ f[t].y = w[t].y /\ f[t].height = w[t].height
  BY <1>6, FocusOnMoves
<1>9. FocusSound(f)
  <2>1. s \in Shown(w)
    BY <1>3, <1>5, <1>6 DEF Shown
  <2>2. \A t \in DSlots : w[t].focused => w[t].visible
    BY <1>5, <1>6, OnlyShownFocused
  <2> QED
    BY <1>6, <2>1, <2>2, FocusOnOne
<1> HIDE DEF f
<1>10. Shown(f) = Shown(desk.windows) \cup {s} /\ s \notin Shown(desk.windows)
  BY <1>3, <1>5, <1>6, <1>8 DEF Shown
<1>11. desk.count + 1 = Cardinality(Shown(f))
  <2>1. IsFiniteSet(Shown(desk.windows))
    BY SlotsFinite DEF Shown
  <2>2. desk.count = Cardinality(Shown(desk.windows))
    BY DEF DInv
  <2> QED
    BY <1>10, <2>1, <2>2, FS_AddElement
<1>12. IdsSound(f, desk.next_id + 1)
  <2>1. \A t \in Shown(f) : t = s \/ (t \in Shown(desk.windows) /\ t # s)
    BY <1>10
  <2>2. f[s].id = desk.next_id
    BY <1>3, <1>5, <1>6, <1>8
  <2>3. \A t \in Shown(desk.windows) : f[t].id = desk.windows[t].id
    BY <1>3, <1>6, <1>8, <1>10 DEF Shown
  <2>4. IdsSound(desk.windows, desk.next_id)
    BY DEF DInv
  <2>5. \A t \in Shown(desk.windows) : f[t].id \in 1..(desk.next_id - 1)
    BY <2>3, <2>4 DEF IdsSound
  <2> DEFINE n == desk.next_id + 1
  <2>6. \A t \in Shown(f) : f[t].id \in 1..(n - 1)
    BY <1>1, <2>1, <2>2, <2>5
  <2>7. \A t, u \in Shown(f) : f[t].id = f[u].id => t = u
    <3>1. \A t \in Shown(desk.windows) : f[t].id # f[s].id
      BY <1>1, <2>2, <2>5
    <3>2. \A t, u \in Shown(desk.windows) : f[t].id = f[u].id => t = u
      BY <2>3, <2>4 DEF IdsSound
    <3> QED
      BY <2>1, <3>1, <3>2
  <2> HIDE DEF n
  <2>8. IdsSound(f, n)
    BY <2>6, <2>7 DEF IdsSound
  <2> QED
    BY <2>8 DEF n
<1>13. Inside(f)
  <2>1. Inside(desk.windows)
    BY DEF DInv
  <2>2. \A t \in Shown(f) : t \in DSlots /\ (t = s \/ t \in Shown(desk.windows))
    BY <1>10 DEF Shown
  <2>3. \A t \in Shown(f) :
          /\ w[t].x >= 0 /\ w[t].x + w[t].width <= screen.width
          /\ w[t].y >= 0 /\ w[t].y + w[t].height <= screen.height
    BY <1>5, <1>6, <1>10, <2>1, <2>2 DEF Inside
  <2> QED
    BY <1>8, <2>2, <2>3 DEF Inside
<1>14. desk' \in Desk
  BY <1>1, <1>2, <1>8 DEF Desk, f, w, new
<1> QED
  BY <1>4, <1>7, <1>9, <1>11, <1>12, <1>13, <1>14 DEF DInv, Inside

\* What moving the focus leaves alone.
LEMMA FocusOnKeeps ==
  ASSUME NEW w \in Windows, NEW S, NEW n, IdsSound(w, n), Inside(w)
  PROVE  /\ Shown(FocusOn(w, S)) = Shown(w)
         /\ IdsSound(FocusOn(w, S), n) /\ Inside(FocusOn(w, S))
<1> DEFINE f == FocusOn(w, S)
<1>1. \A t \in DSlots :
        /\ f[t].id = w[t].id /\ f[t].visible = w[t].visible
        /\ f[t].x = w[t].x /\ f[t].width = w[t].width
        /\ f[t].y = w[t].y /\ f[t].height = w[t].height
  BY FocusOnMoves
<1> HIDE DEF f
<1>2. Shown(f) = Shown(w) /\ Shown(w) \subseteq DSlots
  BY <1>1 DEF Shown
<1>3. IdsSound(f, n) /\ Inside(f)
  BY <1>1, <1>2 DEF IdsSound, Inside
<1> QED
  BY <1>2, <1>3 DEF f

LEMMA CloseKeeps ==
  ASSUME DInv, NEW id \in Nat, Close(id)
  PROVE  DInv'
<1>1. desk \in Desk /\ desk.windows \in Windows /\ desk.count \in Nat
      /\ desk.count = Cardinality(Shown(desk.windows))
  BY DEF DInv, Desk
<1>2. PICK s \in First(WindowAt(desk, id)) :
        desk' = [desk EXCEPT
                   !.windows = IF desk.windows[s].focused
                                 THEN FocusOn([desk.windows EXCEPT ![s] = NoWindow],
                                              First(Visible(desk) \ {s}))
                                 ELSE [desk.windows EXCEPT ![s] = NoWindow],
                   !.count = IF @ > 0 THEN @ - 1 ELSE @]
  BY DEF Close
<1>3. s \in DSlots /\ desk.windows[s].visible /\ s \in Shown(desk.windows)
  <2>1. WindowAt(desk, id) \subseteq DSlots
    BY DEF WindowAt, Visible
  <2>2. s \in WindowAt(desk, id)
    BY <1>2, <2>1, FirstIsOne
  <2> QED
    BY <2>2 DEF WindowAt, Visible, Shown
<1>4. screen' = screen
  BY DEF Close
<1> DEFINE left == [desk.windows EXCEPT ![s] = NoWindow]
           w == IF desk.windows[s].focused
                  THEN FocusOn(left, First(Visible(desk) \ {s})) ELSE left
<1>5. NoWindow \in Window /\ NoWindow.visible = FALSE /\ NoWindow.focused = FALSE
  BY DEF NoWindow, Window
<1>6. /\ left \in Windows /\ left[s] = NoWindow
      /\ \A t \in DSlots : t # s => left[t] = desk.windows[t]
  BY <1>1, <1>3, <1>5 DEF Windows
<1> HIDE DEF left
<1>7. Shown(left) = Shown(desk.windows) \ {s} /\ Shown(left) \subseteq DSlots
  BY <1>3, <1>5, <1>6 DEF Shown
<1>8. Cardinality(Shown(left)) = desk.count - 1 /\ desk.count - 1 \in Nat
  <2>1. IsFiniteSet(Shown(desk.windows)) /\ IsFiniteSet(Shown(left))
    BY <1>7, SlotsFinite DEF Shown
  <2>2. Cardinality(Shown(left)) \in Nat
    BY <1>7, SlotsFinite
  <2>3. Cardinality(Shown(left)) = Cardinality(Shown(desk.windows)) - 1
    BY <1>3, <1>7, <2>1, FS_RemoveElement
  <2> QED
    BY <1>1, <2>2, <2>3
<1>9. IdsSound(left, desk.next_id) /\ Inside(left)
  <2>1. IdsSound(desk.windows, desk.next_id) /\ Inside(desk.windows)
    BY DEF DInv
  <2>2. \A t \in Shown(left) : t \in Shown(desk.windows) /\ left[t] = desk.windows[t]
    BY <1>6, <1>7
  <2> QED
    BY <2>1, <2>2 DEF IdsSound, Inside
<1>10. /\ w \in Windows /\ Shown(w) = Shown(left)
       /\ IdsSound(w, desk.next_id) /\ Inside(w)
  BY <1>6, <1>9, FocusOnMoves, FocusOnKeeps
<1>11. FocusSound(w)
  <2>1. CASE ~desk.windows[s].focused
    <3>1. w = left
      BY <2>1
    <3>2. PICK f \in DSlots : FocusIs(desk.windows, f)
      BY <1>3 DEF DInv, FocusSound
    <3>3. f # s /\ FocusIs(left, f)
      BY <1>3, <1>5, <1>6, <1>7, <2>1, <3>2 DEF FocusIs
    <3> QED
      BY <3>1, <3>3 DEF FocusSound
  <2>2. CASE desk.windows[s].focused
    <3> DEFINE S == First(Visible(desk) \ {s})
    <3>1. w = FocusOn(left, S)
      BY <2>2
    <3>2. Visible(desk) \ {s} = Shown(left)
      BY <1>7 DEF Visible, Shown
    <3>3. Unfocused(left)
      <4>1. FocusIs(desk.windows, s)
        BY <1>3, <2>2 DEF DInv, FocusSound, FocusIs
      <4> QED
        BY <1>5, <1>6, <4>1 DEF Unfocused, FocusIs
    <3>4. CASE Shown(left) = {}
      <4>1. Unfocused(FocusOn(left, S))
        BY <1>6, <3>3, <3>4, FocusOnMoves DEF Unfocused, Shown
      <4>2. Shown(w) = {}
        BY <1>10, <3>4
      <4> QED
        BY <3>1, <4>1, <4>2 DEF FocusSound
    <3>5. CASE Shown(left) # {}
      <4>1. PICK f \in Shown(left) : S = {f}
        BY <1>7, <3>2, <3>5, FirstIsOne
      <4>2. \A t \in DSlots : left[t].focused => left[t].visible
        BY <3>3 DEF Unfocused
      <4> QED
        BY <1>6, <3>1, <4>1, <4>2, FocusOnOne
    <3> QED
      BY <3>4, <3>5
  <2> QED
    BY <2>1, <2>2
<1>12. /\ desk'.windows = w /\ desk'.count = desk.count - 1
       /\ desk'.next_id = desk.next_id /\ desk' \in Desk
  <2>1. desk.count > 0
    BY <1>1, <1>8
  <2>2. desk' = [desk EXCEPT !.windows = w, !.count = desk.count - 1]
    BY <1>2, <2>1 DEF left
  <2> QED
    BY <1>1, <1>8, <1>10, <2>2 DEF Desk
<1> HIDE DEF w
<1> QED
  BY <1>4, <1>8, <1>10, <1>11, <1>12 DEF DInv, Inside

LEMMA FocusKeeps ==
  ASSUME DInv, NEW id \in Nat, Focus(id)
  PROVE  DInv'
<1>1. desk \in Desk /\ desk.windows \in Windows
      /\ IdsSound(desk.windows, desk.next_id) /\ Inside(desk.windows)
  BY DEF DInv, Desk
<1>2. PICK s \in First(WindowAt(desk, id)) :
        desk' = [desk EXCEPT !.windows = FocusOn(@, {s})]
  BY DEF Focus
<1>3. s \in Shown(desk.windows)
  <2>1. WindowAt(desk, id) \subseteq DSlots
    BY DEF WindowAt, Visible
  <2>2. s \in WindowAt(desk, id)
    BY <1>2, <2>1, FirstIsOne
  <2> QED
    BY <2>2 DEF WindowAt, Visible, Shown
<1> DEFINE w == FocusOn(desk.windows, {s})
<1>4. screen' = screen
  BY DEF Focus
<1>5. /\ w \in Windows /\ Shown(w) = Shown(desk.windows)
      /\ IdsSound(w, desk.next_id) /\ Inside(w)
  BY <1>1, FocusOnMoves, FocusOnKeeps
<1>6. FocusSound(w)
  BY <1>1, <1>3, OnlyShownFocused, FocusOnOne
<1>7. /\ desk'.windows = w /\ desk'.count = desk.count
      /\ desk'.next_id = desk.next_id /\ desk' \in Desk
  BY <1>1, <1>2, <1>5 DEF Desk
<1> HIDE DEF w
<1> QED
  BY <1>4, <1>5, <1>6, <1>7 DEF DInv, Inside

-----------------------------------------------------------------------------
LEMMA DesktopInitHolds == DesktopInit => DInv
<1> SUFFICES ASSUME DesktopInit PROVE DInv
  OBVIOUS
<1>1. NoWindow \in Window /\ NoWindow.visible = FALSE /\ NoWindow.focused = FALSE
  BY DEF NoWindow, Window
<1>2. /\ desk.windows = [s \in DSlots |-> NoWindow] /\ desk.count = 0
      /\ desk.next_id = 1 /\ desk \in Desk
  BY <1>1 DEF DesktopInit, Desk, Windows
<1>3. Shown(desk.windows) = {} /\ Unfocused(desk.windows)
  BY <1>1, <1>2 DEF Shown, Unfocused
<1>4. desk.count = Cardinality(Shown(desk.windows))
  BY <1>2, <1>3, FS_EmptySet
<1>5. screen \in [width : Nat \ {0}, height : Nat \ {0}]
  BY DesktopAssumption DEF DesktopInit
<1> QED
  BY <1>2, <1>3, <1>4, <1>5 DEF DInv, IdsSound, Inside, FocusSound

LEMMA DesktopNextHolds == DInv /\ [DesktopNext]_<<screen, desk>> => DInv'
<1> SUFFICES ASSUME DInv, [DesktopNext]_<<screen, desk>> PROVE DInv'
  OBVIOUS
<1>1. 1..MaxDeskId \subseteq Nat
  OBVIOUS
<1>2. CASE UNCHANGED <<screen, desk>>
  BY <1>2 DEF DInv, Inside
<1> QED
  BY <1>1, <1>2, OpenKeeps, CloseKeeps, FocusKeeps DEF DesktopNext

\* The count, the ids, the one focus and the places of the desktop's windows
\* are right after any calls.
THEOREM DesktopCorrect == DesktopSpec => []DesktopSound
<1>1. DInv => DesktopSound
  <2> SUFFICES ASSUME DInv PROVE DesktopSound
    OBVIOUS
  <2>1. Visible(desk) = Shown(desk.windows)
    BY DEF Visible, Shown
  <2>2. CountsWindows
    BY <2>1 DEF DInv, IdsSound, CountsWindows
  <2>3. OneHasFocus
    <3>1. CASE \E f \in DSlots : FocusIs(desk.windows, f)
      <4>1. PICK f \in DSlots : FocusIs(desk.windows, f)
        BY <3>1
      <4>2. {f} \in SUBSET Visible(desk) /\ Visible(desk) # {}
        BY <2>1, <4>1 DEF FocusIs
      <4>3. Cardinality({f}) = 1
        BY FS_Singleton
      <4>4. \A s \in DSlots : desk.windows[s].focused <=> s \in {f}
        BY <4>1 DEF FocusIs
      <4> QED
        BY <4>2, <4>3, <4>4 DEF OneHasFocus
    <3>2. CASE Visible(desk) = {} /\ Unfocused(desk.windows)
      <4>1. Cardinality({}) = 0
        BY FS_EmptySet
      <4> QED
        BY <3>2, <4>1 DEF OneHasFocus, Unfocused
    <3> QED
      BY <2>1, <3>1, <3>2 DEF DInv, FocusSound
  <2>4. OnTheScreen
    BY <2>1 DEF DInv, Inside, OnTheScreen
  <2> QED
    BY <2>2, <2>3, <2>4 DEF DesktopSound
<1> QED
  BY <1>1, DesktopInitHolds, DesktopNextHolds, PTL DEF DesktopSpec

-----------------------------------------------------------------------------
(* The file system *)

Node == [id : Nat, type : NodeTypes]

\* What a buffer may hold, and the names that are in use.
Texts == Names \cup {NoName} \cup {Copied(name) : name \in LongNames}
Taken(ns, bs) == {bs[i] : i \in 1..Len(ns)}

\* The nodes and the buffers after any calls: every name is in one buffer.
NamesKept(ns, bs) ==
    /\ ns \in Seq(Node) /\ Len(ns) \in 1..MaxNodes
    /\ bs \in [NodeSlots -> Texts]
    /\ \A i \in 1..Len(ns) : bs[i] \in Names
    /\ \A i, j \in 1..Len(ns) : bs[i] = bs[j] => i = j
    /\ IsFiniteSet(Taken(ns, bs)) /\ Cardinality(Taken(ns, bs)) = Len(ns)

\* find(), of some nodes and buffers.
FoundIn(ns, bs, name) == {i \in DOMAIN ns : bs[i] = name}
LeastOf(S) == CHOOSE i \in S : \A j \in S : i <= j
DirectoryOf(ns, bs) ==
    [name \in {bs[i] : i \in DOMAIN ns} |->
        [id   |-> ns[LeastOf(FoundIn(ns, bs, name))].id,
         type |-> ns[LeastOf(FoundIn(ns, bs, name))].type]]

\* The entry of a name is the node of its buffer.
LEMMA EntryOf ==
    ASSUME NEW ns, NEW bs, NamesKept(ns, bs)
    PROVE  /\ DOMAIN DirectoryOf(ns, bs) = Taken(ns, bs)
           /\ \A i \in 1..Len(ns) :
                DirectoryOf(ns, bs)[bs[i]] = [id |-> ns[i].id, type |-> ns[i].type]
<1>1. DOMAIN ns = 1..Len(ns)
  BY LenProperties DEF NamesKept
<1>2. DOMAIN DirectoryOf(ns, bs) = Taken(ns, bs)
  BY <1>1 DEF DirectoryOf, Taken
<1>3. ASSUME NEW i \in 1..Len(ns)
      PROVE  DirectoryOf(ns, bs)[bs[i]] = [id |-> ns[i].id, type |-> ns[i].type]
  <2> DEFINE k == LeastOf(FoundIn(ns, bs, bs[i]))
  <2>1. FoundIn(ns, bs, bs[i]) = {i}
    BY <1>1 DEF FoundIn, NamesKept
  <2>2. k = i
    BY <2>1 DEF LeastOf
  <2>3. bs[i] \in {bs[j] : j \in DOMAIN ns}
    BY <1>1
  <2>4. DirectoryOf(ns, bs)[bs[i]] = [id |-> ns[k].id, type |-> ns[k].type]
    BY <2>3 DEF DirectoryOf
  <2> QED
    BY <2>2, <2>4
<1> QED
  BY <1>2, <1>3

\* A name that is taken or too long, or no room: no entry is seen to change.
LEMMA RefusalKeeps ==
    ASSUME NEW ns, NEW bs, NamesKept(ns, bs), NEW cs,
           cs \in [NodeSlots -> Texts], \A i \in 1..Len(ns) : cs[i] = bs[i]
    PROVE  NamesKept(ns, cs) /\ DirectoryOf(ns, cs) = DirectoryOf(ns, bs)
<1>1. DOMAIN ns = 1..Len(ns)
  BY LenProperties DEF NamesKept
<1>2. Taken(ns, cs) = Taken(ns, bs)
  BY DEF Taken
<1>3. NamesKept(ns, cs)
  BY <1>2 DEF NamesKept
<1>4. \A name : FoundIn(ns, cs, name) = FoundIn(ns, bs, name)
  BY <1>1 DEF FoundIn
<1>5. DirectoryOf(ns, cs) = DirectoryOf(ns, bs)
  <2>1. {cs[i] : i \in DOMAIN ns} = {bs[i] : i \in DOMAIN ns}
    BY <1>1
  <2> QED
    BY <1>4, <2>1 DEF DirectoryOf
<1> QED
  BY <1>3, <1>5

\* A node is added behind the others, with a new name in its buffer.
Adds(ns, bs, name, ms, cs) ==
    /\ NamesKept(ns, bs) /\ Len(ns) + 1 <= MaxNodes
    /\ name \in Names /\ \A i \in 1..Len(ns) : bs[i] # name
    /\ ms \in Seq(Node) /\ Len(ms) = Len(ns) + 1
    /\ \A i \in 1..Len(ns) : ms[i] = ns[i]
    /\ ms[Len(ns) + 1].id = Len(ns) + 1
    /\ cs \in [NodeSlots -> Texts] /\ cs[Len(ns) + 1] = name
    /\ \A i \in 1..Len(ns) : cs[i] = bs[i]

\* No entry that was there changes when a new name is added.
LEMMA NewNodeKeeps ==
    ASSUME NEW ns, NEW bs, NEW name, NEW ms, NEW cs, Adds(ns, bs, name, ms, cs)
    PROVE  /\ NamesKept(ms, cs)
           /\ \A old \in DOMAIN DirectoryOf(ns, bs) :
                /\ old \in DOMAIN DirectoryOf(ms, cs)
                /\ DirectoryOf(ms, cs)[old] = DirectoryOf(ns, bs)[old]
           /\ name \notin DOMAIN DirectoryOf(ns, bs)
<1> DEFINE n == Len(ns)
<1>1. n \in Nat /\ n >= 1 /\ n + 1 <= MaxNodes /\ NamesKept(ns, bs)
  BY VfsAssumption DEF NamesKept, Adds
<1>2. /\ ms \in Seq(Node) /\ cs \in [NodeSlots -> Texts] /\ name \in Names
      /\ \A i \in 1..n : bs[i] # name
  BY DEF Adds
<1>3. Len(ms) = n + 1 /\ \A i \in 1..n : ms[i] = ns[i]
  BY DEF Adds
<1>4. cs[n + 1] = name /\ \A i \in 1..n : cs[i] = bs[i]
  BY DEF Adds
<1> HIDE DEF n
<1>5. /\ n + 1 \in 1..(n + 1)
      /\ \A i \in 1..(n + 1) : i \in 1..n \/ i = n + 1
      /\ \A i \in 1..n : i \in 1..(n + 1)
  BY <1>1
<1>6. Taken(ms, cs) = Taken(ns, bs) \cup {name}
  BY <1>3, <1>4, <1>5 DEF Taken, n
<1>7. name \notin Taken(ns, bs)
  BY <1>2 DEF Taken, n
<1>8. IsFiniteSet(Taken(ms, cs)) /\ Cardinality(Taken(ms, cs)) = n + 1
  <2>1. IsFiniteSet(Taken(ns, bs)) /\ Cardinality(Taken(ns, bs)) = n
    BY <1>1 DEF NamesKept, n
  <2>2. /\ IsFiniteSet(Taken(ns, bs) \cup {name})
        /\ Cardinality(Taken(ns, bs) \cup {name}) = n + 1
    BY <1>7, <2>1, FS_AddElement
  <2> QED
    BY <1>6, <2>2
<1>9. NamesKept(ms, cs)
  <2>1. Len(ms) \in 1..MaxNodes
    BY <1>1, <1>3, VfsAssumption DEF n
  <2>2. \A i \in 1..(n + 1) : cs[i] \in Names
    BY <1>1, <1>2, <1>4, <1>5 DEF NamesKept, n
  <2>3. \A i, j \in 1..(n + 1) : cs[i] = cs[j] => i = j
    BY <1>1, <1>2, <1>4, <1>5 DEF NamesKept, n
  <2> QED
    BY <1>2, <1>3, <1>4, <1>8, <2>1, <2>2, <2>3 DEF NamesKept
<1>10. /\ DOMAIN DirectoryOf(ns, bs) = Taken(ns, bs)
       /\ \A i \in 1..n :
            DirectoryOf(ns, bs)[bs[i]] = [id |-> ns[i].id, type |-> ns[i].type]
  <2>1. NamesKept(ns, bs)
    BY <1>1
  <2> QED
    BY <2>1, EntryOf DEF n
<1>11. /\ DOMAIN DirectoryOf(ms, cs) = Taken(ms, cs)
       /\ \A i \in 1..(n + 1) :
            DirectoryOf(ms, cs)[cs[i]] = [id |-> ms[i].id, type |-> ms[i].type]
  BY <1>3, <1>9, EntryOf
<1>12. ASSUME NEW i \in 1..n
       PROVE  DirectoryOf(ms, cs)[bs[i]] = DirectoryOf(ns, bs)[bs[i]]
  <2>1. DirectoryOf(ms, cs)[cs[i]] = [id |-> ms[i].id, type |-> ms[i].type]
    BY <1>5, <1>11
  <2>2. DirectoryOf(ns, bs)[bs[i]] = [id |-> ns[i].id, type |-> ns[i].type]
    BY <1>10
  <2>3. cs[i] = bs[i] /\ ms[i] = ns[i]
    BY <1>3, <1>4
  <2> QED
    BY <2>1, <2>2, <2>3
<1>13. \A old \in DOMAIN DirectoryOf(ns, bs) :
         /\ old \in DOMAIN DirectoryOf(ms, cs)
         /\ DirectoryOf(ms, cs)[old] = DirectoryOf(ns, bs)[old]
  <2>1. \A old \in Taken(ns, bs) : \E i \in 1..n : old = bs[i]
    BY DEF Taken, n
  <2> QED
    BY <1>6, <1>10, <1>11, <1>12, <2>1
<1> QED
  BY <1>7, <1>9, <1>10, <1>13 DEF n

\* The nodes and the buffers stay as they should be.
LEMMA NewNodeNames ==
    ASSUME NEW ns, NEW bs, NEW name, NEW ms, NEW cs, Adds(ns, bs, name, ms, cs)
    PROVE  NamesKept(ms, cs)
BY NewNodeKeeps

LEMMA NodeStep ==
    ASSUME NamesKept(nodes, buffers),
           NEW name \in Names \cup LongNames \cup {NoName},
           NEW type \in NodeTypes, CreateNode(name, type)
    PROVE  NamesKept(nodes', buffers') /\ Kept
<1> DEFINE slot == Len(nodes) + 1
           legal == slot <= MaxNodes /\ Found(name) = {}
<1>1. /\ Len(nodes) \in Nat /\ DOMAIN nodes = 1..Len(nodes)
      /\ Len(nodes) <= MaxNodes
  BY LenProperties DEF NamesKept
<1>2. /\ Directory = DirectoryOf(nodes, buffers)
      /\ Directory' = DirectoryOf(nodes', buffers')
  BY DEF Directory, DirectoryOf, LeastOf, Found, FoundIn
<1>3. CASE legal /\ Copies(name)
  <2>1. name \in Names /\ name # NoName /\ Copied(name) = name
    BY <1>3 DEF Copies, Copied
  <2>2. /\ nodes' = Append(nodes, [id |-> slot, type |-> type])
        /\ buffers' = [buffers EXCEPT ![slot] = name]
        /\ answer' = slot
    BY <1>3, <2>1 DEF CreateNode
  <2>3. \A i \in 1..Len(nodes) : buffers[i] # name
    BY <1>1, <1>3 DEF Found
  <2> DEFINE e == [id |-> slot, type |-> type]
  <2>7. e \in Node /\ e.id = slot /\ nodes \in Seq(Node)
    BY <1>1 DEF Node, NamesKept
  <2>8. /\ nodes' \in Seq(Node) /\ Len(nodes') = slot
        /\ \A i \in 1..Len(nodes) : nodes'[i] = nodes[i]
        /\ nodes'[slot].id = slot
    BY <2>2, <2>7, AppendProperties
  <2>9. /\ buffers' \in [NodeSlots -> Texts] /\ buffers'[slot] = name
        /\ \A i \in 1..Len(nodes) : buffers'[i] = buffers[i]
    BY <1>1, <1>3, <2>1, <2>2 DEF NamesKept, NodeSlots, Texts
  <2> DEFINE old == DirectoryOf(nodes, buffers)
             new == DirectoryOf(nodes', buffers')
  <2>10. /\ NamesKept(nodes', buffers')
         /\ \A n \in DOMAIN old : n \in DOMAIN new /\ new[n] = old[n]
         /\ DOMAIN new = DOMAIN old \cup {name}
         /\ name \notin DOMAIN old
         /\ new[name].id = slot
    <3>1. Adds(nodes, buffers, name, nodes', buffers')
      BY <1>3, <2>1, <2>3, <2>8, <2>9 DEF Adds
    <3>2. NamesKept(nodes', buffers')
      BY <3>1, NewNodeNames
    <3>3. \A n \in DOMAIN old : n \in DOMAIN new /\ new[n] = old[n]
      BY <3>1, NewNodeKeeps
    <3>4. DOMAIN new = DOMAIN old \cup {name}
      <4>1. DOMAIN old = Taken(nodes, buffers)
        BY EntryOf
      <4>2. DOMAIN new = Taken(nodes', buffers')
        BY <3>2, EntryOf
      <4>3. Taken(nodes', buffers') = Taken(nodes, buffers) \cup {name}
        BY <1>1, <2>8, <2>9 DEF Taken
      <4> QED
        BY <4>1, <4>2, <4>3
    <3>5. name \notin DOMAIN old
      BY <3>1, NewNodeKeeps
    <3>6. new[name].id = slot
      <4>1. slot \in 1..Len(nodes')
        BY <1>1, <2>8
      <4>2. new[buffers'[slot]] =
              [id |-> nodes'[slot].id, type |-> nodes'[slot].type]
        BY <3>2, <4>1, EntryOf
      <4> QED
        BY <2>8, <2>9, <4>2
    <3> QED
      BY <3>2, <3>3, <3>4, <3>5, <3>6
  <2> HIDE DEF old, new
  <2>4. /\ NamesKept(nodes', buffers')
        /\ \A n \in DOMAIN Directory :
             n \in DOMAIN Directory' /\ Directory'[n] = Directory[n]
        /\ DOMAIN Directory' = DOMAIN Directory \cup {name}
        /\ name \notin DOMAIN Directory
        /\ Directory'[name].id = answer'
    BY <1>2, <2>2, <2>10 DEF old, new
  <2>5. answer' # 0
    BY <1>1, <2>2
  <2>6. Len(nodes') = Cardinality(DOMAIN Directory')
    BY <1>2, <2>4, EntryOf DEF NamesKept
  <2> QED
    BY <2>1, <2>4, <2>5, <2>6 DEF Kept
<1>4. CASE ~(legal /\ Copies(name))
  <2>1. /\ nodes' = nodes /\ answer' = 0
        /\ \/ buffers' = buffers
           \/ buffers' = [buffers EXCEPT ![slot] = Copied(name)]
    BY <1>4 DEF CreateNode
  <2>2. slot \notin 1..Len(nodes)
    BY <1>1
  <2>3. buffers' \in [NodeSlots -> Texts]
    <3>1. Copied(name) \in Texts
      BY DEF Copied, Texts
    <3> QED
      BY <2>1, <3>1 DEF NamesKept
  <2>4. \A i \in 1..Len(nodes) : buffers'[i] = buffers[i]
    <3>1. \A i \in 1..Len(nodes) : i \in DOMAIN buffers
      <4>1. DOMAIN buffers = 1..MaxNodes
        BY DEF NamesKept, NodeSlots
      <4> QED
        BY <1>1, <4>1, VfsAssumption
    <3> SUFFICES ASSUME NEW i \in 1..Len(nodes) PROVE buffers'[i] = buffers[i]
      OBVIOUS
    <3>2. i # slot /\ i \in DOMAIN buffers
      BY <2>2, <3>1
    <3> HIDE DEF slot
    <3> QED
      BY <2>1, <3>2
  <2>5. NamesKept(nodes', buffers') /\ Directory' = Directory
    BY <1>2, <2>1, <2>3, <2>4, RefusalKeeps
  <2>6. Len(nodes') = Cardinality(DOMAIN Directory')
    BY <1>2, <2>5, EntryOf DEF NamesKept
  <2> QED
    BY <2>1, <2>5, <2>6 DEF Kept
<1> QED
  BY <1>3, <1>4

\* The file system implements a directory whose entries are added once and
\* stay, for every number of nodes and every set of names: a call that fails
\* after it wrote into the next free buffer changes nothing that can be seen.
THEOREM DirectoryStays == VfsSpec => DirectoryKept
<1>1. VfsInit => NamesKept(nodes, buffers)
  <2> SUFFICES ASSUME VfsInit PROVE NamesKept(nodes, buffers)
    OBVIOUS
  <2> DEFINE root == [id |-> 1, type |-> "Directory"]
  <2>1. root \in Node /\ nodes = <<root>>
    BY DEF VfsInit, Node, NodeTypes
  <2>2. nodes \in Seq(Node) /\ Len(nodes) = 1
    BY <2>1
  <2>3. 1..1 = {1} /\ 1 \in NodeSlots
    BY VfsAssumption DEF NodeSlots
  <2>4. buffers \in [NodeSlots -> Texts] /\ buffers[1] = "/"
    BY <2>3, VfsAssumption DEF VfsInit, Texts
  <2>5. Taken(nodes, buffers) = {"/"}
    BY <2>2, <2>3, <2>4 DEF Taken
  <2>6. IsFiniteSet({"/"}) /\ Cardinality({"/"}) = 1
    BY FS_Singleton
  <2> QED
    BY <2>2, <2>3, <2>4, <2>5, <2>6, VfsAssumption DEF NamesKept
<1>2. NamesKept(nodes, buffers) /\ [VfsNext]_vfs_vars
        => NamesKept(nodes, buffers)' /\ [Kept]_vfs_vars
  <2> SUFFICES ASSUME NamesKept(nodes, buffers), [VfsNext]_vfs_vars
               PROVE  NamesKept(nodes', buffers') /\ [Kept]_vfs_vars
    BY DEF NamesKept
  <2>1. ASSUME NEW name \in Names \cup LongNames \cup {NoName},
               NEW type \in NodeTypes, CreateNode(name, type)
        PROVE  NamesKept(nodes', buffers') /\ Kept
    BY <2>1, NodeStep
  <2>2. CASE UNCHANGED vfs_vars
    BY <2>2 DEF vfs_vars
  <2> QED
    BY <2>1, <2>2 DEF VfsNext
<1> QED
  BY <1>1, <1>2, PTL DEF VfsSpec, DirectoryKept

-----------------------------------------------------------------------------
(* The composition *)

\* A behaviour of the kernel's tables is one of each table: whichever of them
\* is used, the others rest.  So what is proved of a table by itself, here and
\* in AppLifecycle_proofs, holds where TLC checks it.
THEOREM TablesAreThemselves ==
    Spec => PSpec /\ ThreadSpec /\ HeapSpec /\ VfsSpec /\ DesktopSpec
<1>1. Init => PInit /\ ThreadInit /\ HeapInit /\ VfsInit /\ DesktopInit
  BY DEF Init
<1>2. [Next]_vars => /\ [PNext]_table /\ [ThreadNext]_thread_vars
                     /\ [HeapNext]_heap_vars /\ [VfsNext]_vfs_vars
                     /\ [DesktopNext]_<<screen, desk>>
  BY DEF Next, vars, desktop_vars
<1> QED
  BY <1>1, <1>2, PTL
     DEF Spec, PSpec, ThreadSpec, HeapSpec, VfsSpec, DesktopSpec
=============================================================================
