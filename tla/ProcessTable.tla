---------------------------- MODULE ProcessTable ----------------------------
(***************************************************************************)
(* The kernel's process table and its round-robin cursor                   *)
(* (kernel/process.cpp).  Its functions are operators from a table to the  *)
(* table they leave, so that a caller's handler can make several calls in  *)
(* one step; the actions below make one call each.                         *)
(***************************************************************************)
EXTENDS Integers, FiniteSets

CONSTANTS
    MaxProcesses,   \* kMaxProcesses: slots of g_processes
    IdWord,         \* number of values of the uint64_t g_next_id
    MaxId,          \* bound: greatest id handed out; IdWord - 1 lets it wrap
    TickWord        \* number of values of the uint64_t ticks of a process

ASSUME TableAssumption ==
    /\ MaxProcesses \in Nat \ {0}
    /\ IdWord \in Nat /\ IdWord > 1
    /\ MaxId \in Nat /\ MaxId < IdWord
    /\ TickWord \in Nat \ {0}

VARIABLE table      \* g_processes, g_count, g_current and g_next_id

PSlots == 0..(MaxProcesses - 1)

Process == [id : Nat, alive : BOOLEAN, runnable : BOOLEAN,
            ticks : 0..(TickWord - 1)]
NoProcess == [id |-> 0, alive |-> FALSE, runnable |-> FALSE, ticks |-> 0]

Tables == [procs : [PSlots -> Process], count : Nat,
           cursor : PSlots, next_id : 1..(IdWord - 1)]

EmptyTable == [procs |-> [s \in PSlots |-> NoProcess], count |-> 0,
               cursor |-> 0, next_id |-> 1]

-----------------------------------------------------------------------------
\* The slots a scan for (i = 0; ...) stops at: the lowest of S, if any.
Lowest(S) == {s \in S : \A t \in S : s <= t}

Alive(t) == {s \in PSlots : t.procs[s].alive}

WithId(t, id) == {s \in Alive(t) : t.procs[s].id = id}

\* Zero is no process, so the counter skips it when it wraps.
NextId(n) == IF n + 1 = IdWord THEN 1 ELSE n + 1

NewProcess(id) == [id |-> id, alive |-> TRUE, runnable |-> TRUE, ticks |-> 0]

\* What create() returns, and the table it leaves: 0 and the same table when
\* no slot is free.
CreatedId(t) == IF Alive(t) = PSlots THEN 0 ELSE t.next_id
Created(t) ==
    IF Alive(t) = PSlots THEN t
    ELSE LET s == CHOOSE s \in Lowest(PSlots \ Alive(t)) : TRUE
         IN  [t EXCEPT !.procs[s] = NewProcess(t.next_id),
                       !.count = @ + 1,
                       !.next_id = NextId(@)]

\* Fault for ProcessTableSound: the cursor stays where it was.
TerminatedInPlace(t, id) ==
    IF WithId(t, id) = {} THEN t
    ELSE LET s == CHOOSE s \in Lowest(WithId(t, id)) : TRUE
         IN  [t EXCEPT !.procs[s] = [@ EXCEPT !.alive = FALSE,
                                              !.runnable = FALSE],
                       !.count = IF @ > 0 THEN @ - 1 ELSE @]

\* terminate(): the slot keeps its id and ticks, and the cursor falls back to
\* slot 0 when it stood on the process.
Terminated(t, id) ==
    IF WithId(t, id) = {} THEN t
    ELSE LET s == CHOOSE s \in Lowest(WithId(t, id)) : TRUE
         IN  [t EXCEPT !.procs[s] = [@ EXCEPT !.alive = FALSE,
                                              !.runnable = FALSE],
                       !.count = IF @ > 0 THEN @ - 1 ELSE @,
                       !.cursor = IF @ = s THEN 0 ELSE @]

\* The slot offset places after the cursor, around the end of the table.
After(t, offset) == (t.cursor + offset) % MaxProcesses

\* Fault for EachIsTicked: the scan starts at the cursor itself.
ReadyFromCursor(t) ==
    {o \in 0..(MaxProcesses - 1) :
        LET p == t.procs[After(t, o)] IN p.alive /\ p.runnable}

\* The offsets at which schedule_tick() finds a process to run, from the slot
\* after the cursor to the cursor itself.
ReadyOffsets(t) ==
    {o \in 1..MaxProcesses :
        LET p == t.procs[After(t, o)] IN p.alive /\ p.runnable}

Ticked(t) ==
    IF t.count = 0 \/ ReadyOffsets(t) = {} THEN t
    ELSE LET s == After(t, CHOOSE o \in Lowest(ReadyOffsets(t)) : TRUE)
         IN  [t EXCEPT !.cursor = s,
                       !.procs[s].ticks = (@ + 1) % TickWord]

\* current(): the slot of the process that has the cursor, or none.
CurrentSlots(t) ==
    {s \in PSlots : t.count # 0 /\ s = t.cursor /\ t.procs[s].alive}

-----------------------------------------------------------------------------
PInit == table = EmptyTable

Create ==
    /\ Alive(table) # PSlots
    /\ table.next_id <= MaxId
    /\ table' = Created(table)

Terminate(id) ==
    /\ WithId(table, id) # {}
    /\ table' = Terminated(table, id)

ScheduleTick ==
    /\ table.count # 0
    /\ table' = Ticked(table)

PNext == Create \/ (\E id \in 1..MaxId : Terminate(id)) \/ ScheduleTick

PSpec == PInit /\ [][PNext]_table

-----------------------------------------------------------------------------
(* Properties *)

\* The table and its counters have their types.
PTypeOK == table \in Tables

\* g_count, which process::count() reports and every early return trusts, is
\* the number of live processes, and exactly the live ones are runnable.
CountExact ==
    /\ table.count = Cardinality(Alive(table))
    /\ \A s \in PSlots : table.procs[s].alive <=> table.procs[s].runnable

\* The cursor is never left on a slot that died, slot 0 excepted, where
\* terminate() and init() park it: current() is missing only there.
CursorLive == table.cursor # 0 => table.procs[table.cursor].alive

\* What the callers trust without looking: the counter is exact and the
\* cursor on a live process, after every order of create, terminate and tick.
ProcessTableSound == CountExact /\ CursorLive

\* A step that takes the process under the cursor away.
EndsCurrent ==
    /\ table.procs[table.cursor].alive
    /\ ~table'.procs[table.cursor].alive

Runs(s) ==
    /\ table'.procs[s].ticks # table.procs[s].ticks
    /\ table'.count = table.count

\* Round robin: while ticks keep coming and from some time on the running
\* process is never the one terminated, every process that stays alive keeps
\* getting ticks, whatever is created or terminated meanwhile.
EachIsTicked ==
    ([]<><<ScheduleTick>>_table /\ <>[][~EndsCurrent]_table)
      => \A s \in PSlots :
           <>[](table.procs[s].alive) => []<><<Runs(s)>>_table
=============================================================================
