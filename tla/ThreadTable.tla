---------------------------- MODULE ThreadTable ----------------------------
(***************************************************************************)
(* The kernel's thread table (kernel/thread.cpp).  Unlike a process, a     *)
(* stopped thread keeps its slot's contents, its id is not reused before   *)
(* the 64-bit counter wraps, and the table keeps no ticks.                 *)
(***************************************************************************)
EXTENDS Integers, FiniteSets

CONSTANTS
    MaxThreads,     \* kMaxThreads: slots of g_threads
    MaxThreadId     \* bound: greatest id handed out

ASSUME ThreadAssumption == MaxThreads \in Nat \ {0} /\ MaxThreadId \in Nat

VARIABLES
    threads,        \* g_threads: the id of each slot, and whether it runs
    thread_count,   \* g_count
    thread_cursor,  \* g_current
    next_thread,    \* g_next_id
    passed,         \* history: the slots that ran while each slot's waited
    beat            \* history: changes with every tick, so that one that runs
                    \* the same thread again is a step like any other

thread_vars == <<threads, thread_count, thread_cursor, next_thread, passed, beat>>

TSlots == 0..(MaxThreads - 1)
Thread == [id : 0..MaxThreadId, runnable : BOOLEAN]

Runnable == {s \in TSlots : threads[s].runnable}

LowestSlot(S) == {s \in S : \A t \in S : s <= t}

-----------------------------------------------------------------------------
ThreadInit ==
    /\ threads = [s \in TSlots |-> [id |-> 0, runnable |-> FALSE]]
    /\ thread_count = 0 /\ thread_cursor = 0 /\ next_thread = 1
    /\ passed = [s \in TSlots |-> {}] /\ beat = FALSE

NextThread(n) == n + 1

\* The slots create() may take; it takes the lowest.
Free == TSlots \ Runnable

CreateThread ==
    /\ next_thread <= MaxThreadId                      \* bound
    /\ \E s \in LowestSlot(Free) :
         /\ threads' = [threads EXCEPT
                          ![s] = [id |-> next_thread, runnable |-> TRUE]]
         /\ passed' = [passed EXCEPT ![s] = {}]
    /\ next_thread' = NextThread(next_thread)
    /\ thread_count' = thread_count + 1
    /\ UNCHANGED <<thread_cursor, beat>>

\* Fault for ThreadTableSound: a thread can be stopped twice.
StoppableTwice(id) == {s \in TSlots : threads[s].id = id}

Stoppable(id) == {s \in Runnable : threads[s].id = id}

\* Stopping the thread under the cursor sends the cursor back to slot 0.
Parked(s) == IF thread_cursor = s THEN 0 ELSE thread_cursor

StopThread(id) ==
    \E s \in LowestSlot(Stoppable(id)) :
        /\ threads' = [threads EXCEPT ![s].runnable = FALSE]
        /\ thread_count' = IF thread_count > 0 THEN thread_count - 1 ELSE 0
        /\ thread_cursor' = Parked(s)
        /\ passed' = IF thread_cursor = s THEN [t \in TSlots |-> {}]
                     ELSE passed
        /\ UNCHANGED <<next_thread, beat>>

\* Fault for NoOvertaking: the scan starts at the cursor, from offset 0.
NextRunnableFromHere ==
    LET ahead == {s \in Runnable : s >= thread_cursor}
    IN  LowestSlot(IF ahead # {} THEN ahead ELSE Runnable)

\* The slot the scan from behind the cursor, all the way round, stops at.
NextRunnable ==
    LET ahead == {s \in Runnable : s > thread_cursor}
    IN  LowestSlot(IF ahead # {} THEN ahead ELSE Runnable)

ScheduleThread ==
    /\ thread_count # 0
    /\ \E s \in NextRunnable :
         /\ thread_cursor' = s
         /\ passed' = [t \in TSlots |->
                         IF t = s THEN {} ELSE passed[t] \cup {s}]
    /\ beat' = ~beat
    /\ UNCHANGED <<threads, thread_count, next_thread>>

ThreadNext ==
    \/ CreateThread
    \/ \E id \in 1..MaxThreadId : StopThread(id)
    \/ ScheduleThread

ThreadSpec == ThreadInit /\ [][ThreadNext]_thread_vars

-----------------------------------------------------------------------------
(* Properties *)

\* The table has its types, and g_count, which schedule_tick() and current()
\* trust, is the number of runnable threads whatever is stopped twice.
ThreadCountExact ==
    /\ threads \in [TSlots -> Thread] /\ thread_cursor \in TSlots
    /\ next_thread \in 1..(MaxThreadId + 1)
    /\ thread_count = Cardinality(Runnable)

\* stop() ends one thread and no other: a runnable thread has an id of its
\* own, and one that was handed out.
OneThreadPerId ==
    /\ \A s \in Runnable : threads[s].id \in 1..(next_thread - 1)
    /\ \A s, t \in TSlots :
         threads[s].id = threads[t].id /\ threads[s].id # 0 => s = t

\* The cursor is on a runnable thread, or on slot 0 where stop() parks it:
\* there, current() returns a thread that was stopped.
CursorRunnable == thread_cursor # 0 => threads[thread_cursor].runnable

\* The thread table agrees with itself, whatever is stopped twice: the counter
\* is exact, stop() ends one thread and no other, and the cursor is on a
\* runnable thread or parked on slot 0.
ThreadTableSound == ThreadCountExact /\ OneThreadPerId /\ CursorRunnable

\* A tick, which leaves the threads as they are, in which a slot runs a second
\* time, at once or later, while a runnable thread waits.
Overtaking ==
    \E s \in TSlots :
        /\ threads' = threads
        /\ s # thread_cursor' /\ threads[s].runnable
        /\ thread_cursor' \in passed[s]

\* No thread runs twice, be it twice in a row, while a runnable one waits,
\* unless the running thread was stopped meanwhile.
NoOvertaking == [][~Overtaking]_thread_vars
=============================================================================
