-------------------------------- MODULE Xhci --------------------------------
(***************************************************************************)
(* xhci::probe() (kernel/drivers/xhci.cpp) bringing up one USB controller, *)
(* with the controller beside it: the processor polls a status the         *)
(* controller changes in its own time.  One action is one pass of a        *)
(* polling loop, or what comes between two loops.  The device registers,   *)
(* modelled as the code uses them, are external.                           *)
(***************************************************************************)
EXTENDS Naturals

CONSTANTS HaltPolls, ResetPolls, RunPolls   \* the limits of the three loops

VARIABLES
    pc,             \* where probe() is
    polls,          \* passes of the loop so far
    run, reset,     \* bits of USBCMD: run, and the reset that clears itself
    halted, busy,   \* bits of USBSTS: halted (0x1), not ready (0x800)
    reset_ok, running, result       \* what probe() records and returns

code == <<pc, polls, reset_ok, running, result>>
device == <<run, reset, halted, busy>>
vars == <<code, device>>

Loops == {"halting", "resetting", "starting"}

\* The firmware may leave the controller running.
Init ==
    /\ pc = "start" /\ polls = 0
    /\ run \in BOOLEAN /\ halted = ~run
    /\ reset = FALSE /\ busy = FALSE
    /\ reset_ok = FALSE /\ running = FALSE /\ result = "none"

Goto(place) == pc' = place /\ polls' = 0
\* Fault for ProbeEnds: the passes are not counted.
AgainUncounted == UNCHANGED <<pc, polls>>
Again == polls' = polls + 1 /\ UNCHANGED pc

-----------------------------------------------------------------------------
(* The processor *)

\* Ask it to stop.
Stop ==
    /\ pc = "start"
    /\ run' = FALSE
    /\ Goto("halting")
    /\ UNCHANGED <<reset, halted, busy, reset_ok, running, result>>

\* Wait for it, but not for ever: after the last pass the reset goes out to a
\* controller that may still be running.
PollHalted ==
    /\ pc = "halting"
    /\ IF halted \/ polls >= HaltPolls
         THEN Goto("reset") ELSE Again
    /\ UNCHANGED <<device, reset_ok, running, result>>

Reset ==
    /\ pc = "reset"
    /\ reset' = TRUE /\ busy' = TRUE
    /\ Goto("resetting")
    /\ UNCHANGED <<run, halted, reset_ok, running, result>>

\* Fault for RunsWhenReset: the controller may still not be ready.
ResetBitClear == ~reset
ResetDone == ~reset /\ ~busy

PollReset ==
    /\ pc = "resetting"
    /\ \/ /\ polls < ResetPolls /\ ResetDone
          /\ reset_ok' = TRUE
          /\ Goto("run")
          /\ UNCHANGED result
       \/ /\ polls < ResetPolls /\ ~ResetDone
          /\ Again
          /\ UNCHANGED <<reset_ok, result>>
       \/ /\ polls >= ResetPolls
          /\ result' = "absent" /\ Goto("done")
          /\ UNCHANGED reset_ok
    /\ UNCHANGED <<device, running>>

Start ==
    /\ pc = "run"
    /\ run' = TRUE
    /\ Goto("starting")
    /\ UNCHANGED <<reset, halted, busy, reset_ok, running, result>>

\* The bit asked for is halted, as in the first loop.
PollRunning ==
    /\ pc = "starting"
    /\ \/ /\ polls < RunPolls /\ halted
          /\ running' = TRUE /\ result' = "running"
          /\ Goto("done")
       \/ /\ polls < RunPolls /\ ~halted
          /\ Again
          /\ UNCHANGED <<running, result>>
       \/ /\ polls >= RunPolls
          /\ result' = "absent" /\ Goto("done")
          /\ UNCHANGED running
    /\ UNCHANGED <<device, reset_ok>>

Probe == Stop \/ PollHalted \/ Reset \/ PollReset \/ Start \/ PollRunning

-----------------------------------------------------------------------------
(* The controller *)

Halt == ~run /\ ~halted /\ halted' = TRUE /\ UNCHANGED <<run, reset, busy>>

Leave == run /\ halted /\ ~reset /\ halted' = FALSE /\ UNCHANGED <<run, reset, busy>>

\* The reset also halts it.
EndReset ==
    /\ reset
    /\ reset' = FALSE /\ halted' = TRUE /\ run' = FALSE
    /\ UNCHANGED busy

Ready == ~reset /\ busy /\ busy' = FALSE /\ UNCHANGED <<run, reset, halted>>

Controller == (Halt \/ Leave \/ EndReset \/ Ready) /\ UNCHANGED code

Next == Probe \/ Controller \/ (pc = "done" /\ UNCHANGED vars)

\* The processor runs on; of the controller nothing is assumed.
Spec == Init /\ [][Next]_vars /\ WF_vars(Probe)

-----------------------------------------------------------------------------
(* Properties *)

TypeOK ==
    /\ pc \in Loops \cup {"start", "reset", "run", "done"}
    /\ \E limit \in {HaltPolls, ResetPolls, RunPolls} : polls <= limit
    /\ {run, reset, halted, busy, reset_ok, running} \subseteq BOOLEAN
    /\ result \in {"none", "running", "absent"}

\* The step that tells the controller to run, and when it may be taken.
Starts == ~run /\ run'
ResetOver == ~reset /\ ~busy

\* The probe ends, with an answer that agrees with what it recorded, even if
\* the controller never answers at all.
ProbeEnds ==
    <>(pc = "done" /\ result = IF reset_ok /\ running THEN "running" ELSE "absent")

\* A controller that runs by the end of the probe is reported as running, as
\* the smoke test of the driver expects (.github/workflows/build.yml:133).
RunningIsReported == pc = "done" /\ ~halted /\ run => result = "running"
=============================================================================
