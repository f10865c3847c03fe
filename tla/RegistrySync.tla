---------------------------- MODULE RegistrySync ----------------------------
(***************************************************************************)
(* The workflow that copies the official certificate registry into this    *)
(* repository (.github/workflows/sync-certificates.yml), once into         *)
(* registry.json and once into a section of README.md, while others        *)
(* publish new registries, commit to the branch, start the workflow again  *)
(* and so cancel the run that is under way.  The concurrency group lets    *)
(* one run go at a time.                                                   *)
(*                                                                         *)
(* A registry is its version; of a commit only the two copies are kept,    *)
(* and how many commits by hand lie below it.                              *)
(***************************************************************************)
EXTENDS Naturals

CONSTANTS
    MaxVersion,     \* bound: registries published
    MaxHands        \* bound: commits by hand

ASSUME SyncAssumption == MaxVersion \in Nat \ {0} /\ MaxHands \in Nat

Versions == 1..MaxVersion
Edited == 0         \* a copy or section that somebody changed or removed

VARIABLES
    published,      \* the newest registry of peaOS.Officialy-certificates
    valid,          \* the published registries the workflow accepts
    served,         \* the oldest one the download still answers with
    main,           \* the branch main of this repository
    run,            \* the run of the workflow under way
    hands           \* history: commits made by hand

sync_vars == <<published, valid, served, main, run, hands>>

\* copy is registry.json, section what README.md shows, place whether
\* README.md has the markers, or the heading they go before.
Tree == [copy : 0..MaxVersion, section : 0..MaxVersion, place : BOOLEAN,
         below : 0..MaxHands, by : {"hand", "workflow"}]

Phases == {"none", "checkout", "fetch", "validate", "push"}
Run == [phase : Phases, tree : Tree, from : Tree]

Blank == [copy |-> Edited, section |-> Edited, place |-> FALSE, below |-> 0,
          by |-> "hand"]
NoRun == [phase |-> "none", tree |-> Blank, from |-> Blank]
NewRun == [NoRun EXCEPT !.phase = "checkout"]

-----------------------------------------------------------------------------
SyncInit ==
    /\ published = 1 /\ served = 1 /\ valid \in SUBSET {1}
    /\ \E copy \in {Edited, 1}, place \in BOOLEAN :
         main = [Blank EXCEPT !.copy = copy, !.place = place]
    /\ run = NoRun
    /\ hands = 0

(* The run *)

\* The schedule starts a run; with one under way it is Cancel.
StartRun ==
    /\ run.phase = "none"
    /\ run' = NewRun
    /\ UNCHANGED <<published, valid, served, main, hands>>

Checkout ==
    /\ run.phase = "checkout"
    /\ run' = [phase |-> "fetch", tree |-> main, from |-> main]
    /\ UNCHANGED <<published, valid, served, main, hands>>

\* The download may still answer with an older registry.
Fetch ==
    /\ run.phase = "fetch"
    /\ \E v \in served..published :
         run' = [run EXCEPT !.phase = "validate", !.tree.copy = v]
    /\ UNCHANGED <<published, valid, served, main, hands>>

\* The section, generated from the registry of the tree.
Shown(tree) ==
    [tree EXCEPT !.section = IF tree.place THEN tree.copy ELSE @]

\* Fault for CopyCatchesUp: only the section is compared.
SameSection(tree, from) == tree.section = from.section

\* git diff --cached --quiet
SameFiles(tree, from) == tree.copy = from.copy /\ tree.section = from.section

\* Validate, update README.md, and commit unless nothing changed.
Validate ==
    /\ run.phase = "validate"
    /\ LET tree == Shown(run.tree)
       IN  run' = IF run.tree.copy \notin valid \/ SameFiles(tree, run.from)
                    THEN NoRun
                    ELSE [run EXCEPT !.phase = "push",
                                     !.tree = [tree EXCEPT !.by = "workflow"]]
    /\ UNCHANGED <<published, valid, served, main, hands>>

\* Fault for SyncKeepsMain: the push is forced.
Forced == TRUE

\* The push adds to the commit that was checked out: no one else has moved
\* the branch, and only people do while this run goes.
FastForward == main.below = run.from.below

Push ==
    /\ run.phase = "push"
    /\ main' = IF FastForward THEN run.tree ELSE main
    /\ run' = NoRun
    /\ UNCHANGED <<published, valid, served, hands>>

\* A new run takes the place of the one under way.
Cancel ==
    /\ run.phase # "none"
    /\ run' = NewRun
    /\ UNCHANGED <<published, valid, served, main, hands>>

\* A step fails: the machine, the download, the connection.
Fail ==
    /\ run.phase # "none"
    /\ run' = NoRun
    /\ UNCHANGED <<published, valid, served, main, hands>>

(* Around it *)

Publish ==
    /\ published < MaxVersion
    /\ published' = published + 1
    /\ valid' \in {valid, valid \cup {published'}}
    /\ UNCHANGED <<served, main, run, hands>>

\* The caches of the download forget an old registry.
Refresh ==
    /\ served < published
    /\ served' = served + 1
    /\ UNCHANGED <<published, valid, main, run, hands>>

\* Somebody commits, and perhaps changes what the workflow writes.
HandCommit ==
    /\ hands < MaxHands
    /\ hands' = hands + 1
    /\ \E copy \in {main.copy, Edited}, section \in {main.section, Edited},
          place \in BOOLEAN :
         /\ place \/ section = Edited
         /\ main' = [copy |-> copy, section |-> section, place |-> place,
                     below |-> main.below + 1, by |-> "hand"]
    /\ UNCHANGED <<published, valid, served, run>>

RunStep == Checkout \/ Fetch \/ Validate \/ Push
Disturbance == Cancel \/ Fail \/ Publish \/ HandCommit

SyncNext == StartRun \/ RunStep \/ Refresh \/ Disturbance

SyncSpec ==
    /\ SyncInit /\ [][SyncNext]_sync_vars
    /\ WF_sync_vars(StartRun) /\ WF_sync_vars(RunStep) /\ WF_sync_vars(Refresh)

-----------------------------------------------------------------------------
(* Properties *)

\* What the workflow puts on the branch has been validated, is the same in
\* both files, and is added to everybody's commits, never in place of one:
\* whatever was published, committed or cancelled between its steps.
SyncKeepsMain ==
    /\ main \in Tree /\ run \in Run
    /\ main.below = hands
    /\ main.by = "workflow" =>
         main.copy \in valid /\ (main.place => main.section = main.copy)

\* When publishing, committing, cancelling and failing end, the copy ends up
\* as the newest registry, if that one is valid, in both files and for good:
\* whatever old answers were fetched before.  (A run that ends by itself,
\* refusing what it fetched, looks like one that fails.)
CopyCatchesUp ==
    <>[][~Disturbance \/ RunStep]_sync_vars =>
        <>[](published \in valid =>
               /\ main.copy = published
               /\ main.place => main.section = published)
=============================================================================
