# peaOS in TLA+

TLA+ modules for the parts of peaOS that keep a state, TLC runs that check them
on small instances, and theorems that TLAPS checks for every value of the
constants. Everything is translated from the C++ and JavaScript source; the
documents of the repository are used only as what the code is held against.
Lines of source are written `path:line`.

## 1. The system

peaOS is a freestanding x86-64 kernel. `kernel_main64()`
(`arch/x86_64/kernel64.cpp`) initialises every part in a fixed order, prints a
report, and ends in the shell's key loop, which never returns. There is one
processor, no interrupts and no second stack: every call runs to its end before
the next one starts. So the hard behaviours of the kernel are not races of
threads but long sequences of legal calls, state that is kept twice and has to
agree, tables that fill up, counters that wrap, failures half-way through a
handler, and hardware that changes while the processor polls. The certificate
service is different: a Node.js server with concurrent handlers, a remote file
it shares with others, a database file and crashes; and a workflow copies that
file into this repository while others commit to it.

| component | state | operations | talks to | what makes it correct |
|---|---|---|---|---|
| window manager `kernel/window_manager.cpp` | table of windows, focus, stacking counter, count, ids | open, close, focus, move, resize, minimise, maximise, restore, full screen, snap, hit test | called by app_manager and the user interface | the two records of the focus agree; the focused window is on top; windows stay on the screen and come back where they were |
| process table `kernel/process.cpp` | table, count, cursor, id counter | create, terminate, schedule_tick, current | called by app_runtime | count and cursor agree with the table; nobody starves |
| thread table `kernel/thread.cpp` | the same for threads | create, stop, schedule_tick | initialised at boot, its count shown by the shell | count, ids and cursor agree with the table |
| app_manager, app_runtime, app_ui | three tables of what runs: managed, runtime entries, surfaces | launch, close; start, stop, suspend, resume, tick; open, close, focus, dispatch | the window manager, the process table, `drivers::network::available()` | the tables describe the same applications; a failed launch leaves nothing |
| application registry `apps/system` | constant tables | find, flags, frames | app_manager, the user interface | its three lists keep one order and say the same of an application |
| PCI bus `kernel/drivers/pci.cpp` | list of devices | enumerate | port I/O, the drivers | every function that answers is listed once, in order |
| network drivers `kernel/drivers/network.cpp` | interfaces | probe_pci, bring_up, bring_down | the PCI list, the boot loop | every card is tried, and a card that is up stays so |
| xHCI `kernel/drivers/xhci.cpp` | controller record | probe | device registers | bounded waiting, no run before the reset is over, a true report |
| console `kernel/console.cpp` | VGA memory, cursor | put, write, clear | everybody | the screen is the tail of what was printed |
| shell `kernel/shell.cpp` | command buffer | the key loop, execute | console, keyboard port, app_manager | what is shown is what is executed |
| application reader `kernel/app_reader.cpp` | list of entries, static manifest strings | parse, find, read_manifest, validate_package | nobody yet | its two readers of one text agree; a manifest that is held is not mixed with another |
| certificate trust `kernel/certificate.cpp`, `apps/certificate-your-app` | installed certificate, active flag | install, invalidate, apply_server_validation, renew, remove | nobody yet | only what the server confirmed is trusted |
| certificate service `web-distribution/certificate-service/server.mjs` | Map of records, database file, `registry.json` on GitHub | issue, revoke, look up | the GitHub API, the file system | no certificate is lost, no revocation forgotten |
| registry synchronisation `.github/workflows/sync-certificates.yml` | `registry.json` and a section of `README.md` on the branch | fetch, validate, commit, push; a newer run cancels it | what the service writes, the branch | it accepts what the service writes, drops no commit, and the copy catches up |
| activation, initial setup | state and record; stage and failure | begin, verify, revoke; advance, fail | shown by the shell | fail-closed |
| development targets `apps/development` | Mac link, Android workspace, toolchains, status line | set_*, request_build, create_project | nobody yet | a build has its host |
| desktop `kernel/desktop.cpp` | table of windows, count, ids | open, close, focus | initialised at boot | one window is focused, all are on the screen |
| file system `kernel/vfs.cpp` | nodes, name buffers | create_file, create_directory, find | initialised at boot, its count shown by the shell | names are unique, entries stay |
| heap `kernel/memory.cpp` | a cursor into an array | allocate, bytes_used | initialised at boot, shown by the shell | blocks are aligned, inside and disjoint |
| permissions, package trust, provision, X90 features, USB and Bluetooth lists, probes, system calls | see `PROJECT.json` | | | |

`PROJECT.json` lists every component with its files, and every hazard at the
line where it bites with the properties that watch it.

## 2. The modules

| module | models | rests on |
|---|---|---|
| `WindowManager` | `window_manager.cpp`, one action per function | - |
| `FocusOrder` | abstract: windows numbered from 1, as many at a time as there is room for, in a total order, the focus on the last one shown | - |
| `WindowOrder` | the refinement mapping from `WindowManager` to `FocusOrder` | both |
| `ProcessTable` | `process.cpp`, its functions as operators from table to table | - |
| `ThreadTable` | `thread.cpp` | - |
| `Heap`, `Vfs`, `Desktop` | `memory.cpp`, `vfs.cpp`, `desktop.cpp` | - |
| `AppRegistry` | the constant tables of `apps/system`, as an ASSUME that TLC evaluates | - |
| `AppLifecycle` | app_manager + app_runtime + app_ui in one composition | `ProcessTable`; `FocusOrder` for the windows |
| `CertService` | `server.mjs`, GitHub, crashes | - |
| `RegistrySync` | the workflow, its cancellation, the branch and the download | - |
| `Pci` | `enumerate()`, as an operator from what is on the buses to the list | - |
| `Network`, `Xhci` | the two drivers, with the device's side | - |
| `Boot` | the boot as far as it waits for hardware: enumerate, probe the cards, probe the controller, bring up, report | `Pci`, `Network`, `Xhci` |
| `Console`, `Paper` | `console.cpp`, and abstractly a roll of paper | - |
| `Shell` | the key loop and the commands' output | `Console` |
| `Keyboard` | `translate()` against what is printed on the keys | - |
| `ManifestReader`, `CertificateTrust`, `Setup`, `Development` | the parts nothing calls yet | - |
| `KernelTables`, `Registries`, `Terminal`, `Libraries` | compositions for TLC, see 3 | the above |
| `WindowManagerMC`, `KernelTablesMC`, `AppLifecycleMC`, `TerminalMC`, `KeyboardMC`, `LibrariesMC` | values for the constants | |
| `WindowManager_proofs`, `AppLifecycle_proofs`, `KernelTables_proofs`, `Registries_proofs`, `Boot_proofs`, `Terminal_proofs`, `Libraries_proofs` | theorems, see 4 | the module named before `_proofs`, the first one `WindowOrder` |
| `Induction` | nothing: lemmas on loops that those proofs use | - |

How code becomes actions:

* A function that changes state is one action, with every call it makes inside.
  A call that returns early without changing anything is a stuttering step and
  has no action. Where the caller sees the refusal (the status text of `launch`)
  it is an action: `LaunchRefused`, `CloseNotRunning`, `BuildRefused`.
* Functions that other handlers call in the middle of their work are operators
  from a state to the next (`Created`, `Terminated`, `SurfaceClosed`,
  `Printed`, `LineFed`); the actions of the composing module use them. So
  `LaunchStarts` creates the process, the runtime entry, the surface and the
  window, or takes all of them back, in one step, as the code does.
* A table of slots with a flag is a function from slots to records; a compact
  array whose last entry is moved into the hole is a sequence (`SwapRemove`).
* Where code runs against something with a mind of its own, that is a set of
  actions too: the controller in `Xhci`, GitHub and other writers in
  `CertService`, publishers, committers and caches in `RegistrySync`, the link in
  `AppLifecycle`. In `CertService` an action is the code from one `await` to the
  next, in `RegistrySync` it is a step of the workflow.
* History variables hold what a property needs and the program does not keep:
  `strayed`, `passed`, `beat`, `meant`, `home`, `confirmed`, `accepted`, `read`, `answer`,
  `told_revoked`, `lost`, `doubled`, `hands`, `blocks`. Each is marked at its declaration.
* An operator marked "Fault for" is the form of the one below it that a
  plausible bug would give. No specification uses it; `PROJECT.json` pairs it
  with the property that refutes it.

## 3. The runs

Run `tlc -config X.cfg M`. Eight runs pass; four show a place where the code does
not do what a text of the repository says.

| run | checks | states | what it shows |
|---|---|---|---|
| `window_focus` | `FocusAgrees FocusedIsTopmost FocusOrderKept` | 80 000 | focus and stacking through every order of calls on three slots; the table implements `FocusOrder`, and refuses a window exactly when that has no room |
| `window_geometry` | `OnScreen ModeIsRegion ControlsReachable GeometryRemembered` | 16 000 | one window on 1024x768 through all modes |
| `kernel_tables` | `ProcessTableSound ThreadTableSound BlocksDisjoint DesktopSound EachIsTicked NoOvertaking DirectoryKept` | 93 000 | five tables, each with its counters and cursors at their limits; round robin is fair as far as the code makes it so |
| `app_lifecycle` | `RegistriesCoupled NoProcessLeak ManagerAgreesWithRuntime SuccessIsVisible FailureLeavesNothing CloseTakesOwnWindow SurfaceFocusKept` | 298 000 | three applications through four registries |
| `cert_service` | `IssuedIsPublished RevocationStands RegistryKeepsAll RequestEnds`; of the workflow `SyncKeepsMain CopyCatchesUp` | 92 000 | two requests at once, lost, late and doubled PUTs, failing disks, crashes; runs of the workflow that are cancelled, fail, are overtaken by commits and read old downloads |
| `boot` | `ReportExact ProbeEnds EnumerationComplete BringUpSticks RunsWhenReset` | 146 000 | every machine of up to four PCI devices on six places, every way the hardware answers; the polling ends, and what the report can be relied on for |
| `terminal` | `EchoExact BootLooksLikePaper` | 1 560 000 | the screen is what was printed, and what is shown is what is executed |
| `libraries` | `AgreesWithParser HeldIsFlagsOfOne TrustedIsSound FailClosed BuildHasHost ResultIsTold` | 214 000 | the parts nothing calls yet |
| `network_boot` | `BootShowsCards` (violated) | | see 5 |
| `xhci_running` | `RunningIsReported` (violated) | | see 5 |
| `cert_sync` | `SyncAccepts` (violated) | | see 5 |
| `keyboard_letters` | `LineAsMeant` (violated) | | see 5 |

`KernelTables`, `Registries` and `Libraries` put parts side by side that share no
variable. Interleaving them would only multiply the states: a property of one
part cannot see a step of another. So each behaviour uses one part, chosen at
the start, and the others rest. (Between the service and the workflow of
`Registries` the registry passes, by its version and whether it is valid;
`RegistrySync` leaves both open. In `Terminal` the boot's output and the shell
share the console: the boot prints anything, then the shell prints its greeting
and its first prompt below that, wherever the cursor stands. Nothing clears the
screen between the two.)

### Bounds, and why they are enough

* Windows: three slots and four ids make a slot empty, reused and the table full
  with a window between two others; `MaxZ` stops raising before the counter
  wraps, which is what `FocusedIsTopmost` needs. For the geometry, one window is
  enough because no call looks at another window's geometry; there the counter
  wraps (`ZWord = 3`), so behaviours have any length. The coordinates lie off the
  left edge, inside, and too far right; the extents are the default, one that may
  be kept, and one larger than the screen.
* Processes: three slots, with an id counter of five values that wraps, so that
  behaviours do not end and `EachIsTicked` means something; ticks modulo 2, so that a
  tick shows.
  Threads: four slots and six ids, so that slots are reused behind and before the
  cursor.
* Heap: 64 bytes in a word of 128 values, so that a request can wrap the word, and
  requests on both sides of each multiple of 16 and of both limits. File system:
  four nodes, two names that are cut to the same 63 characters, and a name that is
  those characters. Desktop: three slots, a cascade that starts over, screens from
  far below the minimum size to larger than a window.
* Applications: three, one of which needs the network; two may be managed and two
  windows be open, so every limit is met with an application left over. The limits
  of processes and surfaces are met together with those. Four processes and three
  windows are ever created (a launch that is taken back uses up a process id): each
  launch beyond that repeats a state up to a renaming of ids. Ticks are modulo 1,
  because nothing here reads them. Of the registry's 35 applications these are one with
  requires_network and two without. The two offline applications are interchangeable (SYMMETRY,
  only safety is checked).
* Certificates: two requests, two certificates, three attempts as in the code, one
  mark that stands for all that others may edit in the registry. A third request
  meets the others as two writers meet. The workflow: three published registries, two commits by
  hand, and any number of runs, so that a run meets an older and a newer registry,
  and a commit before and after its checkout.
* Boot: two slots of three functions, up to four devices, a list of three and room
  for two interfaces, so that both run out and functions have gaps; the polling limits are 3 for 1 000 000: the code does the same in every pass.
  Of the four kinds of a device the e1000 is left out: whatever its driver may end
  with, that of the rtl8139 may as well. The theorems have all four.
* Terminal: a screen of four rows and four columns, a greeting of an empty line and
  one of a character, a prompt of two cells, a buffer of seven bytes: the first
  prompt comes to any row but the first two, with the boot's text above it or
  scrolled away; a line wraps, scrolls the prompt off the screen, and fills the
  buffer. (`keyboard_letters`: all keys but the space bar, three at a
  time.)
* Libraries: manifests of up to five different lines with four entries of room, and
  one that is too long; seven certificates around a validity of 4 and a clock to 6.

### Fairness

* `CertService`: weak fairness of each handler (`Handle(r)`): every call to GitHub
  is answered or fails (`fetch` rejects), and Node runs a handler whose promise is
  settled. Nothing is assumed of crashes, restarts or the other writers.
* `Boot`: weak fairness of the processor's steps, which is one thread that polls;
  none of the controller, so that `ProbeEnds` covers one that never answers.
* `RegistrySync`: weak fairness of the schedule that starts runs, of the steps of a
  run, and of the caches that forget an old registry. `CopyCatchesUp` has a premise
  as well: from some time on nobody publishes or commits and no run is cancelled or
  fails. Without it a run every five minutes may be cancelled by the next for ever.
* `KernelTables` assumes nothing: `EachIsTicked` says what follows if ticks keep
  coming and, from some time on, the running process is not the one terminated.
  The second premise is needed: `terminate()` of the running process sends the
  cursor back to slot 0, so that the processes in the low slots can be served for
  ever while one in a high slot waits.

## 4. What is proved

`tlapm` checks the seven modules of proofs and `Induction` to the last leaf. The
assumptions are the named ASSUMEs of the modules: a table has at least one slot,
the screen has a size, a word has more than one value, the heap with the rounding
of a request fits its word. What a theorem needs besides is its hypothesis and
stands in its statement. The argument is the same throughout: an invariant that
the initial state has and every action keeps, one lemma per action or per operator
the actions share, and a last step that draws the property from it. What each
invariant adds is the point.

**`WindowManager_proofs`**, for every number of slots, screen, counter width and
input:

* `TypeCorrect`, `IdsUnique` (`[]UniqueIds`, which no run checks by itself), `FocusCorrect` (`[]FocusAgrees`),
  `NeverOffScreen` (`[]OnScreen`), from one invariant: ids are below the counter
  and distinct (else two windows have the focused id), and the count is the
  cardinality of the visible slots. The stacking counter may wrap: focus survives
  that, stacking does not. A lemma on `Clamp` covers screens smaller than the
  minimum size of a window.
* `ModeCorrect` (`[]ModeIsRegion`), on every screen; `GeometryComesBack`
  (`GeometryRemembered`) and `ControlsInReach` (`[]ControlsReachable`) if
  `RoomForHalves`: half of the screen is not below the minimum size. The remembered
  rectangle can be a snapped half, and `clamp()` would widen it on a smaller
  screen, so the invariant adds that both rectangles of a window are ones `clamp()`
  leaves alone. Each call has a lemma on the one window it changes (`...Follows`),
  and a lemma says that the other slots keep theirs.

If the stacking counter does not wrap (`NoWrap`, `MaxZ < ZWord`):

* `FocusOnTop` (`[]FocusedIsTopmost`): the invariant adds that every stacking number
  is below `next_z` and that they are distinct.
* `KeepsFocusOrder` (`FocusOrderKept`): the refinement. The initial state maps to
  `AbsInit`, and every action to an abstract step or a stutter. The abstract number
  of the next window is the code's id counter, and the room its table, so the
  theorem is also about which id a call answers with.

A refusal is a stutter in that refinement. `OpensWhileRoom` (`[]RefusedWhenFull`), for
every counter width, the second conjunct of
`FocusOrderKept`, says when there is one: the loop of `open()` finds no slot exactly
when there are as many windows as slots, because ids are unique, so that slots and
windows can be counted against each other (`SameCount`).

**`KernelTables_proofs`**:

* `ThreadTableCorrect` (`[]ThreadTableSound`): the id of every slot, used or not,
  is below the counter.
* `TurnsAreTaken` (`NoOvertaking`): the invariant `TurnInv` says where a thread that
  waits was passed: only by slots between its own and the cursor, going round, so
  by each of them once. A tick that runs the same thread again counts like any other:
  the history variable `beat` tells it from a step in which nothing happens.
* `BlocksNeverOverlap` (`[]BlocksDisjoint`): every block ends at or before the
  cursor, and rounding up does not wrap because the heap and one alignment fit the
  word. The request itself may be anything in the word.
* `DesktopCorrect` (`[]DesktopSound`), for every screen and cascade.
* `DirectoryStays` (`DirectoryKept`): the refinement of a directory whose entries
  stay. The invariant: the buffers of the nodes hold distinct names. A refused call
  may have written the buffer behind the last node, which no node points to.
* `TablesAreThemselves`: the composition that the run checks allows each table only
  what its own specification does, so these theorems hold of what TLC explores.

**`AppLifecycle_proofs`** begins with the process table, for every number of slots and
width of counters, wrap included: `ProcessTypes`, `ProcessCount`, `CursorNeverDead`, and
the two together as `ProcessTableCorrect` (`[]ProcessTableSound`). The live slots are a
finite set from which `terminate` removes one, so the early return of
`schedule_tick()` may trust the count. `TurnsComeNearer` is what needs no fairness of
`EachIsTicked`: the way of the cursor to a live process, at most the number of slots,
gets shorter with every tick that is not that process's own, and no creation, nor a
termination of another process than the running one, makes it longer.

Then the composition, for every number of applications and every size of the
four tables, if process ids do not wrap (`NoIdWrap`: they are 64 bits wide):

* `NoProcessLeaked` (`[]NoProcessLeak`), `ManagerAndRuntimeAgree`
  (`[]ManagerAgreesWithRuntime`), `RegistriesStayCoupled` (`[]RegistriesCoupled`,
  which needs a surface for every runtime entry; both tables have 64 places). The
  first two hold whatever is done past app_manager, and so does that no surface
  outlives its application.
* For the steps `SuccessVisible` (with a stale window id the launch that reports a
  success touches no window), `FailureLeavesNothingBehind`, `CloseTakesItsOwn`,
  `SurfaceFocusIsKept`; and `RegistryTypes` (`[]TypeOK`).
* `WindowsFollowOrder` (`Spec => Windows!AbsSpec`), without `NoIdWrap`: all that launches,
  failures, closes and direct calls do to the windows is what `FocusOrder` allows.
  `WindowManager` refines the same specification, in which a call has one outcome. So
  nothing is assumed of the windows here that the window manager was not proved to
  keep: ids, room, order and focus.
* The invariant `AInv` is a conjunction by tables: the runtime's entries and the
  live processes are in one-to-one correspondence by ids below the counter, so that
  a rolled-back launch terminates the process it created and no other; the surfaces
  are distinct and at most one has the focus; the managed records name distinct
  applications and windows; and, as long as nobody went past app_manager, the three
  list the same. That the runtime's and the surfaces' arrays move their last entry
  into a hole is one lemma on `SwapRemove`.

**`Registries_proofs`**, of the service for any number of handlers, certificates and
attempts, with every crash, failed save and late or doubled PUT:

* `RevocationsStand` (`[]RevocationStands`), `IssuedCertificatesPublished`
  (`[]IssuedIsPublished`), `RegistryOnlyGrows` (`RegistryKeepsAll`). The invariant: no two
  handlers issue the same certificate, nor one that is stored or was answered
  (`HandlersApart`); a certificate somebody was told is revoked is revoked wherever
  memory or the database knows of it (`ToldIsKept`), a torn file knowing of none; and
  the phase of a handler says what GitHub has of its certificate, a doubled PUT
  excepted (`PublishedSoFar`), so that an answer means it was published.
* `ServiceTypes` (`[]TypeOK`) is more than types: in memory and in the database only a
  known certificate is revoked, also in what a crash inside `persist()` leaves, and a
  certificate with a file on GitHub is in the registry (`RecordsInOrder`).
* `HandlersAdvance`, what needs no fairness of `RequestEnds`: a handler can wait for two
  answers per attempt and two more, and whatever the other writers do, a step leaves
  a handler alone or takes one off.

Of the workflow, for any number of registries and commits:

* `SyncAddsValidated` (`[]SyncKeepsMain`): a run's tree lies on the commit it checked
  out and, once it is to be pushed, its copy is validated and the section of the
  README agrees with it.
* `RunCatchesUp`, what needs no fairness of `CopyCatchesUp`: when every download answers
  with the newest registry and it is valid, the checkout puts a run on course, each
  of its steps keeps it there or ends with both files at that registry, and from then
  on only a publication or a commit by hand parts them from it.

And `ProgramsAreThemselves`, for the composition of the two that the run checks.

**`Boot_proofs`**, for every size of the buses, tables and polling limits, and whatever
the hardware answers:

* `RunsOnlyWhenReset` (`RunsWhenReset`), `UsbAnswerAgrees` (`[]UsbAnswer`): between the
  read that sees the reset over and the write that starts the controller, nothing
  the controller may do sets the two bits again (`UsbInv`).
* `ProbeIsBounded`, what needs no fairness of `ProbeEnds`: the passes the driver has left
  are a number that each of its steps makes smaller and no other step changes.
* `EnumerationListsAll` (`EnumerationComplete`): an induction over the turns of
  the two loops. After n turns the list is what answered at the first n places, a
  slot without function 0 excepted, cut at the length of the table, each device at
  the index that is its rank.
* `WorkingStaysUp` (`BringUpSticks`): the turns of `probe_pci()` (`ProbedTurns`) make
  interfaces of devices with one of the three drivers and of no others, so `bring_up()`
  knows what to do with each of them, and leaves alone the ones that work. For the
  flags the invariant is that they agree (`FlagsAgree`): a driver is called only where
  the link is not up, so that one that fails, which leaves the link as it is, leaves
  no link up.
* `ReportIsExact` (`[]ReportExact`): where the disagreement `network_boot` shows begins
  and ends. The boot prints only interfaces it has tried, and it prints all of them
  exactly if, in the list that was enumerated, no other device comes before the card
  of one. The loop's invariant `LoopSays`: after each turn of `probe_pci()` the ids
  are places of cards, rising at least as fast as their indices, so that the n ids of
  the list are at most n only if they are 1 to n. Then the ids the boot loop has passed
  are the ones it has tried (`ReportInv`).
* `BootTypes` (`TypeOK` of `Network` and `Xhci`): no list outgrows its table, no polling
  loop counts past its limit.

**`Terminal_proofs`**, for every screen of at least two rows and columns, every greeting
of at least one line, every prompt shorter than a row, every text and length of the
buffer, and whatever the boot leaves on the screen and wherever its cursor:

* `ConsoleIsPaper` (`CSpec => LooksLikePaper`) and `BootIsPaper` (`BootLooksLikePaper`): the
  refinement of a roll of paper. The invariant: the rows below the cursor are blank,
  which is why a line feed at the bottom shows what a longer sheet would. A text is
  a loop over its characters, and each character is a step of the roll.
* `ShellTypes` (`[]TypeOK`): the cursor is on the screen and the command with its 0 fits
  the buffer.
* `EchoIsExact` (`[]EchoExact`): `EchoInv` says that the prompt stands in its row as long
  as that row is on the screen, that the cursor is never before the end of the
  command, counted in cells from the prompt, and that, unless a backspace strayed,
  each cell between them holds its character. A scroll moves the row and the cells
  alike, so wrapping and scrolling need no case of their own in the theorem. That the
  first prompt starts in the first column, whatever stands before it, is because the
  greeting ends a line (`GreetedEnds`).

**`Libraries_proofs`**: `TrustSound` (`[]TrustedIsSound`), `SuccessIsTrusted`
(`ResultIsTold`), `NothingActivates` (`[]FailClosed`), `BuildsHaveHosts`
(`[]BuildHasHost`), `KeptIsOfOne` (`[]HeldIsFlagsOfOne`), for any certificates, clock,
targets and manifests. These are inductive as they stand, but for the types of the
Mac and the Android workspace. `ReadersAlwaysAgree` (`[]AgreesWithParser`) compares the
loop of `parse()` with the search of `value()` for every plain manifest, of any length
and text (`Plain`: no blank before `=`, and no more than `parse()` keeps): by induction over the
lines, the table has after n of them an entry for each line that makes one, and the
first entry of a name is that of its first line, which is where the search stops.
`LibraryTypes` (the four `TypeOK`) holds of every manifest, plain or not: the table never
outgrows its array (`ParsedFits`), the setup stops at its last stage, an Android workspace
is usable exactly when it is shown as such, and a result says "success" with the status
for it and no other.

Loops are recursive functions of the number of turns. The library's induction
theorems have a predicate for a parameter, which the provers cannot instantiate.
`Induction` states induction for a set of numbers instead, which is first-order: the
least number outside the set (`LeastElement`, from the well-foundedness of < on Nat)
would have a predecessor inside (`InductionUpTo`); and `LoopDefined` gives a loop of n
turns the equations it is defined by.

Only model-checked: the four liveness properties `EachIsTicked`, `RequestEnds`,
`ProbeEnds` and `CopyCatchesUp`, because fairness and ENABLED are beyond the prover. Their
variants are the theorems named above: a number or an order of phases that every
step of the actor brings nearer to the end and no other step sets back. What TLC
adds is that the actor's steps do come. And that `AppRegistry`'s tables agree, which is
an ASSUME over constants that TLC evaluates.

## 5. Where the code and the texts disagree

Shown by a run:

* `network_boot`: the boot brings up and prints the interfaces 1 to `net_count`,
  but an interface's id is its place in the PCI list. On a machine with a host
  bridge before its card nothing is initialised or printed (`kernel64.cpp:53`).
  `ReportIsExact` proves that the report is complete if the interfaces' cards are the
  first devices listed, and only then.
* `xhci_running`: after setting the run bit the driver waits for HCHalted to be
  set, which is what a running controller clears (`xhci.cpp:58`).
* `cert_sync`: the service publishes the status `Active`, the synchronising
  workflow accepts only `active`.
* `keyboard_letters`: the table of `translate()` is one place short between `]`
  and `a`, so that the two lower rows are shifted: `help` cannot be typed.

Met while modelling, without a run of their own:

* The space bar (0x39) is behind the table's end, so no command with an argument
  can be typed (`shell.cpp:28`).
* An expired certificate stays active, and can even be installed: `install()` is
  given the time of issue, and `active()` has no clock
  (`apps/certificate-your-app/README.md:14` says that such applications cannot be
  launched). The 90 days of `certificate_app::kValiditySeconds` are read by nothing.
* `verify_online()` that fails leaves the state Activating
  (`system/setup/README.md:15` says Unactivated or Failed). The setup completes
  whatever the activation's state is.
* After a backspace in the first column the command buffer is one character
  shorter and the screen is not: `EchoExact` is stated up to that.
* After a window was closed past app_manager, `launch()` reports a focused window
  that is not there: `SuccessIsVisible` names that case (`strayed`), in which no other
  window may be touched.
* `suspend()` changes the runtime's entry; the kernel process goes on being ticked.
* A torn database counts as empty at the next start: a certificate issued before
  it is unknown to the service, though in the registry. `IssuedIsPublished` and
  `RevocationStands` say what is left: an unknown certificate is not active.
* Every `Manifest` of the application reader points to the same static strings: who
  keeps one sees the strings of the manifest accepted last beside the flags of his
  own (`HeldIsFlagsOfOne`).
* `launch()` of an application that runs focuses its window and not its surface, and
  a launch that is taken back for want of a window leaves no surface focused
  (`app_manager.cpp:26`, `app_ui.cpp:84`).
* The names of the applications have capitals, which the keyboard cannot type.
* `mem_lower + mem_upper` leaves out the 384 KiB in between, so that a machine with
  exactly the required memory is reported as failing.
* The workflow downloads the registry without asking for a fresh copy, as the build
  does (`sync-registry.mjs:10`), so that the copy may go back to an older registry for
  a while. The build accepts any status that is a non-empty string, the workflow five
  words; and the build reads the remote registry, not the copy in the repository.
* `parse()` and `read_manifest()` differ on a blank before `=`, on a text that is
  too long and behind the last entry; `AgreesWithParser` is about the others.

## 6. What is left out

* Contents: keys, digests, titles, MAC addresses, the wording of messages. Cuts of
  overlong manifest lines and values. The authorisation of the service's
  endpoints and its LOCAL_ONLY mode, in which nothing is published.
* In `AppLifecycle`: the tick counts of runtime entries and the dirty flags, bounds
  and views of surfaces, which nothing else reads.
* In `Network` the device registers: each `init_*` function is the set of ways it
  can end. The ipv4, ipv6, dhcp and dns flags, which nothing sets.
* In `Pci` the port I/O of the configuration space, and devices with one function
  that answer for all eight. In `Vfs` a node's size and its two flags, which nothing
  changes.
* `sync-registry.mjs`, which makes a header of the registry while the kernel is built:
  one read, a validation and one text.
* Components with status not_modelled in `PROJECT.json`: pure decisions (requirements,
  package trust, authorisation), tables that nothing fills (permissions, USB,
  Bluetooth), records that a call overwrites whole (X90 features), the system calls,
  which nothing calls, and straight-line start-up code and text output.

## 7. Plan

Done so far: every safety invariant, action property and refinement that a run
checks is a theorem as well. What would come next, in this order.

1. The hypotheses `NoIdWrap` and `NoWrap`: what is left of the theorems when a
   counter wraps, as it is done for the process table.
2. The requirements probe (`hardware_probe.cpp`) and the shell's command table
   (`shell.cpp`), pure decisions whose references are the documents.
